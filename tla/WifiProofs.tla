------------------------------- MODULE WifiProofs -------------------------------
(***************************************************************************)
(* What module Wifi guarantees for every set of networks and however often *)
(* the button is pressed and the power fails.                              *)
(***************************************************************************)
EXTENDS Wifi, SequenceTheorems, TLAPS

USE NetworksAssumption, SizesAssumption

-----------------------------------------------------------------------------
(* The inductive invariant.                                                *)

Found == Networks \cup {None}

\* A stored name comes with its own password.
Consistent == nvs.ssid # None => nvs.pass = nvs.ssid

\* The writes left are an end of a procedure's three; what is stored fits them,
\* and the flag stays set until the last.
Left(n) ==
    \/ writes = <<>> /\ Consistent
    \/ writes = <<Write("wps", FALSE)>> /\ Consistent
    \/ writes = <<Write("pass", n), Write("wps", FALSE)>> /\ nvs.wps /\ nvs.ssid = n
    \/ writes = <<Write("ssid", n), Write("pass", n), Write("wps", FALSE)>> /\ nvs.wps

\* The flag in memory and the one in the storage agree but for a button that is
\* being recorded and a procedure that is being ended.
FlagInv ==
    /\ ~wpsProcedure => task = "idle"
    /\ ~wpsProcedure /\ boot # "storage" => ~nvs.wps
    /\ wpsProcedure /\ task # "pushed" /\ handler = "idle" => nvs.wps

\* The driver runs the procedure on behalf of a set flag, only then does the
\* event handler write, and the start of the procedure is reported once.
ModeInv ==
    /\ mode = "wps" => wpsProcedure /\ boot = "done" /\ ~(starting /\ connecting)
    /\ handler = "wps" => mode = "wps"

\* Before the constructor is done the driver is off, and nobody asks for a toggle.
StartInv == boot # "done" => mode = "off" /\ queue \in Seq({"button"})

\* Nothing is asked of the object before it has read the storage.
BootInv ==
    /\ queue # <<>> \/ isr \/ task # "idle" => boot # "storage"
    /\ mqtt = "stopped" => boot = "done"

StorageInv ==
    /\ ~nvs.wps => Consistent
    /\ handler = "idle" => writes = <<>>
    /\ handler = "wps" => \E n \in Found : Left(n)

WifiInv ==
    TypeOK /\ FlagInv /\ BootInv /\ StartInv /\ ModeInv /\ StorageInv /\ CredentialsMatch

-----------------------------------------------------------------------------
\* Taking the first write of a list.
LEMMA TakeWrite ==
    ASSUME NEW a, NEW b, NEW c
    PROVE  /\ Head(<<a, b, c>>) = a /\ Tail(<<a, b, c>>) = <<b, c>>
           /\ Head(<<b, c>>) = b /\ Tail(<<b, c>>) = <<c>>
           /\ Head(<<c>>) = c /\ Tail(<<c>>) = <<>>
  OBVIOUS

\* What a write says.
LEMMA WriteFields ==
    ASSUME NEW k, NEW v
    PROVE  Write(k, v).key = k /\ Write(k, v).value = v
  BY DEF Write

\* A request is queued, or it is dropped.
LEMMA PostType ==
    ASSUME queue \in Seq({"button", "toggle"}), Len(queue) <= QueueSize,
           NEW r \in {"button", "toggle"}, Post(r)
    PROVE  queue' \in Seq({"button", "toggle"}) /\ Len(queue') <= QueueSize
  BY LenProperties, AppendProperties DEF Post

\* A queue of presses stays one.
LEMMA ButtonsOnly ==
    ASSUME queue \in Seq({"button"})
    PROVE  /\ Post("button") => queue' \in Seq({"button"})
           /\ \A r : Take(r) => queue' \in Seq({"button"}) /\ r = "button"
<1>1. Post("button") => queue' \in Seq({"button"})
  BY LenProperties, AppendProperties DEF Post
<1>2. ASSUME NEW r, Take(r)
      PROVE  queue' \in Seq({"button"}) /\ r = "button"
  <2>1. Head(queue) \in {"button"} /\ Tail(queue) \in Seq({"button"})
    BY <1>2, HeadTailProperties DEF Take
  <2>. QED  BY <1>2, <2>1 DEF Take
<1>. QED  BY <1>1, <1>2

\* Taking a request leaves a shorter queue.
LEMMA TakeType ==
    ASSUME queue \in Seq({"button", "toggle"}), Len(queue) <= QueueSize,
           NEW r, Take(r)
    PROVE  queue' \in Seq({"button", "toggle"}) /\ Len(queue') <= QueueSize
  BY LenProperties, HeadTailProperties DEF Take

\* As long as a procedure is not recorded the stored network is one of a piece.
LEMMA MainConsistent ==
    ASSUME TypeOK, Consistent
    PROVE  Main \in [ssid : Names, pass : Names] /\ Main.ssid = Main.pass
  BY DEF TypeOK, Consistent, Main, Names

\* A restart leaves the storage alone and forgets everything else.
LEMMA RestartKeeps ==
    ASSUME WifiInv, NEW p \in 0..MaxLosses, Volatile(p), UNCHANGED <<nvs, presses>>
    PROVE  WifiInv'
<1>1. Consistent \/ nvs.wps
  BY DEF WifiInv, StorageInv
<1>2. TypeOK'
  <2>1. queue' = <<>> /\ Len(queue') = 0 /\ queue' \in Seq({"button", "toggle"})
    BY EmptySeq DEF Volatile
  <2>2. writes' = <<>> /\ Len(writes') = 0
    BY EmptySeq DEF Volatile
  <2>3. config' \in [ssid : Names, pass : Names]
    BY DEF Volatile, Blank, Names
  <2>4. /\ boot' \in {"storage", "connect", "done"}
        /\ wpsProcedure' \in BOOLEAN /\ alt' \in BOOLEAN /\ isr' \in BOOLEAN
        /\ mode' \in {"off", "station", "wps"}
        /\ starting' \in BOOLEAN /\ connecting' \in BOOLEAN
        /\ task' \in {"idle", "pushed", "written"}
        /\ handler' \in {"idle", "wps"}
        /\ mqtt' \in {"idle", "stopped"}
    BY DEF Volatile
  <2>5. presses' \in 0..MaxPresses /\ losses' \in 0..MaxLosses
    BY DEF Volatile, WifiInv, TypeOK
  <2>. QED  BY <2>1, <2>2, <2>3, <2>4, <2>5 DEF WifiInv, TypeOK
<1>. QED
  BY <1>1, <1>2
     DEF WifiInv, FlagInv, BootInv, StartInv, ModeInv, StorageInv, CredentialsMatch, Consistent, Volatile

-----------------------------------------------------------------------------
\* A new device.
LEMMA WifiInvInit == Init => WifiInv
<1>. SUFFICES ASSUME Init  PROVE WifiInv
  OBVIOUS
<1>1. queue = <<>> /\ Len(queue) = 0 /\ queue \in Seq({"button", "toggle"})
  BY EmptySeq DEF Init
<1>2. writes = <<>> /\ Len(writes) = 0
  BY EmptySeq DEF Init
<1>3. config \in [ssid : Names, pass : Names]
  BY DEF Init, Blank, Names
<1>4. nvs \in [wps : BOOLEAN, ssid : Found, pass : Found]
  BY DEF Init, Found
<1>5. /\ boot \in {"storage", "connect", "done"}
      /\ mode \in {"off", "station", "wps"}
      /\ task \in {"idle", "pushed", "written"}
      /\ handler \in {"idle", "wps"} /\ mqtt \in {"idle", "stopped"}
  BY DEF Init
<1>6. /\ wpsProcedure \in BOOLEAN /\ alt \in BOOLEAN /\ isr \in BOOLEAN
      /\ starting \in BOOLEAN /\ connecting \in BOOLEAN
  BY DEF Init
<1>7. presses \in 0..MaxPresses /\ losses \in 0..MaxLosses
  BY DEF Init
<1>8. TypeOK
  BY <1>1, <1>2, <1>3, <1>4, <1>5, <1>6, <1>7 DEF TypeOK, Found
<1>. QED
  BY <1>8
     DEF Init, WifiInv, FlagInv, BootInv, StartInv, ModeInv, StorageInv, Consistent, CredentialsMatch

\* The steps of app_main.
LEMMA AppMainKeeps == WifiInv /\ AppMain => WifiInv'
<1>. SUFFICES ASSUME WifiInv, AppMain  PROVE WifiInv'
  OBVIOUS
<1>1. CASE ReadStorage
  BY <1>1 DEF ReadStorage, WifiInv, TypeOK, FlagInv, BootInv, StartInv, ModeInv, StorageInv, Consistent,
              Left, CredentialsMatch, stored, bounds, driver, events
<1>2. CASE ConnectWifi
  <2>1. ~wpsProcedure => Main \in [ssid : Names, pass : Names] /\ Main.ssid = Main.pass
    BY <1>2, MainConsistent DEF ConnectWifi, WifiInv, FlagInv, StorageInv
  <2>2. config' \in [ssid : Names, pass : Names]
    BY <1>2, <2>1 DEF ConnectWifi, Start, StartStation, WifiInv, TypeOK
  <2>3. TypeOK'
    BY <1>2, <2>2 DEF ConnectWifi, Start, StartStation, WifiInv, TypeOK, stored, bounds, events
  <2>4. StorageInv'
    BY <1>2 DEF ConnectWifi, WifiInv, StorageInv, ModeInv, Consistent, Left, stored, events
  <2>5. FlagInv' /\ BootInv' /\ StartInv' /\ ModeInv' /\ CredentialsMatch'
    BY <1>2, <2>1 DEF ConnectWifi, Start, StartStation, WifiInv, FlagInv, BootInv, StartInv, ModeInv, CredentialsMatch,
                      TypeOK, stored, events
  <2>. QED  BY <2>3, <2>4, <2>5 DEF WifiInv
<1>. QED  BY <1>1, <1>2 DEF AppMain

\* The steps of the MQTT object's task and of the interrupt.
LEMMA OthersKeep == WifiInv /\ (Disconnect \/ ConnectAndToggle \/ Press) => WifiInv'
<1>. SUFFICES ASSUME WifiInv, Disconnect \/ ConnectAndToggle \/ Press  PROVE WifiInv'
  OBVIOUS
<1>1. CASE Disconnect
  <2>1. TypeOK'
    BY <1>1 DEF Disconnect, WifiInv, TypeOK, stored, bounds, events
  <2>2. FlagInv' /\ BootInv' /\ StartInv' /\ ModeInv' /\ CredentialsMatch'
    BY <1>1 DEF Disconnect, WifiInv, TypeOK, FlagInv, BootInv, StartInv, ModeInv,
                CredentialsMatch, stored, events
  <2>3. StorageInv'
    BY <1>1 DEF Disconnect, WifiInv, StorageInv, Consistent, Left, stored, events
  <2>. QED  BY <2>1, <2>2, <2>3 DEF WifiInv
<1>2. CASE ConnectAndToggle
  <2>1. TypeOK'
    BY <1>2, PostType DEF ConnectAndToggle, WifiInv, TypeOK, stored, bounds, driver, events
  <2>. QED
    BY <1>2, <2>1 DEF ConnectAndToggle, WifiInv, FlagInv, BootInv, StartInv, ModeInv, StorageInv, Consistent,
              Left, CredentialsMatch, stored, bounds, driver, events
<1>3. CASE Press
  <2>1. TypeOK'
    BY <1>3, PostType DEF Press, WifiInv, TypeOK, driver, events
  <2>2. StartInv'
    BY <1>3, ButtonsOnly DEF Press, WifiInv, StartInv, driver
  <2>. QED
    BY <1>3, <2>1, <2>2 DEF Press, WifiInv, FlagInv, BootInv, ModeInv, StorageInv, Consistent,
              Left, CredentialsMatch, driver, events
<1>. QED  BY <1>1, <1>2, <1>3

\* The steps of the object's task.
LEMMA TaskKeeps == WifiInv /\ Task => WifiInv'
<1>. SUFFICES ASSUME WifiInv, Task  PROVE WifiInv'
  OBVIOUS
<1>1. CASE Toggle
  <2>1. queue' \in Seq({"button", "toggle"}) /\ Len(queue') <= QueueSize
    BY <1>1, TakeType DEF Toggle, WifiInv, TypeOK
  <2>0. boot = "done"
    BY <1>1, ButtonsOnly DEF Toggle, WifiInv, StartInv
  <2>2. CASE wpsProcedure
    <3>1. TypeOK'
      BY <1>1, <2>1, <2>2 DEF Toggle, WifiInv, TypeOK, stored, bounds, driver, events
    <3>2. BootInv'
      BY <1>1, <2>2 DEF Toggle, Take, WifiInv, BootInv, TypeOK
    <3>. QED
      BY <1>1, <2>0, <2>2, <3>1, <3>2
         DEF Toggle, WifiInv, FlagInv, StartInv, ModeInv, StorageInv, Consistent, Left,
             CredentialsMatch, stored, driver, events
  <2>3. CASE ~wpsProcedure
    <3>1. Alternative \in [ssid : Names, pass : Names] /\ Alternative.ssid = Alternative.pass
      BY DEF Alternative, Names
    <3>2. Consistent
      BY <1>1, <2>3 DEF Toggle, Take, WifiInv, FlagInv, BootInv, StorageInv
    <3>3. Main \in [ssid : Names, pass : Names] /\ Main.ssid = Main.pass
      BY <3>2, MainConsistent DEF WifiInv
    <3>4. config' \in [ssid : Names, pass : Names] /\ config'.ssid = config'.pass
      BY <1>1, <2>3, <3>1, <3>3 DEF Toggle, Start, StartStation
    <3>5. TypeOK'
      BY <1>1, <2>1, <2>3, <3>4 DEF Toggle, Start, StartStation, WifiInv, TypeOK, stored, bounds, events
    <3>6. UNCHANGED <<nvs, boot, wpsProcedure, task, isr, events, mqtt>> /\ mode' = "station"
      BY <1>1, <2>3 DEF Toggle, Start, StartStation, stored
    <3>7. FlagInv' /\ ModeInv' /\ StorageInv' /\ CredentialsMatch'
      BY <2>3, <3>4, <3>6
         DEF WifiInv, FlagInv, ModeInv, StorageInv, Consistent, Left, CredentialsMatch, events
    <3>8. BootInv'
      BY <1>1, <3>6 DEF Toggle, Take, WifiInv, BootInv, TypeOK
    <3>9. StartInv'
      BY <2>0, <3>6 DEF StartInv
    <3>. QED  BY <3>5, <3>7, <3>8, <3>9 DEF WifiInv
  <2>. QED  BY <2>2, <2>3
<1>2. CASE PushButton
  <2>1. queue' \in Seq({"button", "toggle"}) /\ Len(queue') <= QueueSize
    BY <1>2, TakeType DEF PushButton, WifiInv, TypeOK
  <2>2. TypeOK'
    BY <1>2, <2>1 DEF PushButton, WifiInv, TypeOK, stored, bounds, driver, events
  <2>3. FlagInv' /\ BootInv' /\ StartInv' /\ ModeInv' /\ CredentialsMatch'
    BY <1>2 DEF PushButton, Take, WifiInv, FlagInv, BootInv, StartInv, ModeInv, CredentialsMatch,
                stored, driver, events
  <2>4. StorageInv'
    BY <1>2 DEF PushButton, WifiInv, StorageInv, Consistent, Left, stored, events
  <2>. QED  BY <2>2, <2>3, <2>4 DEF WifiInv
<1>3. CASE PushStore
  <2>1. nvs' = [nvs EXCEPT !.wps = TRUE] /\ nvs'.wps /\ nvs'.ssid = nvs.ssid /\ nvs'.pass = nvs.pass
    BY <1>3 DEF PushStore, WifiInv, TypeOK
  <2>2. TypeOK'
    <3>1. nvs' \in [wps : BOOLEAN, ssid : Networks \cup {None}, pass : Networks \cup {None}]
      BY <2>1 DEF WifiInv, TypeOK
    <3>2. UNCHANGED <<boot, wpsProcedure, alt, mode, config, starting, connecting, queue, isr,
                      handler, writes, mqtt, presses, losses>> /\ task' = "written"
      BY <1>3 DEF PushStore, bounds, driver, events
    <3>. QED  BY <3>1, <3>2 DEF WifiInv, TypeOK
  <2>3. FlagInv' /\ BootInv' /\ StartInv' /\ ModeInv' /\ CredentialsMatch'
    BY <1>3, <2>1 DEF PushStore, WifiInv, FlagInv, BootInv, StartInv, ModeInv, CredentialsMatch,
                      driver, events
  <2>4. StorageInv'
    BY <1>3, <2>1 DEF PushStore, WifiInv, StorageInv, Consistent, Left, events
  <2>. QED  BY <2>2, <2>3, <2>4 DEF WifiInv
<1>4. CASE PushRestart
  BY <1>4, RestartKeeps DEF PushRestart, Restart, WifiInv, TypeOK
<1>. QED  BY <1>1, <1>2, <1>3, <1>4 DEF Task

\* The driver's report of the end of a procedure.
LEMMA OutcomeKeeps == WifiInv /\ Outcome => WifiInv'
<1>. SUFFICES ASSUME WifiInv,
                     NEW n \in Found,
                     Handle(<<Write("ssid", n), Write("pass", n), Write("wps", FALSE)>>)
              PROVE  WifiInv'
  BY DEF Outcome, WpsFails, WpsSuccess, Found
<1>1. /\ writes' = <<Write("ssid", n), Write("pass", n), Write("wps", FALSE)>>
      /\ Len(writes') <= 3
  BY DEF Handle
<1>2. TypeOK'
  BY <1>1 DEF Handle, WifiInv, TypeOK, stored, bounds, driver
<1>3. nvs.wps
  BY DEF Handle, WifiInv, FlagInv, ModeInv
<1>4. FlagInv' /\ BootInv' /\ StartInv' /\ ModeInv' /\ CredentialsMatch'
  BY DEF Handle, WifiInv, FlagInv, BootInv, StartInv, ModeInv, CredentialsMatch, stored, driver
<1>5. StorageInv'
  BY <1>1, <1>3 DEF Handle, WifiInv, StorageInv, Consistent, Left, stored
<1>. QED  BY <1>2, <1>4, <1>5 DEF WifiInv

\* One write of the event handler, and its restart after the last.
LEMMA LoopKeeps == WifiInv /\ Loop => WifiInv'
<1>. SUFFICES ASSUME WifiInv, Loop  PROVE WifiInv'
  OBVIOUS
<1>1. CASE Store
  <2>1. handler = "wps" /\ mode = "wps" /\ wpsProcedure
    BY <1>1 DEF Store, WifiInv, TypeOK, ModeInv, StorageInv
  <2>2. PICK n \in Found : Left(n)
    BY <2>1 DEF WifiInv, StorageInv
  <2>3. UNCHANGED <<bounds, boot, wpsProcedure, alt, driver, queue, task, isr, handler, mqtt>>
    BY <1>1 DEF Store
  <2>4. /\ nvs' \in [wps : BOOLEAN, ssid : Networks \cup {None}, pass : Networks \cup {None}]
        /\ Len(writes') <= 3
        /\ ~nvs'.wps => Consistent'
        /\ Left(n)'
    <3>1. CASE writes = <<Write("wps", FALSE)>> /\ Consistent
      <4>1. Head(writes) = Write("wps", FALSE) /\ Tail(writes) = <<>>
        BY <3>1, TakeWrite, Zenon
      <4>2. Write("wps", FALSE).key = "wps" /\ Write("wps", FALSE).value = FALSE
        BY WriteFields, Zenon
      <4>3. Head(writes).key = "wps" /\ Head(writes).value = FALSE
        BY <4>1, <4>2, Zenon
      <4>4. nvs' = [nvs EXCEPT !.wps = FALSE] /\ writes' = <<>>
        BY <1>1, <4>1, <4>3 DEF Store
      <4>5. Len(writes') = 0
        BY <4>4, EmptySeq
      <4>6. /\ nvs' \in [wps : BOOLEAN, ssid : Networks \cup {None},
                         pass : Networks \cup {None}]
            /\ nvs'.ssid = nvs.ssid /\ nvs'.pass = nvs.pass
        BY <4>4 DEF WifiInv, TypeOK
      <4>. QED  BY <3>1, <4>4, <4>5, <4>6 DEF Consistent, Left
    <3>2. CASE writes = <<Write("pass", n), Write("wps", FALSE)>> /\ nvs.wps /\ nvs.ssid = n
      <4>1. Head(writes) = Write("pass", n) /\ Tail(writes) = <<Write("wps", FALSE)>>
        BY <3>2, TakeWrite, Zenon
      <4>2. Head(writes).key = "pass" /\ Head(writes).value = n
        BY <4>1, WriteFields
      <4>3. nvs' = [nvs EXCEPT !.pass = n] /\ writes' = <<Write("wps", FALSE)>>
        BY <1>1, <4>1, <4>2 DEF Store
      <4>. QED  BY <3>2, <4>3 DEF WifiInv, TypeOK, Consistent, Left, Found
    <3>3. CASE /\ writes = <<Write("ssid", n), Write("pass", n), Write("wps", FALSE)>>
               /\ nvs.wps
      <4>. DEFINE first  == Write("ssid", n)
                  second == Write("pass", n)
                  third  == Write("wps", FALSE)
      <4>. HIDE DEF first, second, third
      <4>1. writes = <<first, second, third>>
        BY <3>3, Zenon DEF first, second, third
      <4>2. Head(writes) = first /\ Tail(writes) = <<second, third>>
        BY <4>1, TakeWrite
      <4>3. Head(writes).key = "ssid" /\ Head(writes).value = n
        BY <4>2, WriteFields DEF first
      <4>4. nvs' = [nvs EXCEPT !.ssid = n] /\ writes' = <<second, third>>
        BY <1>1, <4>2, <4>3 DEF Store
      <4>5. nvs \in [wps : BOOLEAN, ssid : Found, pass : Found]
        BY DEF WifiInv, TypeOK, Found
      <4>6. nvs' \in [wps : BOOLEAN, ssid : Found, pass : Found] /\ nvs'.wps /\ nvs'.ssid = n
        BY <3>3, <4>4, <4>5
      <4>7. Len(writes') <= 3
        BY <4>4
      <4>. QED  BY <4>4, <4>6, <4>7 DEF second, third, Left, Found
    <3>. QED  BY <1>1, <2>2, <3>1, <3>2, <3>3 DEF Left, Store
  <2>5. TypeOK'
    BY <2>3, <2>4 DEF WifiInv, TypeOK, bounds, driver
  <2>6. FlagInv' /\ BootInv' /\ StartInv' /\ ModeInv' /\ CredentialsMatch'
    BY <2>1, <2>3 DEF WifiInv, FlagInv, BootInv, StartInv, ModeInv, CredentialsMatch, driver
  <2>7. StorageInv'
    BY <2>1, <2>3, <2>4 DEF StorageInv
  <2>. QED  BY <2>5, <2>6, <2>7 DEF WifiInv
<1>2. CASE StaStart
  <2>1. /\ starting' = FALSE /\ connecting' \in BOOLEAN
        /\ UNCHANGED <<stored, boot, wpsProcedure, alt, mode, config, queue, task, isr, events, mqtt>>
    BY <1>2 DEF StaStart, WifiInv, TypeOK
  <2>2. TypeOK'
    <3>1. UNCHANGED <<nvs, presses, losses, handler, writes>>
      BY <2>1 DEF stored, bounds, events
    <3>2. queue' \in Seq({"button", "toggle"}) /\ Len(queue') <= QueueSize
      BY <2>1 DEF WifiInv, TypeOK
    <3>3. UNCHANGED <<boot, wpsProcedure, alt, mode, config, task, isr, mqtt>>
      BY <2>1
    <3>4. starting' \in BOOLEAN /\ connecting' \in BOOLEAN
      BY <2>1
    <3>. QED  BY <3>1, <3>2, <3>3, <3>4 DEF WifiInv, TypeOK
  <2>. QED
    BY <2>1, <2>2 DEF WifiInv, FlagInv, BootInv, StartInv, ModeInv, StorageInv, Consistent,
              Left, CredentialsMatch, stored, bounds, events
<1>3. CASE WpsRestart
  BY <1>3, RestartKeeps DEF WpsRestart, Restart, WifiInv, TypeOK
<1>. QED  BY <1>1, <1>2, <1>3 DEF Loop

\* Every step.
LEMMA WifiInvStep == WifiInv /\ [Next]_vars => WifiInv'
<1>. SUFFICES ASSUME WifiInv, [Next]_vars  PROVE WifiInv'
  OBVIOUS
<1>1. CASE PowerLoss
  <2>1. losses + 1 \in 0..MaxLosses
    BY <1>1 DEF PowerLoss, WifiInv, TypeOK
  <2>. QED  BY <1>1, <2>1, RestartKeeps DEF PowerLoss
<1>2. CASE UNCHANGED vars
  <2>1. TypeOK'
    BY <1>2 DEF vars, stored, bounds, driver, events, WifiInv, TypeOK
  <2>2. FlagInv' /\ BootInv' /\ StartInv' /\ ModeInv' /\ CredentialsMatch'
    BY <1>2 DEF vars, stored, driver, events, WifiInv, FlagInv, BootInv, StartInv, ModeInv,
                CredentialsMatch
  <2>3. StorageInv'
    BY <1>2 DEF vars, stored, events, WifiInv, StorageInv, Consistent, Left
  <2>. QED  BY <2>1, <2>2, <2>3 DEF WifiInv
<1>. QED
  BY <1>1, <1>2, AppMainKeeps, TaskKeeps, LoopKeeps, OutcomeKeeps, OthersKeep DEF Next

-----------------------------------------------------------------------------
(* The theorems.                                                           *)

\* The invariant of all theorems below.
THEOREM WifiInvAlways == Spec => []WifiInv
  BY WifiInvInit, WifiInvStep, PTL DEF Spec

\* The types: the storage holds networks, the queue of the object is bounded.
THEOREM TypeCorrect == Spec => []TypeOK
<1>1. WifiInv => TypeOK
  BY DEF WifiInv
<1>. QED  BY <1>1, WifiInvAlways, PTL

\* Wherever the power fails, the station gets a name and a password that belong
\* together (storeWPSAccess and eraseWPS clear the flag last).
THEOREM CredentialsCorrect == Spec => []CredentialsMatch
<1>1. WifiInv => CredentialsMatch
  BY DEF WifiInv
<1>. QED  BY <1>1, WifiInvAlways, PTL

\* Until it ends the driver of a WPS procedure is neither stopped, started nor
\* given another network (the tests of wpsProcedure in disconnect and
\* connectAndToggle), and the event handler calls esp_wifi_connect, which tests
\* nothing, for the start of the procedure only.
THEOREM WpsCorrect == Spec => WpsNotRestarted
<1>1. WifiInv /\ [Next]_vars =>
        [mode = "wps" /\ boot' = "done" =>
            /\ UNCHANGED <<mode, config>>
            /\ connecting => connecting' /\ UNCHANGED starting]_vars
  <2>. SUFFICES ASSUME WifiInv, Next, mode = "wps", boot' = "done"
                PROVE  /\ UNCHANGED <<mode, config>>
                       /\ connecting => connecting' /\ UNCHANGED starting
    OBVIOUS
  <2>1. /\ wpsProcedure /\ boot = "done"
        /\ connecting \in BOOLEAN /\ starting \in BOOLEAN /\ ~(starting /\ connecting)
    BY DEF WifiInv, TypeOK, ModeInv
  <2>2. ~Restart /\ ~PowerLoss
    BY DEF Restart, PowerLoss, Volatile
  <2>3. CASE StaStart
    BY <2>1, <2>3 DEF StaStart
  <2>4. UNCHANGED driver \/ StaStart
    <3>1. CASE AppMain
      BY <2>1, <3>1 DEF AppMain, ReadStorage, ConnectWifi
    <3>2. CASE Task
      BY <2>1, <2>2, <3>2 DEF Task, Toggle, PushButton, PushStore, PushRestart
    <3>3. CASE Loop \/ Outcome
      BY <2>2, <3>3 DEF Loop, Store, WpsRestart, Outcome, WpsFails, WpsSuccess, Handle
    <3>4. CASE Disconnect \/ ConnectAndToggle \/ Press
      BY <2>1, <3>4 DEF Disconnect, ConnectAndToggle, Press, driver
    <3>. QED  BY <2>2, <3>1, <3>2, <3>3, <3>4 DEF Next
  <2>. QED  BY <2>3, <2>4 DEF driver
<1>. QED  BY <1>1, WifiInvAlways, PTL DEF Spec, WpsNotRestarted
=============================================================================

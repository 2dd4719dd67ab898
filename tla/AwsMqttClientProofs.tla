-------------------------- MODULE AwsMqttClientProofs --------------------------
(***************************************************************************)
(* What module AwsMqttClient guarantees for every application, any number  *)
(* of topics and handlers, and any depth of calls within handlers.         *)
(***************************************************************************)
EXTENDS AwsMqttClient, SequenceTheorems, NaturalsInduction, WellFoundedInduction, TLAPS

USE ClientAssumption, ApplicationAssumption

-----------------------------------------------------------------------------
(* The stack of a thread: what each move makes of it.                      *)

\* The running frame of t becomes f.
Replaced(t, f) ==
  /\ stack' \in [Threads -> Seq(Frames)]
  /\ \A u \in Threads \ {t} : stack'[u] = stack[u]
  /\ Len(stack[t]) \in Nat \ {0} /\ Len(stack'[t]) = Len(stack[t])
  /\ stack'[t][1] = f
  /\ \A i \in 2..Len(stack[t]) : stack'[t][i] = stack[t][i]
\* It becomes g and calls f.
Pushed(t, f, g) ==
  /\ stack' \in [Threads -> Seq(Frames)]
  /\ \A u \in Threads \ {t} : stack'[u] = stack[u]
  /\ Len(stack[t]) \in Nat \ {0} /\ Len(stack'[t]) = Len(stack[t]) + 1
  /\ stack'[t][1] = f /\ stack'[t][2] = g
  /\ \A i \in 2..Len(stack[t]) : stack'[t][i + 1] = stack[t][i]
\* It returns.
Popped(t) ==
  /\ stack' \in [Threads -> Seq(Frames)]
  /\ \A u \in Threads \ {t} : stack'[u] = stack[u]
  /\ Len(stack[t]) \in Nat \ {0} /\ Len(stack'[t]) = Len(stack[t]) - 1
  /\ \A i \in 1..Len(stack[t]) - 1 : stack'[t][i] = stack[t][i + 1]
\* It returns, and its caller becomes f.
PoppedTo(t, f) ==
  /\ stack' \in [Threads -> Seq(Frames)]
  /\ \A u \in Threads \ {t} : stack'[u] = stack[u]
  /\ Len(stack[t]) \in Nat \ {0, 1} /\ Len(stack'[t]) = Len(stack[t]) - 1
  /\ stack'[t][1] = f
  /\ \A i \in 2..Len(stack[t]) - 1 : stack'[t][i] = stack[t][i + 1]
\* t, which was not running, starts f.
Started(t, f) ==
  /\ stack' \in [Threads -> Seq(Frames)]
  /\ \A u \in Threads \ {t} : stack'[u] = stack[u]
  /\ stack[t] = <<>> /\ Len(stack'[t]) = 1
  /\ stack'[t][1] = f

StackType == stack \in [Threads -> Seq(Frames)]

LEMMA RunningLen ==
  ASSUME StackType, NEW t \in Threads
  PROVE  /\ Len(stack[t]) \in Nat
         /\ Running(t) <=> Len(stack[t]) > 0
         /\ Running(t) => /\ Top(t) = stack[t][1] /\ stack[t][1] \in Frames
         /\ \A i \in 1..Len(stack[t]) : stack[t][i] \in Frames
<1>1. stack[t] \in Seq(Frames)
  BY DEF StackType
<1>2. stack[t] = <<>> <=> Len(stack[t]) = 0
  BY <1>1, EmptySeq
<1> QED
  BY <1>1, <1>2 DEF Running, Top

LEMMA ReplacedMove ==
  ASSUME StackType, NEW t \in Threads, Running(t), NEW f \in Frames,
         stack' = [stack EXCEPT ![t] = [@ EXCEPT ![1] = f]]
  PROVE  Replaced(t, f)
<1> DEFINE s == stack[t]
<1>1. s \in Seq(Frames) /\ Len(s) \in Nat \ {0} /\ 1 \in DOMAIN s
  BY RunningLen DEF StackType
<1>2. [s EXCEPT ![1] = f] \in Seq(Frames) /\ Len([s EXCEPT ![1] = f]) = Len(s)
  BY <1>1, ExceptSeq
<1>3. stack'[t] = [s EXCEPT ![1] = f] /\ stack' \in [Threads -> Seq(Frames)]
  BY <1>2 DEF StackType
<1> QED
  BY <1>1, <1>2, <1>3 DEF Replaced, StackType

LEMMA GotoMove ==
  ASSUME StackType, NEW t \in Threads, NEW pc, Running(t),
         [Top(t) EXCEPT !.pc = pc] \in Frames, Goto(t, pc)
  PROVE  Replaced(t, [Top(t) EXCEPT !.pc = pc])
<1>1. stack' = [stack EXCEPT ![t] = [@ EXCEPT ![1] = [Top(t) EXCEPT !.pc = pc]]]
  BY RunningLen DEF Goto
<1> QED
  BY <1>1, ReplacedMove

LEMMA PushMove ==
  ASSUME StackType, NEW t \in Threads, NEW f \in Frames, NEW g \in Frames, Running(t),
         stack' = [stack EXCEPT ![t] = <<f>> \o [stack[t] EXCEPT ![1] = g]]
  PROVE  Pushed(t, f, g)
<1> DEFINE s == stack[t]
           r == [s EXCEPT ![1] = g]
<1>1. s \in Seq(Frames) /\ Len(s) \in Nat \ {0} /\ 1 \in DOMAIN s
  BY RunningLen DEF StackType
<1>2. stack' = [stack EXCEPT ![t] = <<f>> \o r]
  OBVIOUS
<1>3. r \in Seq(Frames) /\ Len(r) = Len(s) /\ r[1] = g /\ \A i \in 2..Len(s) : r[i] = s[i]
  BY <1>1, ExceptSeq
<1> HIDE DEF r
<1>4. <<f>> \in Seq(Frames) /\ Len(<<f>>) = 1 /\ <<f>>[1] = f
  OBVIOUS
<1>5. /\ <<f>> \o r \in Seq(Frames) /\ Len(<<f>> \o r) = 1 + Len(s)
      /\ (<<f>> \o r)[1] = f
      /\ \A i \in 1..Len(s) : (<<f>> \o r)[i + 1] = r[i]
  BY <1>1, <1>3, <1>4, ConcatProperties
<1>6. stack'[t] = <<f>> \o r /\ stack' \in [Threads -> Seq(Frames)]
  BY <1>2, <1>5 DEF StackType
<1>7. 1 \in 1..Len(s) /\ (<<f>> \o r)[2] = g
  BY <1>1, <1>3, <1>5
<1>8. \A i \in 2..Len(s) : (<<f>> \o r)[i + 1] = s[i]
  BY <1>1, <1>3, <1>5
<1>9. \A u \in Threads \ {t} : stack'[u] = stack[u]
  BY <1>2 DEF StackType
<1> QED
  BY <1>1, <1>5, <1>6, <1>7, <1>8, <1>9 DEF Pushed

LEMMA CallMove ==
  ASSUME StackType, NEW t \in Threads, NEW pc, NEW f \in Frames, Running(t),
         [Top(t) EXCEPT !.pc = pc] \in Frames, Call(t, pc, f)
  PROVE  Pushed(t, f, [Top(t) EXCEPT !.pc = pc])
<1>1. stack' = [stack EXCEPT ![t] = <<f>> \o [stack[t] EXCEPT ![1] = [Top(t) EXCEPT !.pc = pc]]]
  BY RunningLen DEF Call
<1> QED
  BY <1>1, PushMove

LEMMA ReturnMove ==
  ASSUME StackType, NEW t \in Threads, Running(t), stack' = [stack EXCEPT ![t] = Tail(@)]
  PROVE  Popped(t)
<1> DEFINE s == stack[t]
<1>1. s \in Seq(Frames) /\ Len(s) \in Nat \ {0} /\ s # <<>>
  BY RunningLen DEF StackType, Running
<1>2. Tail(s) \in Seq(Frames) /\ Len(Tail(s)) = Len(s) - 1 /\ \A i \in 1..Len(s) - 1 : Tail(s)[i] = s[i + 1]
  BY <1>1, HeadTailProperties
<1>3. stack'[t] = Tail(s) /\ stack' \in [Threads -> Seq(Frames)]
  BY <1>2 DEF StackType
<1>4. \A u \in Threads \ {t} : stack'[u] = stack[u]
  BY DEF StackType
<1> QED
  BY <1>1, <1>2, <1>3, <1>4 DEF Popped

LEMMA ReadDoneMove ==
  ASSUME StackType, NEW t \in Threads, Running(t), Len(stack[t]) > 1, NEW result,
         NEW f \in Frames,
         f = [stack[t][2] EXCEPT !.pc = IF result # "SUCCESS" THEN "end"
                                        ELSE IF @ = "read" THEN "keepalive" ELSE @],
         ReadDone(t, result)
  PROVE  PoppedTo(t, f)
<1> DEFINE s == stack[t]
           r == Tail(s)
<1>1. s \in Seq(Frames) /\ Len(s) \in Nat \ {0} /\ s # <<>>
  BY RunningLen DEF StackType, Running
<1>2. r \in Seq(Frames) /\ Len(r) = Len(s) - 1 /\ \A i \in 1..Len(s) - 1 : r[i] = s[i + 1]
  BY <1>1, HeadTailProperties
<1>3. stack' = [stack EXCEPT ![t] = [r EXCEPT ![1].pc = IF result # "SUCCESS" THEN "end"
                                                     ELSE IF @ = "read" THEN "keepalive" ELSE @]]
  BY DEF ReadDone
<1> HIDE DEF r
<1>4. 1 \in DOMAIN r /\ r[1] = s[2]
  BY <1>1, <1>2
<1>5. stack' = [stack EXCEPT ![t] = [r EXCEPT ![1] = f]]
  BY <1>3, <1>4
<1>6. [r EXCEPT ![1] = f] \in Seq(Frames) /\ Len([r EXCEPT ![1] = f]) = Len(r)
  BY <1>2, <1>4, ExceptSeq
<1>7. stack'[t] = [r EXCEPT ![1] = f] /\ stack' \in [Threads -> Seq(Frames)]
  BY <1>5, <1>6 DEF StackType
<1>8. \A u \in Threads \ {t} : stack'[u] = stack[u]
  BY <1>5 DEF StackType
<1>9. stack'[t][1] = f /\ \A i \in 2..Len(s) - 1 : stack'[t][i] = s[i + 1]
  BY <1>1, <1>2, <1>4, <1>7
<1> QED
  BY <1>1, <1>2, <1>6, <1>7, <1>8, <1>9 DEF PoppedTo

LEMMA StartMove ==
  ASSUME StackType, NEW t \in Threads, ~Running(t), NEW f \in Frames,
         stack' = [stack EXCEPT ![t] = <<f>>]
  PROVE  Started(t, f)
BY DEF Started, StackType, Running

-----------------------------------------------------------------------------
(* What every frame is: where a call of its kind can be, what it runs inside of, and what *)
(* it found the state to be.                                                              *)

Deliveries == {"deliver0", "deliver1"}
Waiting == {"publish1", "subscribe", "unsubscribe", "resubscribe"}
Ops == Requests \union Deliveries \union {"connect", "reconnect", "resubscribe", "yield"}
PcsOf(op) ==
  CASE op = "publish0"  -> {"cas", "serialize", "send", "end"}
    [] op \in Waiting   -> {"cas", "serialize", "send", "wait", "end"}
    [] op = "connect"   -> {"cas", "tls", "serialize", "send", "wait", "end"}
    [] op = "deliver0"  -> {"enter", "handler"}
    [] op = "deliver1"  -> {"enter", "handler", "puback", "send"}
    [] op = "reconnect" -> {"start", "connected", "resubscribed"}
    [] op = "yield"     -> {"cas", "loop", "read", "keepalive", "ping", "disconnect", "disconnected",
                            "check", "reconnected", "end"}

\* f may run while its caller g waits for it.
Within(f, g) ==
  \/ f.op \in Deliveries /\ g.pc \in {"wait", "read"}
  \/ f.op \in Requests /\ g.op \in Deliveries /\ g.pc = "handler"
  \/ f.op = "reconnect" /\ g.op = "yield" /\ g.pc \in {"reconnected", "disconnected"}
  \/ f.op = "connect" /\ g.op = "reconnect" /\ g.pc = "connected"
  \/ f.op = "resubscribe" /\ g.op = "reconnect" /\ g.pc = "resubscribed"

\* What thread t of application a calls by itself, and what its handlers call.
Own(a, t) == a[t] \union (IF t = "main" THEN {"connect", "reconnect", "yield"} ELSE {})
\* Two threads whose calls are apart, and nobody reconnects: the condition of WriteBufferOwned.
Quiet(a) ==
  /\ ~a.auto /\ ~a.reconnects
  /\ \A t, u \in Threads : t # u =>
       \A op \in (a[t] \union a.handler) \ {"publish0"}, other \in a[u] \union a.handler :
         InProgress(op) # InProgress(other)
Shared == {"IDLE", "WAIT_FOR_CB_RETURN"}
Closed == {"INITIALIZED", "DISCONNECTED_ERROR", "DISCONNECTED_MANUALLY", "PENDING_RECONNECT"}
\* One thread: the condition of SettledBetweenCalls.
Single(a) == a.worker = {}
\* The states in which a call reads.
ReadStates(op) == IF op = "yield" THEN {"YIELD", "IDLE"} ELSE {InProgress(op)}

SlotChosen(f) == f.op = "subscribe" /\ f.pc \in {"send", "wait"} => f.slot \in 1..NumHandlers
\* A frame f in application a; f called by g; f at the bottom of the stack of t.
FrameOK(a, f) ==
  /\ f.pc \in PcsOf(f.op)
  /\ SlotChosen(f)
  /\ f.op \in {"subscribe", "unsubscribe"} => f.topic \in Topics
  /\ Quiet(a) =>
       /\ f.op \notin {"reconnect", "resubscribe"}
       /\ f.op \in Requests \union {"yield"} => f.old \in Shared
       /\ f.op = "connect" => f.old \in Closed
  /\ Single(a) =>
       /\ f.op \in Requests => f.old \in Shared
       /\ f.op = "connect" => f.old \in Closed
       /\ f.op = "resubscribe" => f.old = "IDLE"
CalledOK(a, f, g) ==
  /\ Within(f, g)
  /\ f.op \in Requests => f.op \in a.handler
  /\ Quiet(a) /\ f.op \in Deliveries => f.old = InProgress(g.op)
  /\ Single(a) =>
       /\ f.op \in Deliveries => f.old \in ReadStates(g.op)
       /\ f.op \in Requests => f.old = "WAIT_FOR_CB_RETURN"
  /\ f.op = "reconnect" /\ g.pc = "disconnected" => a.reconnects
BottomOK(a, t, f) ==
  /\ f.op \in Own(a, t)
  /\ Single(a) /\ f.op \in Requests => f.old = "IDLE"
FramesOK ==
  \A t \in Threads : \A i \in 1..Len(stack[t]) :
    /\ FrameOK(app, stack[t][i])
    /\ i # Len(stack[t]) => CalledOK(app, stack[t][i], stack[t][i + 1])
    /\ i = Len(stack[t]) => BottomOK(app, t, stack[t][i])

\* f is the frame g, further on.
Same(f, g) == f.op = g.op /\ f.old = g.old /\ f.topic = g.topic

LEMMA SameFrame ==
  ASSUME NEW a, NEW f, NEW g, Same(g, f), FrameOK(a, f), g.pc \in PcsOf(g.op), SlotChosen(g)
  PROVE  FrameOK(a, g)
BY DEF FrameOK, Same
LEMMA SameCalled ==
  ASSUME NEW a, NEW f, NEW g, NEW f2, Same(f2, f), CalledOK(a, f, g)
  PROVE  CalledOK(a, f2, g)
BY DEF CalledOK, Same, Within
LEMMA SameBottom ==
  ASSUME NEW a, NEW t, NEW f, NEW f2, Same(f2, f), BottomOK(a, t, f)
  PROVE  BottomOK(a, t, f2)
BY DEF BottomOK, Same

\* The frames of one thread.
ThreadOK(a, t, s) ==
  \A i \in 1..Len(s) :
    /\ FrameOK(a, s[i])
    /\ i # Len(s) => CalledOK(a, s[i], s[i + 1])
    /\ i = Len(s) => BottomOK(a, t, s[i])

LEMMA FramesFromThread ==
  ASSUME FramesOK, NEW t \in Threads, \A u \in Threads \ {t} : stack'[u] = stack[u], UNCHANGED app,
         ThreadOK(app, t, stack'[t])
  PROVE  FramesOK'
<1>1. ASSUME NEW u \in Threads PROVE ThreadOK(app, u, stack'[u])
  <2>1. CASE u = t
    BY <2>1
  <2>2. CASE u # t
    BY <2>2 DEF FramesOK, ThreadOK
  <2> QED
    BY <2>1, <2>2
<1> QED
  BY <1>1 DEF FramesOK, ThreadOK

LEMMA OneThreadOK ==
  ASSUME FramesOK, NEW t \in Threads
  PROVE  ThreadOK(app, t, stack[t])
BY DEF FramesOK, ThreadOK

LEMMA ReplacedFrames ==
  ASSUME StackType, FramesOK, NEW t \in Threads, NEW f, Replaced(t, f), UNCHANGED app,
         Same(f, stack[t][1]), f.pc \in PcsOf(f.op), SlotChosen(f)
  PROVE  FramesOK'
<1> DEFINE s == stack[t]
           r == stack'[t]
<1>1. /\ Len(s) \in Nat \ {0} /\ Len(r) = Len(s) /\ r[1] = f /\ Same(f, s[1])
      /\ \A i \in 2..Len(s) : r[i] = s[i]
  BY DEF Replaced
<1>2. ThreadOK(app, t, s)
  BY OneThreadOK
<1> HIDE DEF s, r
<1>3. FrameOK(app, f)
  BY <1>1, <1>2, SameFrame DEF ThreadOK
<1>4. 1 # Len(s) => CalledOK(app, f, s[2])
  BY <1>1, <1>2, SameCalled DEF ThreadOK
<1>5. 1 = Len(s) => BottomOK(app, t, f)
  BY <1>1, <1>2, SameBottom DEF ThreadOK
<1>6. ThreadOK(app, t, r)
  BY <1>1, <1>2, <1>3, <1>4, <1>5 DEF ThreadOK
<1> QED
  BY <1>6, FramesFromThread DEF Replaced, r

LEMMA PushedFrames ==
  ASSUME StackType, FramesOK, NEW t \in Threads, NEW f, NEW g, Pushed(t, f, g), UNCHANGED app,
         Same(g, stack[t][1]), g.pc \in PcsOf(g.op), SlotChosen(g), FrameOK(app, f), CalledOK(app, f, g)
  PROVE  FramesOK'
<1> DEFINE s == stack[t]
           r == stack'[t]
<1>1. /\ Len(s) \in Nat \ {0} /\ Len(r) = Len(s) + 1 /\ r[1] = f /\ r[2] = g /\ Same(g, s[1])
  BY DEF Pushed
<1>11. \A i \in 2..Len(s) : r[i + 1] = s[i]
  BY DEF Pushed
<1>2. ThreadOK(app, t, s)
  BY OneThreadOK
<1> HIDE DEF s, r
<1>0. 1 \in 1..Len(s) /\ Same(g, s[1])
  BY <1>1
<1>3. FrameOK(app, g)
  BY <1>0, <1>2, SameFrame DEF ThreadOK
<1>4. 1 # Len(s) => CalledOK(app, g, s[2])
  <2>1. 1 # Len(s) => CalledOK(app, s[1], s[1 + 1])
    BY <1>0, <1>2 DEF ThreadOK
  <2> QED
    BY <1>0, <2>1, SameCalled
<1>5. 1 = Len(s) => BottomOK(app, t, g)
  BY <1>0, <1>2, SameBottom DEF ThreadOK
<1>6. ASSUME NEW i \in 3..Len(r)
      PROVE  /\ r[i] = s[i - 1] /\ i - 1 \in 2..Len(s)
             /\ i # Len(r) => r[i + 1] = s[(i - 1) + 1]
  <2>1. i - 1 \in 2..Len(s) /\ (i - 1) + 1 = i
    BY <1>1
  <2>2. r[(i - 1) + 1] = s[i - 1]
    BY <1>11, <2>1
  <2>3. i # Len(r) => i \in 2..Len(s)
    BY <1>1
  <2>4. i # Len(r) => r[i + 1] = s[i]
    BY <1>11, <2>3
  <2> QED
    BY <2>1, <2>2, <2>4
<1>7. r[3] = s[2] \/ Len(s) = 1
  <2>0. \A n \in Nat \ {0} : n # 1 => 2 \in 2..n
    OBVIOUS
  <2>1. Len(s) # 1 => 2 \in 2..Len(s)
    BY <1>1, <2>0, Zenon
  <2>2. Len(s) # 1 => r[2 + 1] = s[2]
    BY <1>11, <2>1
  <2>3. 2 + 1 = 3
    OBVIOUS
  <2> QED
    BY <2>2, <2>3
<1>8. \A i \in 1..Len(r) : i = 1 \/ i = 2 \/ i \in 3..Len(r)
  BY <1>1
<1>9. \A i \in 3..Len(r) :
        /\ FrameOK(app, r[i])
        /\ i # Len(r) => CalledOK(app, r[i], r[i + 1])
        /\ i = Len(r) => BottomOK(app, t, r[i])
  BY <1>1, <1>2, <1>6 DEF ThreadOK
<1>10. ASSUME NEW i \in 1..Len(r)
       PROVE  /\ FrameOK(app, r[i])
              /\ i # Len(r) => CalledOK(app, r[i], r[i + 1])
              /\ i = Len(r) => BottomOK(app, t, r[i])
  <2>0. \A n, m : n \in Nat \ {0} /\ m = n + 1 => (n = 1 <=> m = 2)
    OBVIOUS
  <2>1. Len(r) \in Nat \ {0, 1} /\ r[1] = f /\ r[2] = g
    BY <1>1
  <2>5. Len(s) = 1 <=> Len(r) = 2
    BY <1>1, <2>0, Zenon
  <2>2. CASE i = 1
    BY <2>1, <2>2
  <2>3. CASE i = 2
    BY <2>1, <2>3, <2>5, <1>3, <1>4, <1>5, <1>7
  <2>4. CASE i \in 3..Len(r)
    BY <1>9, <2>4
  <2> QED
    BY <1>8, <2>2, <2>3, <2>4
<1> QED
  BY <1>10, FramesFromThread DEF Pushed, ThreadOK, r

LEMMA PoppedFrames ==
  ASSUME StackType, FramesOK, NEW t \in Threads, Popped(t), UNCHANGED app
  PROVE  FramesOK'
<1> DEFINE s == stack[t]
           r == stack'[t]
<1>1. /\ Len(s) \in Nat \ {0} /\ Len(r) = Len(s) - 1
      /\ \A i \in 1..Len(s) - 1 : r[i] = s[i + 1]
  BY DEF Popped
<1>2. ThreadOK(app, t, s)
  BY OneThreadOK
<1> HIDE DEF s, r
<1>3. ASSUME NEW i \in 1..Len(r)
      PROVE  /\ r[i] = s[i + 1] /\ i + 1 \in 1..Len(s)
             /\ i # Len(r) => r[i + 1] = s[(i + 1) + 1]
  BY <1>1
<1>4. ThreadOK(app, t, r)
  BY <1>1, <1>2, <1>3 DEF ThreadOK
<1> QED
  BY <1>4, FramesFromThread DEF Popped, r

LEMMA PoppedToFrames ==
  ASSUME StackType, FramesOK, NEW t \in Threads, NEW f, PoppedTo(t, f), UNCHANGED app,
         Same(f, stack[t][2]), f.pc \in PcsOf(f.op), SlotChosen(f)
  PROVE  FramesOK'
<1> DEFINE s == stack[t]
           r == stack'[t]
<1>1. /\ Len(s) \in Nat \ {0, 1} /\ Len(r) = Len(s) - 1 /\ r[1] = f /\ Same(f, s[2])
      /\ \A i \in 2..Len(s) - 1 : r[i] = s[i + 1]
  BY DEF PoppedTo
<1>2. ThreadOK(app, t, s)
  BY OneThreadOK
<1> HIDE DEF s, r
<1>3. FrameOK(app, f)
  BY <1>1, <1>2, SameFrame DEF ThreadOK
<1>0. 2 \in 1..Len(s) /\ Same(f, s[2])
  BY <1>1
<1>4. 2 # Len(s) => CalledOK(app, f, s[2 + 1])
  BY <1>0, <1>2, SameCalled DEF ThreadOK
<1>5. 2 = Len(s) => BottomOK(app, t, f)
  BY <1>0, <1>2, SameBottom DEF ThreadOK
<1>6. ASSUME NEW i \in 2..Len(r)
      PROVE  /\ r[i] = s[i + 1] /\ i + 1 \in 1..Len(s)
             /\ i # Len(r) => r[i + 1] = s[(i + 1) + 1]
  BY <1>1
<1>7. r[2] = s[2 + 1] \/ Len(s) = 2
  BY <1>1
<1>8. \A i \in 2..Len(r) :
        /\ FrameOK(app, r[i])
        /\ i # Len(r) => CalledOK(app, r[i], r[i + 1])
        /\ i = Len(r) => BottomOK(app, t, r[i])
  BY <1>1, <1>2, <1>6 DEF ThreadOK
<1>9. ThreadOK(app, t, r)
  BY <1>1, <1>3, <1>4, <1>5, <1>7, <1>8 DEF ThreadOK
<1> QED
  BY <1>9, FramesFromThread DEF PoppedTo, r

LEMMA StartedFrames ==
  ASSUME StackType, FramesOK, NEW t \in Threads, NEW f, Started(t, f), UNCHANGED app,
         FrameOK(app, f), BottomOK(app, t, f)
  PROVE  FramesOK'
<1>1. ThreadOK(app, t, stack'[t])
  BY DEF Started, ThreadOK
<1> QED
  BY <1>1, FramesFromThread DEF Started

-----------------------------------------------------------------------------
(* The values of the variables, and the moves on a stack of frames.        *)

Acks == {"PUBACK", "SUBACK", "UNSUBACK", "CONNACK", "PINGRESP"}
Packets == [type : {"PUBLISH0", "PUBLISH1"}, topic : Topics]
             \union [type : Acks, topic : Topics \union {None, "refused"}]
Sent == {"PUBLISH0", "PUBLISH1", "SUBSCRIBE", "UNSUBSCRIBE", "CONNECT", "PUBACK", "PINGREQ"}
Results == {"SUCCESS", "FAILURE", "TIMEOUT", "UNEXPECTED_STATE", "TLS_ERROR", "READ_ERROR", "READ_FAILED", "REFUSED",
            "DISCONNECTED",
            "ATTEMPTING_RECONNECT", "ALREADY_CONNECTED", "RECONNECTED", "RECONNECT_TIMED_OUT"}
TypeInv ==
  /\ app \in Applications
  /\ clientState \in ClientStates
  /\ StackType
  /\ rc \in [Threads -> Results]
  /\ handlers \in [1..NumHandlers -> Topics \union {None}]
  /\ inbox \in Seq(Packets)
  /\ session \subseteq Topics
  /\ writeBuf \in [by : Threads \union {None}, type : Sent \union {None}, topic : Topics \union {None}]
  /\ writeBuf.type = "SUBSCRIBE" => writeBuf.topic \in Topics

LEMMA OwnOps ==
  ASSUME NEW a \in Applications, NEW t \in Threads
  PROVE  /\ Own(a, t) \subseteq Requests \union {"connect", "reconnect", "yield"}
         /\ t # "main" => Own(a, t) = a[t]
         /\ a[t] \subseteq Requests /\ a.handler \subseteq Requests
         /\ a["worker"] = a.worker /\ a["main"] = a.main
BY DEF Own, Application, Threads, Requests

\* Where a call can be says what call it is.
LEMMA OpAt ==
  ASSUME NEW f, f.op \in Ops, f.pc \in PcsOf(f.op)
  PROVE  /\ f.pc = "tls" => f.op = "connect"
         /\ f.pc \in {"loop", "read", "keepalive", "ping", "disconnect", "disconnected", "check", "reconnected"}
              => f.op = "yield"
         /\ f.pc \in {"start", "connected", "resubscribed"} => f.op = "reconnect"
         /\ f.pc \in {"enter", "handler"} => f.op \in Deliveries
         /\ f.pc = "puback" => f.op = "deliver1"
         /\ f.pc = "serialize" => f.op \in Requests \union {"connect", "resubscribe"}
         /\ f.pc = "send" => f.op \in Requests \union {"connect", "resubscribe", "deliver1"}
         /\ f.pc = "wait" => f.op \in Waiting \union {"connect"}
         /\ f.pc \in {"cas", "end"} => f.op \in Requests \union {"connect", "resubscribe", "yield"}
BY DEF Ops, PcsOf, Requests, Deliveries, Waiting

LEMMA FrameFields ==
  ASSUME NEW f \in Frames
  PROVE  f.op \in Ops /\ f.old \in ClientStates /\ f.topic \in Topics \union {None} /\ f.slot \in 0..NumHandlers
         /\ f.count \in 0..NumHandlers
BY DEF Frames, Ops, Deliveries, Requests

LEMMA FirstFrame ==
  ASSUME StackType, FramesOK, NEW t \in Threads, Running(t)
  PROVE  /\ Top(t) = stack[t][1] /\ Top(t) \in Frames /\ FrameOK(app, Top(t)) /\ Top(t).pc \in PcsOf(Top(t).op)
         /\ Top(t).op \in Ops
         /\ Len(stack[t]) \in Nat \ {0}
         /\ Len(stack[t]) = 1 => BottomOK(app, t, Top(t))
         /\ Len(stack[t]) # 1 => /\ Len(stack[t]) > 1
                                 /\ CalledOK(app, Top(t), stack[t][2])
                                 /\ stack[t][2] \in Frames /\ FrameOK(app, stack[t][2])
<1>1. Len(stack[t]) \in Nat \ {0} /\ Top(t) = stack[t][1] /\ 1 \in 1..Len(stack[t])
  BY RunningLen
<1>2. /\ FrameOK(app, stack[t][1])
      /\ Len(stack[t]) = 1 => BottomOK(app, t, stack[t][1])
      /\ 1 # Len(stack[t]) => CalledOK(app, stack[t][1], stack[t][1 + 1])
  BY <1>1 DEF FramesOK
<1>3. \A n \in Nat \ {0} : n # 1 => 2 \in 1..n /\ n > 1
  OBVIOUS
<1>4. Len(stack[t]) # 1 => 2 \in 1..Len(stack[t]) /\ Len(stack[t]) > 1
  BY <1>1, <1>3, Zenon
<1>5. Len(stack[t]) # 1 => FrameOK(app, stack[t][2]) /\ stack[t][2] \in Frames
  BY <1>4, RunningLen DEF FramesOK
<1>6. stack[t][1] \in Frames /\ stack[t][1].op \in Ops
  BY <1>1, RunningLen, FrameFields
<1>7. 1 + 1 = 2
  OBVIOUS
<1>8. stack[t][1].pc \in PcsOf(stack[t][1].op)
  BY <1>2 DEF FrameOK
<1> QED
  BY <1>1, <1>2, <1>4, <1>5, <1>6, <1>7, <1>8

NextPc(t, pc) == [Top(t) EXCEPT !.pc = pc]

LEMMA NextFrame ==
  ASSUME NEW f \in Frames, NEW pc, pc \in PcsOf(f.op)
  PROVE  /\ [f EXCEPT !.pc = pc] \in Frames /\ Same([f EXCEPT !.pc = pc], f)
         /\ [f EXCEPT !.pc = pc].pc = pc /\ [f EXCEPT !.pc = pc].slot = f.slot
         /\ [f EXCEPT !.pc = pc].op = f.op /\ [f EXCEPT !.pc = pc].old = f.old
         /\ [f EXCEPT !.pc = pc].topic = f.topic /\ [f EXCEPT !.pc = pc].count = f.count
<1>1. pc \in {"cas", "tls", "serialize", "send", "wait", "end", "enter", "handler",
              "puback", "loop", "read", "keepalive", "ping", "disconnect",
              "disconnected", "check", "reconnected", "start", "connected", "resubscribed"}
  BY FrameFields DEF PcsOf, Ops, Requests, Deliveries, Waiting
<1>2. [f EXCEPT !.pc = pc] \in Frames
  BY <1>1 DEF Frames
<1> QED
  BY <1>2 DEF Frames, Same

LEMMA GotoFrames ==
  ASSUME TypeInv, FramesOK, NEW t \in Threads, Running(t), NEW pc, Goto(t, pc), UNCHANGED app,
         pc \in PcsOf(Top(t).op), SlotChosen(NextPc(t, pc))
  PROVE  FramesOK' /\ StackType' /\ Replaced(t, NextPc(t, pc))
<1>1. StackType /\ Top(t) = stack[t][1] /\ Top(t) \in Frames
  BY FirstFrame DEF TypeInv
<1>2. NextPc(t, pc) \in Frames /\ Same(NextPc(t, pc), stack[t][1])
      /\ NextPc(t, pc).pc = pc /\ NextPc(t, pc).op = Top(t).op
  BY <1>1, NextFrame DEF NextPc
<1>3. Replaced(t, NextPc(t, pc))
  BY <1>1, <1>2, GotoMove DEF NextPc
<1> QED
  BY <1>1, <1>2, <1>3, ReplacedFrames DEF Replaced, StackType

LEMMA CallFrames ==
  ASSUME TypeInv, FramesOK, NEW t \in Threads, Running(t), NEW pc, NEW f \in Frames, Call(t, pc, f), UNCHANGED app,
         pc \in PcsOf(Top(t).op), pc # "send", pc = "wait" => Top(t).pc = "wait",
         FrameOK(app, f), CalledOK(app, f, NextPc(t, pc))
  PROVE  FramesOK' /\ StackType' /\ Pushed(t, f, NextPc(t, pc))
<1>1. StackType /\ Top(t) = stack[t][1] /\ Top(t) \in Frames /\ FrameOK(app, Top(t))
  BY FirstFrame DEF TypeInv
<1>2. /\ NextPc(t, pc) \in Frames /\ Same(NextPc(t, pc), stack[t][1])
      /\ NextPc(t, pc).pc = pc /\ NextPc(t, pc).op = Top(t).op /\ NextPc(t, pc).slot = Top(t).slot
  BY <1>1, NextFrame DEF NextPc
<1>3. Pushed(t, f, NextPc(t, pc))
  BY <1>1, <1>2, CallMove DEF NextPc
<1>4. SlotChosen(NextPc(t, pc))
  BY <1>1, <1>2 DEF SlotChosen, FrameOK
<1> QED
  BY <1>1, <1>2, <1>3, <1>4, PushedFrames DEF Pushed, StackType

LEMMA ReturnFrames ==
  ASSUME TypeInv, FramesOK, NEW t \in Threads, Running(t), NEW result, Return(t, result), UNCHANGED app
  PROVE  FramesOK' /\ StackType' /\ Popped(t)
<1>1. Popped(t)
  BY ReturnMove DEF TypeInv, Return
<1> QED
  BY <1>1, PoppedFrames DEF TypeInv, Popped, StackType

\* The frame a read's handlers return to.
After(t, result) ==
  [stack[t][2] EXCEPT !.pc = IF result # "SUCCESS" THEN "end" ELSE IF @ = "read" THEN "keepalive" ELSE @]

LEMMA DeliveryCalled ==
  ASSUME TypeInv, FramesOK, NEW t \in Threads, Running(t), Top(t).op \in Deliveries
  PROVE  /\ Len(stack[t]) # 1 /\ CalledOK(app, Top(t), stack[t][2])
         /\ stack[t][2] \in Frames /\ FrameOK(app, stack[t][2])
         /\ \/ stack[t][2].pc = "wait" /\ stack[t][2].op \in Waiting \union {"connect"}
            \/ stack[t][2].pc = "read" /\ stack[t][2].op = "yield"
<1>1. Len(stack[t]) = 1 => Top(t).op \in Own(app, t)
  BY FirstFrame DEF TypeInv, BottomOK
<1>2. Len(stack[t]) # 1
  BY <1>1, OwnOps DEF TypeInv, Deliveries, Requests
<1>3. /\ CalledOK(app, Top(t), stack[t][2])
      /\ stack[t][2] \in Frames /\ FrameOK(app, stack[t][2])
  BY <1>2, FirstFrame DEF TypeInv
<1>4. stack[t][2].pc \in {"wait", "read"}
  BY <1>3 DEF CalledOK, Within, Deliveries, Requests
<1>5. stack[t][2].op \in Ops /\ stack[t][2].pc \in PcsOf(stack[t][2].op)
  BY <1>3, FrameFields DEF FrameOK
<1> QED
  BY <1>2, <1>3, <1>4, <1>5, OpAt

LEMMA ReadDoneFrames ==
  ASSUME TypeInv, FramesOK, NEW t \in Threads, Running(t), Top(t).op \in Deliveries,
         NEW result, ReadDone(t, result), UNCHANGED app
  PROVE  /\ FramesOK' /\ StackType' /\ PoppedTo(t, After(t, result))
         /\ Same(After(t, result), stack[t][2])
         /\ After(t, result).pc = IF result # "SUCCESS" THEN "end"
                                  ELSE IF stack[t][2].pc = "read" THEN "keepalive" ELSE "wait"
<1> DEFINE g == stack[t][2]
           pc == IF result # "SUCCESS" THEN "end" ELSE IF g.pc = "read" THEN "keepalive" ELSE "wait"
<1>1. /\ Len(stack[t]) # 1 /\ g \in Frames /\ FrameOK(app, g)
      /\ \/ g.pc = "wait" /\ g.op \in Waiting \union {"connect"}
         \/ g.pc = "read" /\ g.op = "yield"
  BY DeliveryCalled
<1>2. StackType /\ Len(stack[t]) > 1
  BY <1>1, FirstFrame DEF TypeInv
<1>3. pc \in PcsOf(g.op)
  BY <1>1 DEF PcsOf, Waiting
<1>4. After(t, result) = [g EXCEPT !.pc = pc]
  BY <1>1 DEF After
<1> HIDE DEF pc, g
<1>5. /\ After(t, result) \in Frames /\ Same(After(t, result), g) /\ After(t, result).pc = pc
      /\ After(t, result).slot = g.slot /\ After(t, result).op = g.op
  BY <1>1, <1>3, <1>4, NextFrame
<1>6. SlotChosen(After(t, result))
  BY <1>1, <1>5 DEF SlotChosen, FrameOK, pc
<1>7. PoppedTo(t, After(t, result))
  BY <1>2, <1>5, ReadDoneMove DEF After, g
<1> QED
  BY <1>2, <1>3, <1>5, <1>6, <1>7, PoppedToFrames DEF PoppedTo, StackType, g, pc

-----------------------------------------------------------------------------
(* The state of the client as a lock.                                      *)

\* While f runs it takes the state for StateOf(f).  A handler that runs, a call that has not
\* got the state yet, and one whose read failed, do not.
Relies(f) ==
  \/ f.pc \in {"tls", "serialize", "send", "wait", "loop", "read", "keepalive", "ping", "disconnect",
               "disconnected", "reconnected", "check", "enter", "puback"}
  \/ f.op = "publish0" /\ f.pc = "end"
  \/ f.op = "connect" /\ f.pc = "cas"
StateOf(f) ==
  CASE f.op \in Deliveries                -> f.old
    [] f.op = "connect" /\ f.pc = "cas"   -> f.old
    [] f.op = "yield" /\ f.pc = "disconnected" -> "DISCONNECTED_MANUALLY"
    [] OTHER                              -> InProgress(f.op)
Relying(t) == Running(t) /\ Relies(Top(t))
\* No thread but t relies on the state.
Clear(t) == \A u \in Threads \ {t} : ~Relying(u)
MutexInv ==
  Quiet(app) =>
    /\ clientState # "PENDING_RECONNECT"
    /\ \A t \in Threads : Relying(t) => Clear(t) /\ clientState = StateOf(Top(t))

\* The state of a client used by one thread, wherever that thread is.
Settled == Closed \union {"INVALID", "IDLE"}
YieldStates(f, result) ==
  CASE f.pc = "cas"          -> {f.old} \intersect {"IDLE"}
    [] f.pc = "loop"         -> {"YIELD", "PENDING_RECONNECT"}
    [] f.pc \in {"read", "keepalive", "ping", "disconnect"} -> {"YIELD", "IDLE"}
    [] f.pc = "reconnected"  -> {"IDLE", "PENDING_RECONNECT"}
    [] f.pc = "check"        -> {"IDLE", "PENDING_RECONNECT"} \union
                                (IF result \in {"DISCONNECTED", "ATTEMPTING_RECONNECT"} THEN {} ELSE {"YIELD"})
    [] f.pc = "end"          -> Settled \union (IF result = "READ_FAILED" THEN {"YIELD"} ELSE {})
    [] OTHER                 -> Settled
StateAt(f, result) ==
  IF f.op \in Deliveries THEN (IF f.pc = "handler" THEN {"WAIT_FOR_CB_RETURN"} ELSE {f.old})
  ELSE IF f.op = "yield" THEN YieldStates(f, result)
  ELSE IF f.op = "reconnect" THEN (IF f.pc = "resubscribed" THEN {"IDLE"} ELSE Settled)
  ELSE IF f.pc = "cas" THEN {f.old} ELSE {InProgress(f.op)}
\* While yield reconnects.
ReconnectStates(pc) ==
  CASE pc = "start"     -> {"PENDING_RECONNECT"}
    [] pc = "connected" -> {"IDLE", "DISCONNECTED_ERROR", "PENDING_RECONNECT"}
    [] OTHER            -> {"IDLE"}
SettledInv ==
  Single(app) =>
    /\ Running("main") => clientState \in StateAt(Top("main"), rc["main"])
    /\ ~Running("main") => clientState \in Settled
    /\ Running("main") /\ Top("main").op = "reconnect" /\ Len(stack["main"]) > 1
         /\ stack["main"][2].pc = "reconnected" => clientState \in ReconnectStates(Top("main").pc)

\* With one thread the other never runs.
LEMMA WorkerIdle ==
  ASSUME TypeInv, FramesOK, Single(app)
  PROVE  ~Running("worker") /\ stack["worker"] = <<>>
<1>1. SUFFICES ASSUME Running("worker") PROVE FALSE
  BY DEF Running
<1>2. "worker" \in Threads
  BY DEF Threads
<1>3. Len(stack["worker"]) \in Nat /\ Len(stack["worker"]) > 0
  BY <1>1, <1>2, RunningLen DEF TypeInv
<1>4. BottomOK(app, "worker", stack["worker"][Len(stack["worker"])])
  BY <1>2, <1>3 DEF FramesOK
<1>5. Own(app, "worker") = {}
  BY <1>2, OwnOps DEF Single, TypeInv
<1> QED
  BY <1>4, <1>5 DEF BottomOK

LEMMA QuietIs == Quiet(app) <=> ~app.auto /\ ~app.reconnects /\ Apart
BY DEF Quiet, Apart

LEMMA FrameIs ==
  ASSUME TypeInv, NEW op \in Ops, NEW pc \in {"cas", "enter", "start", "loop"}, NEW topic \in Topics \union {None}
  PROVE  /\ Frame(op, pc, topic) \in Frames
         /\ Frame(op, pc, topic).op = op /\ Frame(op, pc, topic).pc = pc
         /\ Frame(op, pc, topic).old = clientState /\ Frame(op, pc, topic).topic = topic
         /\ SlotChosen(Frame(op, pc, topic))
BY DEF Frame, Frames, TypeInv, Ops, Deliveries, Requests, SlotChosen

CasPc(op) == CASE op = "yield" -> "loop" [] op = "connect" -> "tls" [] OTHER -> "serialize"
LEMMA CasMove ==
  ASSUME TypeInv, FramesOK, NEW t \in Threads, Cas(t)
  PROVE  /\ FramesOK' /\ StackType'
         /\ Top(t).op \in Requests \union {"connect", "resubscribe", "yield"}
         /\ \/ Granted(Top(t)) /\ Replaced(t, NextPc(t, CasPc(Top(t).op)))
            \/ ~Granted(Top(t)) /\ Popped(t)
<1>1. Running(t) /\ UNCHANGED app /\ Top(t).pc = "cas" /\ Top(t).op \in Requests \union {"connect", "resubscribe", "yield"}
  BY FirstFrame, OpAt DEF Cas, At, rest, TypeInv
<1>2. Top(t) \in Frames
  BY <1>1, FirstFrame DEF TypeInv
<1>3. CASE Granted(Top(t)) /\ Goto(t, CasPc(Top(t).op))
  <2>1. CasPc(Top(t).op) \in PcsOf(Top(t).op) /\ CasPc(Top(t).op) \notin {"send", "wait"}
    BY <1>1 DEF CasPc, PcsOf, Requests, Waiting
  <2>2. SlotChosen(NextPc(t, CasPc(Top(t).op)))
    BY <1>2, <2>1, NextFrame DEF SlotChosen, NextPc
  <2> QED
    BY <1>1, <1>3, <2>1, <2>2, GotoFrames
<1>4. CASE ~Granted(Top(t)) /\ \E result : Return(t, result)
  BY <1>1, <1>4, ReturnFrames
<1> QED
  BY <1>1, <1>3, <1>4 DEF Cas, CasPc

LEMMA TlsMove ==
  ASSUME TypeInv, FramesOK, NEW t \in Threads, TlsConnect(t)
  PROVE  /\ FramesOK' /\ StackType'
         /\ Top(t).op = "connect"
         /\ \/ Replaced(t, NextPc(t, "serialize"))
            \/ Replaced(t, NextPc(t, "end")) /\ rc' = [rc EXCEPT ![t] = "TLS_ERROR"]
<1>1. Running(t) /\ UNCHANGED app /\ Top(t).op = "connect" /\ Top(t) \in Frames
  BY FirstFrame, OpAt DEF TlsConnect, At, rest, TypeInv
<1>2. ASSUME NEW pc \in {"serialize", "end"}, Goto(t, pc)
      PROVE  FramesOK' /\ StackType' /\ Replaced(t, NextPc(t, pc))
  <2>1. pc \in PcsOf(Top(t).op)
    BY <1>1 DEF PcsOf, Waiting
  <2>2. SlotChosen(NextPc(t, pc))
    BY <1>1, <2>1, NextFrame DEF SlotChosen, NextPc
  <2> QED
    BY <1>1, <1>2, <2>1, <2>2, GotoFrames
<1> QED
  BY <1>1, <1>2 DEF TlsConnect, Result

LEMMA MinIs ==
  ASSUME NEW set \in SUBSET Nat, set # {}
  PROVE  Min(set) \in set /\ \A y \in set : Min(set) <= y
<1>1. PICK x \in set : \A y \in set : ~(<<y, x>> \in OpToRel(<, Nat))
  BY NatLessThanWellFounded, WFMin, Zenon
<1>2. ASSUME NEW y \in set PROVE x <= y
  <2>1. x \in Nat /\ y \in Nat /\ <<y, x>> \in Nat \X Nat
    OBVIOUS
  <2>2. ~(y < x)
    BY <1>1, <2>1 DEF OpToRel
  <2> QED
    BY <2>1, <2>2
<1> QED
  BY <1>2 DEF Min

FirstFree(h) == Min({NumHandlers + 1} \union {i \in 1..NumHandlers : h[i] = None})
LEMMA FirstFreeIs ==
  ASSUME NEW h
  PROVE  /\ FirstFree(h) \in 1..NumHandlers + 1
         /\ FirstFree(h) <= NumHandlers => h[FirstFree(h)] = None
         /\ \A k \in 1..NumHandlers : k < FirstFree(h) => h[k] # None
<1> DEFINE set == {NumHandlers + 1} \union {i \in 1..NumHandlers : h[i] = None}
<1>1. set \subseteq Nat /\ NumHandlers + 1 \in set /\ set # {}
  BY ClientAssumption
<1>2. FirstFree(h) \in set /\ \A y \in set : FirstFree(h) <= y
  <2> HIDE DEF set
  <2>1. Min(set) \in set /\ \A y \in set : Min(set) <= y
    BY <1>1, MinIs
  <2> QED
    BY <2>1 DEF FirstFree, set
<1>3. ASSUME NEW k \in 1..NumHandlers, k < FirstFree(h) PROVE h[k] # None
  <2>1. FirstFree(h) \in Nat
    BY <1>1, <1>2
  <2>2. ~(FirstFree(h) <= k)
    BY <1>3, <2>1
  <2> QED
    BY <1>2, <2>2
<1> QED
  BY <1>2, <1>3, ClientAssumption

LEMMA FreeSlotIs ==
  /\ FreeSlot \in 1..NumHandlers + 1
  /\ FreeSlot <= NumHandlers => handlers[FreeSlot] = None
  /\ \A k \in 1..NumHandlers : k < FreeSlot => handlers[k] # None
BY FirstFreeIs DEF FreeSlot, FirstFree

\* What is left to subscribe to again.
LEMMA ToSubscribeIs ==
  ASSUME NEW f \in Frames
  PROVE  /\ Count(f) \in 0..NumHandlers
         /\ ~AllSubscribed(f) => /\ Min(ToSubscribe(f)) \in (f.slot + 1)..Count(f)
                                 /\ handlers[Min(ToSubscribe(f))] # None
                                 /\ \A k \in (f.slot + 1)..Count(f) : handlers[k] # None => Min(ToSubscribe(f)) <= k
<1>1. f.slot \in 0..NumHandlers /\ f.count \in 0..NumHandlers
  BY FrameFields
<1>2. Count(f) \in 0..NumHandlers
  BY <1>1, FreeSlotIs, ClientAssumption DEF Count
<1>3. ASSUME ~AllSubscribed(f)
      PROVE  Min(ToSubscribe(f)) \in ToSubscribe(f) /\ \A y \in ToSubscribe(f) : Min(ToSubscribe(f)) <= y
  <2>1. ToSubscribe(f) \in SUBSET Nat /\ ToSubscribe(f) # {}
    BY <1>1, <1>2, <1>3 DEF ToSubscribe, AllSubscribed
  <2> QED
    BY <2>1, MinIs
<1> QED
  BY <1>2, <1>3 DEF ToSubscribe

SentSlot(f) ==
  CASE f.op = "subscribe" -> FreeSlot [] f.op = "resubscribe" -> Min(ToSubscribe(f)) [] OTHER -> f.slot
SentCount(f) == IF f.op = "resubscribe" THEN Count(f) ELSE f.count
Fails(f) == (f.op = "subscribe" /\ NoSlot) \/ (f.op = "unsubscribe" /\ f.topic \notin Handled)
Done(f) == f.op = "resubscribe" /\ AllSubscribed(f)
SendFrame(f) == [f EXCEPT !.pc = "send", !.slot = SentSlot(f), !.count = SentCount(f)]
LEMMA SendFrameIs ==
  ASSUME NEW f \in Frames, SentSlot(f) \in 0..NumHandlers, SentCount(f) \in 0..NumHandlers
  PROVE  /\ SendFrame(f) \in Frames /\ Same(SendFrame(f), f) /\ SendFrame(f).pc = "send"
         /\ SendFrame(f).slot = SentSlot(f) /\ SendFrame(f).count = SentCount(f)
         /\ SendFrame(f).op = f.op /\ SendFrame(f).old = f.old /\ SendFrame(f).topic = f.topic
<1> DEFINE slot == SentSlot(f)
           count == SentCount(f)
<1> HIDE DEF slot, count
<1>1. /\ SendFrame(f) = [f EXCEPT !.pc = "send", !.slot = slot, !.count = count]
      /\ slot \in 0..NumHandlers /\ count \in 0..NumHandlers
  BY DEF SendFrame, slot, count
<1>2. [f EXCEPT !.pc = "send", !.slot = slot, !.count = count] \in Frames
  BY <1>1 DEF Frames
<1>3. SendFrame(f).slot = slot /\ slot = SentSlot(f) /\ SendFrame(f).count = count /\ count = SentCount(f)
  BY <1>1 DEF Frames, slot, count
<1> QED
  BY <1>1, <1>2, <1>3 DEF Frames, Same

LEMMA SerializeMove ==
  ASSUME TypeInv, FramesOK, NEW t \in Threads, Serialize(t)
  PROVE  /\ FramesOK' /\ StackType'
         /\ Top(t).op \in Requests \union {"connect", "resubscribe"}
         /\ \/ /\ Fails(Top(t)) /\ Replaced(t, NextPc(t, "end")) /\ rc' = [rc EXCEPT ![t] = "FAILURE"]
            \/ /\ Done(Top(t)) /\ Replaced(t, NextPc(t, "end")) /\ rc' = [rc EXCEPT ![t] = "SUCCESS"]
            \/ /\ ~Fails(Top(t)) /\ ~Done(Top(t)) /\ Replaced(t, SendFrame(Top(t))) /\ UNCHANGED rc
               /\ SentSlot(Top(t)) \in 0..NumHandlers /\ SentCount(Top(t)) \in 0..NumHandlers
               /\ SendFrame(Top(t)) \in Frames
               /\ Top(t).op \in {"subscribe", "resubscribe"} => SentSlot(Top(t)) \in 1..NumHandlers
<1> DEFINE f == Top(t)
<1>1. /\ Running(t) /\ UNCHANGED app /\ f.op \in Requests \union {"connect", "resubscribe"}
      /\ f \in Frames /\ StackType /\ f = stack[t][1]
  BY FirstFrame, OpAt DEF Serialize, At, rest, TypeInv
<1>2. ASSUME Goto(t, "end")
      PROVE  FramesOK' /\ StackType' /\ Replaced(t, NextPc(t, "end"))
  <2>1. "end" \in PcsOf(f.op)
    BY <1>1 DEF PcsOf, Waiting, Requests
  <2>2. SlotChosen(NextPc(t, "end"))
    BY <1>1, <2>1, NextFrame DEF SlotChosen, NextPc
  <2> QED
    BY <1>1, <1>2, <2>1, <2>2, GotoFrames
<1>3. CASE Fails(f) /\ Result(t, "end", "FAILURE")
  BY <1>1, <1>2, <1>3 DEF Result
<1>4. CASE Done(f) /\ Result(t, "end", "SUCCESS")
  BY <1>1, <1>2, <1>4 DEF Result
<1>5. CASE /\ ~Fails(f) /\ ~Done(f) /\ UNCHANGED rc
           /\ stack' = [stack EXCEPT ![t][1] =
                [f EXCEPT !.pc = "send",
                          !.slot = CASE f.op = "subscribe" -> FreeSlot
                                     [] f.op = "resubscribe" -> Min(ToSubscribe(f))
                                     [] OTHER -> f.slot,
                          !.count = IF f.op = "resubscribe" THEN Count(f) ELSE f.count]]
  <2>1. f.slot \in 0..NumHandlers /\ f.op \in Ops
    BY <1>1, FrameFields
  <2>2. f.op = "subscribe" => FreeSlot \in 1..NumHandlers
    BY <1>5, FreeSlotIs, ClientAssumption DEF Fails, NoSlot
  <2>3. f.op = "resubscribe" => Min(ToSubscribe(f)) \in 1..NumHandlers
    BY <1>1, <1>5, <2>1, ToSubscribeIs, ClientAssumption DEF Done
  <2>10. SentCount(f) \in 0..NumHandlers
    BY <1>1, ToSubscribeIs, FrameFields DEF SentCount
  <2>4. SentSlot(f) \in 0..NumHandlers /\ (f.op \in {"subscribe", "resubscribe"} => SentSlot(f) \in 1..NumHandlers)
    BY <2>1, <2>2, <2>3 DEF SentSlot
  <2>5. stack' = [stack EXCEPT ![t] = [@ EXCEPT ![1] = SendFrame(f)]]
    BY <1>1, <1>5 DEF SendFrame, SentSlot, SentCount
  <2>6. /\ SendFrame(f) \in Frames /\ Same(SendFrame(f), f) /\ SendFrame(f).pc = "send"
        /\ SendFrame(f).slot = SentSlot(f) /\ SendFrame(f).op = f.op
    BY <1>1, <2>4, <2>10, SendFrameIs
  <2>7. Replaced(t, SendFrame(f))
    BY <1>1, <2>5, <2>6, ReplacedMove
  <2>8. SendFrame(f).pc \in PcsOf(SendFrame(f).op) /\ SlotChosen(SendFrame(f))
    BY <1>1, <2>4, <2>6 DEF PcsOf, Waiting, Requests, SlotChosen
  <2>9. FramesOK' /\ StackType'
    BY <1>1, <2>6, <2>7, <2>8, ReplacedFrames DEF Replaced, StackType
  <2> QED
    BY <1>1, <1>5, <2>4, <2>10, <2>6, <2>7, <2>9
<1> QED
  BY <1>1, <1>3, <1>4, <1>5 DEF Serialize, Fails, Done

LEMMA GotoStep ==
  ASSUME TypeInv, FramesOK, NEW t \in Threads, Running(t), NEW pc, Goto(t, pc), UNCHANGED app,
         pc \in PcsOf(Top(t).op), Top(t).op = "subscribe" /\ pc = "wait" => Top(t).pc \in {"send", "wait"},
         Top(t).op # "subscribe" \/ pc # "send"
  PROVE  FramesOK' /\ StackType' /\ Replaced(t, NextPc(t, pc))
<1>1. Top(t) \in Frames /\ FrameOK(app, Top(t))
  BY FirstFrame DEF TypeInv
<1>2. /\ NextPc(t, pc).pc = pc /\ NextPc(t, pc).op = Top(t).op /\ NextPc(t, pc).slot = Top(t).slot
  BY <1>1, NextFrame DEF NextPc
<1>3. SlotChosen(NextPc(t, pc))
  BY <1>1, <1>2 DEF SlotChosen, FrameOK
<1> QED
  BY <1>3, GotoFrames

LEMMA SendMove ==
  ASSUME TypeInv, FramesOK, NEW t \in Threads, SendPacket(t)
  PROVE  /\ FramesOK' /\ StackType'
         /\ \/ /\ Same(After(t, "SUCCESS"), stack[t][2])
               /\ Top(t).op = "deliver1" /\ PoppedTo(t, After(t, "SUCCESS")) /\ rc' = [rc EXCEPT ![t] = "SUCCESS"]
               /\ After(t, "SUCCESS").pc = (IF stack[t][2].pc = "read" THEN "keepalive" ELSE "wait")
            \/ Top(t).op = "publish0" /\ Replaced(t, NextPc(t, "end")) /\ rc' = [rc EXCEPT ![t] = "SUCCESS"]
            \/ Top(t).op \in Waiting \union {"connect"} /\ Replaced(t, NextPc(t, "wait")) /\ UNCHANGED rc
<1>1. /\ Running(t) /\ UNCHANGED app /\ Top(t).op \in Requests \union {"connect", "resubscribe", "deliver1"}
      /\ Top(t).pc = "send"
  BY FirstFrame, OpAt DEF SendPacket, At, rest, TypeInv
<1>2. CASE Top(t).op = "deliver1"
  <2>1. ReadDone(t, "SUCCESS")
    BY <1>2 DEF SendPacket
  <2> QED
    BY <1>1, <1>2, <2>1, ReadDoneFrames DEF Deliveries, ReadDone
<1>3. CASE Top(t).op = "publish0"
  <2>1. Goto(t, "end") /\ rc' = [rc EXCEPT ![t] = "SUCCESS"]
    BY <1>3 DEF SendPacket, Result
  <2>2. "end" \in PcsOf(Top(t).op)
    BY <1>3 DEF PcsOf
  <2> QED
    BY <1>1, <1>3, <2>1, <2>2, GotoStep
<1>4. CASE Top(t).op \notin {"deliver1", "publish0"}
  <2>1. Goto(t, "wait") /\ UNCHANGED rc
    BY <1>4 DEF SendPacket
  <2>2. Top(t).op \in Waiting \union {"connect"} /\ "wait" \in PcsOf(Top(t).op)
    BY <1>1, <1>4 DEF PcsOf, Waiting, Requests
  <2> QED
    BY <1>1, <1>4, <2>1, <2>2, GotoStep
<1> QED
  BY <1>2, <1>3, <1>4

LEMMA WaitTimeoutMove ==
  ASSUME TypeInv, FramesOK, NEW t \in Threads, WaitTimeout(t)
  PROVE  /\ FramesOK' /\ StackType'
         /\ Top(t).op \in Waiting \union {"connect"}
         /\ Replaced(t, NextPc(t, "end")) /\ rc' = [rc EXCEPT ![t] = "TIMEOUT"]
<1>1. /\ Running(t) /\ UNCHANGED app /\ Top(t).op \in Waiting \union {"connect"}
  BY FirstFrame, OpAt DEF WaitTimeout, At, TypeInv
<1>2. Goto(t, "end") /\ rc' = [rc EXCEPT ![t] = "TIMEOUT"]
  BY DEF WaitTimeout, Result
<1>3. "end" \in PcsOf(Top(t).op)
  BY <1>1 DEF PcsOf, Waiting
<1> QED
  BY <1>1, <1>2, <1>3, GotoStep

LEMMA ReadsAt ==
  ASSUME TypeInv, FramesOK, NEW t \in Threads, At(t, "wait") \/ At(t, "read")
  PROVE  /\ Running(t) /\ Relying(t)
         /\ \/ Top(t).pc = "wait" /\ Top(t).op \in Waiting \union {"connect"}
            \/ Top(t).pc = "read" /\ Top(t).op = "yield"
         /\ StateOf(Top(t)) = InProgress(Top(t).op)
<1>1. /\ Running(t) /\ Relying(t)
      /\ \/ Top(t).pc = "wait" /\ Top(t).op \in Waiting \union {"connect"}
         \/ Top(t).pc = "read" /\ Top(t).op = "yield"
  BY FirstFrame, OpAt DEF At, TypeInv, Relying, Relies
<1> QED
  BY <1>1 DEF StateOf, Waiting, Deliveries

LEMMA ReadMove ==
  ASSUME TypeInv, FramesOK, MutexInv, SettledInv, NEW t \in Threads, Read(t)
  PROVE  /\ FramesOK' /\ StackType'
         /\ \/ /\ \E op \in Deliveries, topic \in Topics : Pushed(t, Frame(op, "enter", topic), NextPc(t, Top(t).pc))
               /\ UNCHANGED <<rc, handlers>>
            \/ /\ Top(t).pc = "wait" /\ Acknowledged(t, Head(inbox))
               /\ Replaced(t, NextPc(t, IF Top(t).op = "resubscribe" THEN "serialize" ELSE "end"))
            \/ /\ Replaced(t, NextPc(t, IF Top(t).pc = "read" THEN "keepalive" ELSE "wait"))
               /\ UNCHANGED <<rc, handlers>>
<1> DEFINE p == Head(inbox)
           next == IF At(t, "read") THEN "keepalive" ELSE "wait"
<1>1. At(t, "wait") \/ At(t, "read")
  BY DEF Read
<1>2. /\ Running(t) /\ UNCHANGED app
      /\ \/ Top(t).pc = "wait" /\ Top(t).op \in Waiting \union {"connect"}
         \/ Top(t).pc = "read" /\ Top(t).op = "yield"
  BY <1>1, ReadsAt DEF Read, rest
<1>3. p \in Packets
  <2>1. inbox \in Seq(Packets) /\ inbox # <<>>
    BY DEF Read, TypeInv
  <2> QED
    BY <2>1, HeadTailProperties
<1>4. Top(t).pc \in PcsOf(Top(t).op) /\ Top(t) \in Frames
  BY <1>2, FirstFrame DEF TypeInv
<1>5. CASE /\ p.type \in {"PUBLISH0", "PUBLISH1"}
           /\ Call(t, Top(t).pc, Frame(IF p.type = "PUBLISH1" THEN "deliver1" ELSE "deliver0", "enter", p.topic))
           /\ UNCHANGED <<rc, handlers, ping>>
  <2>1. PICK op \in Deliveries : Call(t, Top(t).pc, Frame(op, "enter", p.topic))
    BY <1>5 DEF Deliveries
  <2>2. p.topic \in Topics
    BY <1>3, <1>5 DEF Packets, Acks
  <2>3. /\ Frame(op, "enter", p.topic) \in Frames /\ Frame(op, "enter", p.topic).op = op
        /\ Frame(op, "enter", p.topic).pc = "enter" /\ Frame(op, "enter", p.topic).old = clientState
        /\ SlotChosen(Frame(op, "enter", p.topic))
    BY <2>2, FrameIs DEF Ops
  <2>4. FrameOK(app, Frame(op, "enter", p.topic))
    BY <2>3 DEF FrameOK, Deliveries, PcsOf, Requests, Waiting
  <2>5. Quiet(app) => clientState = InProgress(Top(t).op)
    BY <1>1, ReadsAt DEF MutexInv
  <2>6. NextPc(t, Top(t).pc).op = Top(t).op /\ NextPc(t, Top(t).pc).pc = Top(t).pc
    BY <1>4, NextFrame DEF NextPc
  <2>9. Single(app) => clientState \in ReadStates(Top(t).op)
    <3>1. Single(app) => t = "main"
      BY <1>2, WorkerIdle DEF Threads
    <3> QED
      BY <1>2, <3>1 DEF SettledInv, StateAt, YieldStates, ReadStates, Deliveries, Waiting
  <2>7. CalledOK(app, Frame(op, "enter", p.topic), NextPc(t, Top(t).pc))
    BY <1>2, <2>3, <2>5, <2>6, <2>9 DEF CalledOK, Within, Requests, Deliveries
  <2>8. FramesOK' /\ StackType' /\ Pushed(t, Frame(op, "enter", p.topic), NextPc(t, Top(t).pc))
    BY <1>2, <1>4, <2>1, <2>3, <2>4, <2>7, CallFrames
  <2> QED
    BY <1>5, <2>2, <2>8
<1>6. CASE At(t, "wait") /\ p.type = Awaited(t) /\ Acknowledged(t, p)
  <2>1. Goto(t, IF Top(t).op = "resubscribe" THEN "serialize" ELSE "end")
    BY <1>6 DEF Acknowledged, Result
  <2>2. (IF Top(t).op = "resubscribe" THEN "serialize" ELSE "end") \in PcsOf(Top(t).op)
    BY <1>2 DEF PcsOf, Waiting
  <2>3. FramesOK' /\ StackType' /\ Replaced(t, NextPc(t, IF Top(t).op = "resubscribe" THEN "serialize" ELSE "end"))
    BY <1>2, <2>1, <2>2, GotoStep
  <2> QED
    BY <1>6, <2>3 DEF At
<1>7. CASE Goto(t, next) /\ UNCHANGED <<rc, handlers>>
  <2>1. next = (IF Top(t).pc = "read" THEN "keepalive" ELSE "wait") /\ next \in PcsOf(Top(t).op)
    BY <1>2 DEF PcsOf, Waiting, At
  <2>2. next = "wait" => Top(t).pc = "wait"
    BY <1>2, <2>1
  <2>3. next # "send"
    OBVIOUS
  <2> HIDE DEF next
  <2>4. FramesOK' /\ StackType' /\ Replaced(t, NextPc(t, next))
    BY <1>2, <1>7, <2>1, <2>2, <2>3, GotoStep
  <2> QED
    BY <1>7, <2>1, <2>4
<1> QED
  BY <1>5, <1>6, <1>7 DEF Read

LEMMA ReadErrorMove ==
  ASSUME TypeInv, FramesOK, NEW t \in Threads, ReadError(t)
  PROVE  /\ FramesOK' /\ StackType'
         /\ \/ Top(t).pc = "wait" /\ Replaced(t, NextPc(t, "end")) /\ rc' = [rc EXCEPT ![t] = "READ_ERROR"]
            \/ Top(t).pc = "read" /\ Replaced(t, NextPc(t, "disconnect")) /\ UNCHANGED rc
<1>1. /\ Running(t) /\ UNCHANGED app
      /\ \/ Top(t).pc = "wait" /\ Top(t).op \in Waiting \union {"connect"}
         \/ Top(t).pc = "read" /\ Top(t).op = "yield"
  BY ReadsAt DEF ReadError, rest
<1>2. CASE Top(t).pc = "wait"
  <2>1. Goto(t, "end") /\ rc' = [rc EXCEPT ![t] = "READ_ERROR"]
    BY <1>1, <1>2 DEF ReadError, Result, At
  <2>2. "end" \in PcsOf(Top(t).op)
    BY <1>1, <1>2 DEF PcsOf, Waiting
  <2> QED
    BY <1>1, <1>2, <2>1, <2>2, GotoStep
<1>3. CASE Top(t).pc = "read"
  <2>1. Goto(t, "disconnect") /\ UNCHANGED rc
    BY <1>1, <1>3 DEF ReadError, At
  <2>2. "disconnect" \in PcsOf(Top(t).op)
    BY <1>1, <1>3 DEF PcsOf, Waiting
  <2> QED
    BY <1>1, <1>3, <2>1, <2>2, GotoStep
<1> QED
  BY <1>1, <1>2, <1>3

LEMMA ReadFailsMove ==
  ASSUME TypeInv, FramesOK, NEW t \in Threads, ReadFails(t)
  PROVE  /\ FramesOK' /\ StackType'
         /\ Top(t).op \in Waiting \union {"connect", "yield"} /\ Top(t).pc \in {"wait", "read"}
         /\ Replaced(t, NextPc(t, "end")) /\ rc' = [rc EXCEPT ![t] = "READ_FAILED"]
<1>1. Running(t) /\ UNCHANGED app /\ Top(t).op \in Waiting \union {"connect", "yield"} /\ Top(t).pc \in {"wait", "read"}
  BY ReadsAt DEF ReadFails
<1>2. Goto(t, "end") /\ rc' = [rc EXCEPT ![t] = "READ_FAILED"]
  BY DEF ReadFails, Result
<1>3. "end" \in PcsOf(Top(t).op)
  BY <1>1 DEF PcsOf, Waiting
<1> QED
  BY <1>1, <1>2, <1>3, GotoStep

LEMMA DeliverMove ==
  ASSUME TypeInv, FramesOK, NEW t \in Threads, Deliver(t)
  PROVE  FramesOK' /\ StackType' /\ Top(t).op \in Deliveries /\ Replaced(t, NextPc(t, "handler"))
<1>1. Running(t) /\ UNCHANGED app /\ Top(t).op \in Deliveries /\ Goto(t, "handler")
  BY FirstFrame, OpAt DEF Deliver, At, rest, TypeInv
<1>2. "handler" \in PcsOf(Top(t).op)
  BY <1>1 DEF PcsOf, Deliveries, Waiting
<1> QED
  BY <1>1, <1>2, GotoStep

LEMMA HandlersReturnMove ==
  ASSUME TypeInv, FramesOK, NEW t \in Threads, HandlersReturn(t)
  PROVE  /\ FramesOK' /\ StackType' /\ Top(t).op \in Deliveries
         /\ \/ /\ clientState # "WAIT_FOR_CB_RETURN" /\ After(t, "UNEXPECTED_STATE").pc = "end"
               /\ Same(After(t, "UNEXPECTED_STATE"), stack[t][2])
               /\ PoppedTo(t, After(t, "UNEXPECTED_STATE")) /\ rc' = [rc EXCEPT ![t] = "UNEXPECTED_STATE"]
            \/ /\ clientState = "WAIT_FOR_CB_RETURN" /\ Top(t).op = "deliver0"
               /\ Same(After(t, "SUCCESS"), stack[t][2])
               /\ PoppedTo(t, After(t, "SUCCESS")) /\ rc' = [rc EXCEPT ![t] = "SUCCESS"]
               /\ After(t, "SUCCESS").pc = (IF stack[t][2].pc = "read" THEN "keepalive" ELSE "wait")
            \/ /\ clientState = "WAIT_FOR_CB_RETURN" /\ Top(t).op = "deliver1"
               /\ Replaced(t, NextPc(t, "puback")) /\ UNCHANGED rc
<1>1. Running(t) /\ UNCHANGED app /\ Top(t).op \in Deliveries
  BY FirstFrame, OpAt DEF HandlersReturn, At, rest, TypeInv
<1>4. CASE ReadDone(t, "UNEXPECTED_STATE") /\ clientState # "WAIT_FOR_CB_RETURN"
  <2>1. /\ FramesOK' /\ StackType' /\ PoppedTo(t, After(t, "UNEXPECTED_STATE"))
        /\ Same(After(t, "UNEXPECTED_STATE"), stack[t][2])
        /\ After(t, "UNEXPECTED_STATE").pc = IF "UNEXPECTED_STATE" # "SUCCESS" THEN "end"
                                    ELSE IF stack[t][2].pc = "read" THEN "keepalive" ELSE "wait"
    BY <1>1, <1>4, ReadDoneFrames
  <2>2. rc' = [rc EXCEPT ![t] = "UNEXPECTED_STATE"]
    BY <1>4 DEF ReadDone
  <2> QED
    BY <1>1, <1>4, <2>1, <2>2
<1>5. CASE ReadDone(t, "SUCCESS") /\ clientState = "WAIT_FOR_CB_RETURN" /\ Top(t).op = "deliver0"
  <2>1. /\ FramesOK' /\ StackType' /\ PoppedTo(t, After(t, "SUCCESS"))
        /\ Same(After(t, "SUCCESS"), stack[t][2])
        /\ After(t, "SUCCESS").pc = IF "SUCCESS" # "SUCCESS" THEN "end"
                                    ELSE IF stack[t][2].pc = "read" THEN "keepalive" ELSE "wait"
    BY <1>1, <1>5, ReadDoneFrames
  <2>2. rc' = [rc EXCEPT ![t] = "SUCCESS"]
    BY <1>5 DEF ReadDone
  <2> QED
    BY <1>1, <1>5, <2>1, <2>2
<1>6. CASE /\ Goto(t, "puback") /\ UNCHANGED rc
           /\ clientState = "WAIT_FOR_CB_RETURN" /\ Top(t).op = "deliver1"
  <2>1. "puback" \in PcsOf(Top(t).op)
    BY <1>6 DEF PcsOf, Waiting
  <2> QED
    BY <1>1, <1>6, <2>1, GotoStep
<1> QED
  BY <1>1, <1>4, <1>5, <1>6 DEF HandlersReturn, Deliveries

LEMMA PubackMove ==
  ASSUME TypeInv, FramesOK, NEW t \in Threads, SerializePuback(t)
  PROVE  FramesOK' /\ StackType' /\ Top(t).op = "deliver1" /\ Replaced(t, NextPc(t, "send"))
<1>1. Running(t) /\ UNCHANGED app /\ Top(t).op = "deliver1" /\ Goto(t, "send")
  BY FirstFrame, OpAt DEF SerializePuback, At, rest, TypeInv
<1>2. "send" \in PcsOf(Top(t).op)
  BY <1>1 DEF PcsOf, Waiting
<1> QED
  BY <1>1, <1>2, GotoStep

LEMMA EndCallMove ==
  ASSUME TypeInv, FramesOK, NEW t \in Threads, EndCall(t)
  PROVE  FramesOK' /\ StackType' /\ Popped(t) /\ Top(t).op \in Requests \union {"connect", "resubscribe"}
<1>1. Running(t) /\ UNCHANGED app /\ Top(t).op \in Requests \union {"connect", "resubscribe"}
  BY FirstFrame, OpAt DEF EndCall, At, TypeInv
<1> DEFINE result == IF rc[t] = "SUCCESS" /\ clientState # InProgress(Top(t).op) /\ Top(t).op # "connect"
                     THEN "UNEXPECTED_STATE" ELSE rc[t]
<1>2. Return(t, result)
  BY DEF EndCall
<1> HIDE DEF result
<1> QED
  BY <1>1, <1>2, ReturnFrames

LEMMA YieldLoopMove ==
  ASSUME TypeInv, FramesOK, MutexInv, NEW t \in Threads, YieldLoop(t)
  PROVE  /\ FramesOK' /\ StackType' /\ Top(t).op = "yield"
         /\ \/ clientState # "PENDING_RECONNECT" /\ Replaced(t, NextPc(t, "read")) /\ UNCHANGED rc
            \/ /\ clientState = "PENDING_RECONNECT"
               /\ \/ Replaced(t, NextPc(t, "end")) /\ rc' = [rc EXCEPT ![t] = "RECONNECT_TIMED_OUT"]
                  \/ Replaced(t, NextPc(t, "check")) /\ rc' = [rc EXCEPT ![t] = "ATTEMPTING_RECONNECT"]
                  \/ /\ Pushed(t, Frame("reconnect", "start", None), NextPc(t, "reconnected")) /\ UNCHANGED rc
                     /\ ~(reconnect.wait > MaxWait)
<1>1. Running(t) /\ UNCHANGED app /\ Top(t).op = "yield" /\ Top(t) \in Frames
  BY FirstFrame, OpAt DEF YieldLoop, At, rest, TypeInv
<1>2. ASSUME NEW pc \in {"read", "end", "check"}, Goto(t, pc)
      PROVE  FramesOK' /\ StackType' /\ Replaced(t, NextPc(t, pc))
  <2>1. pc \in PcsOf(Top(t).op) /\ pc \notin {"wait", "send"}
    BY <1>1 DEF PcsOf, Waiting
  <2> QED
    BY <1>1, <1>2, <2>1, GotoStep
<1>3. CASE clientState # "PENDING_RECONNECT"
  BY <1>1, <1>2, <1>3 DEF YieldLoop
<1>4. CASE clientState = "PENDING_RECONNECT" /\ reconnect.wait > MaxWait
  BY <1>1, <1>2, <1>4 DEF YieldLoop, Result
<1>5. CASE clientState = "PENDING_RECONNECT" /\ ~(reconnect.wait > MaxWait) /\ ~reconnect.due
  BY <1>1, <1>2, <1>5 DEF YieldLoop, Result
<1>6. CASE clientState = "PENDING_RECONNECT" /\ ~(reconnect.wait > MaxWait) /\ reconnect.due
  <2>1. Call(t, "reconnected", Frame("reconnect", "start", None)) /\ UNCHANGED rc
    BY <1>6 DEF YieldLoop
  <2>2. ~Quiet(app)
    BY <1>6 DEF MutexInv
  <2>3. /\ Frame("reconnect", "start", None) \in Frames
        /\ Frame("reconnect", "start", None).op = "reconnect" /\ Frame("reconnect", "start", None).pc = "start"
        /\ SlotChosen(Frame("reconnect", "start", None))
    BY FrameIs DEF Ops
  <2>4. "reconnected" \in PcsOf(Top(t).op)
    BY <1>1 DEF PcsOf, Waiting
  <2>5. FrameOK(app, Frame("reconnect", "start", None))
    BY <2>2, <2>3 DEF FrameOK, PcsOf, Waiting, Requests
  <2>6. NextPc(t, "reconnected").pc = "reconnected" /\ NextPc(t, "reconnected").op = "yield"
    BY <1>1, <2>4, NextFrame DEF NextPc
  <2>7. CalledOK(app, Frame("reconnect", "start", None), NextPc(t, "reconnected"))
    BY <2>2, <2>3, <2>6 DEF CalledOK, Within, Requests, Deliveries
  <2> QED
    BY <1>1, <1>6, <2>1, <2>3, <2>4, <2>5, <2>7, CallFrames
<1> QED
  BY <1>3, <1>4, <1>5, <1>6

LEMMA KeepAliveMove ==
  ASSUME TypeInv, FramesOK, NEW t \in Threads, KeepAlive(t)
  PROVE  /\ FramesOK' /\ StackType' /\ Top(t).op = "yield" /\ Top(t).pc \in {"keepalive", "read"}
         /\ \/ Replaced(t, NextPc(t, "check")) /\ rc' = [rc EXCEPT ![t] = "SUCCESS"] /\ UNCHANGED writeBuf
            \/ Replaced(t, NextPc(t, "disconnect")) /\ UNCHANGED <<rc, writeBuf>>
            \/ Replaced(t, NextPc(t, "ping")) /\ writeBuf' = Serialized(t) /\ UNCHANGED rc
<1>1. Running(t) /\ UNCHANGED app /\ Top(t).op = "yield" /\ Top(t).pc \in {"keepalive", "read"}
  BY FirstFrame, OpAt DEF KeepAlive, At, rest, TypeInv
<1>2. ASSUME NEW pc \in {"disconnect", "ping", "check"}, Goto(t, pc)
      PROVE  FramesOK' /\ StackType' /\ Replaced(t, NextPc(t, pc))
  <2>1. pc \in PcsOf(Top(t).op) /\ pc \notin {"wait", "send"}
    BY <1>1 DEF PcsOf, Waiting
  <2> QED
    BY <1>1, <1>2, <2>1, GotoStep
<1> QED
  BY <1>1, <1>2 DEF KeepAlive, Result

LEMMA SendPingMove ==
  ASSUME TypeInv, FramesOK, NEW t \in Threads, SendPing(t)
  PROVE  /\ FramesOK' /\ StackType' /\ Top(t).op = "yield"
         /\ Replaced(t, NextPc(t, "check")) /\ rc' = [rc EXCEPT ![t] = "SUCCESS"]
<1>1. Running(t) /\ UNCHANGED app /\ Top(t).op = "yield" /\ Result(t, "check", "SUCCESS")
  BY FirstFrame, OpAt DEF SendPing, At, rest, TypeInv
<1>2. "check" \in PcsOf(Top(t).op)
  BY <1>1 DEF PcsOf, Waiting
<1> QED
  BY <1>1, <1>2, GotoStep DEF Result

LEMMA HandleDisconnectMove ==
  ASSUME TypeInv, FramesOK, NEW t \in Threads, HandleDisconnect(t)
  PROVE  /\ FramesOK' /\ StackType' /\ Top(t).op = "yield" /\ UNCHANGED rc
         /\ \/ /\ app.reconnects /\ ~Quiet(app)
               /\ Pushed(t, Frame("reconnect", "start", None), NextPc(t, "disconnected"))
            \/ ~app.reconnects /\ Replaced(t, NextPc(t, "disconnected"))
<1>1. Running(t) /\ UNCHANGED <<app, rc>> /\ Top(t).op = "yield" /\ Top(t) \in Frames
  BY FirstFrame, OpAt DEF HandleDisconnect, At, rest, TypeInv
<1>2. "disconnected" \in PcsOf(Top(t).op)
  BY <1>1 DEF PcsOf, Waiting
<1>3. CASE ~app.reconnects
  <2>1. Goto(t, "disconnected")
    BY <1>3 DEF HandleDisconnect
  <2> QED
    BY <1>1, <1>2, <1>3, <2>1, GotoStep
<1>4. CASE app.reconnects
  <2>1. Call(t, "disconnected", Frame("reconnect", "start", None))
    BY <1>4 DEF HandleDisconnect
  <2>2. ~Quiet(app)
    BY <1>4 DEF Quiet
  <2>3. /\ Frame("reconnect", "start", None) \in Frames
        /\ Frame("reconnect", "start", None).op = "reconnect" /\ Frame("reconnect", "start", None).pc = "start"
        /\ SlotChosen(Frame("reconnect", "start", None))
    BY FrameIs DEF Ops
  <2>5. FrameOK(app, Frame("reconnect", "start", None))
    BY <2>2, <2>3 DEF FrameOK, PcsOf, Waiting, Requests
  <2>6. NextPc(t, "disconnected").pc = "disconnected" /\ NextPc(t, "disconnected").op = "yield"
    BY <1>1, <1>2, NextFrame DEF NextPc
  <2>7. CalledOK(app, Frame("reconnect", "start", None), NextPc(t, "disconnected"))
    BY <1>4, <2>2, <2>3, <2>6 DEF CalledOK, Within, Requests, Deliveries
  <2> QED
    BY <1>1, <1>2, <1>4, <2>1, <2>2, <2>3, <2>5, <2>7, CallFrames
<1> QED
  BY <1>3, <1>4

LEMMA DisconnectHandledMove ==
  ASSUME TypeInv, FramesOK, NEW t \in Threads, DisconnectHandled(t)
  PROVE  /\ FramesOK' /\ StackType' /\ Top(t).op = "yield"
         /\ \/ app.auto /\ Replaced(t, NextPc(t, "check")) /\ rc' = [rc EXCEPT ![t] = "ATTEMPTING_RECONNECT"]
            \/ ~app.auto /\ Replaced(t, NextPc(t, "end")) /\ rc' = [rc EXCEPT ![t] = "DISCONNECTED"]
<1>1. Running(t) /\ UNCHANGED app /\ Top(t).op = "yield"
  BY FirstFrame, OpAt DEF DisconnectHandled, At, rest, TypeInv
<1>2. ASSUME NEW pc \in {"end", "check"}, Goto(t, pc)
      PROVE  FramesOK' /\ StackType' /\ Replaced(t, NextPc(t, pc))
  <2>1. pc \in PcsOf(Top(t).op) /\ pc \notin {"wait", "send"}
    BY <1>1 DEF PcsOf, Waiting
  <2> QED
    BY <1>1, <1>2, <2>1, GotoStep
<1> QED
  BY <1>1, <1>2 DEF DisconnectHandled, Result

LEMMA ReconnectedMove ==
  ASSUME TypeInv, FramesOK, NEW t \in Threads, Reconnected(t)
  PROVE  /\ FramesOK' /\ StackType' /\ Top(t).op = "yield" /\ Replaced(t, NextPc(t, "check"))
<1>1. Running(t) /\ UNCHANGED app /\ Top(t).op = "yield"
  BY FirstFrame, OpAt DEF Reconnected, At, rest, TypeInv
<1>2. Goto(t, "check")
  BY DEF Reconnected, Result
<1>3. "check" \in PcsOf(Top(t).op)
  BY <1>1 DEF PcsOf, Waiting
<1> QED
  BY <1>1, <1>2, <1>3, GotoStep

LEMMA EndYieldMove ==
  ASSUME TypeInv, FramesOK, NEW t \in Threads, EndYield(t)
  PROVE  FramesOK' /\ StackType' /\ Top(t).op = "yield" /\ Popped(t)
<1>1. Running(t) /\ UNCHANGED app /\ Top(t).op = "yield" /\ Return(t, rc[t])
  BY FirstFrame, OpAt DEF EndYield, At, rest, TypeInv
<1> QED
  BY <1>1, ReturnFrames

LEMMA ReconnectStartMove ==
  ASSUME TypeInv, FramesOK, NEW t \in Threads, ReconnectStart(t)
  PROVE  /\ FramesOK' /\ StackType' /\ Top(t).op = "reconnect" /\ ~Quiet(app)
         /\ \/ Connected /\ Popped(t)
            \/ ~Connected /\ ValidForConnect /\ Pushed(t, Frame("connect", "cas", None), NextPc(t, "connected"))
               /\ UNCHANGED rc
            \/ ~Connected /\ ~ValidForConnect /\ Replaced(t, NextPc(t, "connected")) /\ UNCHANGED rc
<1>1. Running(t) /\ UNCHANGED app /\ Top(t).op = "reconnect" /\ Top(t) \in Frames /\ FrameOK(app, Top(t))
  BY FirstFrame, OpAt DEF ReconnectStart, At, rest, TypeInv
<1>2. "connected" \in PcsOf(Top(t).op) /\ ~Quiet(app)
  BY <1>1 DEF PcsOf, Waiting, FrameOK
<1>3. CASE Connected
  <2>1. Return(t, "ALREADY_CONNECTED")
    BY <1>3 DEF ReconnectStart
  <2> QED
    BY <1>1, <1>2, <1>3, <2>1, ReturnFrames
<1>4. CASE ~Connected /\ ~ValidForConnect
  <2>1. Goto(t, "connected") /\ UNCHANGED rc
    BY <1>4 DEF ReconnectStart
  <2> QED
    BY <1>1, <1>2, <1>4, <2>1, GotoStep
<1>5. CASE ~Connected /\ ValidForConnect
  <2>1. Call(t, "connected", Frame("connect", "cas", None)) /\ UNCHANGED rc
    BY <1>5 DEF ReconnectStart
  <2>3. /\ Frame("connect", "cas", None) \in Frames
        /\ Frame("connect", "cas", None).op = "connect" /\ Frame("connect", "cas", None).pc = "cas"
        /\ SlotChosen(Frame("connect", "cas", None)) /\ Frame("connect", "cas", None).old = clientState
    BY FrameIs DEF Ops
  <2>5. FrameOK(app, Frame("connect", "cas", None))
    BY <1>2, <1>5, <2>3 DEF FrameOK, PcsOf, Waiting, Requests, ValidForConnect, Closed
  <2>6. NextPc(t, "connected").pc = "connected" /\ NextPc(t, "connected").op = "reconnect"
    BY <1>1, <1>2, NextFrame DEF NextPc
  <2>7. CalledOK(app, Frame("connect", "cas", None), NextPc(t, "connected"))
    BY <1>2, <2>3, <2>6 DEF CalledOK, Within, Requests, Deliveries
  <2> QED
    BY <1>1, <1>2, <1>5, <2>1, <2>3, <2>5, <2>7, CallFrames
<1> QED
  BY <1>3, <1>4, <1>5

LEMMA ConnectReturnedMove ==
  ASSUME TypeInv, FramesOK, NEW t \in Threads, ConnectReturned(t)
  PROVE  /\ FramesOK' /\ StackType' /\ Top(t).op = "reconnect" /\ ~Quiet(app)
         /\ \/ clientState = "IDLE" /\ Pushed(t, Frame("resubscribe", "cas", None), NextPc(t, "resubscribed"))
               /\ UNCHANGED rc
            \/ clientState # "IDLE" /\ Popped(t)
<1>1. Running(t) /\ UNCHANGED app /\ Top(t).op = "reconnect" /\ Top(t) \in Frames /\ FrameOK(app, Top(t))
  BY FirstFrame, OpAt DEF ConnectReturned, At, rest, TypeInv
<1>2. "resubscribed" \in PcsOf(Top(t).op) /\ ~Quiet(app)
  BY <1>1 DEF PcsOf, Waiting, FrameOK
<1>3. CASE clientState # "IDLE"
  <2>1. Return(t, "ATTEMPTING_RECONNECT")
    BY <1>3 DEF ConnectReturned
  <2> QED
    BY <1>1, <1>2, <1>3, <2>1, ReturnFrames
<1>5. CASE clientState = "IDLE"
  <2>1. Call(t, "resubscribed", Frame("resubscribe", "cas", None)) /\ UNCHANGED rc
    BY <1>5 DEF ConnectReturned
  <2>3. /\ Frame("resubscribe", "cas", None) \in Frames
        /\ Frame("resubscribe", "cas", None).op = "resubscribe" /\ Frame("resubscribe", "cas", None).pc = "cas"
        /\ SlotChosen(Frame("resubscribe", "cas", None)) /\ Frame("resubscribe", "cas", None).old = clientState
    BY FrameIs DEF Ops
  <2>5. FrameOK(app, Frame("resubscribe", "cas", None))
    BY <1>2, <1>5, <2>3 DEF FrameOK, PcsOf, Waiting, Requests, ValidForConnect, Closed
  <2>6. NextPc(t, "resubscribed").pc = "resubscribed" /\ NextPc(t, "resubscribed").op = "reconnect"
    BY <1>1, <1>2, NextFrame DEF NextPc
  <2>7. CalledOK(app, Frame("resubscribe", "cas", None), NextPc(t, "resubscribed"))
    BY <1>2, <2>3, <2>6 DEF CalledOK, Within, Requests, Deliveries
  <2> QED
    BY <1>1, <1>2, <1>5, <2>1, <2>3, <2>5, <2>7, CallFrames
<1> QED
  BY <1>3, <1>5

LEMMA ResubscribedMove ==
  ASSUME TypeInv, FramesOK, NEW t \in Threads, Resubscribed(t)
  PROVE  FramesOK' /\ StackType' /\ Top(t).op = "reconnect" /\ ~Quiet(app) /\ Popped(t)
<1>1. Running(t) /\ UNCHANGED app /\ Top(t).op = "reconnect" /\ Top(t) \in Frames /\ FrameOK(app, Top(t))
  BY FirstFrame, OpAt DEF Resubscribed, At, rest, TypeInv
<1>2. Return(t, IF rc[t] = "SUCCESS" THEN "RECONNECTED" ELSE rc[t])
  BY DEF Resubscribed
<1> QED
  BY <1>1, <1>2, ReturnFrames DEF FrameOK

-----------------------------------------------------------------------------
(* The moves of a thread that starts a call.                               *)

LEMMA StartFrames ==
  ASSUME TypeInv, FramesOK, NEW t \in Threads, ~Running(t), NEW f \in Frames, UNCHANGED app,
         stack' = [stack EXCEPT ![t] = <<f>>], FrameOK(app, f), BottomOK(app, t, f)
  PROVE  FramesOK' /\ StackType' /\ Started(t, f)
<1>1. Started(t, f)
  BY StartMove DEF TypeInv
<1> QED
  BY <1>1, StartedFrames DEF TypeInv, Started, StackType

LEMMA RequestMove ==
  ASSUME TypeInv, FramesOK, SettledInv, NEW t \in Threads, NEW op \in Requests, NEW topic \in Topics \union {None},
         (topic = None) <=> op \in {"publish0", "publish1"}, Request(t, op, topic)
  PROVE  /\ FramesOK' /\ StackType'
         /\ \/ Started(t, Frame(op, "cas", topic)) /\ op \in app[t]
            \/ /\ Top(t).pc = "handler" /\ Top(t).op \in Deliveries /\ op \in app.handler
               /\ \E g \in Frames : g = [Top(t) EXCEPT !.called = TRUE] /\ Same(g, Top(t)) /\ g.pc = "handler"
                                     /\ Pushed(t, Frame(op, "cas", topic), g)
<1> DEFINE f == Frame(op, "cas", topic)
<1>1. /\ f \in Frames /\ f.op = op /\ f.pc = "cas" /\ f.old = clientState /\ f.topic = topic /\ SlotChosen(f)
  BY FrameIs DEF Ops
<1>2. UNCHANGED app /\ clientState \in Shared
  BY DEF Request, Shared
<1>3. FrameOK(app, f)
  BY <1>1, <1>2 DEF FrameOK, PcsOf, Requests, Waiting, Deliveries
<1> HIDE DEF f
<1>6. Single(app) => t = "main" \/ (~Running(t) /\ app[t] = {})
  <2>1. app["worker"] = app.worker
    BY OwnOps DEF TypeInv, Threads
  <2> QED
    BY <2>1, WorkerIdle DEF Threads, Single
<1>4. CASE ~Running(t)
  <2>1. op \in app[t] /\ stack[t] = <<>>
    BY <1>4 DEF Request, MayRequest, Running
  <2>5. Single(app) => clientState = "IDLE"
    BY <1>2, <1>4, <1>6, <2>1 DEF SettledInv, Settled, Shared, Closed
  <2>2. stack' = [stack EXCEPT ![t] = <<f>> \o <<>>]
    BY <1>4, <2>1 DEF Request, f
  <2>3. <<f>> \o <<>> = <<f>>
    BY <1>1, ConcatEmptySeq
  <2>4. BottomOK(app, t, f)
    BY <1>1, <2>1, <2>5 DEF BottomOK, Own
  <2> QED
    BY <1>1, <1>2, <1>3, <1>4, <2>1, <2>2, <2>3, <2>4, StartFrames DEF f
<1>5. CASE Running(t)
  <2> DEFINE g == [Top(t) EXCEPT !.called = TRUE]
  <2>1. op \in app.handler /\ Top(t).pc = "handler" /\ Top(t) \in Frames /\ Top(t) = stack[t][1] /\ Top(t).op \in Deliveries
    BY <1>5, FirstFrame, OpAt DEF Request, MayRequest, TypeInv
  <2>2. g \in Frames /\ Same(g, Top(t)) /\ g.pc = "handler" /\ g.op = Top(t).op
    BY <2>1 DEF Frames, Same
  <2>3. stack' = [stack EXCEPT ![t] = <<f>> \o [stack[t] EXCEPT ![1] = g]]
    BY <1>5, <2>1 DEF Request, f
  <2> HIDE DEF g
  <2>4. Pushed(t, f, g)
    BY <1>1, <1>5, <2>2, <2>3, PushMove DEF TypeInv
  <2>5. "handler" \in PcsOf(g.op) /\ SlotChosen(g)
    BY <2>1, <2>2 DEF PcsOf, Deliveries, Waiting, SlotChosen
  <2>8. Single(app) => clientState = "WAIT_FOR_CB_RETURN"
    BY <1>5, <1>6, <2>1 DEF SettledInv, StateAt
  <2>6. CalledOK(app, f, g)
    BY <1>1, <2>1, <2>2, <2>8 DEF CalledOK, Within, Deliveries, Requests
  <2>7. FramesOK' /\ StackType'
    BY <1>2, <1>3, <2>1, <2>2, <2>4, <2>5, <2>6, PushedFrames DEF TypeInv, Pushed, StackType
  <2> QED
    BY <2>1, <2>2, <2>4, <2>7 DEF f, g
<1> QED
  BY <1>4, <1>5

\* The main thread connects, reconnects or yields.
MainStarts(op, pc) == Started("main", Frame(op, pc, None)) /\ UNCHANGED app
LEMMA ConnectMove ==
  ASSUME TypeInv, FramesOK, MutexInv, Connect
  PROVE  FramesOK' /\ StackType' /\ MainStarts("connect", "cas")
<1> DEFINE f == Frame("connect", "cas", None)
<1>1. /\ f \in Frames /\ f.op = "connect" /\ f.pc = "cas" /\ f.old = clientState /\ SlotChosen(f)
  BY FrameIs DEF Ops
<1>2. ~Running("main") /\ UNCHANGED app /\ stack' = [stack EXCEPT !["main"] = <<f>>] /\ clientState \in Closed
  BY DEF Connect, rest, ValidForConnect, Closed
<1>3. FrameOK(app, f) /\ BottomOK(app, "main", f)
  BY <1>1, <1>2 DEF FrameOK, PcsOf, Waiting, BottomOK, Own, Requests
<1> HIDE DEF f
<1>4. FramesOK' /\ StackType' /\ Started("main", f)
  BY <1>1, <1>2, <1>3, StartFrames DEF Threads
<1> QED
  BY <1>2, <1>4 DEF MainStarts, f

LEMMA AttemptReconnectMove ==
  ASSUME TypeInv, FramesOK, MutexInv, AttemptReconnect
  PROVE  FramesOK' /\ StackType' /\ MainStarts("reconnect", "start")
<1> DEFINE f == Frame("reconnect", "start", None)
<1>1. /\ f \in Frames /\ f.op = "reconnect" /\ f.pc = "start" /\ f.old = clientState /\ SlotChosen(f)
  BY FrameIs DEF Ops
<1>2. ~Running("main") /\ UNCHANGED app /\ stack' = [stack EXCEPT !["main"] = <<f>>] /\ ~Quiet(app)
  BY DEF AttemptReconnect, rest, Quiet
<1>3. FrameOK(app, f) /\ BottomOK(app, "main", f)
  BY <1>1, <1>2 DEF FrameOK, PcsOf, Waiting, BottomOK, Own, Requests
<1> HIDE DEF f
<1>4. FramesOK' /\ StackType' /\ Started("main", f)
  BY <1>1, <1>2, <1>3, StartFrames DEF Threads
<1> QED
  BY <1>2, <1>4 DEF MainStarts, f

LEMMA YieldMove ==
  ASSUME TypeInv, FramesOK, MutexInv, Yield
  PROVE  /\ FramesOK' /\ StackType'
         /\ \/ clientState = "IDLE" /\ MainStarts("yield", "cas")
            \/ clientState = "PENDING_RECONNECT" /\ ~Quiet(app) /\ MainStarts("yield", "loop")
<1>1. ASSUME NEW pc \in {"cas", "loop"}, stack' = [stack EXCEPT !["main"] = <<Frame("yield", pc, None)>>],
             Quiet(app) => clientState = "IDLE"
      PROVE  FramesOK' /\ StackType' /\ MainStarts("yield", pc)
  <2> DEFINE f == Frame("yield", pc, None)
  <2>0. pc \in {"cas", "enter", "start", "loop"}
    OBVIOUS
  <2>1. /\ f \in Frames /\ f.op = "yield" /\ f.pc = pc /\ f.old = clientState /\ SlotChosen(f)
    BY <2>0, FrameIs DEF Ops
  <2>2. ~Running("main") /\ UNCHANGED app /\ stack' = [stack EXCEPT !["main"] = <<f>>]
    BY <1>1 DEF Yield, rest
  <2>3. FrameOK(app, f) /\ BottomOK(app, "main", f)
    BY <1>1, <2>1, <2>2 DEF FrameOK, PcsOf, Waiting, BottomOK, Own, Requests, Shared
  <2> HIDE DEF f
  <2>4. FramesOK' /\ StackType' /\ Started("main", f)
    BY <2>1, <2>2, <2>3, StartFrames DEF Threads
  <2> QED
    BY <2>2, <2>4 DEF MainStarts, f
<1>2. CASE clientState = "IDLE"
  BY <1>1, <1>2 DEF Yield
<1>3. CASE clientState = "PENDING_RECONNECT"
  BY <1>1, <1>3 DEF Yield, MutexInv
<1> QED
  BY <1>2, <1>3 DEF Yield

\* No thread runs: nothing is called.
LEMMA QuietFrames ==
  ASSUME TypeInv, FramesOK, UNCHANGED <<app, stack>>
  PROVE  FramesOK' /\ StackType'
BY DEF TypeInv, FramesOK, StackType

-----------------------------------------------------------------------------
(* The values of the variables are preserved.                              *)

Buffers == [by : Threads \union {None}, type : Sent \union {None}, topic : Topics \union {None}]
Buffer(b) == b \in Buffers /\ (b.type = "SUBSCRIBE" => b.topic \in Topics)
Handlers == [1..NumHandlers -> Topics \union {None}]

LEMMA TypeParts ==
  TypeInv <=> /\ app \in Applications /\ clientState \in ClientStates /\ StackType
              /\ rc \in [Threads -> Results] /\ handlers \in Handlers /\ inbox \in Seq(Packets)
              /\ session \subseteq Topics /\ Buffer(writeBuf)
BY DEF TypeInv, Buffer, Buffers, Handlers

LEMMA EmptyBuffer == Buffer(Empty)
BY DEF Buffer, Buffers, Empty, None

LEMMA SerializedIs ==
  ASSUME TypeInv, NEW t \in Threads, Top(t) \in Frames,
         Top(t).op \in Requests \union {"connect", "resubscribe", "deliver1", "yield"},
         Top(t).op \in {"subscribe", "unsubscribe"} => Top(t).topic \in Topics,
         Top(t).op = "resubscribe" => ~AllSubscribed(Top(t))
  PROVE  /\ Buffer(Serialized(t))
         /\ Serialized(t).by = t /\ Serialized(t).type = PacketOf(Top(t).op)
         /\ Top(t).op = "resubscribe" => Serialized(t).topic = handlers[Min(ToSubscribe(Top(t)))]
<1>1. PacketOf(Top(t).op) \in Sent /\ (PacketOf(Top(t).op) = "SUBSCRIBE" => Top(t).op \in {"subscribe", "resubscribe"})
  BY DEF PacketOf, Requests, Sent
<1>2. Top(t).topic \in Topics \union {None} /\ Top(t).slot \in 0..NumHandlers
  BY FrameFields
<1>3. Top(t).op = "resubscribe" => handlers[Min(ToSubscribe(Top(t)))] \in Topics
  BY <1>2, ToSubscribeIs, ClientAssumption DEF TypeInv
<1> QED
  BY <1>1, <1>2, <1>3 DEF Serialized, Buffer, Buffers

LEMMA AckIs == ASSUME NEW p \in Sent \union {None} PROVE AckOf(p) \in (Acks \ {"PINGRESP"}) \union {None, "PINGRESP"}
BY DEF AckOf, Acks, Sent

LEMMA TransmitTypes ==
  ASSUME TypeInv, Transmit
  PROVE  session' \subseteq Topics /\ inbox' \in Seq(Packets) /\ Buffer(writeBuf')
<1>1. Buffer(writeBuf')
  BY EmptyBuffer DEF Transmit
<1>2. writeBuf.topic \in Topics \union {None} /\ writeBuf.type \in Sent \union {None}
  BY TypeParts DEF Buffer, Buffers
<1>3. CASE link = "up"
  <2>1. session' \subseteq Topics
    BY <1>3, TypeParts DEF Transmit, BrokerGets, Buffer
  <2>2. CASE AckOf(writeBuf.type) = None
    BY <1>1, <1>3, <2>1, <2>2, TypeParts DEF Transmit, BrokerGets
  <2>3. CASE AckOf(writeBuf.type) # None
    <3>1. PICK refused \in BOOLEAN : inbox' = Append(inbox, Packet(AckOf(writeBuf.type), IF refused THEN "refused" ELSE writeBuf.topic))
      BY <1>3, <2>3 DEF Transmit, BrokerGets
    <3>2. AckOf(writeBuf.type) \in Acks
      BY <1>2, <2>3, AckIs DEF Acks
    <3>3. Packet(AckOf(writeBuf.type), IF refused THEN "refused" ELSE writeBuf.topic) \in Packets
      BY <1>2, <3>2 DEF Packet, Packets
    <3> QED
      BY <1>1, <2>1, <3>1, <3>3, AppendProperties, TypeParts
  <2> QED
    BY <2>2, <2>3
<1>4. CASE link # "up"
  BY <1>1, <1>4, TypeParts DEF Transmit, net
<1> QED
  BY <1>3, <1>4

LEMMA RcType ==
  ASSUME TypeInv, NEW t \in Threads, NEW result \in Results, rc' = [rc EXCEPT ![t] = result]
  PROVE  rc' \in [Threads -> Results]
BY DEF TypeInv

LEMMA StatesIn ==
  /\ \A op \in Requests \union {"connect", "resubscribe", "yield"} : InProgress(op) \in ClientStates
  /\ {"IDLE", "WAIT_FOR_CB_RETURN", "DISCONNECTED_MANUALLY", "DISCONNECTED_ERROR", "PENDING_RECONNECT",
      "INITIALIZED", "INVALID"} \subseteq ClientStates
  /\ \A op \in Requests \union {"connect", "resubscribe", "yield"} : InProgress(op) \notin Shared \union Closed
BY DEF InProgress, Requests, ClientStates, ConnectedStates, Shared, Closed

\* What a step changes besides the stack.
Kept(t) ==
  /\ clientState' \in ClientStates /\ UNCHANGED app
  /\ rc' \in [Threads -> Results] /\ handlers' \in Handlers /\ inbox' \in Seq(Packets)
  /\ session' \subseteq Topics /\ Buffer(writeBuf')

LEMMA StepTypes ==
  ASSUME TypeInv, FramesOK, NEW t \in Threads, Step(t)
  PROVE  Kept(t)
<1> USE DEF net, rest
<1> DEFINE f == Top(t)
<1>0. /\ app \in Applications /\ clientState \in ClientStates
      /\ rc \in [Threads -> Results] /\ handlers \in Handlers /\ inbox \in Seq(Packets)
      /\ session \subseteq Topics /\ Buffer(writeBuf)
  BY TypeParts
<1>1. Running(t) /\ f \in Frames /\ f.old \in ClientStates /\ FrameOK(app, f)
  <2>1. Running(t)
    BY DEF Step, At, Cas, TlsConnect, Serialize, SendPacket, WaitTimeout, Read, ReadError, ReadFails, Deliver, HandlersReturn,
           SerializePuback, EndCall, YieldLoop, KeepAlive, SendPing, HandleDisconnect, DisconnectHandled,
           Reconnected, EndYield, ReconnectStart, ConnectReturned, Resubscribed
  <2> QED
    BY <2>1, FirstFrame, FrameFields DEF TypeInv
<1>4. rc[t] \in Results
  BY <1>0
<1> HIDE DEF f
<1>c1. CASE Cas(t)
  <2>1. f.op \in Requests \union {"connect", "resubscribe", "yield"}
    BY <1>c1, CasMove DEF f
  <2>2. InProgress(f.op) \in ClientStates
    BY <2>1, StatesIn
  <2>3. rc' \in [Threads -> Results]
    BY <1>0, <1>c1 DEF Cas, Return, Results
  <2>4. clientState' \in ClientStates
    BY <1>0, <1>1, <1>c1, <2>2 DEF Cas, CompareAndSet, f
  <2> QED
    BY <1>0, <1>c1, <2>3, <2>4 DEF Cas, Kept
<1>c2. CASE TlsConnect(t)
  <2>1. rc' \in [Threads -> Results]
    BY <1>0, <1>c2 DEF TlsConnect, Result, Results
  <2>2. inbox' \in Seq(Packets) /\ session' \subseteq Topics
    BY <1>0, <1>c2, EmptySeq DEF TlsConnect
  <2> QED
    BY <1>0, <1>c2, <2>1, <2>2 DEF TlsConnect, Kept
<1>c3. CASE Serialize(t)
  <2>1. rc' \in [Threads -> Results]
    BY <1>0, <1>c3 DEF Serialize, Result, Results
  <2>2. f.op \in Requests \union {"connect", "resubscribe"}
    BY <1>c3, SerializeMove DEF f
  <2>3. f.op \in {"subscribe", "unsubscribe"} => f.topic \in Topics
    BY <1>1 DEF FrameOK
  <2>5. writeBuf' = writeBuf \/ (writeBuf' = Serialized(t) /\ ~Done(f))
    BY <1>c3 DEF Serialize, Done, f
  <2>6. ~Done(f) => (f.op = "resubscribe" => ~AllSubscribed(f))
    BY DEF Done
  <2>7. ~Done(f) => Buffer(Serialized(t))
    BY <1>1, <2>2, <2>3, <2>6, SerializedIs DEF f
  <2> QED
    BY <1>0, <1>c3, <2>1, <2>5, <2>7 DEF Serialize, Kept
<1>c4. CASE SendPacket(t)
  <2>1. session' \subseteq Topics /\ inbox' \in Seq(Packets) /\ Buffer(writeBuf')
    BY <1>c4, TransmitTypes DEF SendPacket
  <2>2. rc' \in [Threads -> Results]
    BY <1>0, <1>c4, SendMove DEF Results
  <2> QED
    BY <1>0, <1>c4, <2>1, <2>2 DEF SendPacket, Kept
<1>c5. CASE WaitTimeout(t)
  <2>1. rc' \in [Threads -> Results]
    BY <1>0, <1>c5 DEF WaitTimeout, Result, Results
  <2> QED
    BY <1>0, <1>c5, <2>1 DEF WaitTimeout, Kept
<1>c6. CASE Read(t)
  <2>1. inbox' \in Seq(Packets)
    <3>1. inbox' = Tail(inbox) /\ inbox # <<>>
      BY <1>c6 DEF Read
    <3> QED
      BY <1>0, <3>1, HeadTailProperties
  <2>2. rc' \in [Threads -> Results] /\ handlers' \in Handlers
    <3>1. CASE UNCHANGED <<rc, handlers>>
      BY <1>0, <3>1
    <3>2. CASE Acknowledged(t, Head(inbox))
      <4>1. rc' \in [Threads -> Results]
        BY <1>0, <3>2 DEF Acknowledged, Result, Results
      <4>2. f.topic \in Topics \union {None}
        BY <1>1, FrameFields
      <4> QED
        BY <1>0, <3>2, <4>1, <4>2 DEF Acknowledged, Handlers, f
    <3> QED
      BY <1>c6, <3>1, <3>2 DEF Read
  <2> QED
    BY <1>0, <1>c6, <2>1, <2>2 DEF Read, Kept
<1>c7. CASE ReadError(t)
  <2>1. rc' \in [Threads -> Results]
    BY <1>0, <1>c7 DEF ReadError, Result, Results
  <2> QED
    BY <1>0, <1>c7, <2>1 DEF ReadError, Kept
<1>c8. CASE Deliver(t)
  <2>1. clientState' \in ClientStates
    BY <1>0, <1>c8, StatesIn DEF Deliver, CompareAndSet
  <2> QED
    BY <1>0, <1>c8, <2>1 DEF Deliver, Kept
<1>c9. CASE HandlersReturn(t)
  <2>1. clientState' \in ClientStates
    BY <1>0, <1>1, <1>c9 DEF HandlersReturn, CompareAndSet, f
  <2>2. rc' \in [Threads -> Results]
    BY <1>0, <1>c9, HandlersReturnMove DEF Results
  <2> QED
    BY <1>0, <1>c9, <2>1, <2>2 DEF HandlersReturn, Kept
<1>c10. CASE SerializePuback(t)
  <2>1. f.op = "deliver1"
    BY <1>c10, PubackMove DEF f
  <2>2. Buffer(Serialized(t))
    BY <1>1, <2>1, SerializedIs DEF f
  <2> QED
    BY <1>0, <1>c10, <2>2 DEF SerializePuback, Kept
<1>c11. CASE EndCall(t)
  <2>1. rc' \in [Threads -> Results]
    BY <1>0, <1>4, <1>c11 DEF EndCall, Return, Results
  <2>2. clientState' \in ClientStates
    BY <1>0, <1>1, <1>c11, StatesIn DEF EndCall, CompareAndSet, f
  <2>3. inbox' \in Seq(Packets) /\ session' \subseteq Topics
    BY <1>0, <1>c11, EmptySeq DEF EndCall, Close
  <2> QED
    BY <1>0, <1>c11, <2>1, <2>2, <2>3 DEF EndCall, Kept
<1>c12. CASE YieldLoop(t)
  <2>1. rc' \in [Threads -> Results]
    BY <1>0, <1>c12 DEF YieldLoop, Result, Results
  <2> QED
    BY <1>0, <1>c12, <2>1 DEF YieldLoop, Kept
<1>c13. CASE KeepAlive(t)
  <2>1. f.op = "yield" /\ rc' \in [Threads -> Results] /\ (writeBuf' = writeBuf \/ writeBuf' = Serialized(t))
    BY <1>0, <1>c13, KeepAliveMove DEF f, Results
  <2>2. Buffer(Serialized(t))
    BY <1>1, <2>1, SerializedIs DEF f
  <2> QED
    BY <1>0, <1>c13, <2>1, <2>2 DEF KeepAlive, Kept
<1>c14. CASE SendPing(t)
  <2>1. session' \subseteq Topics /\ inbox' \in Seq(Packets) /\ Buffer(writeBuf')
    BY <1>c14, TransmitTypes DEF SendPing
  <2>2. rc' \in [Threads -> Results]
    BY <1>0, <1>c14 DEF SendPing, Result, Results
  <2> QED
    BY <1>0, <1>c14, <2>1, <2>2 DEF SendPing, Kept
<1>c15. CASE HandleDisconnect(t)
  <2>1. clientState' \in ClientStates
    BY <1>c15, StatesIn DEF HandleDisconnect
  <2>2. inbox' \in Seq(Packets) /\ session' \subseteq Topics /\ Buffer(writeBuf')
    BY <1>c15, EmptySeq, EmptyBuffer DEF HandleDisconnect, Close
  <2> QED
    BY <1>0, <1>c15, <2>1, <2>2 DEF HandleDisconnect, Kept
<1>c16. CASE DisconnectHandled(t)
  <2>1. rc' \in [Threads -> Results]
    BY <1>0, <1>c16 DEF DisconnectHandled, Result, Results
  <2>2. clientState' \in ClientStates
    BY <1>c16, StatesIn DEF DisconnectHandled
  <2> QED
    BY <1>0, <1>c16, <2>1, <2>2 DEF DisconnectHandled, Kept
<1>c17. CASE Reconnected(t)
  <2>1. rc' \in [Threads -> Results]
    BY <1>0, <1>4, <1>c17 DEF Reconnected, Result, Results
  <2>2. clientState' \in ClientStates
    BY <1>0, <1>c17 DEF Reconnected, CompareAndSet, ClientStates, ConnectedStates
  <2> QED
    BY <1>0, <1>c17, <2>1, <2>2 DEF Reconnected, Kept
<1>c18. CASE EndYield(t)
  <2>1. rc' \in [Threads -> Results]
    BY <1>0, <1>4, <1>c18 DEF EndYield, Return, Results
  <2>2. clientState' \in ClientStates
    BY <1>0, <1>c18, StatesIn DEF EndYield, CompareAndSet
  <2> QED
    BY <1>0, <1>c18, <2>1, <2>2 DEF EndYield, Kept
<1>c19. CASE ReconnectStart(t)
  <2>1. rc' \in [Threads -> Results]
    BY <1>0, <1>c19 DEF ReconnectStart, Return, Results
  <2> QED
    BY <1>0, <1>c19, <2>1 DEF ReconnectStart, Kept
<1>c20. CASE ConnectReturned(t)
  <2>1. rc' \in [Threads -> Results]
    BY <1>0, <1>c20 DEF ConnectReturned, Return, Results
  <2>2. clientState' \in ClientStates
    BY <1>0, <1>c20, StatesIn DEF ConnectReturned, CompareAndSet
  <2> QED
    BY <1>0, <1>c20, <2>1, <2>2 DEF ConnectReturned, Kept
<1>c21. CASE Resubscribed(t)
  <2>1. rc' \in [Threads -> Results]
    BY <1>0, <1>4, <1>c21 DEF Resubscribed, Return, Results
  <2> QED
    BY <1>0, <1>c21, <2>1 DEF Resubscribed, Kept
<1>c22. CASE ReadFails(t)
  <2>1. rc' \in [Threads -> Results]
    BY <1>0, <1>c22, ReadFailsMove DEF Results
  <2>2. inbox' \in Seq(Packets)
    <3>1. inbox' = inbox \/ (inbox' = Tail(inbox) /\ inbox # <<>>)
      BY <1>c22 DEF ReadFails
    <3> QED
      BY <1>0, <3>1, HeadTailProperties
  <2> QED
    BY <1>0, <1>c22, <2>1, <2>2 DEF ReadFails, Kept
<1> QED
  BY <1>c1, <1>c2, <1>c3, <1>c4, <1>c5, <1>c6, <1>c7, <1>c8, <1>c9, <1>c10, <1>c11, <1>c12, <1>c13, <1>c14,
     <1>c15, <1>c16, <1>c17, <1>c18, <1>c19, <1>c20, <1>c21, <1>c22 DEF Step

-----------------------------------------------------------------------------
(* One thread at a time relies on the state.                               *)

LEMMA NewTop ==
  ASSUME NEW t \in Threads, NEW f
  PROVE  /\ Replaced(t, f) => Running(t)' /\ Top(t)' = f
         /\ (\E g : Pushed(t, f, g)) => Running(t)' /\ Top(t)' = f
         /\ PoppedTo(t, f) => Running(t)' /\ Top(t)' = f
         /\ Started(t, f) => Running(t)' /\ Top(t)' = f
<1>1. ASSUME stack'[t] \in Seq(Frames), Len(stack'[t]) # 0 PROVE Running(t)' /\ Top(t)' = stack'[t][1]
  BY <1>1, EmptySeq DEF Running, Top
<1>2. CASE Replaced(t, f)
  BY <1>1, <1>2 DEF Replaced
<1>3. CASE \E g : Pushed(t, f, g)
  <2>1. PICK g : Pushed(t, f, g)
    BY <1>3
  <2> QED
    BY <1>1, <2>1 DEF Pushed
<1>4. CASE PoppedTo(t, f)
  BY <1>1, <1>4 DEF PoppedTo
<1>5. CASE Started(t, f)
  BY <1>1, <1>5 DEF Started
<1> QED
  BY <1>2, <1>3, <1>4, <1>5

LEMMA PoppedTop ==
  ASSUME NEW t \in Threads, Popped(t)
  PROVE  /\ Len(stack[t]) = 1 => ~Running(t)'
         /\ Running(t)' => Len(stack[t]) # 1 /\ Top(t)' = stack[t][2]
<1>1. stack'[t] \in Seq(Frames) /\ Len(stack[t]) \in Nat \ {0} /\ Len(stack'[t]) = Len(stack[t]) - 1
  BY DEF Popped
<1>2. \A n \in Nat \ {0} : (n = 1 => n - 1 = 0) /\ (n # 1 => 1 \in 1..n - 1)
  OBVIOUS
<1>3. Len(stack[t]) = 1 => ~Running(t)'
  <2>1. Len(stack[t]) = 1 => Len(stack'[t]) = 0
    BY <1>1
  <2> QED
    BY <1>1, <2>1, EmptySeq DEF Running
<1>4. Len(stack[t]) # 1 => 1 \in 1..Len(stack[t]) - 1
  BY <1>1, <1>2, Zenon
<1>5. Len(stack[t]) # 1 => stack'[t][1] = stack[t][1 + 1]
  BY <1>4 DEF Popped
<1>6. Running(t)' => Top(t)' = stack'[t][1]
  BY <1>1, EmptySeq DEF Running, Top
<1> QED
  BY <1>3, <1>5, <1>6

LEMMA OthersStay ==
  ASSUME NEW t \in Threads, NEW f, NEW g,
         Replaced(t, f) \/ Pushed(t, f, g) \/ PoppedTo(t, f) \/ Started(t, f) \/ Popped(t)
  PROVE  \A u \in Threads \ {t} : stack'[u] = stack[u]
BY DEF Replaced, Pushed, PoppedTo, Started, Popped

LEMMA MutexStep ==
  ASSUME MutexInv, NEW t \in Threads, UNCHANGED app,
         \A u \in Threads \ {t} : stack'[u] = stack[u],
         Quiet(app) => /\ clientState' # "PENDING_RECONNECT"
                       /\ clientState' = clientState \/ Clear(t)
                       /\ Relying(t)' => Clear(t) /\ clientState' = StateOf(Top(t)')
  PROVE  MutexInv'
<1>1. \A u \in Threads \ {t} : (Relying(u)' <=> Relying(u)) /\ Top(u)' = Top(u)
  BY DEF Relying, Running, Top
<1> SUFFICES ASSUME Quiet(app), NEW v \in Threads, Relying(v)'
             PROVE  Clear(v)' /\ clientState' = StateOf(Top(v)')
  BY DEF MutexInv
<1>2. CASE v = t
  <2>1. Clear(t)'
    BY <1>1, <1>2 DEF Clear
  <2> QED
    BY <1>2, <2>1
<1>3. CASE v # t
  <2>1. Relying(v) /\ Clear(v) /\ clientState = StateOf(Top(v)) /\ ~Clear(t)
    BY <1>1, <1>3 DEF MutexInv, Clear
  <2>2. ~Relying(t)' /\ clientState' = clientState
    BY <2>1
  <2>3. Clear(v)'
    BY <1>1, <2>1, <2>2 DEF Clear
  <2> QED
    BY <1>1, <1>3, <2>1, <2>2, <2>3
<1> QED
  BY <1>2, <1>3

\* What a frame's call is: one of its thread, or of the handlers.
LEMMA FrameOps ==
  ASSUME TypeInv, FramesOK, Quiet(app), NEW t \in Threads, NEW i \in 1..Len(stack[t])
  PROVE  \/ stack[t][i].op \in Deliveries
         \/ stack[t][i].op \in (Own(app, t) \union app.handler) \ {"reconnect", "resubscribe"}
<1> DEFINE f == stack[t][i]
           g == stack[t][i + 1]
<1>1. FrameOK(app, f)
  BY DEF FramesOK
<1>2. CASE i = Len(stack[t])
  BY <1>1, <1>2 DEF FramesOK, BottomOK, FrameOK
<1>3. CASE i # Len(stack[t])
  <2>1. CalledOK(app, f, g)
    BY <1>3 DEF FramesOK
  <2>2. stack[t] \in Seq(Frames)
    BY DEF TypeInv, StackType
  <2>3. i + 1 \in 1..Len(stack[t])
    BY <1>3, <2>2
  <2>4. FrameOK(app, g)
    BY <2>3 DEF FramesOK
  <2> HIDE DEF f, g
  <2>5. f.op \in Deliveries \/ f.op \in app.handler
    BY <1>1, <2>1, <2>4 DEF FrameOK, CalledOK, Within
  <2> QED
    BY <1>1, <2>5 DEF f, FrameOK
<1> QED
  BY <1>2, <1>3

\* The states thread t may rely on.
Claimed(a, t) ==
  {InProgress(op) : op \in a[t] \union a.handler}
    \union (IF t = "main" THEN {"CONNECTING", "YIELD"} \union Closed ELSE {})

LEMMA InProgressIs ==
  /\ InProgress("connect") = "CONNECTING" /\ InProgress("yield") = "YIELD" /\ InProgress("publish0") = "PUBLISH"
  /\ InProgress("unsubscribe") = "UNSUBSCRIBE" /\ InProgress("subscribe") = "SUBSCRIBE"
  /\ \A op \in Requests : InProgress(op) \in {"PUBLISH", "SUBSCRIBE", "UNSUBSCRIBE"}
BY DEF InProgress, Requests

LEMMA Claims ==
  ASSUME TypeInv, FramesOK, MutexInv, Quiet(app), NEW t \in Threads, Relying(t)
  PROVE  clientState \in Claimed(app, t)
<1> DEFINE f == Top(t)
           g == stack[t][2]
<1>1. Running(t) /\ clientState = StateOf(f) /\ FrameOK(app, f) /\ f = stack[t][1] /\ Len(stack[t]) \in Nat \ {0}
  BY FirstFrame DEF MutexInv, TypeInv, Relying
<1>2. 1 \in 1..Len(stack[t])
  BY <1>1
<1>3. \/ f.op \in Deliveries
      \/ f.op \in (Own(app, t) \union app.handler) \ {"reconnect", "resubscribe"}
  BY <1>1, <1>2, FrameOps
<1>4. app[t] \subseteq Requests /\ app.handler \subseteq Requests
  BY OwnOps DEF TypeInv
<1>5. ASSUME NEW op \in (Own(app, t) \union app.handler) \ {"reconnect", "resubscribe"}
      PROVE  InProgress(op) \in Claimed(app, t) /\ (op \notin app[t] \union app.handler => t = "main")
  BY <1>5, InProgressIs DEF Claimed, Own
<1>6. CASE f.op \in Deliveries
  <2>1. /\ f.old = InProgress(g.op) /\ g.op \in Waiting \union {"connect", "yield"} /\ Len(stack[t]) # 1
    BY <1>1, <1>6, DeliveryCalled DEF CalledOK
  <2>2. 2 \in 1..Len(stack[t])
    <3>1. \A n \in Nat \ {0} : n # 1 => 2 \in 1..n
      OBVIOUS
    <3> QED
      BY <1>1, <2>1, <3>1, Zenon
  <2>3. g.op \in (Own(app, t) \union app.handler) \ {"reconnect", "resubscribe"}
    BY <2>1, <2>2, FrameOps DEF Waiting, Deliveries
  <2>4. InProgress(g.op) \in Claimed(app, t)
    BY <1>5, <2>3
  <2>5. StateOf(f) = f.old
    BY <1>6 DEF StateOf, Deliveries
  <2> QED
    BY <1>1, <2>1, <2>4, <2>5
<1>7. CASE f.op = "connect" /\ f.pc = "cas"
  <2>1. f.old \in Closed
    BY <1>1, <1>7 DEF FrameOK
  <2>2. t = "main"
    BY <1>3, <1>4, <1>5, <1>7 DEF Requests, Deliveries
  <2> QED
    BY <1>1, <1>7, <2>1, <2>2 DEF StateOf, Claimed, Deliveries
<1>8. CASE f.op = "yield" /\ f.pc = "disconnected"
  <2>2. t = "main"
    BY <1>3, <1>4, <1>5, <1>8 DEF Requests, Deliveries
  <2> QED
    BY <1>1, <1>8, <2>2 DEF StateOf, Claimed, Deliveries, Closed
<1>9. CASE f.op \notin Deliveries /\ ~(f.op = "connect" /\ f.pc = "cas") /\ ~(f.op = "yield" /\ f.pc = "disconnected")
  BY <1>1, <1>3, <1>5, <1>9 DEF StateOf
<1> QED
  BY <1>6, <1>7, <1>8, <1>9

LEMMA Unclaimed ==
  ASSUME NEW a \in Applications, Quiet(a), NEW t \in Threads, NEW u \in Threads, t # u,
         NEW op \in (Own(a, t) \union a.handler) \ {"publish0", "reconnect"}
  PROVE  InProgress(op) \notin Claimed(a, u)
<1>1. a[t] \subseteq Requests /\ a.handler \subseteq Requests /\ a[u] \subseteq Requests
  BY OwnOps
<1>2. CASE op \in a[t] \union a.handler
  <2>1. \A other \in a[u] \union a.handler : InProgress(op) # InProgress(other)
    BY <1>2 DEF Quiet
  <2>2. InProgress(op) \in {"PUBLISH", "SUBSCRIBE", "UNSUBSCRIBE"}
    BY <1>1, <1>2, InProgressIs
  <2> QED
    BY <2>1, <2>2 DEF Claimed, Closed
<1>3. CASE op \notin a[t] \union a.handler
  <2>1. t = "main" /\ u # "main" /\ op \in {"connect", "yield"}
    BY <1>3 DEF Own
  <2>2. \A other \in a[u] \union a.handler : InProgress(other) \in {"PUBLISH", "SUBSCRIBE", "UNSUBSCRIBE"}
    BY <1>1, InProgressIs
  <2> QED
    BY <2>1, <2>2, InProgressIs DEF Claimed
<1> QED
  BY <1>2, <1>3

\* Where nobody else relies on the state.
LEMMA ClearShared ==
  ASSUME TypeInv, FramesOK, MutexInv, Quiet(app), NEW t \in Threads, clientState \in Shared
  PROVE  Clear(t)
<1> SUFFICES ASSUME NEW u \in Threads, Relying(u) PROVE FALSE
  BY DEF Clear
<1>1. clientState \in Claimed(app, u)
  BY Claims
<1>2. app[u] \subseteq Requests /\ app.handler \subseteq Requests
  BY OwnOps DEF TypeInv
<1> QED
  BY <1>1, <1>2, InProgressIs DEF Claimed, Shared, Closed
LEMMA ClearClosed ==
  ASSUME TypeInv, FramesOK, MutexInv, Quiet(app), clientState \in Closed
  PROVE  Clear("main")
<1> SUFFICES ASSUME NEW u \in Threads \ {"main"}, Relying(u) PROVE FALSE
  BY DEF Clear
<1>1. clientState \in Claimed(app, u)
  BY Claims
<1>2. app[u] \subseteq Requests /\ app.handler \subseteq Requests
  BY OwnOps DEF TypeInv
<1> QED
  BY <1>1, <1>2, InProgressIs DEF Claimed, Closed
LEMMA ClearOwn ==
  ASSUME TypeInv, FramesOK, MutexInv, Quiet(app), NEW t \in Threads, Running(t),
         Top(t).op \in Requests \union {"connect", "yield"}, Top(t).op = "publish0" => Relying(t),
         clientState = InProgress(Top(t).op)
  PROVE  Clear(t)
<1>1. CASE Relying(t)
  BY <1>1 DEF MutexInv
<1>2. CASE ~Relying(t)
  <2>1. Top(t) = stack[t][1] /\ 1 \in 1..Len(stack[t])
    BY FirstFrame DEF TypeInv
  <2>2. Top(t).op \in (Own(app, t) \union app.handler) \ {"publish0", "reconnect"}
    BY <1>2, <2>1, FrameOps DEF Deliveries, Requests
  <2>3. \A u \in Threads \ {t} : clientState \notin Claimed(app, u)
    BY <2>2, Unclaimed DEF TypeInv
  <2> QED
    BY <2>3, Claims DEF Clear
<1> QED
  BY <1>1, <1>2

LEMMA Onward ==
  ASSUME MutexInv, NEW t \in Threads, NEW f, Replaced(t, f), UNCHANGED <<app, clientState>>, Relying(t),
         Relies(f) => StateOf(f) = StateOf(Top(t))
  PROVE  MutexInv'
<1>1. Running(t)' /\ Top(t)' = f
  BY NewTop
<1>2. \A u \in Threads \ {t} : stack'[u] = stack[u]
  BY DEF Replaced
<1>3. Relying(t)' => Relies(f)
  BY <1>1 DEF Relying
<1>4. Quiet(app) => clientState = StateOf(Top(t)) /\ Clear(t) /\ clientState # "PENDING_RECONNECT"
  BY DEF MutexInv
<1> QED
  BY <1>1, <1>2, <1>3, <1>4, MutexStep

LEMMA PopIdle ==
  ASSUME TypeInv, FramesOK, NEW t \in Threads, Running(t), Popped(t), Quiet(app), Top(t).op \notin Deliveries
  PROVE  ~Relying(t)'
<1> SUFFICES ASSUME Running(t)' PROVE ~Relies(Top(t)')
  BY DEF Relying
<1>1. Len(stack[t]) # 1 /\ Top(t)' = stack[t][2]
  BY PoppedTop
<1>2. CalledOK(app, Top(t), stack[t][2]) /\ FrameOK(app, stack[t][2]) /\ FrameOK(app, Top(t))
  BY <1>1, FirstFrame DEF TypeInv
<1>3. stack[t][2].pc = "handler" /\ stack[t][2].op \in Deliveries
  BY <1>2 DEF CalledOK, Within, FrameOK
<1> QED
  BY <1>1, <1>3 DEF Relies, Deliveries

\* A read goes on after its handlers: what it waits in is what the delivery found.
LEMMA AfterState ==
  ASSUME TypeInv, FramesOK, NEW t \in Threads, Running(t), Top(t).op \in Deliveries, Quiet(app), NEW f,
         Same(f, stack[t][2])
  PROVE  /\ f.pc = "end" => ~Relies(f)
         /\ f.pc \in {"wait", "keepalive"} => StateOf(f) = Top(t).old
         /\ Top(t).old \notin {"PENDING_RECONNECT"}
<1>1. /\ CalledOK(app, Top(t), stack[t][2]) /\ stack[t][2].op \in Waiting \union {"connect", "yield"}
  BY DeliveryCalled
<1>2. Top(t).old = InProgress(f.op) /\ f.op \in Waiting \union {"connect", "yield"}
  BY <1>1 DEF CalledOK, Same
<1> QED
  BY <1>2, InProgressIs DEF Relies, StateOf, Waiting, Deliveries, InProgress

LEMMA CasMutex == ASSUME TypeInv, FramesOK, MutexInv, NEW t \in Threads, Cas(t) PROVE MutexInv'
<1> DEFINE f == Top(t)
<1>1. /\ Running(t) /\ UNCHANGED app /\ f.pc = "cas" /\ f \in Frames /\ FrameOK(app, f)
      /\ f.op \in Requests \union {"connect", "resubscribe", "yield"}
  BY CasMove, FirstFrame DEF Cas, At, rest, TypeInv
<1>2. CASE Quiet(app) /\ Granted(f) /\ Replaced(t, NextPc(t, CasPc(f.op)))
  <2> DEFINE g == NextPc(t, CasPc(f.op))
  <2>1. f.op \in Requests \union {"connect", "yield"}
    BY <1>1, <1>2 DEF FrameOK
  <2>2. CasPc(f.op) \in PcsOf(f.op)
    BY <2>1 DEF CasPc, PcsOf, Requests, Waiting
  <2>3. g.pc = CasPc(f.op) /\ g.op = f.op
    BY <1>1, <2>2, NextFrame DEF NextPc
  <2>4. StateOf(g) = InProgress(f.op)
    BY <2>1, <2>3 DEF StateOf, CasPc, Requests, Deliveries
  <2>5. InProgress(f.op) # "PENDING_RECONNECT"
    BY <2>1, InProgressIs
  <2>6. Clear(t) /\ clientState = f.old
    <3>1. CASE f.op = "connect"
      <4>1. Relying(t)
        BY <1>1, <3>1 DEF Relying, Relies
      <4>2. StateOf(f) = f.old
        BY <1>1, <3>1 DEF StateOf, Deliveries
      <4> QED
        BY <1>2, <4>1, <4>2 DEF MutexInv
    <3>2. CASE f.op # "connect"
      <4>1. clientState = f.old /\ f.old \in Shared
        BY <1>1, <1>2, <2>1, <3>2 DEF Granted, FrameOK
      <4> QED
        BY <1>2, <4>1, ClearShared
    <3> QED
      BY <3>1, <3>2
  <2>7. clientState' = InProgress(f.op)
    <3>1. clientState' = CompareAndSet(f.old, InProgress(f.op))
      BY <1>2 DEF Cas
    <3> QED
      BY <2>6, <3>1 DEF CompareAndSet
  <2>8. Top(t)' = g /\ \A u \in Threads \ {t} : stack'[u] = stack[u]
    BY <1>2, NewTop, OthersStay
  <2> HIDE DEF g, f
  <2> QED
    BY <1>1, <2>4, <2>5, <2>6, <2>7, <2>8, MutexStep
<1>3. CASE Quiet(app) /\ ~Granted(f) /\ Popped(t)
  <2>1. ~Relying(t)'
    BY <1>1, <1>3, PopIdle DEF Deliveries, Requests
  <2>2. f.op \in Requests \union {"yield"} /\ f.old \in Shared
    BY <1>1, <1>3 DEF FrameOK, Granted
  <2>3. clientState' = clientState \/ (f.op = "unsubscribe" /\ clientState = "UNSUBSCRIBE" /\ clientState' = f.old)
    BY <1>3 DEF Cas, CompareAndSet
  <2>4. CASE clientState' = clientState
    BY <1>1, <1>3, <2>1, <2>4, MutexStep, OthersStay DEF MutexInv
  <2>5. CASE f.op = "unsubscribe" /\ clientState = "UNSUBSCRIBE" /\ clientState' = f.old
    <3>1. Clear(t)
      BY <1>1, <1>3, <2>5, ClearOwn, InProgressIs DEF Requests
    <3> QED
      BY <1>1, <1>3, <2>1, <2>2, <2>5, <3>1, MutexStep, OthersStay DEF Shared
  <2> QED
    BY <2>3, <2>4, <2>5
<1>4. CASE ~Quiet(app)
  BY <1>1, <1>4 DEF MutexInv
<1> QED
  BY <1>2, <1>3, <1>4, CasMove

LEMMA ReadMutex == ASSUME TypeInv, FramesOK, MutexInv, SettledInv, NEW t \in Threads, Read(t) PROVE MutexInv'
<1>1. /\ UNCHANGED <<app, clientState>> /\ Relying(t) /\ Running(t) /\ StateOf(Top(t)) = InProgress(Top(t).op)
      /\ \/ Top(t).pc = "wait" /\ Top(t).op \in Waiting \union {"connect"}
         \/ Top(t).pc = "read" /\ Top(t).op = "yield"
  BY ReadsAt DEF Read, rest
<1>2. Top(t) \in Frames
  BY <1>1, FirstFrame DEF TypeInv
<1>3. ASSUME NEW pc \in {"serialize", "end", "keepalive", "wait"}, Replaced(t, NextPc(t, pc)), pc \in PcsOf(Top(t).op)
      PROVE  MutexInv'
  <2>1. NextPc(t, pc).op = Top(t).op /\ NextPc(t, pc).pc = pc
    BY <1>2, <1>3, NextFrame DEF NextPc
  <2>2. StateOf(NextPc(t, pc)) = InProgress(Top(t).op)
    BY <1>1, <1>3, <2>1 DEF StateOf, Waiting, Deliveries
  <2> QED
    BY <1>1, <1>3, <2>2, Onward
<1>4. "end" \in PcsOf(Top(t).op) /\ (Top(t).op = "resubscribe" => "serialize" \in PcsOf(Top(t).op))
      /\ (IF Top(t).pc = "read" THEN "keepalive" ELSE "wait") \in PcsOf(Top(t).op)
  BY <1>1 DEF PcsOf, Waiting
<1>5. ASSUME NEW op \in Deliveries, NEW topic \in Topics, Pushed(t, Frame(op, "enter", topic), NextPc(t, Top(t).pc))
      PROVE  MutexInv'
  <2> DEFINE f == Frame(op, "enter", topic)
  <2>1. f.op = op /\ f.old = clientState
    BY FrameIs DEF Ops
  <2>2. Top(t)' = f /\ \A u \in Threads \ {t} : stack'[u] = stack[u]
    BY <1>5, NewTop, OthersStay
  <2>3. StateOf(f) = clientState
    BY <2>1 DEF StateOf, Deliveries
  <2> HIDE DEF f
  <2>4. Quiet(app) => Clear(t) /\ clientState # "PENDING_RECONNECT"
    BY <1>1 DEF MutexInv
  <2> QED
    BY <1>1, <2>2, <2>3, <2>4, MutexStep
<1> QED
  BY <1>3, <1>4, <1>5, ReadMove

\* A step that keeps the state and moves to another place where its call relies on it, or on nothing.
LEMMA GoesOn ==
  ASSUME TypeInv, FramesOK, MutexInv, NEW t \in Threads, Running(t), Relying(t), UNCHANGED <<app, clientState>>,
         Top(t).op \notin {"connect", "yield"} \/ Top(t).pc \notin {"cas", "disconnected"},
         NEW pc, pc \in PcsOf(Top(t).op) \ {"cas", "disconnected"}, Replaced(t, NextPc(t, pc))
  PROVE  MutexInv'
<1>1. Top(t) \in Frames /\ Top(t).op \in Ops
  BY FirstFrame DEF TypeInv
<1>2. NextPc(t, pc).op = Top(t).op /\ NextPc(t, pc).pc = pc /\ NextPc(t, pc).old = Top(t).old
  BY <1>1, NextFrame DEF NextPc
<1>3. StateOf(NextPc(t, pc)) = StateOf(Top(t))
  BY <1>1, <1>2 DEF StateOf, Ops
<1> QED
  BY <1>3, Onward

LEMMA StepMutex == ASSUME TypeInv, FramesOK, MutexInv, SettledInv, NEW t \in Threads, Step(t) PROVE MutexInv'
<1> USE DEF net, rest
<1> DEFINE f == Top(t)
<1>0. CASE ~Quiet(app)
  <2>1. app' = app
    BY StepTypes DEF Kept
  <2> QED
    BY <1>0, <2>1 DEF MutexInv
<1>a. ASSUME Running(t)
      PROVE  f \in Frames /\ FrameOK(app, f) /\ f.pc \in PcsOf(f.op) /\ f.op \in Ops
  BY <1>a, FirstFrame DEF TypeInv
<1>c1. CASE Cas(t)
  BY <1>c1, CasMutex
<1>c2. CASE TlsConnect(t)
  <2>1. Running(t) /\ f.pc = "tls" /\ f.op = "connect" /\ UNCHANGED <<app, clientState>> /\ Relying(t)
    BY <1>c2, TlsMove DEF TlsConnect, At, Relying, Relies
  <2>2. {"serialize", "end"} \subseteq PcsOf(f.op)
    BY <2>1 DEF PcsOf, Waiting
  <2> QED
    BY <1>c2, <2>1, <2>2, TlsMove, GoesOn
<1>c3. CASE Serialize(t)
  <2>1. /\ Running(t) /\ f.pc = "serialize" /\ f.op \in Requests \union {"connect", "resubscribe"}
        /\ UNCHANGED <<app, clientState>> /\ Relying(t)
    BY <1>c3, SerializeMove DEF Serialize, At, Relying, Relies
  <2>2. "end" \in PcsOf(f.op)
    BY <2>1 DEF PcsOf, Waiting, Requests
  <2>3. CASE Replaced(t, NextPc(t, "end"))
    BY <2>1, <2>2, <2>3, GoesOn
  <2>4. CASE Replaced(t, SendFrame(f)) /\ SentSlot(f) \in 0..NumHandlers
             /\ SentCount(f) \in 0..NumHandlers
    <3>1. SendFrame(f).op = f.op /\ SendFrame(f).pc = "send" /\ SendFrame(f).old = f.old
      BY <1>a, <2>1, <2>4, SendFrameIs
    <3>2. StateOf(SendFrame(f)) = StateOf(f)
      BY <2>1, <3>1 DEF StateOf, Deliveries, Requests
    <3> QED
      BY <2>1, <2>4, <3>2, Onward
  <2> QED
    BY <1>c3, <2>3, <2>4, SerializeMove
<1>c4. CASE SendPacket(t)
  <2>1. Running(t) /\ f.pc = "send" /\ UNCHANGED <<app, clientState>> /\ Relying(t)
    BY <1>c4 DEF SendPacket, At, Relying, Relies
  <2>2. CASE f.op = "deliver1" /\ PoppedTo(t, After(t, "SUCCESS")) /\ Same(After(t, "SUCCESS"), stack[t][2])
             /\ After(t, "SUCCESS").pc = (IF stack[t][2].pc = "read" THEN "keepalive" ELSE "wait")
    <3> DEFINE g == After(t, "SUCCESS")
    <3>1. Top(t)' = g /\ \A u \in Threads \ {t} : stack'[u] = stack[u]
      BY <2>2, NewTop, OthersStay
    <3>2. Quiet(app) => StateOf(g) = f.old
      BY <2>1, <2>2, AfterState DEF Deliveries
    <3>3. StateOf(f) = f.old
      BY <2>2 DEF StateOf, Deliveries
    <3>4. Quiet(app) => Clear(t) /\ clientState = f.old /\ clientState # "PENDING_RECONNECT"
      BY <2>1, <3>3 DEF MutexInv
    <3> HIDE DEF g, f
    <3> QED
      BY <2>1, <3>1, <3>2, <3>4, MutexStep
  <2>3. CASE f.op = "publish0" /\ Replaced(t, NextPc(t, "end"))
    <3>1. "end" \in PcsOf(f.op)
      BY <2>3 DEF PcsOf
    <3> QED
      BY <2>1, <2>3, <3>1, GoesOn
  <2>4. CASE f.op \in Waiting \union {"connect"} /\ Replaced(t, NextPc(t, "wait"))
    <3>1. "wait" \in PcsOf(f.op)
      BY <2>4 DEF PcsOf, Waiting
    <3> QED
      BY <2>1, <2>4, <3>1, GoesOn
  <2> QED
    BY <1>c4, <2>2, <2>3, <2>4, SendMove
<1>c5. CASE WaitTimeout(t)
  <2>1. Running(t) /\ f.pc = "wait" /\ UNCHANGED <<app, clientState>> /\ Relying(t) /\ f.op \in Waiting \union {"connect"}
    BY <1>c5, WaitTimeoutMove DEF WaitTimeout, At, Relying, Relies
  <2>2. "end" \in PcsOf(f.op)
    BY <2>1 DEF PcsOf, Waiting
  <2> QED
    BY <1>c5, <2>1, <2>2, WaitTimeoutMove, GoesOn
<1>c6. CASE Read(t)
  BY <1>c6, ReadMutex
<1>c7. CASE ReadError(t)
  <2>1. /\ Running(t) /\ UNCHANGED <<app, clientState>> /\ Relying(t)
        /\ \/ f.pc = "wait" /\ f.op \in Waiting \union {"connect"}
           \/ f.pc = "read" /\ f.op = "yield"
    BY <1>c7, ReadsAt DEF ReadError
  <2>2. (f.pc = "wait" => "end" \in PcsOf(f.op)) /\ (f.pc = "read" => "disconnect" \in PcsOf(f.op))
    BY <2>1 DEF PcsOf, Waiting
  <2> QED
    BY <1>c7, <2>1, <2>2, ReadErrorMove, GoesOn
<1>c22. CASE ReadFails(t)
  <2>1. /\ Running(t) /\ UNCHANGED <<app, clientState>> /\ Relying(t)
        /\ f.op \in Waiting \union {"connect", "yield"} /\ f.pc \in {"wait", "read"}
    BY <1>c22, ReadsAt, ReadFailsMove DEF ReadFails
  <2>2. "end" \in PcsOf(f.op)
    BY <2>1 DEF PcsOf, Waiting
  <2> QED
    BY <1>c22, <2>1, <2>2, ReadFailsMove, GoesOn
<1>c8. CASE Deliver(t)
  <2>1. Running(t) /\ f.pc = "enter" /\ f.op \in Deliveries /\ UNCHANGED app /\ Relying(t) /\ Replaced(t, NextPc(t, "handler"))
    BY <1>c8, DeliverMove DEF Deliver, At, Relying, Relies
  <2>2. "handler" \in PcsOf(f.op)
    BY <2>1 DEF PcsOf, Deliveries, Waiting
  <2>3. NextPc(t, "handler").pc = "handler" /\ NextPc(t, "handler").op = f.op
    BY <1>a, <2>1, <2>2, NextFrame DEF NextPc
  <2>4. Top(t)' = NextPc(t, "handler") /\ \A u \in Threads \ {t} : stack'[u] = stack[u]
    BY <2>1, NewTop, OthersStay
  <2>5. ~Relying(t)'
    BY <2>1, <2>3, <2>4 DEF Relying, Relies, Deliveries
  <2>6. Quiet(app) => clientState' # "PENDING_RECONNECT" /\ Clear(t)
    BY <1>c8, <2>1 DEF Deliver, CompareAndSet, MutexInv
  <2> QED
    BY <2>1, <2>4, <2>5, <2>6, MutexStep
<1>c9. CASE HandlersReturn(t) /\ Quiet(app)
  <2>1. Running(t) /\ f.pc = "handler" /\ f.op \in Deliveries /\ UNCHANGED app
    BY <1>c9, HandlersReturnMove DEF HandlersReturn, At
  <2>2. clientState # "WAIT_FOR_CB_RETURN" => clientState' = clientState
    BY <1>c9 DEF HandlersReturn, CompareAndSet
  <2>3. clientState = "WAIT_FOR_CB_RETURN" => clientState' = f.old /\ Clear(t)
    BY <1>c9, ClearShared DEF HandlersReturn, CompareAndSet, Shared
  <2>4. f.old # "PENDING_RECONNECT"
    <3>1. Same(stack[t][2], stack[t][2])
      BY DEF Same
    <3> QED
      BY <1>c9, <2>1, <3>1, AfterState
  <2>5. clientState # "PENDING_RECONNECT"
    BY <1>c9 DEF MutexInv
  <2>6. CASE clientState # "WAIT_FOR_CB_RETURN"
    <3> DEFINE g == After(t, "UNEXPECTED_STATE")
    <3>1. PoppedTo(t, g) /\ Same(g, stack[t][2]) /\ g.pc = "end"
      BY <1>c9, <2>6, HandlersReturnMove
    <3>2. Top(t)' = g /\ \A u \in Threads \ {t} : stack'[u] = stack[u]
      BY <3>1, NewTop, OthersStay
    <3>3. ~Relies(g)
      BY <1>c9, <2>1, <3>1, AfterState
    <3>4. ~Relying(t)'
      BY <3>2, <3>3 DEF Relying
    <3> QED
      BY <2>1, <2>2, <2>5, <2>6, <3>2, <3>4, MutexStep
  <2>7. CASE clientState = "WAIT_FOR_CB_RETURN" /\ f.op = "deliver0"
    <3> DEFINE g == After(t, "SUCCESS")
    <3>1. PoppedTo(t, g) /\ Same(g, stack[t][2]) /\ g.pc \in {"wait", "keepalive"}
      BY <1>c9, <2>7, HandlersReturnMove
    <3>2. Top(t)' = g /\ \A u \in Threads \ {t} : stack'[u] = stack[u]
      BY <3>1, NewTop, OthersStay
    <3>3. StateOf(g) = f.old
      BY <1>c9, <2>1, <3>1, AfterState
    <3> HIDE DEF g, f
    <3> QED
      BY <2>1, <2>3, <2>4, <2>7, <3>2, <3>3, MutexStep
  <2>8. CASE clientState = "WAIT_FOR_CB_RETURN" /\ f.op = "deliver1"
    <3> DEFINE g == NextPc(t, "puback")
    <3>1. Replaced(t, g) /\ "puback" \in PcsOf(f.op)
      BY <1>c9, <2>8, HandlersReturnMove DEF PcsOf, Waiting
    <3>2. Top(t)' = g /\ \A u \in Threads \ {t} : stack'[u] = stack[u]
      BY <3>1, NewTop, OthersStay
    <3>3. g.op = "deliver1" /\ g.old = f.old
      BY <1>a, <2>1, <2>8, <3>1, NextFrame DEF NextPc
    <3>4. StateOf(g) = f.old
      BY <3>3 DEF StateOf, Deliveries
    <3> HIDE DEF g, f
    <3> QED
      BY <2>1, <2>3, <2>4, <2>8, <3>2, <3>4, MutexStep
  <2> QED
    BY <2>1, <2>6, <2>7, <2>8 DEF Deliveries
<1>c10. CASE SerializePuback(t)
  <2>1. Running(t) /\ f.pc = "puback" /\ f.op = "deliver1" /\ UNCHANGED <<app, clientState>> /\ Relying(t)
        /\ Replaced(t, NextPc(t, "send"))
    BY <1>c10, PubackMove DEF SerializePuback, At, Relying, Relies
  <2>2. "send" \in PcsOf(f.op)
    BY <2>1 DEF PcsOf, Waiting
  <2> QED
    BY <2>1, <2>2, GoesOn
<1>c11. CASE EndCall(t) /\ Quiet(app)
  <2>1. Running(t) /\ f.pc = "end" /\ f.op \in Requests \union {"connect", "resubscribe"} /\ UNCHANGED app /\ Popped(t)
    BY <1>c11, EndCallMove DEF EndCall, At
  <2>2. ~Relying(t)'
    BY <1>c11, <2>1, PopIdle DEF Deliveries, Requests
  <2>3. f.op \in Requests \union {"connect"} /\ (f.op # "connect" => f.old \in Shared)
    BY <1>a, <1>c11, <2>1 DEF FrameOK
  <2>4. f.op = "publish0" => Relying(t)
    BY <2>1 DEF Relying, Relies
  <2>5. \/ clientState' = clientState
        \/ /\ clientState = InProgress(f.op)
           /\ clientState' \in {"IDLE", "DISCONNECTED_ERROR"} \/ (f.op # "connect" /\ clientState' = f.old)
    BY <1>c11 DEF EndCall, CompareAndSet
  <2>6. clientState' = clientState \/ Clear(t)
    BY <1>c11, <2>1, <2>3, <2>4, <2>5, ClearOwn
  <2>7. clientState' # "PENDING_RECONNECT"
    BY <1>c11, <2>3, <2>5 DEF Shared, MutexInv
  <2> QED
    BY <2>1, <2>2, <2>6, <2>7, MutexStep, OthersStay
<1>c12. CASE YieldLoop(t) /\ Quiet(app)
  <2>1. Running(t) /\ f.pc \in {"loop", "check"} /\ f.op = "yield" /\ UNCHANGED <<app, clientState>> /\ Relying(t)
    BY <1>c12, YieldLoopMove DEF YieldLoop, At, Relying, Relies
  <2>2. Replaced(t, NextPc(t, "read"))
    BY <1>c12, YieldLoopMove DEF MutexInv
  <2>3. "read" \in PcsOf(f.op)
    BY <2>1 DEF PcsOf, Waiting
  <2> QED
    BY <2>1, <2>2, <2>3, GoesOn
<1>c13. CASE KeepAlive(t)
  <2>1. Running(t) /\ f.pc \in {"keepalive", "read"} /\ f.op = "yield" /\ UNCHANGED <<app, clientState>> /\ Relying(t)
    BY <1>c13, KeepAliveMove DEF KeepAlive, At, Relying, Relies
  <2>2. {"check", "disconnect", "ping"} \subseteq PcsOf(f.op)
    BY <2>1 DEF PcsOf, Waiting
  <2> QED
    BY <1>c13, <2>1, <2>2, KeepAliveMove, GoesOn
<1>c14. CASE SendPing(t)
  <2>1. Running(t) /\ f.pc = "ping" /\ f.op = "yield" /\ UNCHANGED <<app, clientState>> /\ Relying(t)
    BY <1>c14, SendPingMove DEF SendPing, At, Relying, Relies
  <2>2. "check" \in PcsOf(f.op)
    BY <2>1 DEF PcsOf, Waiting
  <2> QED
    BY <1>c14, <2>1, <2>2, SendPingMove, GoesOn
<1>c15. CASE HandleDisconnect(t) /\ Quiet(app)
  <2>1. Running(t) /\ f.pc = "disconnect" /\ f.op = "yield" /\ UNCHANGED app /\ Relying(t)
    BY <1>c15, HandleDisconnectMove DEF HandleDisconnect, At, Relying, Relies
  <2>2. StateOf(f) = "YIELD"
    BY <2>1, InProgressIs DEF StateOf, Deliveries
  <2>3. clientState' = "DISCONNECTED_MANUALLY" /\ Clear(t)
    BY <1>c15, <2>1, <2>2 DEF MutexInv, HandleDisconnect, Connected, ConnectedStates
  <2>4. Replaced(t, NextPc(t, "disconnected")) /\ "disconnected" \in PcsOf(f.op)
    BY <1>c15, <2>1, HandleDisconnectMove DEF PcsOf, Waiting
  <2>5. NextPc(t, "disconnected").pc = "disconnected" /\ NextPc(t, "disconnected").op = "yield"
    BY <1>a, <2>1, <2>4, NextFrame DEF NextPc
  <2>6. StateOf(NextPc(t, "disconnected")) = "DISCONNECTED_MANUALLY"
    BY <2>5 DEF StateOf, Deliveries
  <2>7. Top(t)' = NextPc(t, "disconnected") /\ \A u \in Threads \ {t} : stack'[u] = stack[u]
    BY <2>4, NewTop, OthersStay
  <2> QED
    BY <2>1, <2>3, <2>6, <2>7, MutexStep
<1>c16. CASE DisconnectHandled(t) /\ Quiet(app)
  <2>1. Running(t) /\ f.pc = "disconnected" /\ f.op = "yield" /\ UNCHANGED app /\ Relying(t) /\ ~app.auto
    BY <1>c16, DisconnectHandledMove DEF DisconnectHandled, At, Relying, Relies, Quiet
  <2>2. Replaced(t, NextPc(t, "end")) /\ clientState' = "DISCONNECTED_ERROR" /\ "end" \in PcsOf(f.op)
    BY <1>c16, <2>1, DisconnectHandledMove DEF PcsOf, Waiting, DisconnectHandled
  <2>3. NextPc(t, "end").pc = "end" /\ NextPc(t, "end").op = "yield"
    BY <1>a, <2>1, <2>2, NextFrame DEF NextPc
  <2>4. Top(t)' = NextPc(t, "end") /\ \A u \in Threads \ {t} : stack'[u] = stack[u]
    BY <2>2, NewTop, OthersStay
  <2>5. ~Relying(t)' /\ Clear(t)
    BY <1>c16, <2>1, <2>3, <2>4 DEF Relying, Relies, MutexInv
  <2> QED
    BY <2>1, <2>2, <2>4, <2>5, MutexStep
<1>c17. CASE Reconnected(t) /\ Quiet(app)
  <2>1. Running(t) /\ f.pc = "reconnected" /\ f.op = "yield" /\ UNCHANGED app /\ Relying(t)
    BY <1>c17, ReconnectedMove DEF Reconnected, At, Relying, Relies
  <2>2. StateOf(f) = "YIELD"
    BY <2>1, InProgressIs DEF StateOf, Deliveries
  <2>3. clientState' = clientState
    BY <1>c17, <2>1, <2>2 DEF MutexInv, Reconnected, CompareAndSet
  <2>4. Replaced(t, NextPc(t, "check")) /\ "check" \in PcsOf(f.op)
    BY <1>c17, <2>1, ReconnectedMove DEF PcsOf, Waiting
  <2> QED
    BY <2>1, <2>3, <2>4, GoesOn
<1>c18. CASE EndYield(t) /\ Quiet(app)
  <2>1. Running(t) /\ f.op = "yield" /\ UNCHANGED app /\ Popped(t)
    BY <1>c18, EndYieldMove DEF EndYield, At
  <2>2. ~Relying(t)'
    BY <1>c18, <2>1, PopIdle DEF Deliveries
  <2>3. clientState' = clientState \/ (clientState = "YIELD" /\ clientState' = "IDLE")
    BY <1>c18 DEF EndYield, CompareAndSet
  <2>4. clientState' = clientState \/ Clear(t)
    BY <1>c18, <2>1, <2>3, ClearOwn, InProgressIs
  <2>5. clientState' # "PENDING_RECONNECT"
    BY <1>c18, <2>3 DEF MutexInv
  <2> QED
    BY <2>1, <2>2, <2>4, <2>5, MutexStep, OthersStay
<1>c19. CASE ReconnectStart(t) \/ ConnectReturned(t) \/ Resubscribed(t)
  BY <1>0, <1>c19, ReconnectStartMove, ConnectReturnedMove, ResubscribedMove
<1> QED
  BY <1>0, <1>c1, <1>c2, <1>c3, <1>c4, <1>c5, <1>c6, <1>c7, <1>c8, <1>c9, <1>c10, <1>c11, <1>c12, <1>c13, <1>c14,
     <1>c15, <1>c16, <1>c17, <1>c18, <1>c19, <1>c22 DEF Step

-----------------------------------------------------------------------------
(* The state of a client that one thread uses.                             *)

LEMMA NextPcIs ==
  ASSUME TypeInv, FramesOK, NEW t \in Threads, Running(t), NEW pc
  PROVE  /\ NextPc(t, pc).pc = pc /\ NextPc(t, pc).op = Top(t).op /\ NextPc(t, pc).slot = Top(t).slot
         /\ NextPc(t, pc).topic = Top(t).topic /\ NextPc(t, pc).old = Top(t).old
         /\ NextPc(t, pc).count = Top(t).count
BY FirstFrame DEF NextPc, Frames, TypeInv

LEMMA StateIs ==
  ASSUME NEW f, NEW result
  PROVE  /\ f.op \in Deliveries => StateAt(f, result) = IF f.pc = "handler" THEN {"WAIT_FOR_CB_RETURN"} ELSE {f.old}
         /\ f.op \in Requests \union {"connect", "resubscribe"} =>
              StateAt(f, result) = IF f.pc = "cas" THEN {f.old} ELSE {InProgress(f.op)}
         /\ f.op = "reconnect" => StateAt(f, result) = IF f.pc = "resubscribed" THEN {"IDLE"} ELSE Settled
         /\ f.op = "yield" => StateAt(f, result) = YieldStates(f, result)
BY DEF StateAt, Deliveries, Requests

LEMMA SettledStep ==
  ASSUME UNCHANGED app,
         Single(app) =>
           /\ Running("main")' => clientState' \in StateAt(Top("main")', rc'["main"])
           /\ ~Running("main")' => clientState' \in Settled
           /\ Running("main")' /\ Top("main")'.op = "reconnect" /\ Len(stack'["main"]) > 1
                /\ stack'["main"][2].pc = "reconnected" => clientState' \in ReconnectStates(Top("main")'.pc)
  PROVE  SettledInv'
BY DEF SettledInv, Single

\* The running frame becomes f.
LEMMA SettledOn ==
  ASSUME TypeInv, UNCHANGED app, NEW f, Replaced("main", f),
         Single(app) => clientState' \in StateAt(f, rc'["main"]),
         Single(app) /\ f.op = "reconnect" /\ Len(stack["main"]) > 1 /\ stack["main"][2].pc = "reconnected"
           => clientState' \in ReconnectStates(f.pc)
  PROVE  SettledInv'
<1>1. Running("main")' /\ Top("main")' = f /\ Len(stack'["main"]) = Len(stack["main"])
  BY NewTop DEF Threads, Replaced
<1>2. Len(stack["main"]) > 1 => stack'["main"][2] = stack["main"][2]
  <2>1. Len(stack["main"]) \in Nat /\ \A i \in 2..Len(stack["main"]) : stack'["main"][i] = stack["main"][i]
    BY DEF Replaced
  <2>2. \A n \in Nat : n > 1 => 2 \in 2..n
    OBVIOUS
  <2> QED
    BY <2>1, <2>2, Zenon
<1> QED
  BY <1>1, <1>2, SettledStep

\* It calls f and waits as g.
LEMMA SettledCall ==
  ASSUME TypeInv, UNCHANGED app, NEW f, NEW g, Pushed("main", f, g),
         Single(app) => clientState' \in StateAt(f, rc'["main"]),
         Single(app) /\ f.op = "reconnect" /\ g.pc = "reconnected" => clientState' \in ReconnectStates(f.pc)
  PROVE  SettledInv'
<1>1. Running("main")' /\ Top("main")' = f
  BY NewTop DEF Threads
<1>2. stack'["main"][2] = g
  BY DEF Pushed
<1> QED
  BY <1>1, <1>2, SettledStep

\* Its read goes on as f.
LEMMA SettledAfter ==
  ASSUME TypeInv, UNCHANGED app, NEW f, PoppedTo("main", f), f.op # "reconnect",
         Single(app) => clientState' \in StateAt(f, rc'["main"])
  PROVE  SettledInv'
<1>1. Running("main")' /\ Top("main")' = f
  BY NewTop DEF Threads
<1> QED
  BY <1>1, SettledStep

\* It returns: to nobody, to a handler, to an attempt to reconnect, or to yield.
LEMMA SettledReturn ==
  ASSUME TypeInv, FramesOK, UNCHANGED app, Running("main"), Popped("main"),
         Single(app) =>
           /\ Top("main").op \notin Deliveries
           /\ Top("main").op \in Requests /\ Top("main").old = "WAIT_FOR_CB_RETURN" => clientState' = "WAIT_FOR_CB_RETURN"
           /\ Top("main").op \in Requests /\ Top("main").old = "IDLE" => clientState' = "IDLE"
           /\ Top("main").op = "connect" => clientState' \in {"IDLE", "DISCONNECTED_ERROR"}
           /\ Top("main").op = "resubscribe" => clientState' = "IDLE"
           /\ Top("main").op \in {"yield", "reconnect"} => clientState' \in Settled
           /\ Top("main").op = "reconnect" /\ Len(stack["main"]) > 1 /\ stack["main"][2].pc = "reconnected"
                => clientState' \in {"IDLE", "PENDING_RECONNECT"}
  PROVE  SettledInv'
<1> DEFINE f == Top("main")
           g == stack["main"][2]
<1>1. /\ Len(stack["main"]) = 1 => ~Running("main")' /\ BottomOK(app, "main", f)
      /\ Running("main")' => /\ Len(stack["main"]) # 1 /\ Len(stack["main"]) > 1 /\ Top("main")' = g
                             /\ CalledOK(app, f, g) /\ g.pc \in PcsOf(g.op) /\ g.op \in Ops
  BY PoppedTop, FirstFrame, FrameFields DEF Threads, FrameOK, TypeInv
<1>2. f.op \in Ops /\ (Len(stack["main"]) # 1 => Running("main")')
  <2>1. Len(stack'["main"]) = Len(stack["main"]) - 1 /\ Len(stack["main"]) \in Nat \ {0} /\ stack'["main"] \in Seq(Frames)
    BY DEF Popped, Threads
  <2>2. Len(stack["main"]) # 1 => Len(stack'["main"]) # 0
    BY <2>1
  <2> QED
    BY <2>2, FirstFrame DEF Threads, TypeInv, Running
<1> HIDE DEF f, g
<1>3. ASSUME Single(app), ~Running("main")' PROVE clientState' \in Settled
  <2>1. BottomOK(app, "main", f)
    BY <1>1, <1>2, <1>3
  <2> QED
    BY <1>2, <1>3, <2>1 DEF f, BottomOK, Settled, Closed, Ops
<1>4. ASSUME Single(app), Running("main")' PROVE clientState' \in StateAt(g, rc'["main"])
  <2>1. CalledOK(app, f, g) /\ f.op \notin Deliveries
    BY <1>1, <1>4 DEF f
  <2>2. CASE f.op \in Requests
    BY <1>4, <2>1, <2>2 DEF f, CalledOK, Within, StateAt, Requests, Deliveries
  <2>3. CASE f.op \in {"connect", "resubscribe"}
    BY <1>4, <2>1, <2>3 DEF f, CalledOK, Within, StateAt, Settled, Closed, Requests, Deliveries
  <2>4. CASE f.op = "reconnect"
    <3>1. g.op = "yield" /\ g.pc \in {"reconnected", "disconnected"}
      BY <2>1, <2>4 DEF CalledOK, Within, Requests, Deliveries
    <3> QED
      BY <1>1, <1>4, <2>4, <3>1 DEF f, g, StateAt, YieldStates, Deliveries
  <2>5. f.op # "yield"
    BY <2>1 DEF CalledOK, Within, Requests, Deliveries
  <2> QED
    BY <1>2, <2>1, <2>2, <2>3, <2>4, <2>5 DEF Ops
<1>5. ASSUME Single(app), Running("main")', g.op = "reconnect" PROVE clientState' \in ReconnectStates(g.pc)
  <2>1. (f.op = "connect" /\ g.pc = "connected") \/ (f.op = "resubscribe" /\ g.pc = "resubscribed")
    <3>1. Within(f, g) /\ g.pc \in {"start", "connected", "resubscribed"}
      BY <1>1, <1>5 DEF CalledOK, PcsOf, Waiting
    <3> QED
      BY <1>5, <3>1 DEF Within, Deliveries
  <2> QED
    BY <1>5, <2>1 DEF f, ReconnectStates
<1> QED
  BY <1>1, <1>3, <1>4, <1>5, SettledStep

LEMMA StepSettled == ASSUME TypeInv, FramesOK, MutexInv, SettledInv, NEW t \in Threads, Step(t) PROVE SettledInv'
<1>1. UNCHANGED app
  BY StepTypes DEF Kept
<1>2. Running(t)
  BY DEF Step, Cas, TlsConnect, Serialize, SendPacket, WaitTimeout, Read, ReadError, ReadFails, Deliver, HandlersReturn,
         SerializePuback, EndCall, YieldLoop, KeepAlive, SendPing, HandleDisconnect, DisconnectHandled, Reconnected,
         EndYield, ReconnectStart, ConnectReturned, Resubscribed, At
<1>3. CASE ~Single(app)
  BY <1>1, <1>3 DEF SettledInv
<1>4. Single(app) => t = "main"
  BY <1>2, WorkerIdle DEF Threads
<1> SUFFICES ASSUME Single(app), t = "main" PROVE SettledInv'
  BY <1>3, <1>4
<1> DEFINE f == Top("main")
           st == clientState
           r == rc["main"]
<1>5. /\ f \in Frames /\ FrameOK(app, f) /\ f.op \in Ops /\ f.pc \in PcsOf(f.op)
      /\ st \in StateAt(f, r)
      /\ f.op = "reconnect" /\ Len(stack["main"]) > 1 /\ stack["main"][2].pc = "reconnected" => st \in ReconnectStates(f.pc)
  BY <1>2, FirstFrame DEF SettledInv, TypeInv
<1>6. /\ f.op \in Deliveries => st = IF f.pc = "handler" THEN "WAIT_FOR_CB_RETURN" ELSE f.old
      /\ f.op \in Requests \union {"connect", "resubscribe"} => st = IF f.pc = "cas" THEN f.old ELSE InProgress(f.op)
      /\ f.op = "reconnect" => st \in IF f.pc = "resubscribed" THEN {"IDLE"} ELSE Settled
      /\ f.op = "yield" => st \in YieldStates(f, r)
  BY <1>5, StateIs
<1>7. \A pc : /\ NextPc("main", pc).pc = pc /\ NextPc("main", pc).op = f.op /\ NextPc("main", pc).old = f.old
  BY <1>2, NextPcIs
<1>r. \A x : rc' = [rc EXCEPT !["main"] = x] => rc'["main"] = x
  BY DEF TypeInv
<1> HIDE DEF f, st, r
\* A request, a connect or a resubscribe goes on in the state it has taken.
<1>10. ASSUME NEW g, Replaced("main", g), g.op = f.op, g.pc # "cas", f.pc # "cas",
              f.op \in Requests \union {"connect", "resubscribe"}, clientState' = st
       PROVE  SettledInv'
  <2>1. clientState' \in StateAt(g, rc'["main"])
    BY <1>6, <1>10, StateIs
  <2> QED
    BY <1>1, <1>10, <2>1, SettledOn DEF Requests
<1>11. ASSUME NEW pc, Replaced("main", NextPc("main", pc)), pc # "cas", f.pc # "cas",
              f.op \in Requests \union {"connect", "resubscribe"}, clientState' = st
       PROVE  SettledInv'
  BY <1>7, <1>10, <1>11
\* Yield goes on in one of the states it may be in.
<1>12. ASSUME NEW pc, Replaced("main", NextPc("main", pc)), f.op = "yield",
              clientState' \in YieldStates(NextPc("main", pc), rc'["main"])
       PROVE  SettledInv'
  <2>1. clientState' \in StateAt(NextPc("main", pc), rc'["main"])
    BY <1>7, <1>12, StateIs
  <2> QED
    BY <1>1, <1>7, <1>12, <2>1, SettledOn
\* The call that reads goes on after the handlers, in the state they found.
<1>13. ASSUME NEW g, PoppedTo("main", g), Same(g, stack["main"][2]), f.op \in Deliveries, clientState' = f.old,
              g.pc = IF stack["main"][2].pc = "read" THEN "keepalive" ELSE "wait"
       PROVE  SettledInv'
  <2>1. /\ CalledOK(app, f, stack["main"][2]) /\ FrameOK(app, stack["main"][2])
        /\ \/ stack["main"][2].pc = "wait" /\ stack["main"][2].op \in Waiting \union {"connect"}
           \/ stack["main"][2].pc = "read" /\ stack["main"][2].op = "yield"
    BY <1>2, <1>13, DeliveryCalled DEF f
  <2>2. f.old \in ReadStates(g.op)
    BY <1>13, <2>1 DEF CalledOK, Same
  <2>3. \/ g.pc = "wait" /\ g.op \in Waiting \union {"connect"}
        \/ g.pc = "keepalive" /\ g.op = "yield"
    BY <1>13, <2>1 DEF Same
  <2>4. clientState' \in StateAt(g, rc'["main"]) /\ g.op # "reconnect"
    BY <1>13, <2>2, <2>3 DEF StateAt, ReadStates, YieldStates, Deliveries, Waiting
  <2> QED
    BY <1>1, <1>13, <2>4, SettledAfter
<1>c1. CASE Cas(t)
  <2>1. f.pc = "cas" /\ f.op \in Requests \union {"connect", "resubscribe", "yield"}
    BY <1>c1, CasMove DEF Cas, At, f
  <2>2. st = f.old
    BY <1>6, <2>1 DEF YieldStates, Requests
  <2>3. /\ clientState' = InProgress(f.op) /\ Replaced("main", NextPc("main", CasPc(f.op)))
    <3>1. Granted(f)
      BY <2>2 DEF Granted, st
    <3>2. clientState' = CompareAndSet(f.old, InProgress(f.op))
      BY <1>c1, <3>1 DEF Cas, f
    <3> QED
      BY <1>c1, <2>2, <3>1, <3>2, CasMove DEF CompareAndSet, f, st
  <2> DEFINE g == NextPc("main", CasPc(f.op))
  <2>4. g.pc = CasPc(f.op) /\ g.op = f.op
    BY <1>7
  <2> HIDE DEF g
  <2>5. CasPc(f.op) = IF f.op = "yield" THEN "loop" ELSE IF f.op = "connect" THEN "tls" ELSE "serialize"
    BY DEF CasPc
  <2>6. clientState' \in StateAt(g, rc'["main"])
    BY <2>1, <2>3, <2>4, <2>5, StateIs DEF YieldStates, InProgress
  <2> QED
    BY <1>1, <2>1, <2>3, <2>4, <2>6, SettledOn DEF g, Requests
<1>c2. CASE TlsConnect(t)
  BY <1>11, <1>c2, TlsMove DEF f, st, TlsConnect, At
<1>c3. CASE Serialize(t)
  <2>1. f.pc = "serialize" /\ clientState' = st /\ f.op \in Requests \union {"connect", "resubscribe"}
    BY <1>c3, SerializeMove DEF f, st, Serialize, At
  <2>2. CASE Replaced("main", NextPc("main", "end"))
    BY <1>11, <2>1, <2>2
  <2>3. CASE Replaced("main", SendFrame(f)) /\ SentSlot(f) \in 0..NumHandlers
             /\ SentCount(f) \in 0..NumHandlers
    BY <1>5, <1>10, <2>1, <2>3, SendFrameIs
  <2> QED
    BY <1>c3, <2>2, <2>3, SerializeMove DEF f
<1>c4. CASE SendPacket(t)
  <2>1. f.pc = "send" /\ clientState' = st
    BY <1>c4 DEF f, st, SendPacket, At
  <2>2. f.op \in Requests \union {"connect", "resubscribe", "deliver1"}
    BY <1>5, <2>1, OpAt
  <2>3. CASE f.op = "deliver1"
    <3>1. st = f.old /\ f.op \in Deliveries
      BY <1>6, <2>1, <2>3 DEF Deliveries
    <3> QED
      BY <1>13, <1>c4, <2>1, <2>3, <3>1, SendMove DEF f, Waiting, Requests
  <2>4. CASE f.op # "deliver1"
    BY <1>11, <1>c4, <2>1, <2>2, <2>4, SendMove DEF f
  <2> QED
    BY <2>3, <2>4
<1>c5. CASE WaitTimeout(t)
  <2>1. f.pc = "wait" /\ clientState' = st /\ f.op \in Requests \union {"connect", "resubscribe"}
    BY <1>c5, WaitTimeoutMove DEF f, st, WaitTimeout, At, Waiting, Requests
  <2> QED
    BY <1>11, <1>c5, <2>1, WaitTimeoutMove
<1>c6. CASE Read(t)
  <2>1. /\ clientState' = st
        /\ \/ f.pc = "wait" /\ f.op \in Requests \union {"connect", "resubscribe"}
           \/ f.pc = "read" /\ f.op = "yield"
    BY <1>c6, ReadsAt DEF f, st, Read, Waiting, Requests
  <2>2. CASE \E op \in Deliveries, topic \in Topics : Pushed("main", Frame(op, "enter", topic), NextPc("main", f.pc))
    <3>1. PICK op \in Deliveries, topic \in Topics : Pushed("main", Frame(op, "enter", topic), NextPc("main", f.pc))
      BY <2>2
    <3> DEFINE g == Frame(op, "enter", topic)
    <3>2. g.op = op /\ g.pc = "enter" /\ g.old = st
      BY DEF Frame, st
    <3> HIDE DEF g
    <3>3. clientState' \in StateAt(g, rc'["main"]) /\ g.op # "reconnect"
      BY <2>1, <3>2, StateIs DEF Deliveries
    <3> QED
      BY <1>1, <3>1, <3>3, SettledCall DEF g
  <2>3. CASE f.pc = "wait" /\ \E pc \in {"serialize", "end", "wait"} : Replaced("main", NextPc("main", pc))
    BY <1>11, <2>1, <2>3
  <2>4. CASE f.pc = "read" /\ Replaced("main", NextPc("main", "keepalive"))
    <3>1. f.op = "yield" /\ st \in {"YIELD", "IDLE"}
      BY <1>6, <2>1, <2>4 DEF YieldStates
    <3> QED
      BY <1>7, <1>12, <2>1, <2>4, <3>1 DEF YieldStates
  <2> QED
    BY <1>c6, <2>1, <2>2, <2>3, <2>4, ReadMove DEF f
<1>c7. CASE ReadError(t)
  <2>1. /\ clientState' = st
        /\ \/ f.pc = "wait" /\ f.op \in Requests \union {"connect", "resubscribe"}
           \/ f.pc = "read" /\ f.op = "yield"
    BY <1>c7, ReadsAt DEF f, st, ReadError, Waiting, Requests
  <2>2. CASE f.pc = "wait"
    BY <1>11, <1>c7, <2>1, <2>2, ReadErrorMove DEF f
  <2>3. CASE f.pc = "read"
    <3>1. f.op = "yield" /\ st \in {"YIELD", "IDLE"} /\ Replaced("main", NextPc("main", "disconnect"))
      BY <1>6, <1>c7, <2>1, <2>3, ReadErrorMove DEF YieldStates, f
    <3> QED
      BY <1>7, <1>12, <2>1, <3>1 DEF YieldStates
  <2> QED
    BY <2>1, <2>2, <2>3
<1>c22. CASE ReadFails(t)
  <2>1. /\ clientState' = st /\ Replaced("main", NextPc("main", "end")) /\ rc'["main"] = "READ_FAILED"
        /\ \/ f.pc = "wait" /\ f.op \in Requests \union {"connect", "resubscribe"}
           \/ f.pc = "read" /\ f.op = "yield"
    BY <1>c22, <1>r, ReadsAt, ReadFailsMove DEF f, st, ReadFails, Waiting, Requests
  <2>2. CASE f.pc = "wait"
    BY <1>11, <2>1, <2>2
  <2>3. CASE f.pc = "read"
    <3>1. f.op = "yield" /\ st \in {"YIELD", "IDLE"}
      BY <1>6, <2>1, <2>3 DEF YieldStates
    <3> QED
      BY <1>7, <1>12, <2>1, <3>1 DEF YieldStates, Settled
  <2> QED
    BY <2>1, <2>2, <2>3
<1>c8. CASE Deliver(t)
  <2>1. f.pc = "enter" /\ f.op \in Deliveries /\ Replaced("main", NextPc("main", "handler"))
    BY <1>c8, DeliverMove DEF f, Deliver, At
  <2>2. clientState' = "WAIT_FOR_CB_RETURN"
    BY <1>6, <1>c8, <2>1 DEF f, st, Deliver, CompareAndSet
  <2>3. clientState' \in StateAt(NextPc("main", "handler"), rc'["main"])
    BY <1>7, <2>1, <2>2, StateIs
  <2> QED
    BY <1>1, <1>7, <2>1, <2>3, SettledOn DEF Deliveries
<1>c9. CASE HandlersReturn(t)
  <2>1. f.pc = "handler" /\ f.op \in Deliveries /\ st = "WAIT_FOR_CB_RETURN"
    BY <1>6, <1>c9, HandlersReturnMove DEF f, HandlersReturn, At
  <2>2. clientState' = f.old
    BY <1>c9, <2>1 DEF f, st, HandlersReturn, CompareAndSet
  <2>3. CASE Replaced("main", NextPc("main", "puback"))
    <3>1. clientState' \in StateAt(NextPc("main", "puback"), rc'["main"])
      BY <1>7, <2>1, <2>2, StateIs
    <3> QED
      BY <1>1, <1>7, <2>1, <2>3, <3>1, SettledOn DEF Deliveries
  <2> QED
    BY <1>13, <1>c9, <2>1, <2>2, <2>3, HandlersReturnMove DEF st
<1>c10. CASE SerializePuback(t)
  <2>1. f.pc = "puback" /\ f.op \in Deliveries /\ Replaced("main", NextPc("main", "send")) /\ clientState' = f.old
    BY <1>6, <1>c10, PubackMove DEF f, st, SerializePuback, At, Deliveries
  <2>2. clientState' \in StateAt(NextPc("main", "send"), rc'["main"])
    BY <1>7, <2>1, StateIs
  <2> QED
    BY <1>1, <1>7, <2>1, <2>2, SettledOn DEF Deliveries
<1>c11. CASE EndCall(t)
  <2>1. f.pc = "end" /\ Popped("main") /\ f.op \in Requests \union {"connect", "resubscribe"}
    BY <1>c11, EndCallMove DEF f, EndCall, At
  <2>2. clientState' = IF f.op # "connect" THEN f.old ELSE IF r = "SUCCESS" THEN "IDLE" ELSE "DISCONNECTED_ERROR"
    BY <1>6, <1>c11, <2>1 DEF f, r, st, EndCall, CompareAndSet
  <2>3. f.op = "resubscribe" => f.old = "IDLE"
    BY <1>5 DEF FrameOK
  <2> QED
    BY <1>1, <1>2, <2>1, <2>2, <2>3, SettledReturn DEF f, Requests, Deliveries
<1>c12. CASE YieldLoop(t)
  <2>1. f.pc \in {"loop", "check"} /\ f.op = "yield" /\ clientState' = st
    BY <1>c12, YieldLoopMove DEF f, st, YieldLoop, At
  <2>2. st \in {"YIELD", "IDLE", "PENDING_RECONNECT"}
    BY <1>6, <2>1 DEF YieldStates
  <2>3. CASE st # "PENDING_RECONNECT" /\ Replaced("main", NextPc("main", "read"))
    BY <1>7, <1>12, <2>1, <2>2, <2>3 DEF YieldStates
  <2>4. CASE st = "PENDING_RECONNECT" /\ \E pc \in {"end", "check"} : Replaced("main", NextPc("main", pc))
    <3>1. PICK pc \in {"end", "check"} : Replaced("main", NextPc("main", pc))
      BY <2>4
    <3>2. st \in YieldStates(NextPc("main", pc), rc'["main"])
      BY <1>7, <2>4, <3>1 DEF YieldStates, Settled, Closed
    <3> QED
      BY <1>12, <2>1, <3>1, <3>2
  <2>5. CASE st = "PENDING_RECONNECT" /\ Pushed("main", Frame("reconnect", "start", None), NextPc("main", "reconnected"))
    <3> DEFINE g == Frame("reconnect", "start", None)
    <3>1. g.op = "reconnect" /\ g.pc = "start"
      BY DEF Frame
    <3> HIDE DEF g
    <3>2. clientState' \in StateAt(g, rc'["main"]) /\ clientState' \in ReconnectStates(g.pc)
      BY <2>1, <2>5, <3>1, StateIs DEF Settled, Closed, ReconnectStates
    <3> QED
      BY <1>1, <2>5, <3>2, SettledCall DEF g
  <2> QED
    BY <1>c12, <2>3, <2>4, <2>5, YieldLoopMove DEF st
<1>c13. CASE KeepAlive(t)
  <2>1. f.pc \in {"keepalive", "read"} /\ f.op = "yield" /\ clientState' = st
    BY <1>c13, KeepAliveMove DEF f, st, KeepAlive
  <2>2. st \in {"YIELD", "IDLE"}
    BY <1>6, <2>1 DEF YieldStates
  <2>3. PICK pc \in {"check", "disconnect", "ping"} :
          Replaced("main", NextPc("main", pc)) /\ (pc = "check" => rc' = [rc EXCEPT !["main"] = "SUCCESS"])
    BY <1>c13, KeepAliveMove
  <2>4. st \in YieldStates(NextPc("main", pc), rc'["main"])
    BY <1>7, <1>r, <2>2, <2>3 DEF YieldStates
  <2> QED
    BY <1>12, <2>1, <2>3, <2>4
<1>c14. CASE SendPing(t)
  <2>1. f.pc = "ping" /\ f.op = "yield" /\ clientState' = st
    BY <1>c14, SendPingMove DEF f, st, SendPing, At
  <2>2. st \in {"YIELD", "IDLE"} /\ Replaced("main", NextPc("main", "check")) /\ rc'["main"] = "SUCCESS"
    BY <1>6, <1>r, <1>c14, <2>1, SendPingMove DEF YieldStates
  <2>3. st \in YieldStates(NextPc("main", "check"), rc'["main"])
    BY <1>7, <2>2 DEF YieldStates
  <2> QED
    BY <1>12, <2>1, <2>2, <2>3
<1>c15. CASE HandleDisconnect(t)
  <2>1. f.op = "yield" /\ clientState' \in {"DISCONNECTED_MANUALLY", "DISCONNECTED_ERROR"}
    BY <1>c15, HandleDisconnectMove DEF f, HandleDisconnect
  <2>2. CASE Replaced("main", NextPc("main", "disconnected"))
    BY <1>7, <1>12, <2>1, <2>2 DEF YieldStates, Settled, Closed
  <2>3. CASE Pushed("main", Frame("reconnect", "start", None), NextPc("main", "disconnected"))
    <3> DEFINE g == Frame("reconnect", "start", None)
    <3>1. g.op = "reconnect" /\ g.pc = "start"
      BY DEF Frame
    <3> HIDE DEF g
    <3>2. clientState' \in StateAt(g, rc'["main"])
      BY <2>1, <3>1, StateIs DEF Settled, Closed
    <3> QED
      BY <1>1, <1>7, <2>3, <3>2, SettledCall DEF g
  <2> QED
    BY <1>c15, <2>2, <2>3, HandleDisconnectMove
<1>c16. CASE DisconnectHandled(t)
  <2>1. f.op = "yield"
    BY <1>c16, DisconnectHandledMove DEF f
  <2>2. CASE app.auto
    <3>1. /\ clientState' = "PENDING_RECONNECT" /\ Replaced("main", NextPc("main", "check"))
      BY <1>c16, <2>2, DisconnectHandledMove DEF DisconnectHandled
    <3> QED
      BY <1>7, <1>12, <2>1, <3>1 DEF YieldStates
  <2>3. CASE ~app.auto
    <3>1. /\ clientState' = "DISCONNECTED_ERROR" /\ Replaced("main", NextPc("main", "end"))
      BY <1>c16, <2>3, DisconnectHandledMove DEF DisconnectHandled
    <3> QED
      BY <1>7, <1>12, <2>1, <3>1 DEF YieldStates, Settled, Closed
  <2> QED
    BY <2>2, <2>3
<1>c17. CASE Reconnected(t)
  <2>1. f.pc = "reconnected" /\ f.op = "yield" /\ Replaced("main", NextPc("main", "check"))
    BY <1>c17, ReconnectedMove DEF f, Reconnected, At
  <2>2. st \in {"IDLE", "PENDING_RECONNECT"}
    BY <1>6, <2>1 DEF YieldStates
  <2>3. /\ clientState' \in {"YIELD", "IDLE", "PENDING_RECONNECT"}
        /\ clientState' = "YIELD" => rc'["main"] = "RECONNECTED"
    <3>1. CASE rc["main"] = "RECONNECTED"
      <4>1. /\ clientState' = CompareAndSet("IDLE", "YIELD")
            /\ rc'["main"] = IF st = "IDLE" THEN "RECONNECTED" ELSE "UNEXPECTED_STATE"
        BY <1>c17, <1>r, <3>1 DEF Reconnected, Result, st
      <4> QED
        BY <2>2, <4>1 DEF CompareAndSet, st
    <3>2. CASE rc["main"] # "RECONNECTED"
      BY <1>c17, <2>2, <3>2 DEF Reconnected, st
    <3> QED
      BY <3>1, <3>2
  <2>4. clientState' \in YieldStates(NextPc("main", "check"), rc'["main"])
    BY <1>7, <2>3 DEF YieldStates
  <2> QED
    BY <1>12, <2>1, <2>4
<1>c18. CASE EndYield(t)
  <2>1. f.op = "yield" /\ Popped("main") /\ f.pc \in {"check", "end"}
    BY <1>c18, EndYieldMove DEF f, EndYield, At
  <2>2. clientState' = IF r \in {"DISCONNECTED", "ATTEMPTING_RECONNECT"} THEN st ELSE CompareAndSet("YIELD", "IDLE")
    BY <1>c18 DEF EndYield, r, st
  <2>3. clientState' \in Settled
    BY <1>6, <2>1, <2>2 DEF YieldStates, Settled, Closed, CompareAndSet, st
  <2> QED
    BY <1>1, <1>2, <2>1, <2>3, SettledReturn DEF f, Requests, Deliveries
<1>c19. CASE ReconnectStart(t)
  <2>1. f.op = "reconnect" /\ f.pc = "start" /\ clientState' = st /\ st \in Settled
    BY <1>6, <1>c19, ReconnectStartMove DEF f, st, ReconnectStart, At
  <2>2. CASE Connected /\ Popped("main")
    <3>1. st \notin ReconnectStates(f.pc)
      BY <2>1, <2>2 DEF st, Connected, ConnectedStates, ReconnectStates
    <3> QED
      BY <1>1, <1>2, <1>5, <2>1, <2>2, <3>1, SettledReturn DEF f, Requests, Deliveries
  <2>3. CASE ValidForConnect /\ Pushed("main", Frame("connect", "cas", None), NextPc("main", "connected"))
    <3> DEFINE g == Frame("connect", "cas", None)
    <3>1. g.op = "connect" /\ g.pc = "cas" /\ g.old = st
      BY DEF Frame, st
    <3> HIDE DEF g
    <3>2. clientState' \in StateAt(g, rc'["main"])
      BY <2>1, <3>1, StateIs
    <3> QED
      BY <1>1, <2>3, <3>1, <3>2, SettledCall DEF g
  <2>4. CASE Replaced("main", NextPc("main", "connected"))
    <3>1. clientState' \in StateAt(NextPc("main", "connected"), rc'["main"])
      BY <1>7, <2>1, StateIs
    <3>2. st \in ReconnectStates(f.pc) => st \in ReconnectStates("connected")
      BY <2>1 DEF ReconnectStates
    <3> QED
      BY <1>1, <1>5, <1>7, <2>1, <2>4, <3>1, <3>2, SettledOn
  <2> QED
    BY <1>c19, <2>2, <2>3, <2>4, ReconnectStartMove
<1>c20. CASE ConnectReturned(t)
  <2>1. f.op = "reconnect" /\ f.pc = "connected" /\ st \in Settled
    BY <1>6, <1>c20, ConnectReturnedMove DEF f, ConnectReturned, At
  <2>2. CASE st = "IDLE"
    <3> DEFINE g == Frame("resubscribe", "cas", None)
    <3>1. g.op = "resubscribe" /\ g.pc = "cas" /\ g.old = st
      BY DEF Frame, st
    <3> HIDE DEF g
    <3>2. clientState' = st /\ Pushed("main", g, NextPc("main", "resubscribed"))
      BY <1>c20, <2>2, ConnectReturnedMove DEF ConnectReturned, st, g
    <3>3. clientState' \in StateAt(g, rc'["main"])
      BY <3>1, <3>2, StateIs
    <3> QED
      BY <1>1, <3>1, <3>2, <3>3, SettledCall
  <2>3. CASE st # "IDLE"
    <3>1. clientState' = CompareAndSet("DISCONNECTED_ERROR", "PENDING_RECONNECT") /\ Popped("main")
      BY <1>c20, <2>3, ConnectReturnedMove DEF ConnectReturned, st
    <3>2. clientState' \in Settled
      BY <2>1, <3>1 DEF CompareAndSet, Settled, Closed, st
    <3>3. st \in ReconnectStates(f.pc) => clientState' = "PENDING_RECONNECT"
      BY <2>1, <2>3, <3>1 DEF ReconnectStates, CompareAndSet, st
    <3> QED
      BY <1>1, <1>2, <1>5, <2>1, <3>1, <3>2, <3>3, SettledReturn DEF f, Requests, Deliveries
  <2> QED
    BY <2>2, <2>3
<1>c21. CASE Resubscribed(t)
  <2>1. f.op = "reconnect" /\ f.pc = "resubscribed" /\ Popped("main") /\ clientState' = st
    BY <1>c21, ResubscribedMove DEF f, st, Resubscribed, At
  <2>2. clientState' = "IDLE"
    BY <1>6, <2>1
  <2> QED
    BY <1>1, <1>2, <2>1, <2>2, SettledReturn DEF f, Requests, Deliveries, Settled
<1> QED
  BY <1>c1, <1>c2, <1>c3, <1>c4, <1>c5, <1>c6, <1>c7, <1>c8, <1>c9, <1>c10, <1>c11, <1>c12, <1>c13, <1>c14,
     <1>c15, <1>c16, <1>c17, <1>c18, <1>c19, <1>c20, <1>c21, <1>c22 DEF Step

-----------------------------------------------------------------------------
(* The four invariants together.                                           *)

USE DEF net, rest

LEMMA StepFrames == ASSUME TypeInv, FramesOK, MutexInv, SettledInv, NEW t \in Threads, Step(t) PROVE FramesOK' /\ StackType'
<1>1. CASE Cas(t) \/ TlsConnect(t) \/ Serialize(t) \/ SendPacket(t) \/ WaitTimeout(t)
  BY <1>1, CasMove, TlsMove, SerializeMove, SendMove, WaitTimeoutMove
<1>2. CASE Read(t) \/ ReadError(t) \/ ReadFails(t) \/ Deliver(t) \/ HandlersReturn(t) \/ SerializePuback(t) \/ EndCall(t)
  BY <1>2, ReadMove, ReadErrorMove, ReadFailsMove, DeliverMove, HandlersReturnMove, PubackMove, EndCallMove
<1>3. CASE YieldLoop(t) \/ KeepAlive(t) \/ SendPing(t) \/ HandleDisconnect(t) \/ DisconnectHandled(t)
  BY <1>3, YieldLoopMove, KeepAliveMove, SendPingMove, HandleDisconnectMove, DisconnectHandledMove
<1>4. CASE Reconnected(t) \/ EndYield(t) \/ ReconnectStart(t) \/ ConnectReturned(t) \/ Resubscribed(t)
  BY <1>4, ReconnectedMove, EndYieldMove, ReconnectStartMove, ConnectReturnedMove, ResubscribedMove
<1> QED
  BY <1>1, <1>2, <1>3, <1>4 DEF Step

Safe == TypeInv /\ FramesOK /\ MutexInv /\ SettledInv

LEMMA StepSafe == ASSUME Safe, NEW t \in Threads, Step(t) PROVE Safe'
<1>1. TypeInv /\ FramesOK /\ MutexInv /\ SettledInv
  BY DEF Safe
<1>2. FramesOK' /\ StackType' /\ Kept(t) /\ MutexInv' /\ SettledInv'
  BY <1>1, StepFrames, StepTypes, StepMutex, StepSettled
<1>3. TypeInv'
  BY <1>1, <1>2 DEF TypeInv, Kept, Buffer, Buffers, Handlers
<1> QED
  BY <1>2, <1>3 DEF Safe

\* The main thread starts f.
LEMMA SettledStart ==
  ASSUME UNCHANGED app, NEW f, Started("main", f), Single(app) => clientState' \in StateAt(f, rc'["main"])
  PROVE  SettledInv'
<1>1. Running("main")' /\ Top("main")' = f /\ Len(stack'["main"]) = 1
  BY NewTop DEF Threads, Started
<1> QED
  BY <1>1, SettledStep

\* The stacks stay.
LEMMA SettledSame ==
  ASSUME SettledInv, UNCHANGED <<app, stack, rc>>,
         UNCHANGED clientState \/ (~Running("main") /\ clientState' \in Settled)
  PROVE  SettledInv'
<1>1. Running("main")' = Running("main") /\ Top("main")' = Top("main")
  BY DEF Running, Top
<1> QED
  BY <1>1, SettledStep DEF SettledInv

LEMMA StartedSettled ==
  ASSUME TypeInv, FramesOK, MutexInv, SettledInv, Connect \/ AttemptReconnect \/ Yield
  PROVE  SettledInv'
<1>1. UNCHANGED <<app, clientState>>
  BY DEF Connect, AttemptReconnect, Yield
<1>2. PICK op, pc : /\ MainStarts(op, pc)
                    /\ \/ op = "connect" /\ pc = "cas"
                       \/ op = "reconnect" /\ pc = "start" /\ ~Running("main")
                       \/ op = "yield" /\ pc = "cas" /\ clientState = "IDLE"
                       \/ op = "yield" /\ pc = "loop" /\ clientState = "PENDING_RECONNECT"
  BY ConnectMove, AttemptReconnectMove, YieldMove DEF AttemptReconnect
<1> DEFINE f == Frame(op, pc, None)
<1>3. Started("main", f) /\ f.op = op /\ f.pc = pc /\ f.old = clientState
  BY <1>2 DEF MainStarts, Frame
<1> HIDE DEF f
<1>4. Single(app) => clientState \in StateAt(f, rc'["main"])
  BY <1>2, <1>3, StateIs DEF SettledInv, YieldStates
<1> QED
  BY <1>1, <1>3, <1>4, SettledStart

LEMMA RequestSafe == ASSUME Safe, NEW t \in Threads, Requested(t) PROVE Safe'
<1>1. TypeInv /\ FramesOK /\ MutexInv /\ SettledInv
  BY DEF Safe
<1>2. PICK op \in Requests, topic \in Topics \union {None} :
        (topic = None <=> op \in {"publish0", "publish1"}) /\ Request(t, op, topic)
  BY DEF Requested
<1>3. FramesOK' /\ StackType'
  BY <1>1, <1>2, RequestMove
<1>4. TypeInv'
  BY <1>1, <1>2, <1>3 DEF TypeInv, Request
<1> DEFINE f == Frame(op, "cas", topic)
<1>5. f.op \in Requests /\ f.pc = "cas" /\ f.old = clientState
  BY DEF Frame
<1> HIDE DEF f
<1>6. PICK g : (Started(t, f) /\ op \in app[t]) \/ Pushed(t, f, g)
  BY <1>1, <1>2, RequestMove DEF f
<1>7. ~Relying(t)'
  BY <1>5, <1>6, NewTop DEF Relying, Relies, Requests
<1>8. \A u \in Threads \ {t} : stack'[u] = stack[u]
  BY <1>6 DEF Started, Pushed
<1>9. MutexInv'
  BY <1>1, <1>2, <1>7, <1>8, MutexStep DEF Request, MutexInv
<1>10. UNCHANGED <<app, clientState>> /\ clientState \in StateAt(f, rc'["main"])
  BY <1>2, <1>5, StateIs DEF Request
<1>11. SettledInv'
  <2>1. CASE ~Single(app)
    BY <1>10, <2>1, SettledStep
  <2>2. CASE Single(app)
    <3>1. Len(stack[t]) \in Nat \ {0} => Running(t)
      BY <1>1, RunningLen DEF TypeInv
    <3>2. app["worker"] = {} /\ ~Running("worker")
      BY <1>1, <2>2, WorkerIdle, OwnOps DEF TypeInv, Threads, Single
    <3>3. t = "main"
      BY <1>6, <3>1, <3>2 DEF Threads, Pushed
    <3> QED
      BY <1>1, <1>5, <1>6, <1>10, <3>3, SettledStart, SettledCall DEF Requests
  <2> QED
    BY <2>1, <2>2
<1> QED
  BY <1>3, <1>4, <1>9, <1>11 DEF Safe

\* The stacks stay: nobody comes to rely on the state, and a new state is set only when nobody does.
LEMMA SameStacks ==
  ASSUME MutexInv, UNCHANGED <<app, stack>>, clientState' # "PENDING_RECONNECT" \/ UNCHANGED clientState,
         UNCHANGED clientState \/ \A t \in Threads : ~Running(t)
  PROVE  MutexInv'
<1>1. ASSUME NEW t \in Threads PROVE Relying(t)' = Relying(t) /\ Running(t)' = Running(t) /\ Top(t)' = Top(t)
  BY DEF Relying, Running, Top
<1>2. \A t \in Threads : Clear(t)' = Clear(t)
  BY <1>1 DEF Clear
<1> QED
  BY <1>1, <1>2 DEF MutexInv, Relying

LEMMA OtherSafe ==
  ASSUME Safe,
         \/ ClientInit \/ Connect \/ AttemptReconnect \/ Yield \/ Disconnect
         \/ BrokerPublishes \/ LinkBreaks \/ PingTimerExpires \/ ReconnectTimerExpires \/ UNCHANGED vars
  PROVE  Safe'
<1>0. TypeInv /\ FramesOK /\ MutexInv /\ SettledInv
  BY DEF Safe
<1>1. CASE ClientInit
  <2>1. FramesOK' /\ StackType' /\ MutexInv' /\ SettledInv'
    BY <1>0, <1>1, QuietFrames, SameStacks, SettledSame DEF ClientInit, Settled, Closed, Threads
  <2>2. TypeInv'
    BY <1>0, <1>1, <2>1, StatesIn DEF TypeInv, ClientInit, net
  <2> QED
    BY <2>1, <2>2 DEF Safe
<1>2. CASE Disconnect
  <2>1. FramesOK' /\ StackType' /\ MutexInv' /\ SettledInv'
    BY <1>0, <1>2, QuietFrames, SameStacks, SettledSame DEF Disconnect, Settled, Closed, Threads
  <2>2. TypeInv'
    BY <1>0, <1>2, <2>1, StatesIn DEF TypeInv, Disconnect, Close
  <2> QED
    BY <2>1, <2>2 DEF Safe
<1>3. CASE Connect
  <2>1. FramesOK' /\ StackType' /\ MainStarts("connect", "cas")
    BY <1>0, <1>3, ConnectMove
  <2>2. TypeInv'
    BY <1>0, <1>3, <2>1 DEF TypeInv, Connect
  <2> DEFINE f == Frame("connect", "cas", None)
  <2>3. f.op = "connect" /\ f.pc = "cas" /\ f.old = clientState
    BY DEF Frame
  <2>4. Started("main", f)
    BY <2>1 DEF MainStarts
  <2> HIDE DEF f
  <2>5. Running("main")' /\ Top("main")' = f /\ \A u \in Threads \ {"main"} : stack'[u] = stack[u]
    BY <2>4, NewTop DEF Started, Threads
  <2>6. StateOf(f) = clientState
    BY <2>3 DEF StateOf, Deliveries
  <2>7. Quiet(app) => Clear("main")
    BY <1>0, <1>3, ClearClosed DEF Connect, ValidForConnect, Closed
  <2>8. MutexInv'
    BY <1>0, <1>3, <2>5, <2>6, <2>7, MutexStep DEF MutexInv, Connect, Threads
  <2> QED
    BY <1>0, <1>3, <2>1, <2>2, <2>8, StartedSettled DEF Safe
<1>4. CASE AttemptReconnect
  <2>1. FramesOK' /\ StackType' /\ ~Quiet(app) /\ UNCHANGED app
    BY <1>0, <1>4, AttemptReconnectMove DEF AttemptReconnect, Quiet, MainStarts
  <2>2. TypeInv'
    BY <1>0, <1>4, <2>1 DEF TypeInv, AttemptReconnect
  <2>3. MutexInv'
    BY <2>1 DEF MutexInv
  <2> QED
    BY <1>0, <1>4, <2>1, <2>2, <2>3, StartedSettled DEF Safe
<1>5. CASE Yield
  <2>1. FramesOK' /\ StackType' /\ UNCHANGED <<app, clientState>>
    BY <1>0, <1>5, YieldMove DEF Yield
  <2>2. TypeInv'
    BY <1>0, <1>5, <2>1 DEF TypeInv, Yield
  <2>3. CASE ~Quiet(app)
    BY <1>0, <1>5, <2>1, <2>2, <2>3, StartedSettled DEF MutexInv, Safe
  <2>4. CASE MainStarts("yield", "cas")
    <3> DEFINE f == Frame("yield", "cas", None)
    <3>1. f.op = "yield" /\ f.pc = "cas"
      BY DEF Frame
    <3>2. Started("main", f)
      BY <2>4 DEF MainStarts
    <3> HIDE DEF f
    <3>3. ~Relying("main")' /\ \A u \in Threads \ {"main"} : stack'[u] = stack[u]
      BY <3>1, <3>2, NewTop DEF Started, Threads, Relying, Relies
    <3>4. MutexInv'
      BY <1>0, <2>1, <3>3, MutexStep DEF MutexInv, Threads
    <3> QED
      BY <1>0, <1>5, <2>1, <2>2, <3>4, StartedSettled DEF Safe
  <2> QED
    BY <1>0, <1>5, <2>1, <2>2, <2>3, <2>4, YieldMove DEF Safe
<1>6. CASE BrokerPublishes
  <2>1. FramesOK' /\ StackType' /\ MutexInv' /\ SettledInv'
    BY <1>0, <1>6, QuietFrames, SameStacks, SettledSame DEF BrokerPublishes
  <2>2. inbox' \in Seq(Packets)
    <3>1. PICK topic \in session, type \in {"PUBLISH0", "PUBLISH1"} : inbox' = Append(inbox, Packet(type, topic))
      BY <1>6 DEF BrokerPublishes
    <3>2. Packet(type, topic) \in Packets
      BY <1>0, <3>1 DEF Packet, Packets, TypeInv
    <3>3. inbox \in Seq(Packets)
      BY <1>0 DEF TypeInv
    <3> QED
      BY <3>1, <3>2, <3>3, AppendProperties
  <2>3. TypeInv'
    BY <1>0, <1>6, <2>1, <2>2 DEF TypeInv, BrokerPublishes
  <2> QED
    BY <2>1, <2>3 DEF Safe
<1>7. CASE LinkBreaks \/ PingTimerExpires \/ ReconnectTimerExpires
  <2>1. FramesOK' /\ StackType' /\ MutexInv' /\ SettledInv'
    BY <1>0, <1>7, QuietFrames, SameStacks, SettledSame DEF LinkBreaks, PingTimerExpires, ReconnectTimerExpires
  <2>2. /\ UNCHANGED <<app, clientState, rc, handlers, writeBuf>>
        /\ inbox' \in {inbox, <<>>} /\ session' \in {session, {}}
    BY <1>7 DEF LinkBreaks, PingTimerExpires, ReconnectTimerExpires
  <2>3. inbox' \in Seq(Packets) /\ session' \subseteq Topics
    <3>1. <<>> \in Seq(Packets)
      OBVIOUS
    <3> QED
      BY <1>0, <2>2, <3>1 DEF TypeInv
  <2>4. TypeInv'
    BY <1>0, <2>1, <2>2, <2>3 DEF TypeInv
  <2> QED
    BY <2>1, <2>4 DEF Safe
<1>8. CASE UNCHANGED vars
  <2>1. FramesOK' /\ StackType' /\ MutexInv' /\ SettledInv'
    BY <1>0, <1>8, QuietFrames, SameStacks, SettledSame DEF vars
  <2>2. TypeInv'
    BY <1>0, <1>8, <2>1 DEF TypeInv, vars
  <2> QED
    BY <2>1, <2>2 DEF Safe
<1> QED
  BY <1>1, <1>2, <1>3, <1>4, <1>5, <1>6, <1>7, <1>8

LEMMA InitSafe == ASSUME Init PROVE Safe
<1>1. \A t \in Threads : stack[t] = <<>> /\ Len(stack[t]) = 0 /\ ~Running(t)
  BY DEF Init, Running
<1>2. TypeInv
  BY StatesIn, EmptyBuffer DEF Init, TypeInv, StackType, Buffer, Buffers, Results
<1> QED
  BY <1>1, <1>2 DEF Safe, FramesOK, MutexInv, SettledInv, Settled, Threads, Relying, Init

LEMMA NextSafe == ASSUME Safe, [Next]_vars PROVE Safe'
BY StepSafe, RequestSafe, OtherSafe DEF Next

-----------------------------------------------------------------------------
(* The write buffer.                                                       *)

Sends(t) == At(t, "send") \/ At(t, "ping")
BufferInv ==
  OneThread \/ Quiet(app) =>
    \A t \in Threads : Sends(t) => writeBuf.by = t /\ writeBuf.type = PacketOf(Top(t).op)

\* A thread that relies on the state while it fills or empties the buffer is the only one that does.
LEMMA Alone ==
  ASSUME Safe, OneThread \/ Quiet(app), NEW t \in Threads, Relying(t)
  PROVE  \A u \in Threads \ {t} : ~Relying(u)
<1>1. CASE OneThread
  BY <1>1, WorkerIdle DEF Relying, Threads, Safe, OneThread, Single
<1>2. CASE Quiet(app)
  BY <1>2 DEF Safe, MutexInv, Clear
<1> QED
  BY <1>1, <1>2

LEMMA SendsRely == \A t \in Threads : Sends(t) => Relying(t)
BY DEF Sends, Relying, Relies, At

LEMMA BufferStep ==
  ASSUME Safe, BufferInv, NEW t \in Threads, UNCHANGED app,
         \A u \in Threads \ {t} : stack'[u] = stack[u],
         UNCHANGED writeBuf \/ Relying(t),
         Sends(t)' => writeBuf'.by = t /\ writeBuf'.type = PacketOf(Top(t)'.op)
  PROVE  BufferInv'
<1> SUFFICES ASSUME OneThread \/ Quiet(app), NEW u \in Threads, Sends(u)'
             PROVE  writeBuf'.by = u /\ writeBuf'.type = PacketOf(Top(u)'.op)
  BY DEF BufferInv, OneThread
<1>1. CASE u = t
  BY <1>1
<1>2. CASE u # t
  <2>1. Sends(u) /\ Top(u)' = Top(u)
    BY <1>2 DEF Sends, At, Running, Top
  <2>2. UNCHANGED writeBuf
    BY <1>2, <2>1, Alone, SendsRely
  <2> QED
    BY <2>1, <2>2 DEF BufferInv
<1> QED
  BY <1>1, <1>2

\* What a call returns to does not send.
LEMMA PoppedSends ==
  ASSUME TypeInv, FramesOK, NEW t \in Threads, Running(t), Popped(t)
  PROVE  ~Sends(t)'
<1>1. Running(t)' => /\ Top(t)' = stack[t][2] /\ Within(Top(t), stack[t][2])
  BY PoppedTop, FirstFrame DEF CalledOK, TypeInv
<1> QED
  BY <1>1 DEF Sends, At, Within

\* A thread that neither fills nor empties the buffer, and does not come to send.
LEMMA NoSending ==
  ASSUME Safe, BufferInv, NEW t \in Threads, UNCHANGED <<app, writeBuf>>,
         NEW f, NEW g,
         \/ Popped(t) /\ Running(t)
         \/ /\ Replaced(t, f) \/ Pushed(t, f, g) \/ PoppedTo(t, f) \/ Started(t, f)
            /\ f.pc \notin {"send", "ping"}
  PROVE  BufferInv'
<1>1. ~Sends(t)'
  BY PoppedSends, NewTop DEF Safe, Sends, At
<1>2. \A u \in Threads \ {t} : stack'[u] = stack[u]
  BY OthersStay
<1> QED
  BY <1>1, <1>2, BufferStep

\* A thread that comes to send what it has serialised.
LEMMA SendingNow ==
  ASSUME Safe, BufferInv, NEW t \in Threads, UNCHANGED app, Relying(t), NEW f, Replaced(t, f), f.op = Top(t).op,
         writeBuf' = Serialized(t)
  PROVE  BufferInv'
<1>1. Top(t)' = f /\ writeBuf'.by = t /\ writeBuf'.type = PacketOf(Top(t).op)
  BY NewTop DEF Serialized
<1>2. \A u \in Threads \ {t} : stack'[u] = stack[u]
  BY OthersStay
<1> QED
  BY <1>1, <1>2, BufferStep

\* A thread that empties the buffer.
LEMMA Emptied ==
  ASSUME Safe, BufferInv, NEW t \in Threads, UNCHANGED app, Relying(t), NEW f, NEW g,
         Replaced(t, f) \/ Pushed(t, f, g) \/ PoppedTo(t, f), f.pc \notin {"send", "ping"}
  PROVE  BufferInv'
<1>1. ~Sends(t)'
  BY NewTop DEF Sends, At
<1>2. \A u \in Threads \ {t} : stack'[u] = stack[u]
  BY OthersStay
<1> QED
  BY <1>1, <1>2, BufferStep

LEMMA StepBuffer == ASSUME Safe, BufferInv, NEW t \in Threads, Step(t) PROVE BufferInv'
<1>0. TypeInv /\ FramesOK /\ MutexInv /\ SettledInv
  BY DEF Safe
<1>1. UNCHANGED app
  BY <1>0, StepTypes DEF Kept
<1>2. Running(t)
  BY DEF Step, Cas, TlsConnect, Serialize, SendPacket, WaitTimeout, Read, ReadError, ReadFails, Deliver, HandlersReturn,
         SerializePuback, EndCall, YieldLoop, KeepAlive, SendPing, HandleDisconnect, DisconnectHandled, Reconnected,
         EndYield, ReconnectStart, ConnectReturned, Resubscribed, At
<1>3. \A pc : NextPc(t, pc).pc = pc /\ NextPc(t, pc).op = Top(t).op
  BY <1>0, <1>2, NextPcIs
<1>4. ASSUME NEW pc, pc \notin {"send", "ping"}, Replaced(t, NextPc(t, pc)), UNCHANGED writeBuf PROVE BufferInv'
  BY <1>1, <1>3, <1>4, NoSending
<1>5. ASSUME Popped(t), UNCHANGED writeBuf PROVE BufferInv'
  BY <1>1, <1>2, <1>5, NoSending
<1>6. ASSUME NEW f, NEW g, Pushed(t, f, g), f.pc \notin {"send", "ping"}, UNCHANGED writeBuf PROVE BufferInv'
  BY <1>1, <1>6, NoSending
<1>7. ASSUME NEW f, PoppedTo(t, f), f.pc \notin {"send", "ping"}, UNCHANGED writeBuf PROVE BufferInv'
  BY <1>1, <1>7, NoSending
<1>8. \A op, pc, topic : Frame(op, pc, topic).pc = pc
  BY DEF Frame
<1>c1. CASE Cas(t)
  BY <1>0, <1>c1, <1>4, <1>5, CasMove DEF Cas, CasPc
<1>c2. CASE TlsConnect(t)
  BY <1>0, <1>c2, <1>4, TlsMove DEF TlsConnect
<1>c3. CASE Serialize(t)
  <2>1. Relying(t)
    BY <1>c3 DEF Serialize, At, Relying, Relies
  <2>2. CASE \/ Fails(Top(t)) /\ Replaced(t, NextPc(t, "end"))
             \/ Done(Top(t)) /\ Replaced(t, NextPc(t, "end"))
    BY <1>1, <1>3, <2>1, <2>2, Emptied
  <2>3. CASE /\ ~Fails(Top(t)) /\ ~Done(Top(t)) /\ Replaced(t, SendFrame(Top(t)))
             /\ SendFrame(Top(t)).op = Top(t).op
    <3>1. writeBuf' = Serialized(t)
      BY <1>c3, <2>3 DEF Serialize, Fails, Done
    <3> QED
      BY <1>1, <2>1, <2>3, <3>1, SendingNow
  <2>4. Replaced(t, SendFrame(Top(t))) => SendFrame(Top(t)).op = Top(t).op
    BY <1>0, <1>2, FirstFrame DEF SendFrame, Frames
  <2> QED
    BY <1>0, <1>c3, <2>2, <2>3, <2>4, SerializeMove
<1>c4. CASE SendPacket(t)
  <2>1. Relying(t)
    BY <1>c4 DEF SendPacket, At, Relying, Relies
  <2>2. ASSUME NEW f, NEW g, Replaced(t, f) \/ PoppedTo(t, f), f.pc \notin {"send", "ping"} PROVE BufferInv'
    BY <1>1, <2>1, <2>2, Emptied
  <2> QED
    BY <1>0, <1>3, <1>c4, <2>2, SendMove
<1>c5. CASE WaitTimeout(t)
  BY <1>0, <1>c5, <1>4, WaitTimeoutMove DEF WaitTimeout
<1>c6. CASE Read(t)
  <2>1. Top(t).pc \in {"wait", "read"} /\ UNCHANGED writeBuf
    BY <1>c6 DEF Read, At
  <2> QED
    BY <1>0, <1>c6, <1>4, <1>6, <1>8, <2>1, ReadMove
<1>c7. CASE ReadError(t)
  BY <1>0, <1>c7, <1>4, ReadErrorMove DEF ReadError
<1>c8. CASE Deliver(t)
  BY <1>0, <1>c8, <1>4, DeliverMove DEF Deliver
<1>c9. CASE HandlersReturn(t)
  BY <1>0, <1>c9, <1>4, <1>7, HandlersReturnMove DEF HandlersReturn
<1>c10. CASE SerializePuback(t)
  <2>1. Relying(t) /\ writeBuf' = Serialized(t)
    BY <1>c10 DEF SerializePuback, At, Relying, Relies
  <2> QED
    BY <1>0, <1>1, <1>3, <1>c10, <2>1, PubackMove, SendingNow
<1>c11. CASE EndCall(t)
  BY <1>0, <1>c11, <1>5, EndCallMove DEF EndCall
<1>c12. CASE YieldLoop(t)
  BY <1>0, <1>c12, <1>4, <1>6, <1>8, YieldLoopMove DEF YieldLoop
<1>c13. CASE KeepAlive(t)
  <2>1. Relying(t)
    BY <1>c13 DEF KeepAlive, At, Relying, Relies
  <2> QED
    BY <1>0, <1>1, <1>3, <1>4, <1>c13, <2>1, KeepAliveMove, SendingNow
<1>c14. CASE SendPing(t)
  <2>1. Relying(t)
    BY <1>c14 DEF SendPing, At, Relying, Relies
  <2> QED
    BY <1>0, <1>1, <1>3, <1>c14, <2>1, SendPingMove, Emptied
<1>c15. CASE HandleDisconnect(t)
  <2>1. Relying(t)
    BY <1>c15 DEF HandleDisconnect, At, Relying, Relies
  <2>2. ASSUME NEW f, NEW g, Replaced(t, f) \/ Pushed(t, f, g), f.pc \notin {"send", "ping"} PROVE BufferInv'
    BY <1>1, <2>1, <2>2, Emptied
  <2> QED
    BY <1>0, <1>3, <1>8, <1>c15, <2>2, HandleDisconnectMove
<1>c16. CASE DisconnectHandled(t)
  BY <1>0, <1>c16, <1>4, DisconnectHandledMove DEF DisconnectHandled
<1>c17. CASE Reconnected(t)
  BY <1>0, <1>c17, <1>4, ReconnectedMove DEF Reconnected
<1>c18. CASE EndYield(t)
  BY <1>0, <1>c18, <1>5, EndYieldMove DEF EndYield
<1>c19. CASE ReconnectStart(t)
  BY <1>0, <1>c19, <1>4, <1>5, <1>6, <1>8, ReconnectStartMove DEF ReconnectStart
<1>c20. CASE ConnectReturned(t)
  BY <1>0, <1>c20, <1>5, <1>6, <1>8, ConnectReturnedMove DEF ConnectReturned
<1>c21. CASE Resubscribed(t)
  BY <1>0, <1>c21, <1>5, ResubscribedMove DEF Resubscribed
<1>c22. CASE ReadFails(t)
  BY <1>0, <1>c22, <1>4, ReadFailsMove DEF ReadFails
<1> QED
  BY <1>c1, <1>c2, <1>c3, <1>c4, <1>c5, <1>c6, <1>c7, <1>c8, <1>c9, <1>c10, <1>c11, <1>c12, <1>c13, <1>c14,
     <1>c15, <1>c16, <1>c17, <1>c18, <1>c19, <1>c20, <1>c21, <1>c22 DEF Step

\* Nothing is sent by a thread that starts, or while no stack changes.
LEMMA OtherBuffer ==
  ASSUME Safe, BufferInv,
         \/ ClientInit \/ Connect \/ AttemptReconnect \/ Yield \/ Disconnect \/ (\E t \in Threads : Requested(t))
         \/ BrokerPublishes \/ LinkBreaks \/ PingTimerExpires \/ ReconnectTimerExpires \/ UNCHANGED vars
  PROVE  BufferInv'
<1>0. TypeInv /\ FramesOK /\ MutexInv /\ SettledInv /\ "main" \in Threads
  BY DEF Safe, Threads
<1>1. CASE UNCHANGED <<app, stack, writeBuf>>
  <2>1. \A t \in Threads : Sends(t)' = Sends(t) /\ Top(t)' = Top(t)
    BY <1>1 DEF Sends, At, Running, Top
  <2> QED
    BY <1>1, <2>1 DEF BufferInv, OneThread
<1>2. \A op, pc, topic : Frame(op, pc, topic).pc = pc
  BY DEF Frame
<1>3. CASE Connect \/ AttemptReconnect \/ Yield
  <2>1. PICK op, pc : MainStarts(op, pc) /\ pc \notin {"send", "ping"}
    BY <1>0, <1>3, ConnectMove, AttemptReconnectMove, YieldMove
  <2>2. UNCHANGED <<app, writeBuf>>
    BY <1>3, <2>1 DEF MainStarts, Connect, AttemptReconnect, Yield
  <2> QED
    BY <1>0, <1>2, <2>1, <2>2, NoSending DEF MainStarts
<1>4. ASSUME NEW t \in Threads, Requested(t) PROVE BufferInv'
  <2>1. PICK op \in Requests, topic \in Topics \union {None} :
          (topic = None <=> op \in {"publish0", "publish1"}) /\ Request(t, op, topic)
    BY <1>4 DEF Requested
  <2>2. UNCHANGED <<app, writeBuf>>
    BY <2>1 DEF Request
  <2> QED
    BY <1>0, <1>2, <2>1, <2>2, RequestMove, NoSending
<1> QED
  BY <1>1, <1>3, <1>4
     DEF ClientInit, Disconnect, BrokerPublishes, LinkBreaks, PingTimerExpires, ReconnectTimerExpires, vars

LEMMA NextBuffer == ASSUME Safe, BufferInv, [Next]_vars PROVE BufferInv'
BY StepBuffer, OtherBuffer DEF Next

\* Theorem: with one thread, or two whose calls are apart and nobody reconnects, a packet is sent by the call
\* that built it: no other call, of another thread or of a handler, writes to the buffer in between.
THEOREM BufferAlways == Spec => []WriteBufferOwned
<1>1. Init => Safe /\ BufferInv
  BY InitSafe DEF Init, BufferInv, Sends, At, Running
<1>2. Safe /\ BufferInv /\ [Next]_vars => (Safe /\ BufferInv)'
  BY NextSafe, NextBuffer
<1>3. BufferInv => WriteBufferOwned
  BY QuietIs DEF BufferInv, WriteBufferOwned, Sends
<1> QED
  BY <1>1, <1>2, <1>3, PTL DEF Spec

-----------------------------------------------------------------------------
(* The handlers of the subscribed topics.                                  *)

SubscribeOps == {"subscribe", "unsubscribe"}
\* A subscription fills a slot that is still free, and has a handler when it succeeded; what is being
\* unsubscribed does not count as subscribed any more.
SubOK(h, subs, result, f) ==
  /\ f.op = "subscribe" /\ f.pc \in {"send", "wait"} => h[f.slot] = None
  /\ f.op = "subscribe" /\ f.pc = "end" /\ result = "SUCCESS" => f.topic \in {h[i] : i \in 1..NumHandlers}
  /\ f.op = "unsubscribe" => f.topic \notin subs
HandlersInv ==
  OneSubscriber =>
    /\ subscribed \subseteq Handled
    /\ \A t \in Threads : \A i \in 1..Len(stack[t]) : SubOK(handlers, subscribed, rc[t], stack[t][i])

\* A frame that waits for another is not at its end.
LEMMA WaitingFrame ==
  ASSUME TypeInv, FramesOK, NEW t \in Threads, NEW i \in 2..Len(stack[t])
  PROVE  stack[t][i].pc \in {"wait", "read", "handler", "reconnected", "disconnected", "connected", "resubscribed"}
<1>1. Len(stack[t]) \in Nat
  BY RunningLen DEF TypeInv
<1>2. i - 1 \in 1..Len(stack[t]) /\ i - 1 # Len(stack[t]) /\ (i - 1) + 1 = i
  BY <1>1
<1>3. CalledOK(app, stack[t][i - 1], stack[t][(i - 1) + 1])
  BY <1>2 DEF FramesOK
<1> QED
  BY <1>2, <1>3 DEF CalledOK, Within

\* The frames of t after a move: the ones that waited and new ones.
Waited(t, f) == \E j \in 2..Len(stack[t]) : f = stack[t][j]
LEMMA Shapes ==
  ASSUME StackType, NEW t \in Threads, NEW f, NEW g, NEW i \in 1..Len(stack'[t])
  PROVE  /\ Replaced(t, f) => stack'[t][i] = f \/ Waited(t, stack'[t][i])
         /\ Pushed(t, f, g) => stack'[t][i] = f \/ stack'[t][i] = g \/ Waited(t, stack'[t][i])
         /\ PoppedTo(t, f) => stack'[t][i] = f \/ Waited(t, stack'[t][i])
         /\ Popped(t) => Waited(t, stack'[t][i])
         /\ Started(t, f) => stack'[t][i] = f
<1> DEFINE s == stack[t]
           r == stack'[t]
<1>1. ASSUME Replaced(t, f) PROVE r[i] = f \/ Waited(t, r[i])
  <2>1. Len(s) \in Nat \ {0} /\ Len(r) = Len(s) /\ r[1] = f /\ \A j \in 2..Len(s) : r[j] = s[j]
    BY <1>1 DEF Replaced
  <2> QED
    BY <2>1 DEF Waited
<1>2. ASSUME Pushed(t, f, g) PROVE r[i] = f \/ r[i] = g \/ Waited(t, r[i])
  <2>1. Len(s) \in Nat \ {0} /\ Len(r) = Len(s) + 1 /\ r[1] = f /\ r[2] = g
    BY <1>2 DEF Pushed
  <2>2. \A j \in 2..Len(s) : r[j + 1] = s[j]
    BY <1>2 DEF Pushed
  <2> HIDE DEF r
  <2>3. i = 1 \/ i = 2 \/ (i - 1 \in 2..Len(s) /\ (i - 1) + 1 = i)
    BY <2>1 DEF r
  <2>4. i - 1 \in 2..Len(s) /\ (i - 1) + 1 = i => r[i] = s[i - 1]
    BY <2>2
  <2> QED
    BY <2>1, <2>3, <2>4 DEF Waited
<1>3. ASSUME PoppedTo(t, f) PROVE r[i] = f \/ Waited(t, r[i])
  <2>1. Len(s) \in Nat \ {0, 1} /\ Len(r) = Len(s) - 1 /\ r[1] = f
    BY <1>3 DEF PoppedTo
  <2>2. \A j \in 2..Len(s) - 1 : r[j] = s[j + 1]
    BY <1>3 DEF PoppedTo
  <2> HIDE DEF r
  <2>3. i = 1 \/ (i \in 2..Len(s) - 1 /\ i + 1 \in 2..Len(s))
    BY <2>1 DEF r
  <2> QED
    BY <2>1, <2>2, <2>3 DEF Waited
<1>4. ASSUME Popped(t) PROVE Waited(t, r[i])
  <2>1. Len(s) \in Nat \ {0} /\ Len(r) = Len(s) - 1
    BY <1>4 DEF Popped
  <2>2. \A j \in 1..Len(s) - 1 : r[j] = s[j + 1]
    BY <1>4 DEF Popped
  <2> HIDE DEF r
  <2>3. i \in 1..Len(s) - 1 /\ i + 1 \in 2..Len(s)
    BY <2>1 DEF r
  <2> QED
    BY <2>2, <2>3 DEF Waited
<1>5. ASSUME Started(t, f) PROVE r[i] = f
  BY <1>5 DEF Started
<1> QED
  BY <1>1, <1>2, <1>3, <1>4, <1>5

\* Where one thread subscribes and unsubscribes, no other frame does while one subscribes.
LEMMA Subscriber ==
  ASSUME TypeInv, FramesOK, OneSubscriber, NEW t \in Threads, NEW i \in 1..Len(stack[t]),
         stack[t][i].op \in SubscribeOps
  PROVE  /\ stack[t][i].op = "subscribe" => i = Len(stack[t])
         /\ \A u \in Threads \ {t} : \A j \in 1..Len(stack[u]) : stack[u][j].op \notin SubscribeOps
<1>1. ASSUME NEW u \in Threads, NEW j \in 1..Len(stack[u]), stack[u][j].op \in Requests
      PROVE  j # Len(stack[u]) => stack[u][j].op \in app.handler
  BY <1>1 DEF FramesOK, CalledOK
<1>2. ASSUME NEW u \in Threads, NEW j \in 1..Len(stack[u]), stack[u][j].op \in SubscribeOps
      PROVE  /\ stack[u][j].op \in app[u] \union app.handler
             /\ stack[u][j].op \in app[u] \/ j # Len(stack[u])
  <2>1. j = Len(stack[u]) => stack[u][j].op \in Own(app, u)
    BY DEF FramesOK, BottomOK
  <2> QED
    BY <1>1, <1>2, <2>1 DEF Own, SubscribeOps, Requests
<1>3. stack[t][i].op = "subscribe" => i = Len(stack[t])
  BY <1>1, <1>2 DEF OneSubscriber, SubscribeOps, Requests
<1>4. ASSUME NEW u \in Threads \ {t}, NEW j \in 1..Len(stack[u]), stack[u][j].op \in SubscribeOps
      PROVE  FALSE
  <2>1. CASE OneThread
    <3>1. \A v \in Threads : \A k \in 1..Len(stack[v]) : v = "worker" => FALSE
      <4>1. stack["worker"] = <<>>
        BY <2>1, WorkerIdle DEF OneThread, Single
      <4> QED
        BY <4>1
    <3>2. u = "worker" \/ t = "worker"
      BY DEF Threads
    <3> QED
      BY <3>1, <3>2
  <2>2. CASE "unsubscribe" \notin app.handler /\ \E v \in Threads : app[v] \intersect {"subscribe", "unsubscribe"} = {}
    <3>1. stack[u][j].op \in app[u] /\ stack[t][i].op \in app[t]
      BY <1>2, <1>4, <2>2 DEF OneSubscriber, SubscribeOps
    <3>2. \A v \in Threads : v = u \/ v = t
      BY DEF Threads
    <3> QED
      BY <1>4, <2>2, <3>1, <3>2 DEF SubscribeOps
  <2> QED
    BY <2>1, <2>2 DEF OneSubscriber
<1> QED
  BY <1>3, <1>4

\* A step of t.
LEMMA SubsStep ==
  ASSUME HandlersInv, NEW t \in Threads, UNCHANGED app, \A u \in Threads \ {t} : stack'[u] = stack[u] /\ rc'[u] = rc[u],
         OneSubscriber =>
           /\ subscribed' \subseteq Handled'
           /\ \A u \in Threads \ {t} : \A i \in 1..Len(stack[u]) : SubOK(handlers', subscribed', rc[u], stack[u][i])
           /\ \A i \in 1..Len(stack'[t]) : SubOK(handlers', subscribed', rc'[t], stack'[t][i])
  PROVE  HandlersInv'
<1>1. OneSubscriber' = OneSubscriber
  BY DEF OneSubscriber, OneThread
<1> SUFFICES ASSUME OneSubscriber
             PROVE  \A u \in Threads : \A i \in 1..Len(stack'[u]) : SubOK(handlers', subscribed', rc'[u], stack'[u][i])
  BY <1>1 DEF HandlersInv
<1> QED
  OBVIOUS

\* It leaves the handlers and the subscriptions alone.
LEMMA SubsKept ==
  ASSUME Safe, HandlersInv, NEW t \in Threads, UNCHANGED <<app, handlers, subscribed>>,
         \A u \in Threads \ {t} : rc'[u] = rc[u], NEW f, NEW g,
         \/ Popped(t)
         \/ Replaced(t, f) /\ SubOK(handlers, subscribed, rc'[t], f)
         \/ PoppedTo(t, f) /\ SubOK(handlers, subscribed, rc'[t], f)
         \/ Pushed(t, f, g) /\ SubOK(handlers, subscribed, rc'[t], f) /\ SubOK(handlers, subscribed, rc'[t], g)
  PROVE  HandlersInv'
<1>1. \A u \in Threads \ {t} : stack'[u] = stack[u]
  BY OthersStay
<1>2. ASSUME OneSubscriber, NEW i \in 1..Len(stack'[t]) PROVE SubOK(handlers, subscribed, rc'[t], stack'[t][i])
  <2>1. ASSUME Waited(t, stack'[t][i]) PROVE SubOK(handlers, subscribed, rc'[t], stack'[t][i])
    <3>1. PICK j \in 2..Len(stack[t]) : stack'[t][i] = stack[t][j]
      BY <2>1 DEF Waited
    <3>2. j \in 1..Len(stack[t])
      BY RunningLen DEF Safe, TypeInv
    <3>3. SubOK(handlers, subscribed, rc[t], stack[t][j]) /\ stack[t][j].pc # "end"
      BY <1>2, <3>2, WaitingFrame DEF HandlersInv, Safe
    <3> QED
      BY <3>1, <3>3 DEF SubOK
  <2> QED
    BY <2>1, Shapes DEF Safe, TypeInv
<1>3. OneSubscriber => /\ subscribed \subseteq Handled /\ Handled' = Handled
                       /\ \A u \in Threads \ {t} : \A i \in 1..Len(stack[u]) : SubOK(handlers, subscribed, rc[u], stack[u][i])
  BY DEF HandlersInv, Handled
<1> QED
  BY <1>1, <1>2, <1>3, SubsStep

\* The running frame goes on: a subscription goes on with the slot it has chosen, or ends for a failure.
LEMMA SubsGoesOn ==
  ASSUME Safe, HandlersInv, NEW t \in Threads, Running(t), UNCHANGED <<app, handlers, subscribed>>,
         \A u \in Threads \ {t} : rc'[u] = rc[u], NEW f, Replaced(t, f),
         f.op = Top(t).op, f.topic = Top(t).topic,
         f.op = "subscribe" => \/ f.pc \notin {"send", "wait", "end"}
                               \/ f.pc = "end" /\ rc'[t] # "SUCCESS"
                               \/ f.pc \in {"send", "wait"} /\ f.slot = Top(t).slot /\ Top(t).pc \in {"send", "wait"}
                               \/ f.pc = "send" /\ handlers[f.slot] = None
  PROVE  HandlersInv'
<1>1. OneSubscriber => SubOK(handlers, subscribed, rc[t], Top(t))
  BY RunningLen DEF HandlersInv, Safe, TypeInv
<1>2. OneSubscriber => SubOK(handlers, subscribed, rc'[t], f)
  BY <1>1 DEF SubOK
<1>3. CASE OneSubscriber
  BY <1>2, <1>3, SubsKept
<1>4. CASE ~OneSubscriber
  BY <1>4 DEF HandlersInv, OneSubscriber, OneThread
<1> QED
  BY <1>3, <1>4

\* A step changes the result of its own thread only, and the handlers and subscriptions where a call is
\* acknowledged or ends.
LEMMA StepLocal ==
  ASSUME TypeInv, NEW t \in Threads, Step(t)
  PROVE  /\ \A u \in Threads \ {t} : rc'[u] = rc[u]
         /\ UNCHANGED handlers \/ Read(t)
         /\ UNCHANGED subscribed \/ EndCall(t)
<1>1. (\E x : rc' = [rc EXCEPT ![t] = x]) \/ UNCHANGED rc
  BY DEF Step, Cas, TlsConnect, Serialize, SendPacket, WaitTimeout, Read, ReadError, ReadFails, Deliver, HandlersReturn,
         SerializePuback, EndCall, YieldLoop, KeepAlive, SendPing, HandleDisconnect, DisconnectHandled, Reconnected,
         EndYield, ReconnectStart, ConnectReturned, Resubscribed, Return, ReadDone, Result, Acknowledged
<1>2. \A u \in Threads \ {t} : rc'[u] = rc[u]
  BY <1>1 DEF TypeInv
<1>3. UNCHANGED handlers \/ Read(t)
  BY DEF Step, Cas, TlsConnect, Serialize, SendPacket, WaitTimeout, ReadError, ReadFails, Deliver, HandlersReturn,
         SerializePuback, EndCall, YieldLoop, KeepAlive, SendPing, HandleDisconnect, DisconnectHandled, Reconnected,
         EndYield, ReconnectStart, ConnectReturned, Resubscribed
<1>4. UNCHANGED subscribed \/ EndCall(t)
  BY DEF Step, Cas, TlsConnect, Serialize, SendPacket, WaitTimeout, Read, ReadError, ReadFails, Deliver, HandlersReturn,
         SerializePuback, YieldLoop, KeepAlive, SendPing, HandleDisconnect, DisconnectHandled, Reconnected,
         EndYield, ReconnectStart, ConnectReturned, Resubscribed
<1> QED
  BY <1>2, <1>3, <1>4

LEMMA SubscribeTop ==
  ASSUME TypeInv, FramesOK, NEW t \in Threads, Running(t)
  PROVE  /\ 1 \in 1..Len(stack[t]) /\ Top(t) = stack[t][1]
         /\ Top(t) \in Frames /\ SlotChosen(Top(t))
         /\ Top(t).op \in SubscribeOps => Top(t).topic \in Topics
<1>1. 1 \in 1..Len(stack[t]) /\ Top(t) = stack[t][1]
  BY RunningLen DEF TypeInv
<1>2. FrameOK(app, Top(t)) /\ Top(t) \in Frames
  BY FirstFrame DEF TypeInv
<1> QED
  BY <1>1, <1>2 DEF FrameOK, SubscribeOps

\* An acknowledged subscription gets its handler, an acknowledged unsubscribe takes it away.
LEMMA AckHandlers ==
  ASSUME Safe, HandlersInv, NEW t \in Threads, Read(t), Top(t).pc = "wait", Acknowledged(t, Head(inbox)),
         NEW pc, Replaced(t, NextPc(t, pc)), Top(t).op \in SubscribeOps, pc = "end"
  PROVE  HandlersInv'
<1> DEFINE f == Top(t)
           g == NextPc(t, pc)
<1>0. TypeInv /\ FramesOK /\ Running(t)
  BY DEF Safe, Read, At
<1>1. UNCHANGED <<app, subscribed>> /\ \A u \in Threads \ {t} : stack'[u] = stack[u] /\ rc'[u] = rc[u]
  BY <1>0, StepLocal, OthersStay DEF Read, Step
<1>2. g.pc = "end" /\ g.op = f.op /\ g.topic = f.topic
  BY <1>0, NextPcIs
<1>3. /\ 1 \in 1..Len(stack[t]) /\ f = stack[t][1]
      /\ f \in Frames /\ SlotChosen(f) /\ f.topic \in Topics
  BY <1>0, SubscribeTop
<1>4. CASE ~OneSubscriber
  BY <1>1, <1>4 DEF HandlersInv, OneSubscriber, OneThread
<1>5. CASE OneSubscriber
  <2>0. SubOK(handlers, subscribed, rc[t], f) /\ subscribed \subseteq Handled
    BY <1>3, <1>5 DEF HandlersInv
  <2>1. \A u \in Threads \ {t} : \A i \in 1..Len(stack[u]) : SubOK(handlers', subscribed', rc[u], stack[u][i])
    BY <1>0, <1>3, <1>5, Subscriber DEF SubOK, SubscribeOps
  <2>2. CASE f.op = "subscribe"
    <3>1. f.slot \in 1..NumHandlers /\ handlers[f.slot] = None /\ handlers' = [handlers EXCEPT ![f.slot] = f.topic]
      BY <1>3, <2>0, <2>2 DEF SubOK, Acknowledged, SlotChosen
    <3>2. handlers'[f.slot] = f.topic /\ \A i \in 1..NumHandlers : handlers[i] # None => handlers'[i] = handlers[i]
      BY <1>0, <3>1 DEF TypeInv
    <3>3. Handled \subseteq Handled' /\ f.topic \in {handlers'[i] : i \in 1..NumHandlers}
      BY <3>1, <3>2 DEF Handled
    <3>4. Len(stack[t]) = 1
      BY <1>0, <1>3, <1>5, <2>2, Subscriber DEF SubscribeOps
    <3>5. \A i \in 1..Len(stack'[t]) : stack'[t][i] = g
      BY <3>4 DEF Replaced
    <3>6. SubOK(handlers', subscribed', rc'[t], g)
      BY <1>2, <2>2, <3>3 DEF SubOK
    <3> QED
      BY <1>1, <2>0, <2>1, <3>3, <3>5, <3>6, SubsStep
  <2>3. CASE f.op = "unsubscribe"
    <3>1. /\ handlers' = [i \in 1..NumHandlers |-> IF handlers[i] = f.topic THEN None ELSE handlers[i]]
          /\ f.topic \notin subscribed
      BY <2>0, <2>3 DEF SubOK, Acknowledged
    <3>2. \A i \in 1..NumHandlers : handlers'[i] = IF handlers[i] = f.topic THEN None ELSE handlers[i]
      BY <3>1
    <3>3. subscribed \subseteq Handled'
      BY <2>0, <3>1, <3>2 DEF Handled
    <3>4. SubOK(handlers', subscribed', rc'[t], g)
      BY <1>1, <1>2, <2>3, <3>1 DEF SubOK
    <3>5. ASSUME NEW x, Waited(t, x) PROVE SubOK(handlers', subscribed', rc'[t], x)
      <4>1. PICK j \in 2..Len(stack[t]) : x = stack[t][j]
        BY <3>5 DEF Waited
      <4>2. j \in 1..Len(stack[t])
        BY <1>0, RunningLen DEF TypeInv
      <4>3. SubOK(handlers, subscribed, rc[t], x) /\ x.pc # "end" /\ SlotChosen(x)
        BY <1>0, <1>5, <4>1, <4>2, WaitingFrame DEF HandlersInv, FramesOK, FrameOK
      <4> QED
        BY <1>1, <3>2, <4>3 DEF SubOK, SlotChosen
    <3>6. \A i \in 1..Len(stack'[t]) : SubOK(handlers', subscribed', rc'[t], stack'[t][i])
      BY <1>0, <3>4, <3>5, Shapes DEF TypeInv
    <3>7. subscribed' \subseteq Handled'
      BY <1>1, <3>3
    <3> QED
      BY <1>1, <2>1, <3>6, <3>7, SubsStep
  <2> QED
    BY <2>2, <2>3 DEF SubscribeOps
<1> QED
  BY <1>4, <1>5

LEMMA ReadHandlers == ASSUME Safe, HandlersInv, NEW t \in Threads, Read(t) PROVE HandlersInv'
<1>0. TypeInv /\ FramesOK /\ MutexInv /\ SettledInv /\ Running(t) /\ Top(t).pc \in {"wait", "read"}
  BY DEF Safe, Read, At
<1>1. UNCHANGED <<app, subscribed>> /\ \A u \in Threads \ {t} : rc'[u] = rc[u]
  BY <1>0, StepLocal DEF Read, Step
<1>2. \A pc : /\ NextPc(t, pc).pc = pc /\ NextPc(t, pc).op = Top(t).op /\ NextPc(t, pc).slot = Top(t).slot
              /\ NextPc(t, pc).topic = Top(t).topic
  BY <1>0, NextPcIs
<1>3. CASE /\ \E op \in Deliveries, topic \in Topics : Pushed(t, Frame(op, "enter", topic), NextPc(t, Top(t).pc))
           /\ UNCHANGED <<rc, handlers>>
  <2>1. PICK op \in Deliveries, topic \in Topics : Pushed(t, Frame(op, "enter", topic), NextPc(t, Top(t).pc))
    BY <1>3
  <2>2. SubOK(handlers, subscribed, rc'[t], Frame(op, "enter", topic))
    BY DEF SubOK, Frame, Deliveries
  <2>3. OneSubscriber => SubOK(handlers, subscribed, rc[t], Top(t))
    BY <1>0, RunningLen DEF HandlersInv, TypeInv
  <2>4. OneSubscriber => SubOK(handlers, subscribed, rc'[t], NextPc(t, Top(t).pc))
    BY <1>2, <1>3, <2>3 DEF SubOK
  <2>5. CASE OneSubscriber
    BY <1>1, <1>3, <2>1, <2>2, <2>4, <2>5, SubsKept
  <2>6. CASE ~OneSubscriber
    BY <1>1, <2>6 DEF HandlersInv, OneSubscriber, OneThread
  <2> QED
    BY <2>5, <2>6
<1>4. CASE /\ Top(t).pc = "wait" /\ Acknowledged(t, Head(inbox))
           /\ Replaced(t, NextPc(t, IF Top(t).op = "resubscribe" THEN "serialize" ELSE "end"))
  <2>1. CASE Top(t).op \in SubscribeOps
    <3>1. Replaced(t, NextPc(t, "end"))
      BY <1>4, <2>1 DEF SubscribeOps
    <3> QED
      BY <1>4, <2>1, <3>1, AckHandlers
  <2>2. CASE Top(t).op \notin SubscribeOps
    <3>1. UNCHANGED handlers
      BY <1>4, <2>2 DEF Acknowledged, SubscribeOps
    <3>2. PICK pc : Replaced(t, NextPc(t, pc))
      BY <1>4
    <3> QED
      BY <1>0, <1>1, <1>2, <2>2, <3>1, <3>2, SubsGoesOn DEF SubscribeOps
  <2> QED
    BY <2>1, <2>2
<1>5. CASE /\ Replaced(t, NextPc(t, IF Top(t).pc = "read" THEN "keepalive" ELSE "wait"))
           /\ UNCHANGED <<rc, handlers>>
  <2>1. PICK pc : Replaced(t, NextPc(t, pc)) /\ ((pc = "wait" /\ Top(t).pc = "wait") \/ pc = "keepalive")
    BY <1>0, <1>5
  <2> QED
    BY <1>0, <1>1, <1>2, <1>5, <2>1, SubsGoesOn
<1> QED
  BY <1>0, <1>3, <1>4, <1>5, ReadMove

LEMMA EndCallHandlers == ASSUME Safe, HandlersInv, NEW t \in Threads, EndCall(t) PROVE HandlersInv'
<1>0. TypeInv /\ FramesOK /\ Running(t) /\ Top(t).pc = "end"
  BY DEF Safe, EndCall, At
<1>1. /\ UNCHANGED <<app, handlers>> /\ Popped(t)
      /\ \A u \in Threads \ {t} : stack'[u] = stack[u] /\ rc'[u] = rc[u]
  BY <1>0, StepLocal, EndCallMove, OthersStay DEF EndCall, Step
<1>2. CASE UNCHANGED subscribed
  BY <1>1, <1>2, SubsKept
<1>3. CASE ~OneSubscriber
  BY <1>1, <1>3 DEF HandlersInv, OneSubscriber, OneThread
<1>4. CASE /\ OneSubscriber /\ rc[t] = "SUCCESS" /\ Top(t).op = "subscribe"
           /\ subscribed' = subscribed \union {Top(t).topic}
  <2>1. 1 \in 1..Len(stack[t]) /\ Top(t) = stack[t][1]
    BY <1>0, SubscribeTop
  <2>2. Top(t).topic \in {handlers[i] : i \in 1..NumHandlers} /\ subscribed \subseteq Handled
    BY <1>0, <1>4, <2>1 DEF HandlersInv, SubOK
  <2>3. Top(t).topic \in Topics
    BY <1>0, <1>4, SubscribeTop DEF SubscribeOps
  <2>4. subscribed' \subseteq Handled'
    BY <1>1, <1>4, <2>2, <2>3 DEF Handled
  <2>5. Len(stack[t]) = 1
    BY <1>0, <1>4, <2>1, Subscriber DEF SubscribeOps
  <2>6. Len(stack'[t]) = 0
    BY <1>1, <2>5 DEF Popped
  <2>7. \A u \in Threads \ {t} : \A i \in 1..Len(stack[u]) : SubOK(handlers', subscribed', rc[u], stack[u][i])
    BY <1>0, <1>4, <2>1, Subscriber DEF SubOK, SubscribeOps
  <2> QED
    BY <1>1, <2>4, <2>6, <2>7, SubsStep
<1>5. UNCHANGED subscribed \/ (/\ rc[t] = "SUCCESS" /\ Top(t).op = "subscribe"
                               /\ subscribed' = subscribed \union {Top(t).topic})
  BY DEF EndCall
<1> QED
  BY <1>2, <1>3, <1>4, <1>5

LEMMA StepHandlers == ASSUME Safe, HandlersInv, NEW t \in Threads, Step(t) PROVE HandlersInv'
<1>0. TypeInv /\ FramesOK /\ MutexInv /\ SettledInv
  BY DEF Safe
<1>1. UNCHANGED app /\ \A u \in Threads \ {t} : rc'[u] = rc[u]
  BY <1>0, StepTypes, StepLocal DEF Kept
<1>2. Running(t)
  BY DEF Step, Cas, TlsConnect, Serialize, SendPacket, WaitTimeout, Read, ReadError, ReadFails, Deliver, HandlersReturn,
         SerializePuback, EndCall, YieldLoop, KeepAlive, SendPing, HandleDisconnect, DisconnectHandled, Reconnected,
         EndYield, ReconnectStart, ConnectReturned, Resubscribed, At
<1>3. \A pc : /\ NextPc(t, pc).pc = pc /\ NextPc(t, pc).op = Top(t).op /\ NextPc(t, pc).slot = Top(t).slot
              /\ NextPc(t, pc).topic = Top(t).topic
  BY <1>0, <1>2, NextPcIs
<1>r. \A x : rc' = [rc EXCEPT ![t] = x] => rc'[t] = x
  BY <1>0 DEF TypeInv
<1>c1. CASE Read(t)
  BY <1>c1, ReadHandlers
<1>c2. CASE EndCall(t)
  BY <1>c2, EndCallHandlers
<1>4. ASSUME ~Read(t), ~EndCall(t) PROVE UNCHANGED <<app, handlers, subscribed>>
  BY <1>0, <1>1, <1>4, StepLocal
<1> SUFFICES ASSUME UNCHANGED <<app, handlers, subscribed>> PROVE HandlersInv'
  BY <1>c1, <1>c2, <1>4
<1>5. ASSUME NEW pc, Replaced(t, NextPc(t, pc)),
             \/ Top(t).op # "subscribe" \/ pc \notin {"send", "wait", "end"}
             \/ (pc = "end" /\ rc'[t] # "SUCCESS") \/ (pc = "wait" /\ Top(t).pc \in {"send", "wait"})
      PROVE  HandlersInv'
  <2> DEFINE f == NextPc(t, pc)
  <2>1. f.pc = pc /\ f.op = Top(t).op /\ f.slot = Top(t).slot /\ f.topic = Top(t).topic /\ Replaced(t, f)
    BY <1>3, <1>5
  <2> HIDE DEF f
  <2> QED
    BY <1>1, <1>2, <1>5, <2>1, SubsGoesOn
<1>6. ASSUME Popped(t) PROVE HandlersInv'
  BY <1>1, <1>6, SubsKept
<1>7. ASSUME NEW f, NEW g, Pushed(t, f, g), f.op \notin SubscribeOps, g.op \notin SubscribeOps PROVE HandlersInv'
  <2>1. SubOK(handlers, subscribed, rc'[t], f) /\ SubOK(handlers, subscribed, rc'[t], g)
    BY <1>7 DEF SubOK, SubscribeOps
  <2> QED
    BY <1>1, <1>7, <2>1, SubsKept
<1>8. ASSUME NEW f, PoppedTo(t, f), Same(f, stack[t][2]), f.slot = stack[t][2].slot, Top(t).op \in Deliveries,
             (f.pc = "end" /\ rc'[t] # "SUCCESS") \/ f.pc = "keepalive" \/ f.pc = stack[t][2].pc
      PROVE  HandlersInv'
  <2>0. \A n \in Nat \ {0, 1} : 2 \in 2..n /\ 2 \in 1..n
    OBVIOUS
  <2>1. 2 \in 2..Len(stack[t]) /\ 2 \in 1..Len(stack[t])
    BY <1>8, <2>0, Zenon DEF PoppedTo
  <2>2. OneSubscriber => SubOK(handlers, subscribed, rc[t], stack[t][2])
    BY <2>1 DEF HandlersInv
  <2>3. stack[t][2].pc # "end"
    BY <1>0, <2>1, WaitingFrame
  <2>4. OneSubscriber => SubOK(handlers, subscribed, rc'[t], f)
    BY <1>8, <2>2, <2>3 DEF SubOK, Same
  <2>5. CASE OneSubscriber
    BY <1>1, <1>8, <2>4, <2>5, SubsKept
  <2>6. CASE ~OneSubscriber
    BY <2>6 DEF HandlersInv, OneSubscriber, OneThread
  <2> QED
    BY <2>5, <2>6
<1>9. \A op, pc, topic : Frame(op, pc, topic).op = op
  BY DEF Frame
<1>c3. CASE Cas(t)
  BY <1>0, <1>c3, <1>5, <1>6, CasMove DEF CasPc
<1>c4. CASE TlsConnect(t)
  BY <1>0, <1>c4, <1>5, TlsMove
<1>c5. CASE Serialize(t)
  <2>2. CASE /\ ~Fails(Top(t)) /\ Replaced(t, SendFrame(Top(t)))
             /\ SentSlot(Top(t)) \in 0..NumHandlers /\ SentCount(Top(t)) \in 0..NumHandlers
    <3>1. /\ SendFrame(Top(t)).op = Top(t).op /\ SendFrame(Top(t)).topic = Top(t).topic
          /\ SendFrame(Top(t)).pc = "send" /\ SendFrame(Top(t)).slot = SentSlot(Top(t))
      BY <1>0, <1>2, <2>2, SubscribeTop, SendFrameIs
    <3>2. Top(t).op = "subscribe" => handlers[SentSlot(Top(t))] = None
      BY <1>0, <2>2, FreeSlotIs DEF SentSlot, Fails, NoSlot
    <3> QED
      BY <1>1, <1>2, <2>2, <3>1, <3>2, SubsGoesOn
  <2>3. CASE Done(Top(t)) /\ Replaced(t, NextPc(t, "end"))
    BY <1>5, <2>3 DEF Done
  <2>4. CASE Fails(Top(t)) /\ Replaced(t, NextPc(t, "end")) /\ rc' = [rc EXCEPT ![t] = "FAILURE"]
    BY <1>5, <1>r, <2>4
  <2> QED
    BY <1>0, <1>c5, <2>2, <2>3, <2>4, SerializeMove
<1>c6. CASE SendPacket(t)
  <2>1. Top(t).pc = "send"
    BY <1>c6 DEF SendPacket, At
  <2>2. CASE Same(After(t, "SUCCESS"), stack[t][2]) /\ Top(t).op = "deliver1" /\ PoppedTo(t, After(t, "SUCCESS"))
    <3>1. After(t, "SUCCESS").slot = stack[t][2].slot
          /\ After(t, "SUCCESS").pc \in {"keepalive", stack[t][2].pc}
      <4>1. stack[t][2] \in Frames /\ stack[t][2].pc \in {"wait", "read"}
        BY <1>0, <1>2, <2>2, DeliveryCalled DEF Deliveries
      <4> QED
        BY <4>1 DEF After, Frames
    <3> QED
      BY <1>8, <2>2, <3>1 DEF Deliveries
  <2>3. CASE Top(t).op = "publish0" /\ Replaced(t, NextPc(t, "end"))
    BY <1>5, <2>3
  <2>4. CASE Replaced(t, NextPc(t, "wait"))
    BY <1>5, <2>1, <2>4
  <2> QED
    BY <1>0, <1>c6, <2>2, <2>3, <2>4, SendMove
<1>c7. CASE WaitTimeout(t)
  BY <1>0, <1>5, <1>r, <1>c7, WaitTimeoutMove
<1>c8. CASE ReadError(t)
  BY <1>0, <1>5, <1>r, <1>c8, ReadErrorMove
<1>c9. CASE Deliver(t)
  BY <1>0, <1>5, <1>c9, DeliverMove
<1>c10. CASE HandlersReturn(t)
  <2>1. Top(t).op \in Deliveries
    BY <1>0, <1>c10, HandlersReturnMove
  <2>2. \A x : /\ After(t, x).slot = stack[t][2].slot
               /\ (After(t, x).pc = "end" /\ x # "SUCCESS") \/ After(t, x).pc \in {"keepalive", stack[t][2].pc}
    BY <1>0, <1>2, <2>1, DeliveryCalled DEF After, Frames
  <2>3. CASE /\ Same(After(t, "UNEXPECTED_STATE"), stack[t][2]) /\ PoppedTo(t, After(t, "UNEXPECTED_STATE"))
             /\ rc' = [rc EXCEPT ![t] = "UNEXPECTED_STATE"]
    BY <1>8, <1>r, <2>1, <2>2, <2>3
  <2>4. CASE Same(After(t, "SUCCESS"), stack[t][2]) /\ PoppedTo(t, After(t, "SUCCESS"))
    BY <1>8, <2>1, <2>2, <2>4
  <2>5. CASE Replaced(t, NextPc(t, "puback"))
    BY <1>5, <2>5
  <2> QED
    BY <1>0, <1>c10, <2>3, <2>4, <2>5, HandlersReturnMove
<1>c11. CASE SerializePuback(t)
  BY <1>0, <1>5, <1>c11, PubackMove
<1>c12. CASE YieldLoop(t)
  BY <1>0, <1>3, <1>5, <1>7, <1>9, <1>c12, YieldLoopMove DEF SubscribeOps
<1>c13. CASE KeepAlive(t)
  BY <1>0, <1>5, <1>c13, KeepAliveMove
<1>c14. CASE SendPing(t)
  BY <1>0, <1>5, <1>c14, SendPingMove
<1>c15. CASE HandleDisconnect(t)
  BY <1>0, <1>3, <1>5, <1>7, <1>9, <1>c15, HandleDisconnectMove DEF SubscribeOps
<1>c16. CASE DisconnectHandled(t)
  BY <1>0, <1>5, <1>c16, DisconnectHandledMove
<1>c17. CASE Reconnected(t)
  BY <1>0, <1>5, <1>c17, ReconnectedMove
<1>c18. CASE EndYield(t)
  BY <1>0, <1>6, <1>c18, EndYieldMove
<1>c19. CASE ReconnectStart(t)
  BY <1>0, <1>3, <1>5, <1>6, <1>7, <1>9, <1>c19, ReconnectStartMove DEF SubscribeOps
<1>c20. CASE ConnectReturned(t)
  BY <1>0, <1>3, <1>6, <1>7, <1>9, <1>c20, ConnectReturnedMove DEF SubscribeOps
<1>c21. CASE Resubscribed(t)
  BY <1>0, <1>6, <1>c21, ResubscribedMove
<1>c22. CASE ReadFails(t)
  BY <1>0, <1>5, <1>r, <1>c22, ReadFailsMove
<1> QED
  BY <1>c1, <1>c2, <1>c3, <1>c4, <1>c5, <1>c6, <1>c7, <1>c8, <1>c9, <1>c10, <1>c11, <1>c12, <1>c13, <1>c14,
     <1>c15, <1>c16, <1>c17, <1>c18, <1>c19, <1>c20, <1>c21, <1>c22 DEF Step

LEMMA OtherHandlers ==
  ASSUME Safe, HandlersInv,
         \/ ClientInit \/ Connect \/ AttemptReconnect \/ Yield \/ Disconnect \/ (\E t \in Threads : Requested(t))
         \/ BrokerPublishes \/ LinkBreaks \/ PingTimerExpires \/ ReconnectTimerExpires \/ UNCHANGED vars
  PROVE  HandlersInv'
<1>0. TypeInv /\ FramesOK /\ MutexInv /\ SettledInv /\ "main" \in Threads
  BY DEF Safe, Threads
<1>1. CASE UNCHANGED <<app, stack, rc, handlers, subscribed>>
  BY <1>1 DEF HandlersInv, OneSubscriber, OneThread, Handled
<1>2. CASE ClientInit
  <2>1. \A t \in Threads : Len(stack'[t]) = 0
    BY <1>0, <1>2, RunningLen DEF ClientInit, TypeInv
  <2>2. subscribed' = {}
    BY <1>2 DEF ClientInit
  <2> QED
    BY <2>1, <2>2 DEF HandlersInv
<1>3. CASE Connect \/ AttemptReconnect \/ Yield
  <2>1. PICK op, pc : MainStarts(op, pc) /\ op \notin SubscribeOps
    BY <1>0, <1>3, ConnectMove, AttemptReconnectMove, YieldMove DEF SubscribeOps
  <2>2. UNCHANGED <<app, rc, handlers, subscribed>>
    BY <1>3, <2>1 DEF MainStarts, Connect, AttemptReconnect, Yield
  <2>3. SubOK(handlers, subscribed, rc["main"], Frame(op, pc, None))
    BY <2>1 DEF SubOK, Frame, SubscribeOps
  <2>4. /\ \A u \in Threads \ {"main"} : stack'[u] = stack[u]
        /\ \A i \in 1..Len(stack'["main"]) : stack'["main"][i] = Frame(op, pc, None)
    BY <2>1 DEF MainStarts, Started
  <2>5. OneSubscriber =>
          /\ subscribed \subseteq Handled' /\ Handled' = Handled
          /\ \A u \in Threads \ {"main"} : \A i \in 1..Len(stack[u]) : SubOK(handlers, subscribed, rc[u], stack[u][i])
    BY <2>2 DEF HandlersInv, Handled
  <2> QED
    BY <1>0, <2>2, <2>3, <2>4, <2>5, SubsStep
<1>4. ASSUME NEW t \in Threads, Requested(t) PROVE HandlersInv'
  <2>1. PICK op \in Requests, topic \in Topics \union {None} :
          (topic = None <=> op \in {"publish0", "publish1"}) /\ Request(t, op, topic)
    BY <1>4 DEF Requested
  <2>2. /\ UNCHANGED <<app, rc, handlers>> /\ subscribed' \subseteq subscribed
        /\ op = "unsubscribe" => topic \notin subscribed'
    BY <2>1 DEF Request
  <2> DEFINE f == Frame(op, "cas", topic)
  <2>3. SubOK(handlers, subscribed', rc[t], f)
    BY <2>2 DEF SubOK, Frame
  <2> HIDE DEF f
  <2>4. PICK g : Started(t, f) \/ (Pushed(t, f, g) /\ g.op \in Deliveries)
    BY <1>0, <2>1, RequestMove DEF f, Same
  <2>5. SubOK(handlers, subscribed', rc[t], g) \/ Started(t, f)
    BY <2>4 DEF SubOK, Deliveries
  <2>6. \A u \in Threads \ {t} : stack'[u] = stack[u]
    BY <2>4 DEF Started, Pushed
  <2>7. OneSubscriber =>
          /\ subscribed' \subseteq Handled'
          /\ \A u \in Threads : \A i \in 1..Len(stack[u]) : SubOK(handlers, subscribed', rc[u], stack[u][i])
    BY <2>2 DEF HandlersInv, Handled, SubOK
  <2>8. ASSUME OneSubscriber, NEW i \in 1..Len(stack'[t]) PROVE SubOK(handlers, subscribed', rc[t], stack'[t][i])
    <3>1. Waited(t, stack'[t][i]) => SubOK(handlers, subscribed', rc[t], stack'[t][i])
      <4>1. Len(stack[t]) \in Nat
        BY <1>0, RunningLen DEF TypeInv
      <4> QED
        BY <2>7, <2>8, <4>1 DEF Waited
    <3> QED
      BY <1>0, <2>3, <2>4, <2>5, <3>1, Shapes DEF TypeInv
  <2> QED
    BY <2>2, <2>6, <2>7, <2>8, SubsStep
<1> QED
  BY <1>1, <1>2, <1>3, <1>4
     DEF Disconnect, BrokerPublishes, LinkBreaks, PingTimerExpires, ReconnectTimerExpires, vars

LEMMA NextHandlers == ASSUME Safe, HandlersInv, [Next]_vars PROVE HandlersInv'
BY StepHandlers, OtherHandlers DEF Next

\* Theorem: where one thread subscribes and unsubscribes, and handlers do not subscribe, every topic whose
\* subscription succeeded has a handler: the slot chosen before the wait is still free after it.
THEOREM SubscriptionsAlways == Spec => []SubscriptionsHandled
<1>1. Init => Safe /\ HandlersInv
  <2>1. ASSUME Init PROVE HandlersInv
    <3>1. \A t \in Threads : Len(stack[t]) = 0
      BY <2>1 DEF Init
    <3> QED
      BY <2>1, <3>1 DEF Init, HandlersInv
  <2> QED
    BY <2>1, InitSafe
<1>2. Safe /\ HandlersInv /\ [Next]_vars => (Safe /\ HandlersInv)'
  BY NextSafe, NextHandlers
<1>3. HandlersInv => SubscriptionsHandled
  BY DEF HandlersInv, SubscriptionsHandled
<1> QED
  BY <1>1, <1>2, <1>3, PTL DEF Spec

-----------------------------------------------------------------------------
(* The state and the connection.                                           *)

Tied(a) == Single(a) /\ ~a.reconnects
\* A state in which the client is connected has a connection.  Any other has none, but for that of a connect
\* and for those in which aws_iot_mqtt_init may have left the last one open; a connect has one once it has been
\* made, and a yield that disconnected has none.
StateLinked(state, l) ==
  /\ state \in ConnectedStates => l # "down"
  /\ state \notin ConnectedStates \union {"CONNECTING", "INITIALIZED", "INVALID"} => l = "down"
FrameLinked(l, result, f) ==
  /\ f.op = "connect" => /\ f.pc \in {"serialize", "send", "wait"} => l # "down"
                         /\ f.pc = "end" /\ result = "SUCCESS" => l # "down"
  /\ f.pc = "disconnected" => l = "down"
LinkedInv ==
  Tied(app) =>
    /\ StateLinked(clientState, link)
    /\ \A i \in 1..Len(stack["main"]) : FrameLinked(link, rc["main"], stack["main"][i])

\* What waits while a connect, a reconnect, a resubscribe or a yield runs is a reconnect or a yield.
LEMMA UnderConnect ==
  ASSUME TypeInv, FramesOK, NEW t \in Threads, Running(t), Top(t).op \in {"connect", "reconnect", "resubscribe", "yield"},
         NEW x, Waited(t, x)
  PROVE  x.op \in {"reconnect", "yield"}
<1> DEFINE s == stack[t]
           n == Len(s)
<1>1. n \in Nat \ {0} /\ Top(t) = s[1]
  BY FirstFrame DEF TypeInv
<1>2. ASSUME NEW i \in 1..n, i # n PROVE Within(s[i], s[i + 1])
  BY <1>2 DEF FramesOK, CalledOK
<1>3. ASSUME NEW i \in 1..n PROVE /\ s[i].op = "yield" => i = n
                                  /\ s[i].op = "reconnect" /\ i # n => s[i + 1].op = "yield"
                                  /\ s[i].op \in {"connect", "resubscribe"} /\ i # n => s[i + 1].op = "reconnect"
  BY <1>2 DEF Within, Deliveries, Requests
<1>4. PICK j \in 2..n : x = s[j]
  BY DEF Waited
<1> HIDE DEF s, n
<1>5. 1 \in 1..n /\ 1 # n /\ s[1 + 1].op \in {"reconnect", "yield"}
  <2>1. 1 \in 1..n /\ 1 # n
    BY <1>1, <1>4
  <2> QED
    BY <1>1, <1>3, <2>1
<1>6. CASE j = 2
  BY <1>4, <1>5, <1>6
<1>7. CASE j # 2
  <2>0. 2 \in 1..n /\ 2 # n /\ 2 + 1 \in 1..n
    BY <1>1, <1>4, <1>7
  <2>1. 2 \in 1..n /\ 2 # n /\ 2 + 1 \in 1..n /\ s[2].op = "reconnect"
    BY <1>3, <1>5, <2>0
  <2>2. s[2 + 1].op = "yield"
    BY <1>3, <1>5, <2>1
  <2>3. 2 + 1 = n
    BY <1>3, <2>1, <2>2
  <2>4. j = 2 + 1
    BY <1>4, <1>7, <2>3
  <2> QED
    BY <1>4, <2>2, <2>4
<1> QED
  BY <1>6, <1>7

\* What waits keeps its connection, and does without one if it does not connect.
LEMMA WaitedLinked ==
  ASSUME TypeInv, FramesOK, LinkedInv, Tied(app), NEW x, Waited("main", x)
  PROVE  /\ \A result : FrameLinked(link, result, x)
         /\ x.op # "connect" => \A l, result : FrameLinked(l, result, x)
         /\ x.pc \notin {"cas", "tls", "end", "disconnected"}
<1>0. "main" \in Threads
  BY DEF Threads
<1>1. PICK j \in 2..Len(stack["main"]) : x = stack["main"][j]
  BY DEF Waited
<1>2. Len(stack["main"]) \in Nat
  BY <1>0, RunningLen DEF TypeInv
<1>3. j \in 1..Len(stack["main"]) /\ j - 1 \in 1..Len(stack["main"]) /\ j - 1 # Len(stack["main"]) /\ (j - 1) + 1 = j
  BY <1>1, <1>2
<1>4. CalledOK(app, stack["main"][j - 1], stack["main"][(j - 1) + 1])
  BY <1>0, <1>3 DEF FramesOK
<1>5. CalledOK(app, stack["main"][j - 1], x)
  BY <1>1, <1>3, <1>4
<1>6. x.pc \notin {"cas", "tls", "end", "disconnected"}
  BY <1>5 DEF CalledOK, Within, Tied
<1>7. FrameLinked(link, rc["main"], x)
  BY <1>1, <1>3 DEF LinkedInv
<1> QED
  BY <1>6, <1>7 DEF FrameLinked

\* A step of the main thread, which makes f of its frame, or makes it g and calls f, or returns.
LEMMA LinkedStep ==
  ASSUME TypeInv, UNCHANGED app, NEW f, NEW g,
         Tied(app) =>
           /\ StateLinked(clientState', link')
           /\ \A x : Waited("main", x) => FrameLinked(link', rc'["main"], x)
           /\ \/ Popped("main")
              \/ /\ Replaced("main", f) \/ PoppedTo("main", f) \/ Started("main", f)
                 /\ FrameLinked(link', rc'["main"], f)
              \/ Pushed("main", f, g) /\ FrameLinked(link', rc'["main"], f) /\ FrameLinked(link', rc'["main"], g)
  PROVE  LinkedInv'
<1> SUFFICES ASSUME Tied(app) PROVE LinkedInv'
  BY DEF LinkedInv, Tied, Single
<1>1. ASSUME NEW i \in 1..Len(stack'["main"]) PROVE FrameLinked(link', rc'["main"], stack'["main"][i])
  BY Shapes DEF Threads, TypeInv
<1> QED
  BY <1>1 DEF LinkedInv

LEMMA StepLinked == ASSUME Safe, LinkedInv, NEW t \in Threads, Step(t) PROVE LinkedInv'
<1>0. TypeInv /\ FramesOK /\ MutexInv /\ SettledInv
  BY DEF Safe
<1>1. UNCHANGED app
  BY <1>0, StepTypes DEF Kept
<1>2. Running(t)
  BY DEF Step, Cas, TlsConnect, Serialize, SendPacket, WaitTimeout, Read, ReadError, ReadFails, Deliver, HandlersReturn,
         SerializePuback, EndCall, YieldLoop, KeepAlive, SendPing, HandleDisconnect, DisconnectHandled, Reconnected,
         EndYield, ReconnectStart, ConnectReturned, Resubscribed, At
<1>3. CASE ~Tied(app)
  BY <1>1, <1>3 DEF LinkedInv
<1>4. Tied(app) => t = "main"
  BY <1>0, <1>2, WorkerIdle DEF Threads, Tied
<1> SUFFICES ASSUME Tied(app), t = "main" PROVE LinkedInv'
  BY <1>3, <1>4
<1> DEFINE f == Top("main")
           st == clientState
           r == rc["main"]
<1>5. /\ f \in Frames /\ FrameOK(app, f) /\ f.op \in Ops /\ f.pc \in PcsOf(f.op)
      /\ st \in StateAt(f, r)
      /\ StateLinked(st, link) /\ FrameLinked(link, r, f)
  <2>1. 1 \in 1..Len(stack["main"]) /\ f = stack["main"][1]
    BY <1>0, <1>2, SubscribeTop
  <2> QED
    BY <1>0, <1>2, <2>1, FirstFrame DEF SettledInv, LinkedInv, TypeInv, Tied
<1>6. /\ f.op \in Deliveries => st = IF f.pc = "handler" THEN "WAIT_FOR_CB_RETURN" ELSE f.old
      /\ f.op \in Requests \union {"connect", "resubscribe"} => st = IF f.pc = "cas" THEN f.old ELSE InProgress(f.op)
      /\ f.op = "reconnect" => st \in IF f.pc = "resubscribed" THEN {"IDLE"} ELSE Settled
      /\ f.op = "yield" => st \in YieldStates(f, r)
  BY <1>5, StateIs
<1>7. \A pc : /\ NextPc("main", pc).pc = pc /\ NextPc("main", pc).op = f.op
  BY <1>0, <1>2, NextPcIs
<1>8. \A op, pc, topic : Frame(op, pc, topic).pc = pc /\ Frame(op, pc, topic).op = op
  BY DEF Frame
<1>r. \A x : rc' = [rc EXCEPT !["main"] = x] => rc'["main"] = x
  BY <1>0 DEF TypeInv
<1>w. \A x : Waited("main", x) => FrameLinked(link, rc'["main"], x)
  BY <1>0, WaitedLinked
<1>d. f.op \in Deliveries => /\ CalledOK(app, f, stack["main"][2]) /\ Waited("main", stack["main"][2])
                             /\ \/ stack["main"][2].pc = "wait" /\ stack["main"][2].op \in Waiting \union {"connect"}
                                \/ stack["main"][2].pc = "read" /\ stack["main"][2].op = "yield"
  <2>1. \A n \in Nat \ {0, 1} : 2 \in 2..n
    OBVIOUS
  <2>2. Len(stack["main"]) \in Nat \ {0}
    BY <1>0, <1>2, FirstFrame DEF TypeInv
  <2>3. Len(stack["main"]) # 1 => 2 \in 2..Len(stack["main"])
    BY <2>1, <2>2, Zenon
  <2> QED
    BY <1>0, <1>2, <2>3, DeliveryCalled DEF Waited
<1> HIDE DEF f, st, r
\* The connection stays.
<1>10. ASSUME UNCHANGED link, StateLinked(clientState', link), NEW g, NEW h,
              \/ Popped("main")
              \/ (Replaced("main", g) \/ PoppedTo("main", g)) /\ FrameLinked(link, rc'["main"], g)
              \/ Pushed("main", g, h) /\ FrameLinked(link, rc'["main"], g) /\ FrameLinked(link, rc'["main"], h)
       PROVE  LinkedInv'
  BY <1>0, <1>1, <1>w, <1>10, LinkedStep
<1>11. ASSUME NEW pc, Replaced("main", NextPc("main", pc)), UNCHANGED link, StateLinked(clientState', link),
              f.op = "connect" => \/ pc \in {"cas", "tls"}
                                  \/ pc \in {"serialize", "send", "wait", "end"} /\ link # "down"
                                  \/ pc = "end" /\ rc'["main"] # "SUCCESS",
              pc # "disconnected"
       PROVE  LinkedInv'
  <2>1. FrameLinked(link, rc'["main"], NextPc("main", pc))
    BY <1>7, <1>11 DEF FrameLinked
  <2> QED
    BY <1>10, <1>11, <2>1
\* The read that delivered a message goes on.
<1>12. ASSUME NEW g, PoppedTo("main", g), Same(g, stack["main"][2]), f.op \in Deliveries, UNCHANGED link,
              StateLinked(clientState', link), g.pc = IF stack["main"][2].pc = "read" THEN "keepalive" ELSE "wait"
       PROVE  LinkedInv'
  <2>1. FrameLinked(link, r, stack["main"][2])
    BY <1>0, <1>d, <1>12, WaitedLinked
  <2>2. FrameLinked(link, rc'["main"], g)
    BY <1>d, <1>12, <2>1 DEF FrameLinked, Same
  <2> QED
    BY <1>10, <1>12, <2>2
<1>13. ASSUME f.pc # "cas", f.op \in Requests \union {"connect", "resubscribe"}, clientState' = st
       PROVE  StateLinked(clientState', link)
  BY <1>5, <1>13
<1>c1. CASE Cas(t)
  <2>1. /\ f.pc = "cas" /\ f.op \in Requests \union {"connect", "resubscribe", "yield"} /\ UNCHANGED link
    BY <1>0, <1>c1, CasMove DEF Cas, At, f
  <2>2. st = f.old
    BY <1>6, <2>1 DEF YieldStates, Requests
  <2>3. /\ clientState' = InProgress(f.op) /\ Replaced("main", NextPc("main", CasPc(f.op)))
    <3>1. Granted(f)
      BY <2>2 DEF Granted, st
    <3>2. clientState' = CompareAndSet(f.old, InProgress(f.op))
      BY <1>c1, <3>1 DEF Cas, f
    <3> QED
      BY <1>0, <1>c1, <2>2, <3>1, <3>2, CasMove DEF CompareAndSet, f, st
  <2>4. CasPc(f.op) = IF f.op = "yield" THEN "loop" ELSE IF f.op = "connect" THEN "tls" ELSE "serialize"
    BY <2>1 DEF CasPc
  <2>5. f.op # "connect" => st \in {"IDLE", "WAIT_FOR_CB_RETURN"}
    BY <1>5, <1>6, <2>1, <2>2 DEF FrameOK, Tied, Shared, YieldStates
  <2>6. StateLinked(clientState', link)
    BY <1>5, <2>1, <2>3, <2>5 DEF StateLinked, InProgress, ConnectedStates, Requests
  <2> QED
    BY <1>11, <2>1, <2>3, <2>4, <2>6
<1>c2. CASE TlsConnect(t)
  <2>1. f.pc = "tls" /\ clientState' = st /\ f.op = "connect" /\ st = "CONNECTING"
    BY <1>0, <1>6, <1>c2, TlsMove DEF f, st, TlsConnect, At, InProgress
  <2>2. CASE link' = "up" /\ Goto(t, "serialize")
    <3>1. Replaced("main", NextPc("main", "serialize"))
      BY <1>0, <1>1, <1>2, <2>1, <2>2, GotoStep DEF f, PcsOf, Waiting
    <3>2. \A x : Waited("main", x) => FrameLinked(link', rc'["main"], x)
      BY <1>0, <1>2, <2>1, UnderConnect, WaitedLinked DEF f
    <3>3. StateLinked(clientState', link') /\ FrameLinked(link', rc'["main"], NextPc("main", "serialize"))
      BY <1>7, <2>1, <2>2 DEF StateLinked, FrameLinked, ConnectedStates
    <3> QED
      BY <1>0, <1>1, <3>1, <3>2, <3>3, LinkedStep
  <2>3. CASE UNCHANGED net /\ Result(t, "end", "TLS_ERROR")
    <3>1. Replaced("main", NextPc("main", "end")) /\ rc' = [rc EXCEPT !["main"] = "TLS_ERROR"]
      BY <1>0, <1>1, <1>2, <2>1, <2>3, GotoStep DEF f, PcsOf, Waiting, Result
    <3> QED
      BY <1>5, <1>11, <1>r, <2>1, <2>3, <3>1
  <2> QED
    BY <1>c2, <2>2, <2>3 DEF TlsConnect
<1>c3. CASE Serialize(t)
  <2>1. f.pc = "serialize" /\ clientState' = st /\ f.op \in Requests \union {"connect", "resubscribe"} /\ UNCHANGED link
    BY <1>0, <1>c3, SerializeMove DEF f, st, Serialize, At
  <2>2. f.op = "connect" => link # "down"
    BY <1>5, <2>1 DEF FrameLinked
  <2>3. CASE Replaced("main", NextPc("main", "end"))
    BY <1>5, <1>11, <2>1, <2>2, <2>3
  <2>4. CASE /\ Replaced("main", SendFrame(f))
             /\ SentSlot(f) \in 0..NumHandlers /\ SentCount(f) \in 0..NumHandlers
    <3>1. SendFrame(f).op = f.op /\ SendFrame(f).pc = "send"
      BY <1>5, <2>4, SendFrameIs
    <3>2. FrameLinked(link, rc'["main"], SendFrame(f))
      BY <2>2, <3>1 DEF FrameLinked
    <3> QED
      BY <1>5, <1>10, <2>1, <2>4, <3>2
  <2> QED
    BY <1>0, <1>c3, <2>3, <2>4, SerializeMove DEF f
<1>c4. CASE SendPacket(t)
  <2>1. f.pc = "send" /\ clientState' = st /\ UNCHANGED link
    BY <1>c4 DEF f, st, SendPacket, At, Transmit
  <2>2. f.op = "connect" => link # "down"
    BY <1>5, <2>1 DEF FrameLinked
  <2> QED
    BY <1>0, <1>5, <1>11, <1>12, <1>c4, <2>1, <2>2, SendMove DEF f, Deliveries
<1>c5. CASE WaitTimeout(t)
  <2>1. clientState' = st /\ UNCHANGED link
    BY <1>c5 DEF f, st, WaitTimeout
  <2> QED
    BY <1>0, <1>5, <1>11, <1>r, <1>c5, <2>1, WaitTimeoutMove
<1>c6. CASE Read(t)
  <2>1. clientState' = st /\ UNCHANGED link /\ link = "up" /\ f.pc \in {"wait", "read"}
    BY <1>c6 DEF f, st, Read, At
  <2>2. CASE \E op \in Deliveries, topic \in Topics : Pushed("main", Frame(op, "enter", topic), NextPc("main", f.pc))
    <3>1. PICK op \in Deliveries, topic \in Topics : Pushed("main", Frame(op, "enter", topic), NextPc("main", f.pc))
      BY <2>2
    <3>2. /\ FrameLinked(link, rc'["main"], Frame(op, "enter", topic))
          /\ FrameLinked(link, rc'["main"], NextPc("main", f.pc))
      BY <1>7, <1>8, <2>1 DEF FrameLinked, Deliveries
    <3> QED
      BY <1>5, <1>10, <2>1, <3>1, <3>2
  <2>3. CASE \E pc \in {"serialize", "end", "wait", "keepalive"} : Replaced("main", NextPc("main", pc)) /\ (f.op = "connect" => pc # "keepalive")
    BY <1>5, <1>11, <2>1, <2>3
  <2>4. f.pc = "read" => f.op # "connect"
    BY <1>5, OpAt
  <2> QED
    BY <1>0, <1>c6, <2>1, <2>2, <2>3, <2>4, ReadMove DEF f
<1>c7. CASE ReadError(t)
  <2>1. clientState' = st /\ UNCHANGED link
    BY <1>c7 DEF st, ReadError
  <2>2. f.pc = "read" => f.op # "connect"
    BY <1>5, OpAt
  <2> QED
    BY <1>0, <1>5, <1>11, <1>r, <1>c7, <2>1, <2>2, ReadErrorMove DEF f
<1>c8. CASE Deliver(t)
  <2>1. f.pc = "enter" /\ f.op \in Deliveries /\ Replaced("main", NextPc("main", "handler")) /\ UNCHANGED link
    BY <1>0, <1>c8, DeliverMove DEF f, Deliver, At
  <2>2. clientState' = "WAIT_FOR_CB_RETURN" /\ st = f.old
    BY <1>6, <1>c8, <2>1 DEF f, st, Deliver, CompareAndSet
  <2>3. st \in ReadStates(stack["main"][2].op)
    BY <1>d, <2>1, <2>2 DEF CalledOK, Tied
  <2>4. FrameLinked(link, r, stack["main"][2])
    BY <1>0, <1>d, <2>1, WaitedLinked
  <2>5. link # "down"
    <3>1. CASE stack["main"][2].op = "connect"
      BY <1>d, <2>1, <2>4, <3>1 DEF FrameLinked
    <3>2. CASE stack["main"][2].op # "connect"
      <4>1. st \in ConnectedStates
        BY <1>d, <2>1, <2>3, <3>2 DEF ReadStates, InProgress, Waiting, ConnectedStates
      <4> QED
        BY <1>5, <4>1 DEF StateLinked
    <3> QED
      BY <3>1, <3>2
  <2>6. StateLinked(clientState', link)
    BY <2>2, <2>5 DEF StateLinked, ConnectedStates
  <2> QED
    BY <1>11, <2>1, <2>6 DEF Deliveries
<1>c9. CASE HandlersReturn(t)
  <2>1. f.pc = "handler" /\ f.op \in Deliveries /\ st = "WAIT_FOR_CB_RETURN" /\ UNCHANGED link
    BY <1>0, <1>6, <1>c9, HandlersReturnMove DEF f, HandlersReturn, At
  <2>2. clientState' = f.old /\ f.old \in ReadStates(stack["main"][2].op)
    BY <1>c9, <1>d, <2>1 DEF f, st, HandlersReturn, CompareAndSet, CalledOK, Tied
  <2>3. link # "down"
    BY <1>5, <2>1 DEF StateLinked, ConnectedStates
  <2>4. clientState' \in ConnectedStates \union {"CONNECTING"}
    BY <1>d, <2>1, <2>2 DEF ReadStates, InProgress, Waiting, ConnectedStates
  <2>5. StateLinked(clientState', link)
    BY <2>3, <2>4 DEF StateLinked
  <2>6. CASE Replaced("main", NextPc("main", "puback"))
    BY <1>11, <2>1, <2>5, <2>6 DEF Deliveries
  <2> QED
    BY <1>0, <1>12, <1>c9, <2>1, <2>5, <2>6, HandlersReturnMove DEF st
<1>c10. CASE SerializePuback(t)
  <2>1. f.op = "deliver1" /\ Replaced("main", NextPc("main", "send")) /\ clientState' = st /\ UNCHANGED link
    BY <1>0, <1>c10, PubackMove DEF f, st, SerializePuback
  <2> QED
    BY <1>5, <1>11, <2>1
<1>c11. CASE EndCall(t)
  <2>1. f.pc = "end" /\ Popped("main") /\ f.op \in Requests \union {"connect", "resubscribe"}
    BY <1>0, <1>c11, EndCallMove DEF f, EndCall, At
  <2>2. st = InProgress(f.op)
    BY <1>6, <2>1
  <2>3. clientState' = IF f.op # "connect" THEN f.old ELSE IF r = "SUCCESS" THEN "IDLE" ELSE "DISCONNECTED_ERROR"
    BY <1>c11, <2>2 DEF f, r, st, EndCall, CompareAndSet
  <2>4. CASE f.op # "connect"
    <3>1. st \in ConnectedStates /\ UNCHANGED link
      BY <1>c11, <2>1, <2>2, <2>4 DEF InProgress, ConnectedStates, Requests, f, EndCall
    <3>2. clientState' \in {"IDLE", "WAIT_FOR_CB_RETURN"}
      BY <1>5, <2>1, <2>3, <2>4 DEF FrameOK, Tied, Shared
    <3>3. StateLinked(clientState', link)
      BY <1>5, <3>1, <3>2 DEF StateLinked, ConnectedStates
    <3> QED
      BY <1>10, <2>1, <3>1, <3>3
  <2>5. CASE f.op = "connect" /\ r = "SUCCESS"
    <3>1. link # "down" /\ UNCHANGED link
      BY <1>5, <1>c11, <2>1, <2>5 DEF FrameLinked, f, r, EndCall
    <3>2. StateLinked(clientState', link)
      BY <2>3, <2>5, <3>1 DEF StateLinked, ConnectedStates
    <3> QED
      BY <1>10, <2>1, <3>1, <3>2
  <2>6. CASE f.op = "connect" /\ r # "SUCCESS"
    <3>1. link' = "down"
      BY <1>c11, <2>6 DEF f, r, EndCall, Close
    <3>2. StateLinked(clientState', link')
      BY <2>3, <2>6, <3>1 DEF StateLinked, ConnectedStates
    <3>3. \A x : Waited("main", x) => FrameLinked(link', rc'["main"], x)
      BY <1>0, <1>2, <2>6, UnderConnect, WaitedLinked DEF f
    <3> QED
      BY <1>0, <1>1, <2>1, <3>2, <3>3, LinkedStep
  <2> QED
    BY <2>4, <2>5, <2>6
<1>c12. CASE YieldLoop(t)
  <2>1. f.op = "yield" /\ clientState' = st /\ UNCHANGED link
    BY <1>0, <1>c12, YieldLoopMove DEF f, st, YieldLoop
  <2>2. CASE \E pc \in {"read", "end", "check"} : Replaced("main", NextPc("main", pc))
    BY <1>5, <1>11, <2>1, <2>2
  <2>3. CASE Pushed("main", Frame("reconnect", "start", None), NextPc("main", "reconnected"))
    <3>1. /\ FrameLinked(link, rc'["main"], Frame("reconnect", "start", None))
          /\ FrameLinked(link, rc'["main"], NextPc("main", "reconnected"))
      BY <1>7, <1>8, <2>1 DEF FrameLinked
    <3> QED
      BY <1>5, <1>10, <2>1, <2>3, <3>1
  <2> QED
    BY <1>0, <1>c12, <2>2, <2>3, YieldLoopMove
<1>c13. CASE KeepAlive(t)
  <2>1. f.op = "yield" /\ clientState' = st /\ UNCHANGED link
    BY <1>0, <1>c13, KeepAliveMove DEF f, st, KeepAlive
  <2> QED
    BY <1>0, <1>5, <1>11, <1>c13, <2>1, KeepAliveMove
<1>c14. CASE SendPing(t)
  <2>1. f.op = "yield" /\ clientState' = st /\ UNCHANGED link
    BY <1>0, <1>c14, SendPingMove DEF f, st, SendPing, Transmit
  <2> QED
    BY <1>0, <1>5, <1>11, <1>c14, <2>1, SendPingMove
<1>c15. CASE HandleDisconnect(t)
  <2>1. /\ f.op = "yield" /\ clientState' \in {"DISCONNECTED_MANUALLY", "DISCONNECTED_ERROR"} /\ link' = "down"
        /\ Replaced("main", NextPc("main", "disconnected"))
    BY <1>0, <1>c15, HandleDisconnectMove DEF f, HandleDisconnect, Close, Tied
  <2>2. \A x : Waited("main", x) => FrameLinked(link', rc'["main"], x)
    BY <1>0, <1>2, <2>1, UnderConnect, WaitedLinked DEF f
  <2>3. StateLinked(clientState', link') /\ FrameLinked(link', rc'["main"], NextPc("main", "disconnected"))
    BY <1>7, <2>1 DEF StateLinked, FrameLinked, ConnectedStates
  <2> QED
    BY <1>0, <1>1, <2>1, <2>2, <2>3, LinkedStep
<1>c16. CASE DisconnectHandled(t)
  <2>1. /\ f.op = "yield" /\ f.pc = "disconnected" /\ UNCHANGED link
        /\ clientState' \in {"PENDING_RECONNECT", "DISCONNECTED_ERROR"}
    BY <1>0, <1>c16, DisconnectHandledMove DEF f, DisconnectHandled, At
  <2>2. StateLinked(clientState', link)
    BY <1>5, <2>1 DEF StateLinked, FrameLinked, ConnectedStates
  <2> QED
    BY <1>0, <1>11, <1>c16, <2>1, <2>2, DisconnectHandledMove
<1>c17. CASE Reconnected(t)
  <2>1. f.op = "yield" /\ Replaced("main", NextPc("main", "check")) /\ UNCHANGED link
    BY <1>0, <1>c17, ReconnectedMove DEF f, Reconnected
  <2>2. clientState' = st \/ clientState' = CompareAndSet("IDLE", "YIELD")
    BY <1>c17 DEF Reconnected, st
  <2>3. StateLinked(clientState', link)
    BY <1>5, <2>2 DEF StateLinked, ConnectedStates, CompareAndSet, st
  <2> QED
    BY <1>11, <2>1, <2>3
<1>c18. CASE EndYield(t)
  <2>1. f.op = "yield" /\ Popped("main") /\ UNCHANGED link
    BY <1>0, <1>c18, EndYieldMove DEF f, EndYield
  <2>2. clientState' = st \/ clientState' = CompareAndSet("YIELD", "IDLE")
    BY <1>c18 DEF EndYield, st
  <2>3. StateLinked(clientState', link)
    BY <1>5, <2>2 DEF StateLinked, ConnectedStates, CompareAndSet, st
  <2> QED
    BY <1>10, <2>1, <2>3
<1>c19. CASE ReconnectStart(t)
  <2>1. f.op = "reconnect" /\ clientState' = st /\ UNCHANGED link
    BY <1>0, <1>c19, ReconnectStartMove DEF f, st, ReconnectStart
  <2>2. CASE Popped("main") \/ Replaced("main", NextPc("main", "connected"))
    BY <1>5, <1>10, <1>11, <2>1, <2>2
  <2>3. CASE ValidForConnect /\ Pushed("main", Frame("connect", "cas", None), NextPc("main", "connected"))
    <3>1. /\ FrameLinked(link, rc'["main"], Frame("connect", "cas", None))
          /\ FrameLinked(link, rc'["main"], NextPc("main", "connected"))
      BY <1>7, <1>8, <2>1 DEF FrameLinked
    <3> QED
      BY <1>5, <1>10, <2>1, <2>3, <3>1
  <2> QED
    BY <1>0, <1>c19, <2>2, <2>3, ReconnectStartMove
<1>c20. CASE ConnectReturned(t)
  <2>1. f.op = "reconnect" /\ UNCHANGED link
    BY <1>0, <1>c20, ConnectReturnedMove DEF f, ConnectReturned
  <2>2. clientState' = st \/ clientState' = CompareAndSet("DISCONNECTED_ERROR", "PENDING_RECONNECT")
    BY <1>c20 DEF ConnectReturned, st
  <2>3. StateLinked(clientState', link)
    BY <1>5, <2>2 DEF StateLinked, ConnectedStates, CompareAndSet, st
  <2>4. CASE Pushed("main", Frame("resubscribe", "cas", None), NextPc("main", "resubscribed"))
    <3>1. /\ FrameLinked(link, rc'["main"], Frame("resubscribe", "cas", None))
          /\ FrameLinked(link, rc'["main"], NextPc("main", "resubscribed"))
      BY <1>7, <1>8, <2>1 DEF FrameLinked
    <3> QED
      BY <1>10, <2>1, <2>3, <2>4, <3>1
  <2> QED
    BY <1>0, <1>10, <1>c20, <2>1, <2>3, <2>4, ConnectReturnedMove
<1>c21. CASE Resubscribed(t)
  <2>1. Popped("main") /\ clientState' = st /\ UNCHANGED link
    BY <1>0, <1>c21, ResubscribedMove DEF st, Resubscribed
  <2> QED
    BY <1>5, <1>10, <2>1
<1>c22. CASE ReadFails(t)
  <2>1. clientState' = st /\ UNCHANGED link
    BY <1>c22 DEF st, ReadFails
  <2> QED
    BY <1>0, <1>5, <1>11, <1>r, <1>c22, <2>1, ReadFailsMove
<1> QED
  BY <1>c1, <1>c2, <1>c3, <1>c4, <1>c5, <1>c6, <1>c7, <1>c8, <1>c9, <1>c10, <1>c11, <1>c12, <1>c13, <1>c14,
     <1>c15, <1>c16, <1>c17, <1>c18, <1>c19, <1>c20, <1>c21, <1>c22 DEF Step

LEMMA OtherLinked ==
  ASSUME Safe, LinkedInv,
         \/ ClientInit \/ Connect \/ AttemptReconnect \/ Yield \/ Disconnect \/ (\E t \in Threads : Requested(t))
         \/ BrokerPublishes \/ LinkBreaks \/ PingTimerExpires \/ ReconnectTimerExpires \/ UNCHANGED vars
  PROVE  LinkedInv'
<1>0. TypeInv /\ FramesOK /\ MutexInv /\ SettledInv /\ "main" \in Threads
  BY DEF Safe, Threads
<1>1. CASE UNCHANGED <<app, clientState, stack, rc, link>>
  BY <1>1 DEF LinkedInv
<1>2. CASE ClientInit \/ Disconnect
  <2>1. UNCHANGED <<app, stack, rc>> /\ ~Running("main")
        /\ \/ clientState' \in {"INITIALIZED", "INVALID"}
           \/ clientState' = "DISCONNECTED_MANUALLY" /\ link' = "down"
    BY <1>0, <1>2 DEF ClientInit, Disconnect, Close
  <2>2. Len(stack'["main"]) = 0
    BY <1>0, <2>1, RunningLen DEF TypeInv
  <2>3. StateLinked(clientState', link')
    BY <2>1 DEF StateLinked, ConnectedStates
  <2> QED
    BY <2>2, <2>3 DEF LinkedInv
<1>3. CASE LinkBreaks
  <2>1. UNCHANGED <<app, clientState, stack, rc>> /\ link = "up" /\ link' = "broken"
    BY <1>3 DEF LinkBreaks
  <2>2. \A f : FrameLinked(link, rc["main"], f) => FrameLinked(link', rc["main"], f)
    BY <2>1 DEF FrameLinked
  <2>3. StateLinked(clientState, link) => StateLinked(clientState, link')
    BY <2>1 DEF StateLinked
  <2> QED
    BY <2>1, <2>2, <2>3 DEF LinkedInv
<1>4. CASE Connect \/ AttemptReconnect \/ Yield
  <2>1. PICK op, pc : /\ MainStarts(op, pc) /\ pc \in {"cas", "start", "loop"}
                      /\ op = "connect" => Connect
    BY <1>0, <1>4, ConnectMove, AttemptReconnectMove, YieldMove
  <2>2. UNCHANGED <<app, clientState, rc, link>>
    BY <1>4, <2>1 DEF MainStarts, Connect, AttemptReconnect, Yield
  <2> DEFINE f == Frame(op, pc, None)
  <2>3. f.op = op /\ f.pc = pc /\ Started("main", f)
    BY <2>1 DEF Frame, MainStarts
  <2> HIDE DEF f
  <2>4. Tied(app) => StateLinked(clientState, link)
    BY DEF LinkedInv
  <2>5. Tied(app) => FrameLinked(link, rc["main"], f)
    BY <2>1, <2>3, <2>4 DEF FrameLinked, StateLinked, Connect, ValidForConnect, ConnectedStates
  <2>6. Len(stack["main"]) = 0
    BY <1>0, <2>3, RunningLen DEF Started
  <2>7. \A x : ~Waited("main", x)
    BY <2>6 DEF Waited
  <2> QED
    BY <1>0, <2>2, <2>3, <2>4, <2>5, <2>7, LinkedStep
<1>5. ASSUME NEW t \in Threads, Requested(t) PROVE LinkedInv'
  <2>1. PICK op \in Requests, topic \in Topics \union {None} :
          (topic = None <=> op \in {"publish0", "publish1"}) /\ Request(t, op, topic)
    BY <1>5 DEF Requested
  <2>2. UNCHANGED <<app, clientState, rc, link>>
    BY <2>1 DEF Request
  <2> DEFINE f == Frame(op, "cas", topic)
  <2>3. f.op \in Requests
    BY DEF Frame
  <2> HIDE DEF f
  <2>4. PICK g : \/ Started(t, f)
                 \/ Pushed(t, f, g) /\ g.op \in Deliveries /\ g.pc = "handler"
    BY <1>0, <2>1, RequestMove DEF f, Same
  <2>5. CASE t = "main"
    <3>1. FrameLinked(link, rc["main"], f) /\ (Started(t, f) \/ FrameLinked(link, rc["main"], g))
      <4>1. f.pc = "cas"
        BY DEF f, Frame
      <4> QED
        BY <2>3, <2>4, <4>1 DEF FrameLinked, Requests, Deliveries
    <3>2. Tied(app) => /\ StateLinked(clientState, link)
                       /\ \A x : Waited("main", x) => FrameLinked(link, rc["main"], x)
      BY <1>0, WaitedLinked DEF LinkedInv
    <3> QED
      BY <1>0, <2>2, <2>4, <2>5, <3>1, <3>2, LinkedStep
  <2>6. CASE t # "main"
    <3>1. stack'["main"] = stack["main"]
      BY <1>0, <2>4, <2>6 DEF Started, Pushed
    <3> QED
      BY <2>2, <3>1 DEF LinkedInv
  <2> QED
    BY <2>5, <2>6
<1> QED
  BY <1>1, <1>2, <1>3, <1>4, <1>5
     DEF BrokerPublishes, PingTimerExpires, ReconnectTimerExpires, vars, net, rest

LEMMA NextLinked == ASSUME Safe, LinkedInv, [Next]_vars PROVE LinkedInv'
BY StepLinked, OtherLinked DEF Next

\* Theorem: between the calls of one thread no call's state is left over; and unless its disconnect handler
\* reconnects, the idle state has a connection, and a connection is there only in the idle state or where
\* aws_iot_mqtt_init has left it open.
THEOREM SettledAlways == Spec => []SettledBetweenCalls
<1>1. Init => Safe /\ LinkedInv
  <2>1. ASSUME Init PROVE LinkedInv
    <3>1. Len(stack["main"]) = 0
      BY <2>1 DEF Init, Threads
    <3> QED
      BY <2>1, <3>1 DEF Init, LinkedInv, StateLinked, ConnectedStates
  <2> QED
    BY <2>1, InitSafe
<1>2. Safe /\ LinkedInv /\ [Next]_vars => (Safe /\ LinkedInv)'
  BY NextSafe, NextLinked
<1>3. ASSUME Safe, LinkedInv PROVE SettledBetweenCalls
  <2> SUFFICES ASSUME OneThread, ~Running("main")
               PROVE  /\ clientState \in Settled
                      /\ ~app.reconnects => /\ clientState = "IDLE" => link # "down"
                                            /\ link # "down" => clientState \in {"IDLE", "INITIALIZED", "INVALID"}
    BY DEF SettledBetweenCalls, Settled, Closed
  <2>1. Single(app) /\ clientState \in Settled
    BY <1>3 DEF Safe, SettledInv, OneThread, Single
  <2>2. ASSUME ~app.reconnects
        PROVE  /\ clientState = "IDLE" => link # "down"
               /\ link # "down" => clientState \in {"IDLE", "INITIALIZED", "INVALID"}
    <3>1. StateLinked(clientState, link)
      BY <1>3, <2>1, <2>2 DEF LinkedInv, Tied
    <3> QED
      BY <2>1, <3>1 DEF StateLinked, Settled, Closed, ConnectedStates
  <2> QED
    BY <2>1, <2>2
<1> QED
  BY <1>1, <1>2, <1>3, PTL DEF Spec

-----------------------------------------------------------------------------
(* Subscribing again, slot after slot.                                     *)

Steady(a) == Single(a) /\ "unsubscribe" \notin a.handler
\* The broker has the topics of the first n slots, unless the connection is gone.
Upto(h, l, ses, n) == l = "up" => \A k \in 1..n : h[k] \in ses
\* How far a resubscribe f has come, free being the first free slot and buf the packet to send: what it goes
\* over, fixed when it starts, lies before the first free slot.
FramePrefix(h, free, l, ses, buf, result, f) ==
  f.op = "resubscribe" =>
    /\ f.slot <= f.count /\ f.count < free /\ (f.slot = 0 => f.count = 0)
    /\ f.pc \in {"cas", "serialize", "wait"} => Upto(h, l, ses, f.slot)
    /\ f.pc = "send" => f.slot > 0 /\ Upto(h, l, ses, f.slot - 1) /\ buf.topic = h[f.slot]
    /\ f.pc = "end" /\ result = "SUCCESS" => Upto(h, l, ses, f.count)
\* A subscription that a handler makes while g waits fills a slot g does not go over.
Beyond(f, g) ==
  f.op = "subscribe" /\ f.pc \in {"send", "wait"} /\ g.op = "resubscribe" => f.slot > g.count
PrefixInv ==
  Steady(app) =>
    \A i \in 1..Len(stack["main"]) :
      /\ FramePrefix(handlers, FreeSlot, link, session, writeBuf, rc["main"], stack["main"][i])
      /\ \A j \in 1..Len(stack["main"]) : Beyond(stack["main"][i], stack["main"][j])

\* A broken or new connection apart, the broker forgets nothing.
Grows == link' = "up" => link = "up" /\ session \subseteq session'
Beside(t, f) == \A x : Waited(t, x) => Beyond(f, x) /\ Beyond(x, f)

LEMMA UptoGrows ==
  ASSUME Grows, NEW n \in Nat, \A k \in 1..n : handlers'[k] = handlers[k]
  PROVE  Upto(handlers, link, session, n) => Upto(handlers', link', session', n)
BY DEF Grows, Upto

\* A step of the main thread, which makes f of its frame, or makes it g and calls f, or returns.
LEMMA PrefixStep ==
  ASSUME TypeInv, PrefixInv, UNCHANGED app, NEW f, NEW g,
         Steady(app) =>
           /\ \A x : Waited("main", x) => FramePrefix(handlers', FreeSlot', link', session', writeBuf', rc'["main"], x)
           /\ \/ Popped("main")
              \/ /\ Replaced("main", f) \/ PoppedTo("main", f) \/ Started("main", f)
                 /\ FramePrefix(handlers', FreeSlot', link', session', writeBuf', rc'["main"], f)
                 /\ Beside("main", f)
              \/ /\ Pushed("main", f, g)
                 /\ FramePrefix(handlers', FreeSlot', link', session', writeBuf', rc'["main"], f)
                 /\ FramePrefix(handlers', FreeSlot', link', session', writeBuf', rc'["main"], g)
                 /\ Beside("main", f) /\ Beside("main", g) /\ Beyond(f, g) /\ Beyond(g, f)
  PROVE  PrefixInv'
<1> SUFFICES ASSUME Steady(app) PROVE PrefixInv'
  BY DEF PrefixInv, Steady, Single
<1> DEFINE r == stack'["main"]
<1>0. "main" \in Threads /\ StackType
  BY DEF Threads, TypeInv
<1>1. ASSUME NEW i \in 1..Len(r) PROVE FramePrefix(handlers', FreeSlot', link', session', writeBuf', rc'["main"], r[i])
  BY <1>0, Shapes
<1>2. ASSUME NEW x, NEW y, Waited("main", x), Waited("main", y) PROVE Beyond(x, y)
  <2>1. Len(stack["main"]) \in Nat
    BY <1>0, RunningLen
  <2>2. \A j \in 2..Len(stack["main"]) : j \in 1..Len(stack["main"])
    BY <2>1
  <2> QED
    BY <1>2, <2>2 DEF Waited, PrefixInv
<1>3. Beyond(f, f) /\ Beyond(g, g)
  BY DEF Beyond
<1>4. ASSUME NEW i \in 1..Len(r), NEW j \in 1..Len(r) PROVE Beyond(r[i], r[j])
  <2>1. CASE Popped("main")
    BY <1>0, <1>2, <2>1, Shapes
  <2>2. CASE (Replaced("main", f) \/ PoppedTo("main", f) \/ Started("main", f)) /\ Beside("main", f)
    <3>1. /\ r[i] = f \/ Waited("main", r[i])
          /\ r[j] = f \/ Waited("main", r[j])
      BY <1>0, <2>2, Shapes
    <3> HIDE DEF r
    <3> QED
      BY <1>2, <1>3, <2>2, <3>1 DEF Beside
  <2>3. CASE Pushed("main", f, g) /\ Beside("main", f) /\ Beside("main", g) /\ Beyond(f, g) /\ Beyond(g, f)
    <3>1. /\ r[i] = f \/ r[i] = g \/ Waited("main", r[i])
          /\ r[j] = f \/ r[j] = g \/ Waited("main", r[j])
      BY <1>0, <2>3, Shapes
    <3> HIDE DEF r
    <3> QED
      BY <1>2, <1>3, <2>3, <3>1 DEF Beside
  <2> QED
    BY <2>1, <2>2, <2>3
<1> QED
  BY <1>1, <1>4 DEF PrefixInv

\* What waits does not send and has not ended.
LEMMA WaitedPrefix ==
  ASSUME TypeInv, FramesOK, PrefixInv, Steady(app), Grows, NEW x, Waited("main", x),
         \A k \in 1..NumHandlers : x.op = "resubscribe" /\ k <= x.slot => handlers'[k] = handlers[k],
         FreeSlot' \in Nat, FreeSlot <= FreeSlot'
  PROVE  \A buf, result : FramePrefix(handlers', FreeSlot', link', session', buf, result, x)
<1>0. "main" \in Threads
  BY DEF Threads
<1>1. PICK j \in 2..Len(stack["main"]) : x = stack["main"][j]
  BY DEF Waited
<1>2. j \in 1..Len(stack["main"])
  BY <1>0, RunningLen DEF TypeInv
<1>3. x.pc \notin {"send", "end"}
  BY <1>0, <1>1, WaitingFrame
<1>4. FramePrefix(handlers, FreeSlot, link, session, writeBuf, rc["main"], x)
  BY <1>1, <1>2 DEF PrefixInv
<1>5. FreeSlot \in 1..NumHandlers + 1
  BY FreeSlotIs
<1>6. x \in Frames
  BY <1>0, <1>1, <1>2, RunningLen DEF TypeInv
<1> SUFFICES ASSUME x.op = "resubscribe" PROVE \A buf, result : FramePrefix(handlers', FreeSlot', link', session', buf, result, x)
  BY DEF FramePrefix
<1>7. x.slot \in 0..NumHandlers /\ x.count \in 0..NumHandlers /\ x.count < FreeSlot
  BY <1>4, <1>6, FrameFields DEF FramePrefix
<1>8. x.count < FreeSlot'
  BY <1>5, <1>7, ClientAssumption
<1>9. \A k \in 1..x.slot : handlers'[k] = handlers[k]
  BY <1>7, ClientAssumption
<1>10. x.slot \in Nat
  BY <1>7, ClientAssumption
<1>11. Upto(handlers, link, session, x.slot) => Upto(handlers', link', session', x.slot)
  BY <1>9, <1>10, UptoGrows
<1> QED
  BY <1>3, <1>4, <1>8, <1>11 DEF FramePrefix

\* What waits for a handler's request is no unsubscribe, and nothing waits for one of the application's own.
LEMMA NoUnsubscribe ==
  ASSUME TypeInv, FramesOK, Steady(app), Running("main"), Top("main").op = "unsubscribe"
  PROVE  \A x : ~Waited("main", x)
<1>1. "main" \in Threads
  BY DEF Threads
<1>2. Len(stack["main"]) = 1
  BY <1>1, FirstFrame DEF CalledOK, Steady, TypeInv, Requests
<1> QED
  BY <1>2 DEF Waited

\* A slot that is filled is not the first free one.
LEMMA FreeSlotFilled ==
  ASSUME TypeInv, TypeInv', NEW k \in 1..NumHandlers, NEW topic \in Topics, handlers' = [handlers EXCEPT ![k] = topic]
  PROVE  FreeSlot <= FreeSlot'
<1>1. /\ FreeSlot \in 1..NumHandlers + 1
      /\ \A i \in 1..NumHandlers : i < FreeSlot => handlers[i] # None
  BY FreeSlotIs
<1>2. FreeSlot' \in 1..NumHandlers + 1 /\ (FreeSlot' <= NumHandlers => handlers'[FreeSlot'] = None)
  BY FirstFreeIs DEF FreeSlot, FirstFree
<1>3. \A i \in 1..NumHandlers : handlers'[i] = None => handlers[i] = None
  BY ClientAssumption DEF TypeInv
<1>4. FreeSlot' <= NumHandlers => FreeSlot' \in 1..NumHandlers /\ ~(FreeSlot' < FreeSlot)
  BY <1>1, <1>2, <1>3, ClientAssumption
<1> QED
  BY <1>1, <1>2, <1>4, ClientAssumption

LEMMA StepPrefix == ASSUME Safe, Safe', BufferInv, PrefixInv, NEW t \in Threads, Step(t) PROVE PrefixInv'
<1>0. TypeInv /\ FramesOK /\ MutexInv /\ SettledInv /\ TypeInv' /\ "main" \in Threads
  BY DEF Safe, Threads
<1>1. UNCHANGED app
  BY <1>0, StepTypes DEF Kept
<1>2. Running(t)
  BY DEF Step, Cas, TlsConnect, Serialize, SendPacket, WaitTimeout, Read, ReadError, ReadFails, Deliver, HandlersReturn,
         SerializePuback, EndCall, YieldLoop, KeepAlive, SendPing, HandleDisconnect, DisconnectHandled, Reconnected,
         EndYield, ReconnectStart, ConnectReturned, Resubscribed, At
<1>3. CASE ~Steady(app)
  BY <1>1, <1>3 DEF PrefixInv, Steady
<1>4. Steady(app) => t = "main"
  BY <1>0, <1>2, WorkerIdle DEF Threads, Steady
<1> SUFFICES ASSUME Steady(app), t = "main" PROVE PrefixInv'
  BY <1>3, <1>4
<1> DEFINE f == Top("main")
           r == rc["main"]
<1>5. /\ f \in Frames /\ f.op \in Ops /\ f.pc \in PcsOf(f.op) /\ f.slot \in 0..NumHandlers /\ f.count \in 0..NumHandlers
      /\ FramePrefix(handlers, FreeSlot, link, session, writeBuf, r, f)
      /\ \A x : Waited("main", x) => Beyond(f, x) /\ Beyond(x, f) /\ x \in Frames
                                     /\ FramePrefix(handlers, FreeSlot, link, session, writeBuf, r, x)
  <2>1. 1 \in 1..Len(stack["main"]) /\ f = stack["main"][1]
    BY <1>0, <1>2, SubscribeTop
  <2>2. Len(stack["main"]) \in Nat
    BY <1>0, RunningLen DEF TypeInv
  <2>3. \A j \in 2..Len(stack["main"]) : j \in 1..Len(stack["main"]) /\ stack["main"][j] \in Frames
    BY <1>0, <2>2, RunningLen DEF TypeInv
  <2> HIDE DEF f
  <2>4. f \in Frames /\ f.op \in Ops /\ f.pc \in PcsOf(f.op) /\ f.slot \in 0..NumHandlers /\ f.count \in 0..NumHandlers
    BY <1>0, <1>2, FirstFrame, FrameFields DEF TypeInv, f
  <2> QED
    BY <2>1, <2>3, <2>4 DEF PrefixInv, Waited
<1>6. /\ FreeSlot \in 1..NumHandlers + 1 /\ FreeSlot \in Nat
      /\ UNCHANGED handlers => FreeSlot' = FreeSlot
  <2>1. FreeSlot \in 1..NumHandlers + 1
    BY FreeSlotIs
  <2>2. FreeSlot \in Nat
    BY <2>1, ClientAssumption
  <2>3. UNCHANGED handlers => FreeSlot' = FreeSlot
    BY DEF FreeSlot
  <2> QED
    BY <2>1, <2>2, <2>3
<1>7. \A pc : /\ NextPc("main", pc).pc = pc /\ NextPc("main", pc).op = f.op /\ NextPc("main", pc).slot = f.slot
              /\ NextPc("main", pc).count = f.count
  BY <1>0, <1>2, NextPcIs
<1>8. \A op, pc, topic : Frame(op, pc, topic).pc = pc /\ Frame(op, pc, topic).op = op /\ Frame(op, pc, topic).slot = 0
                       /\ Frame(op, pc, topic).count = 0
  BY DEF Frame
<1>r. \A x : rc' = [rc EXCEPT !["main"] = x] => rc'["main"] = x
  BY <1>0 DEF TypeInv
<1>w. ASSUME UNCHANGED handlers, Grows, NEW x, Waited("main", x)
      PROVE  \A buf, result : FramePrefix(handlers', FreeSlot', link', session', buf, result, x)
  BY <1>0, <1>6, <1>w, WaitedPrefix
<1>u. f.op \in {"connect", "reconnect", "resubscribe", "yield"} =>
        \A x : Waited("main", x) => x.op \in {"reconnect", "yield"}
  BY <1>0, <1>2, UnderConnect
<1>d. f.op \in Deliveries => /\ Waited("main", stack["main"][2])
                             /\ \/ stack["main"][2].pc = "wait" /\ stack["main"][2].op \in Waiting \union {"connect"}
                                \/ stack["main"][2].pc = "read" /\ stack["main"][2].op = "yield"
  <2>1. \A n \in Nat \ {0, 1} : 2 \in 2..n
    OBVIOUS
  <2>2. Len(stack["main"]) \in Nat \ {0}
    BY <1>0, <1>2, FirstFrame DEF TypeInv
  <2>3. Len(stack["main"]) # 1 => 2 \in 2..Len(stack["main"])
    BY <2>1, <2>2, Zenon
  <2> QED
    BY <1>0, <1>2, <2>3, DeliveryCalled DEF Waited
<1> HIDE DEF f, r
\* The broker forgets nothing and the handlers stay.
<1>10. ASSUME UNCHANGED handlers, Grows, NEW g, NEW h,
              \/ Popped("main")
              \/ /\ Replaced("main", g) \/ PoppedTo("main", g)
                 /\ FramePrefix(handlers', FreeSlot', link', session', writeBuf', rc'["main"], g)
                 /\ Beside("main", g)
              \/ /\ Pushed("main", g, h)
                 /\ FramePrefix(handlers', FreeSlot', link', session', writeBuf', rc'["main"], g)
                 /\ FramePrefix(handlers', FreeSlot', link', session', writeBuf', rc'["main"], h)
                 /\ Beside("main", g) /\ Beside("main", h) /\ Beyond(g, h) /\ Beyond(h, g)
       PROVE  PrefixInv'
  BY <1>0, <1>1, <1>w, <1>10, PrefixStep
\* The running frame goes on with its slot.
<1>b. ASSUME NEW g, g.op = f.op, g.slot = f.slot, g.count = f.count,
             f.op = "subscribe" /\ g.pc \in {"send", "wait"} => f.pc \in {"send", "wait"}
      PROVE  Beside("main", g)
  BY <1>5, <1>b, <1>u DEF Beside, Beyond
<1>11. ASSUME NEW pc, Replaced("main", NextPc("main", pc)), UNCHANGED handlers, Grows,
              f.op = "subscribe" /\ pc \in {"send", "wait"} => f.pc \in {"send", "wait"},
              f.op = "resubscribe" =>
                \/ pc = "end" /\ rc'["main"] # "SUCCESS"
                \/ pc = "end" /\ Upto(handlers', link', session', f.count)
                \/ pc \in {"serialize", "wait"} /\ Upto(handlers', link', session', f.slot)
       PROVE  PrefixInv'
  <2> DEFINE g == NextPc("main", pc)
  <2>1. g.pc = pc /\ g.op = f.op /\ g.slot = f.slot /\ g.count = f.count /\ Replaced("main", g)
    BY <1>7, <1>11
  <2> HIDE DEF g
  <2>2. f.op = "resubscribe" => f.slot <= f.count /\ f.count < FreeSlot' /\ (f.slot = 0 => f.count = 0)
    BY <1>5, <1>6, <1>11 DEF FramePrefix
  <2>3. FramePrefix(handlers', FreeSlot', link', session', writeBuf', rc'["main"], g)
    BY <1>11, <2>1, <2>2 DEF FramePrefix
  <2>4. Beside("main", g)
    BY <1>b, <1>11, <2>1
  <2> QED
    BY <1>10, <1>11, <2>1, <2>3, <2>4
\* The read that delivered a message goes on.
<1>12. ASSUME NEW g, PoppedTo("main", g), g.op = stack["main"][2].op, g.slot = stack["main"][2].slot,
              g.count = stack["main"][2].count, f.op \in Deliveries,
              UNCHANGED handlers, Grows,
              (g.pc \in {"keepalive", "wait"} /\ (g.pc = "wait" => stack["main"][2].pc = "wait")) \/ (g.pc = "end" /\ rc'["main"] # "SUCCESS")
       PROVE  PrefixInv'
  <2> DEFINE y == stack["main"][2]
  <2>1. Waited("main", y)
    BY <1>d, <1>12
  <2>2. FramePrefix(handlers', FreeSlot', link', session', writeBuf', rc'["main"], y)
    BY <1>w, <1>12, <2>1
  <2>3. y.op = "resubscribe" => y.pc = "wait"
    BY <1>d, <1>12
  <2>4. \A x : Waited("main", x) => Beyond(y, x) /\ Beyond(x, y)
    <3>1. Len(stack["main"]) \in Nat
      BY <1>0, RunningLen DEF TypeInv
    <3>2. \A j \in 2..Len(stack["main"]) : j \in 1..Len(stack["main"])
      BY <3>1
    <3> QED
      BY <2>1, <3>2 DEF Waited, PrefixInv
  <2>5. y.op = "subscribe" => y.pc = "wait"
    BY <1>d, <1>12
  <2> HIDE DEF y
  <2>6. FramePrefix(handlers', FreeSlot', link', session', writeBuf', rc'["main"], g)
    BY <1>12, <2>2, <2>3 DEF FramePrefix, y
  <2>7. Beside("main", g)
    BY <1>12, <2>4, <2>5 DEF Beside, Beyond, y
  <2> QED
    BY <1>10, <1>12, <2>6, <2>7
\* It calls another frame, which is none of these.
<1>13. ASSUME NEW g, NEW h, Pushed("main", g, h), UNCHANGED handlers, Grows, h.op = f.op, h.slot = f.slot,
              h.count = f.count,
              g.op # "subscribe",
              g.op = "resubscribe" => g.slot = 0 /\ g.count = 0 /\ g.pc = "cas" /\ f.op # "subscribe",
              h.pc = f.pc \/ f.op \notin {"subscribe", "resubscribe"}, h.pc \notin {"send", "end"},
              g.op = "resubscribe" => \A x : Waited("main", x) => x.op # "subscribe"
       PROVE  PrefixInv'
  <2>1. FramePrefix(handlers', FreeSlot', link', session', writeBuf', rc'["main"], g)
    BY <1>6, <1>13 DEF FramePrefix, Upto
  <2>2. FramePrefix(handlers', FreeSlot', link', session', writeBuf', rc'["main"], h)
    <3>1. CASE f.op # "resubscribe"
      BY <1>13, <3>1 DEF FramePrefix
    <3>2. CASE f.op = "resubscribe"
      <4>1. f.slot \in Nat /\ (Upto(handlers, link, session, f.slot) => Upto(handlers', link', session', f.slot))
        BY <1>5, <1>13, UptoGrows, ClientAssumption
      <4> QED
        BY <1>5, <1>6, <1>13, <3>2, <4>1 DEF FramePrefix
    <3> QED
      BY <3>1, <3>2
  <2>3. Beside("main", g) /\ Beyond(g, h) /\ Beyond(h, g)
    BY <1>13 DEF Beside, Beyond
  <2>4. Beside("main", h)
    BY <1>b, <1>13
  <2> QED
    BY <1>10, <1>13, <2>1, <2>2, <2>3, <2>4
<1>g. UNCHANGED <<link, session>> => Grows
  BY DEF Grows
\* The steps of a call that neither subscribes nor changes the connection.
<1>14. ASSUME NEW pc, Replaced("main", NextPc("main", pc)), UNCHANGED <<handlers, link, session>>,
              f.op \notin {"subscribe", "resubscribe"}
       PROVE  PrefixInv'
  BY <1>11, <1>14, <1>g
\* The end of a connection, or a new one, which no resubscribe waits for.
<1>15. ASSUME f.op \in {"connect", "yield"}, UNCHANGED handlers, NEW g, NEW h,
              \/ Popped("main")
              \/ Replaced("main", g) /\ g.op = f.op
              \/ Pushed("main", g, h) /\ g.op = "reconnect" /\ h.op = f.op
       PROVE  PrefixInv'
  <2>1. \A x : Waited("main", x) => /\ FramePrefix(handlers', FreeSlot', link', session', writeBuf', rc'["main"], x)
                                    /\ x.op \in {"reconnect", "yield"}
    BY <1>u, <1>15 DEF FramePrefix
  <2>2. \A x : x.op \in {"connect", "reconnect", "yield"} =>
               /\ FramePrefix(handlers', FreeSlot', link', session', writeBuf', rc'["main"], x)
               /\ Beside("main", x)
    BY <2>1 DEF FramePrefix, Beside, Beyond
  <2>3. \A x, y : x.op \in {"connect", "reconnect", "yield"} => Beyond(x, y) /\ Beyond(y, x)
    BY DEF Beyond
  <2>4. CASE Popped("main")
    BY <1>0, <1>1, <1>15, <2>1, <2>4, PrefixStep
  <2>5. CASE Replaced("main", g) /\ g.op = f.op
    BY <1>0, <1>1, <1>15, <2>1, <2>2, <2>5, PrefixStep
  <2>6. CASE Pushed("main", g, h) /\ g.op = "reconnect" /\ h.op = f.op
    BY <1>0, <1>1, <1>15, <2>1, <2>2, <2>3, <2>6, PrefixStep
  <2> QED
    BY <1>15, <2>4, <2>5, <2>6
<1>c1. CASE Cas(t)
  <2>1. /\ f.pc = "cas" /\ f.op \in Requests \union {"connect", "resubscribe", "yield"}
        /\ UNCHANGED <<handlers, link, session>>
    BY <1>0, <1>c1, CasMove DEF Cas, At, f
  <2>2. CASE Replaced("main", NextPc("main", CasPc(f.op)))
    <3>1. CasPc(f.op) \in {"loop", "tls", "serialize"} /\ (f.op = "resubscribe" => CasPc(f.op) = "serialize")
      BY DEF CasPc
    <3>2. f.op = "resubscribe" => Upto(handlers', link', session', f.slot)
      BY <1>5, <2>1 DEF FramePrefix, Upto
    <3> QED
      BY <1>11, <1>g, <2>1, <2>2, <3>1, <3>2
  <2>3. CASE Popped("main")
    BY <1>10, <1>g, <2>1, <2>3
  <2> QED
    BY <1>0, <1>c1, <2>2, <2>3, CasMove DEF f
<1>c2. CASE TlsConnect(t)
  <2>1. PICK pc \in {"serialize", "end"} : Replaced("main", NextPc("main", pc))
    BY <1>0, <1>c2, TlsMove
  <2>2. f.op = "connect" /\ UNCHANGED handlers
    BY <1>0, <1>c2, TlsMove DEF f, TlsConnect
  <2> QED
    BY <1>7, <1>15, <2>1, <2>2
<1>c3. CASE Serialize(t)
  <2>1. /\ f.pc = "serialize" /\ f.op \in Requests \union {"connect", "resubscribe"}
        /\ UNCHANGED <<handlers, link, session>> /\ Grows
    BY <1>0, <1>c3, <1>g, SerializeMove DEF f, Serialize, At
  <2>2. CASE /\ Fails(f) /\ Replaced("main", NextPc("main", "end")) /\ rc' = [rc EXCEPT !["main"] = "FAILURE"]
    BY <1>11, <1>r, <2>1, <2>2
  <2>3. CASE /\ Done(f) /\ Replaced("main", NextPc("main", "end"))
    <3>1. f.op = "resubscribe" /\ AllSubscribed(f)
      BY <2>3 DEF Done
    <3>2. f.slot <= f.count /\ f.count < FreeSlot /\ (f.slot = 0 => f.count = 0) /\ Upto(handlers, link, session, f.slot)
      BY <1>5, <2>1, <3>1 DEF FramePrefix
    <3>3. f.count = f.slot
      <4>1. f.slot = 0 \/ f.count \notin (f.slot + 1)..Count(f) \/ handlers[f.count] = None
        BY <1>5, <3>1 DEF AllSubscribed, ToSubscribe
      <4>2. f.slot # f.count => f.slot # 0 /\ f.count \in 1..NumHandlers /\ f.count \in (f.slot + 1)..f.count
        BY <1>5, <3>2, ClientAssumption
      <4>3. f.slot # f.count => handlers[f.count] # None
        BY <3>2, <4>2, FreeSlotIs
      <4> QED
        BY <4>1, <4>2, <4>3 DEF Count
    <3>4. Upto(handlers', link', session', f.count)
      BY <2>1, <3>2, <3>3 DEF Upto
    <3> QED
      BY <1>11, <2>1, <2>3, <3>4
  <2>4. CASE /\ ~Fails(f) /\ ~Done(f) /\ Replaced("main", SendFrame(f))
             /\ SentSlot(f) \in 0..NumHandlers /\ SentCount(f) \in 0..NumHandlers
    <3> DEFINE g == SendFrame(f)
    <3>1. g.op = f.op /\ g.pc = "send" /\ g.slot = SentSlot(f) /\ g.count = SentCount(f)
      BY <1>5, <2>4, SendFrameIs
    <3> HIDE DEF g
    <3>2. FramePrefix(handlers', FreeSlot', link', session', writeBuf', rc'["main"], g)
      <4>1. CASE f.op # "resubscribe"
        BY <3>1, <4>1 DEF FramePrefix
      <4>2. CASE f.op = "resubscribe"
        <5>0. /\ f.slot <= f.count /\ f.count < FreeSlot /\ (f.slot = 0 => f.count = 0)
              /\ Upto(handlers, link, session, f.slot)
          BY <1>5, <2>1, <4>2 DEF FramePrefix
        <5>1. /\ Count(f) \in 0..NumHandlers /\ Count(f) < FreeSlot
              /\ Min(ToSubscribe(f)) \in (f.slot + 1)..Count(f)
              /\ \A k \in (f.slot + 1)..Count(f) : handlers[k] # None => Min(ToSubscribe(f)) <= k
          <6>1. Count(f) < FreeSlot
            BY <1>6, <5>0, ClientAssumption DEF Count
          <6> QED
            BY <1>5, <2>4, <4>2, <6>1, ToSubscribeIs DEF Done
        <5>2. handlers[f.slot + 1] # None
          <6>1. f.slot + 1 \in 1..NumHandlers /\ f.slot + 1 < FreeSlot
            BY <1>5, <1>6, <5>1, ClientAssumption
          <6> QED
            BY <6>1, FreeSlotIs
        <5>3. g.slot = f.slot + 1 /\ g.count = Count(f) /\ Min(ToSubscribe(f)) = f.slot + 1
          <6>1. f.slot + 1 \in (f.slot + 1)..Count(f)
            BY <1>5, <5>1, ClientAssumption
          <6> QED
            BY <1>5, <3>1, <4>2, <5>1, <5>2, <6>1 DEF SentSlot, SentCount
        <5>4. g.slot > 0 /\ g.slot - 1 = f.slot /\ g.slot <= g.count /\ g.count < FreeSlot
          BY <1>5, <5>1, <5>3, ClientAssumption
        <5>5. Upto(handlers', link', session', g.slot - 1)
          BY <2>1, <5>0, <5>4 DEF Upto
        <5>6. writeBuf' = Serialized(t) /\ Serialized(t).topic = handlers[f.slot + 1]
          BY <1>c3, <2>4, <4>2, <5>3 DEF Serialize, Serialized, Done, Fails, f
        <5> QED
          BY <1>5, <1>6, <2>1, <3>1, <5>3, <5>4, <5>5, <5>6 DEF FramePrefix
      <4> QED
        BY <4>1, <4>2
    <3>3. Beside("main", g)
      <4>1. ASSUME NEW x, Waited("main", x) PROVE Beyond(g, x) /\ Beyond(x, g)
        <5>1. Beyond(x, g)
          BY <1>u, <3>1, <4>1 DEF Beyond
        <5>2. ASSUME g.op = "subscribe", x.op = "resubscribe" PROVE g.slot > x.count
          <6>1. x.count < FreeSlot /\ x.count \in Nat
            BY <1>5, <4>1, <5>2, FrameFields, ClientAssumption DEF FramePrefix
          <6>2. g.slot = FreeSlot
            BY <3>1, <5>2 DEF SentSlot
          <6> QED
            BY <1>6, <6>1, <6>2
        <5> QED
          BY <5>1, <5>2 DEF Beyond
      <4> QED
        BY <4>1 DEF Beside
    <3>4. Replaced("main", g)
      BY <2>4, <3>1 DEF g
    <3> QED
      BY <1>10, <2>1, <3>2, <3>3, <3>4
  <2> QED
    BY <1>0, <1>c3, <2>2, <2>3, <2>4, SerializeMove DEF f
<1>c4. CASE SendPacket(t)
  <2>1. f.pc = "send" /\ UNCHANGED handlers /\ Transmit /\ writeBuf.type = PacketOf(f.op)
    <3>1. At("main", "send")
      BY <1>c4 DEF SendPacket
    <3> QED
      BY <1>0, <1>c4, <3>1 DEF f, SendPacket, At, Transmit, BufferInv, OneThread, Steady, Single, Sends
  <2>0. f.op \in Requests \union {"connect", "resubscribe", "deliver1"}
    BY <1>5, <2>1, OpAt
  <2>2. f.op # "unsubscribe" => Grows
    <3>1. f.op # "unsubscribe" => writeBuf.type # "UNSUBSCRIBE"
      BY <2>0, <2>1 DEF PacketOf, Requests
    <3> QED
      BY <2>1, <3>1 DEF Transmit, BrokerGets, Grows
  <2>3. CASE f.op = "unsubscribe"
    <3>1. \A x : ~Waited("main", x)
      BY <1>0, <1>2, <2>3, NoUnsubscribe DEF f
    <3>2. Replaced("main", NextPc("main", "wait"))
      BY <1>0, <1>c4, <2>3, SendMove DEF f
    <3>3. FramePrefix(handlers', FreeSlot', link', session', writeBuf', rc'["main"], NextPc("main", "wait"))
      BY <1>7, <2>3 DEF FramePrefix
    <3>4. Beside("main", NextPc("main", "wait"))
      BY <1>7, <3>1 DEF Beside
    <3> QED
      BY <1>0, <1>1, <3>1, <3>2, <3>3, <3>4, PrefixStep
  <2>4. CASE f.op = "deliver1"
    <3>1. Same(After(t, "SUCCESS"), stack["main"][2]) /\ PoppedTo("main", After(t, "SUCCESS"))
          /\ After(t, "SUCCESS").pc = (IF stack["main"][2].pc = "read" THEN "keepalive" ELSE "wait")
      BY <1>0, <1>c4, <2>4, SendMove DEF f, Waiting
    <3>2. After(t, "SUCCESS").slot = stack["main"][2].slot /\ After(t, "SUCCESS").count = stack["main"][2].count
      BY <1>0, <1>2, <2>4, DeliveryCalled DEF After, Frames, Deliveries, f
    <3>3. f.op \in Deliveries /\ (After(t, "SUCCESS").pc = "wait" => stack["main"][2].pc = "wait")
      BY <1>d, <2>4, <3>1 DEF Deliveries
    <3> QED
      BY <1>12, <2>1, <2>2, <2>4, <3>1, <3>2, <3>3 DEF Same
  <2>5. CASE f.op = "publish0"
    BY <1>0, <1>11, <1>c4, <2>1, <2>2, <2>5, SendMove DEF f, Waiting
  <2>6. CASE f.op \in {"publish1", "subscribe", "connect"}
    <3>1. Replaced("main", NextPc("main", "wait"))
      BY <1>0, <1>c4, <2>6, SendMove DEF f
    <3> QED
      BY <1>11, <2>1, <2>2, <2>6, <3>1
  <2>7. CASE f.op = "resubscribe"
    <3>1. Replaced("main", NextPc("main", "wait"))
      BY <1>0, <1>c4, <2>7, SendMove DEF f
    <3>2. f.slot > 0 /\ Upto(handlers, link, session, f.slot - 1) /\ writeBuf.topic = handlers[f.slot]
      BY <1>5, <2>1, <2>7 DEF FramePrefix
    <3>3. link' = "up" => link = "up" /\ session' = session \union {handlers[f.slot]}
      BY <2>1, <2>7, <3>2 DEF Transmit, BrokerGets, PacketOf
    <3>4. \A k \in 1..f.slot : k \in 1..f.slot - 1 \/ k = f.slot
      BY <1>5, ClientAssumption
    <3>5. Upto(handlers', link', session', f.slot)
      BY <2>1, <3>2, <3>3, <3>4 DEF Upto
    <3> QED
      BY <1>11, <2>1, <2>2, <2>7, <3>1, <3>5
  <2> QED
    BY <2>0, <2>3, <2>4, <2>5, <2>6, <2>7 DEF Requests
<1>c5. CASE WaitTimeout(t)
  <2>1. UNCHANGED <<handlers, link, session>>
    BY <1>c5 DEF WaitTimeout, net
  <2> QED
    BY <1>0, <1>11, <1>g, <1>r, <1>c5, <2>1, WaitTimeoutMove
<1>c6. CASE Read(t)
  <2>1. UNCHANGED <<link, session>> /\ Grows /\ f.pc \in {"wait", "read"} /\ (f.pc = "read" => f.op = "yield")
    BY <1>5, <1>c6, <1>g, OpAt DEF f, Read, At
  <2>2. CASE /\ \E op \in Deliveries, topic \in Topics : Pushed("main", Frame(op, "enter", topic), NextPc("main", f.pc))
             /\ UNCHANGED handlers
    <3>1. PICK op \in Deliveries, topic \in Topics : Pushed("main", Frame(op, "enter", topic), NextPc("main", f.pc))
      BY <2>2
    <3> QED
      BY <1>7, <1>8, <1>13, <2>1, <2>2, <3>1 DEF Deliveries
  <2>3. CASE /\ f.pc = "wait" /\ Acknowledged(t, Head(inbox))
             /\ Replaced("main", NextPc("main", IF f.op = "resubscribe" THEN "serialize" ELSE "end"))
    <3>1. CASE f.op \notin {"subscribe", "unsubscribe"}
      <4>1. UNCHANGED handlers
        BY <2>3, <3>1 DEF Acknowledged, f
      <4>2. f.op = "resubscribe" => Upto(handlers', link', session', f.slot)
        BY <1>5, <2>1, <2>3, <4>1 DEF FramePrefix, Upto
      <4> QED
        BY <1>11, <2>1, <2>3, <3>1, <4>1, <4>2
    <3>2. CASE f.op \in {"subscribe", "unsubscribe"}
      <4> DEFINE g == NextPc("main", "end")
      <4>1. Replaced("main", g) /\ g.pc = "end" /\ g.op = f.op
        BY <1>7, <2>3, <3>2
      <4> HIDE DEF g
      <4>2. FramePrefix(handlers', FreeSlot', link', session', writeBuf', rc'["main"], g)
            /\ Beside("main", g)
        BY <3>2, <4>1 DEF FramePrefix, Beside, Beyond
      <4>3. \A x : Waited("main", x) => FramePrefix(handlers', FreeSlot', link', session', writeBuf', rc'["main"], x)
        <5>1. CASE f.op = "unsubscribe"
          BY <1>0, <1>2, <5>1, NoUnsubscribe DEF f
        <5>2. CASE f.op = "subscribe"
          <6>1. f.slot \in 1..NumHandlers /\ f.topic \in Topics
            BY <1>0, <1>2, <2>3, <5>2, SubscribeTop DEF f, SlotChosen, SubscribeOps
          <6>2. handlers' = [handlers EXCEPT ![f.slot] = f.topic]
            BY <2>3, <5>2 DEF Acknowledged, f
          <6>3. FreeSlot <= FreeSlot' /\ FreeSlot' \in Nat
            <7>1. FreeSlot <= FreeSlot'
              BY <1>0, <6>1, <6>2, FreeSlotFilled
            <7>2. FirstFree(handlers') \in 1..NumHandlers + 1
              BY FirstFreeIs
            <7>3. FreeSlot' = FirstFree(handlers')
              BY DEF FreeSlot, FirstFree
            <7> QED
              BY <7>1, <7>2, <7>3, ClientAssumption
          <6>4. ASSUME NEW x, Waited("main", x)
                PROVE  \A k \in 1..NumHandlers : x.op = "resubscribe" /\ k <= x.slot => handlers'[k] = handlers[k]
            <7>1. x.op = "resubscribe" => f.slot > x.count /\ x.slot <= x.count /\ x.slot \in Nat /\ x.count \in Nat
              BY <1>5, <2>3, <5>2, <6>4, FrameFields, ClientAssumption DEF Beyond, FramePrefix
            <7>2. \A k \in 1..NumHandlers : k # f.slot => handlers'[k] = handlers[k]
              BY <1>0, <6>2 DEF TypeInv
            <7> QED
              BY <6>1, <7>1, <7>2, ClientAssumption
          <6> QED
            BY <1>0, <2>1, <6>3, <6>4, WaitedPrefix
        <5> QED
          BY <3>2, <5>1, <5>2
      <4> QED
        BY <1>0, <1>1, <4>1, <4>2, <4>3, PrefixStep
    <3> QED
      BY <3>1, <3>2
  <2>4. CASE /\ Replaced("main", NextPc("main", IF f.pc = "read" THEN "keepalive" ELSE "wait"))
             /\ UNCHANGED handlers
    <3>1. f.op = "resubscribe" => Upto(handlers', link', session', f.slot) /\ f.pc = "wait"
      BY <1>5, <2>1, <2>4 DEF FramePrefix, Upto
    <3> QED
      BY <1>11, <2>1, <2>4, <3>1
  <2> QED
    BY <1>0, <1>c6, <2>2, <2>3, <2>4, ReadMove DEF f
<1>c7. CASE ReadError(t)
  <2>1. UNCHANGED <<handlers, link, session>>
    BY <1>c7 DEF ReadError, net
  <2>2. f.pc = "read" => f.op = "yield"
    BY <1>5, OpAt
  <2> QED
    BY <1>0, <1>11, <1>g, <1>r, <1>c7, <2>1, <2>2, ReadErrorMove DEF f
<1>c8. CASE Deliver(t)
  BY <1>0, <1>14, <1>c8, DeliverMove DEF f, Deliver, Deliveries, net
<1>c9. CASE HandlersReturn(t)
  <2>1. UNCHANGED <<handlers, link, session>> /\ Grows /\ f.op \in Deliveries
    BY <1>0, <1>g, <1>c9, HandlersReturnMove DEF f, HandlersReturn, net
  <2>2. \A x : After(t, x).slot = stack["main"][2].slot /\ After(t, x).count = stack["main"][2].count
    BY <1>0, <1>2, <2>1, DeliveryCalled DEF After, Frames, f
  <2>3. CASE Replaced("main", NextPc("main", "puback"))
    BY <1>14, <2>1, <2>3 DEF Deliveries
  <2>4. CASE /\ Same(After(t, "UNEXPECTED_STATE"), stack["main"][2]) /\ PoppedTo("main", After(t, "UNEXPECTED_STATE"))
             /\ After(t, "UNEXPECTED_STATE").pc = "end" /\ rc' = [rc EXCEPT !["main"] = "UNEXPECTED_STATE"]
    BY <1>12, <1>r, <2>1, <2>2, <2>4 DEF Same
  <2>5. CASE /\ Same(After(t, "SUCCESS"), stack["main"][2]) /\ PoppedTo("main", After(t, "SUCCESS"))
             /\ After(t, "SUCCESS").pc = (IF stack["main"][2].pc = "read" THEN "keepalive" ELSE "wait")
    BY <1>12, <1>d, <2>1, <2>2, <2>5 DEF Same
  <2> QED
    BY <1>0, <1>c9, <2>3, <2>4, <2>5, HandlersReturnMove
<1>c10. CASE SerializePuback(t)
  BY <1>0, <1>14, <1>c10, PubackMove DEF f, SerializePuback, net
<1>c11. CASE EndCall(t)
  <2>1. f.pc = "end" /\ Popped("main") /\ f.op \in Requests \union {"connect", "resubscribe"} /\ UNCHANGED handlers
    BY <1>0, <1>c11, EndCallMove DEF f, EndCall, At
  <2>2. CASE f.op = "connect"
    BY <1>15, <2>1, <2>2
  <2>3. CASE f.op # "connect"
    <3>1. UNCHANGED <<link, session>> /\ Grows
      BY <1>c11, <1>g, <2>3 DEF EndCall, f, net
    <3> QED
      BY <1>10, <2>1, <3>1
  <2> QED
    BY <2>2, <2>3
<1>16. ASSUME NEW pc, Replaced("main", NextPc("main", pc)), f.op = "yield", UNCHANGED handlers
       PROVE  PrefixInv'
  BY <1>7, <1>15, <1>16
<1>17. ASSUME NEW pc, Pushed("main", Frame("reconnect", "start", None), NextPc("main", pc)), f.op = "yield",
              UNCHANGED handlers
       PROVE  PrefixInv'
  BY <1>7, <1>8, <1>15, <1>17
<1>c12. CASE YieldLoop(t)
  BY <1>0, <1>16, <1>17, <1>c12, YieldLoopMove DEF f, YieldLoop
<1>c13. CASE KeepAlive(t)
  BY <1>0, <1>16, <1>c13, KeepAliveMove DEF f, KeepAlive
<1>c14. CASE SendPing(t)
  BY <1>0, <1>16, <1>c14, SendPingMove DEF f, SendPing
<1>c15. CASE HandleDisconnect(t)
  BY <1>0, <1>16, <1>17, <1>c15, HandleDisconnectMove DEF f, HandleDisconnect
<1>c16. CASE DisconnectHandled(t)
  BY <1>0, <1>16, <1>c16, DisconnectHandledMove DEF f, DisconnectHandled
<1>c17. CASE Reconnected(t)
  BY <1>0, <1>16, <1>c17, ReconnectedMove DEF f, Reconnected
<1>c18. CASE EndYield(t)
  BY <1>0, <1>15, <1>c18, EndYieldMove DEF f, EndYield
<1>c19. CASE ReconnectStart(t)
  <2>1. f.op = "reconnect" /\ UNCHANGED <<handlers, link, session>> /\ Grows
    BY <1>0, <1>g, <1>c19, ReconnectStartMove DEF f, ReconnectStart, net
  <2>2. CASE Popped("main")
    BY <1>10, <2>1, <2>2
  <2>3. CASE Replaced("main", NextPc("main", "connected"))
    BY <1>14, <2>1, <2>3
  <2>4. CASE Pushed("main", Frame("connect", "cas", None), NextPc("main", "connected"))
    BY <1>7, <1>8, <1>13, <2>1, <2>4
  <2> QED
    BY <1>0, <1>c19, <2>2, <2>3, <2>4, ReconnectStartMove
<1>c20. CASE ConnectReturned(t)
  <2>1. f.op = "reconnect" /\ UNCHANGED <<handlers, link, session>> /\ Grows
    BY <1>0, <1>g, <1>c20, ConnectReturnedMove DEF f, ConnectReturned, net
  <2>2. CASE Popped("main")
    BY <1>10, <2>1, <2>2
  <2>3. CASE Pushed("main", Frame("resubscribe", "cas", None), NextPc("main", "resubscribed"))
    <3>1. \A x : Waited("main", x) => x.op # "subscribe"
      BY <1>u, <2>1
    <3> QED
      BY <1>7, <1>8, <1>13, <2>1, <2>3, <3>1
  <2> QED
    BY <1>0, <1>c20, <2>2, <2>3, ConnectReturnedMove
<1>c21. CASE Resubscribed(t)
  <2>1. f.op = "reconnect" /\ UNCHANGED <<handlers, link, session>> /\ Grows /\ Popped("main")
    BY <1>0, <1>g, <1>c21, ResubscribedMove DEF f, Resubscribed, net
  <2> QED
    BY <1>10, <2>1
<1>c22. CASE ReadFails(t)
  <2>1. UNCHANGED <<handlers, link, session>> /\ f.pc \in {"wait", "read"}
    BY <1>0, <1>c22, ReadFailsMove DEF f, ReadFails
  <2> QED
    BY <1>0, <1>11, <1>g, <1>r, <1>c22, <2>1, ReadFailsMove
<1> QED
  BY <1>c1, <1>c2, <1>c3, <1>c4, <1>c5, <1>c6, <1>c7, <1>c8, <1>c9, <1>c10, <1>c11, <1>c12, <1>c13, <1>c14,
     <1>c15, <1>c16, <1>c17, <1>c18, <1>c19, <1>c20, <1>c21, <1>c22 DEF Step

LEMMA OtherPrefix ==
  ASSUME Safe, PrefixInv,
         \/ ClientInit \/ Connect \/ AttemptReconnect \/ Yield \/ Disconnect \/ (\E t \in Threads : Requested(t))
         \/ BrokerPublishes \/ LinkBreaks \/ PingTimerExpires \/ ReconnectTimerExpires \/ UNCHANGED vars
  PROVE  PrefixInv'
<1>0. TypeInv /\ FramesOK /\ MutexInv /\ SettledInv /\ "main" \in Threads
  BY DEF Safe, Threads
<1>1. CASE UNCHANGED <<app, stack, rc, handlers, writeBuf, link, session>>
  BY <1>1 DEF PrefixInv, FreeSlot
<1>2. CASE ClientInit \/ Disconnect
  <2>1. UNCHANGED stack /\ ~Running("main")
    BY <1>0, <1>2 DEF ClientInit, Disconnect
  <2>2. Len(stack'["main"]) = 0
    BY <1>0, <2>1, RunningLen DEF TypeInv, Running
  <2> QED
    BY <2>2 DEF PrefixInv
<1>3. CASE LinkBreaks
  <2>1. UNCHANGED <<app, stack, rc, handlers, writeBuf>> /\ link' = "broken"
    BY <1>3 DEF LinkBreaks, rest
  <2>2. \A n : Upto(handlers, link', session', n)
    BY <2>1 DEF Upto
  <2>3. \A f : FramePrefix(handlers, FreeSlot, link, session, writeBuf, rc["main"], f)
                 => FramePrefix(handlers, FreeSlot, link', session', writeBuf, rc["main"], f)
    BY <2>2 DEF FramePrefix
  <2>4. UNCHANGED FreeSlot
    BY <2>1 DEF FreeSlot
  <2> QED
    BY <2>1, <2>2, <2>3, <2>4 DEF PrefixInv
<1>4. CASE Connect \/ AttemptReconnect \/ Yield
  <2>1. PICK op, pc : MainStarts(op, pc) /\ pc \in {"cas", "start", "loop"} /\ op # "resubscribe"
    BY <1>0, <1>4, ConnectMove, AttemptReconnectMove, YieldMove
  <2>2. UNCHANGED app
    BY <2>1 DEF MainStarts
  <2> DEFINE f == Frame(op, pc, None)
  <2>3. f.op = op /\ f.pc = pc /\ Started("main", f)
    BY <2>1 DEF Frame, MainStarts
  <2> HIDE DEF f
  <2>4. Len(stack["main"]) = 0
    BY <1>0, <2>3, RunningLen DEF Started
  <2>5. \A x : ~Waited("main", x)
    BY <2>4 DEF Waited
  <2>6. FramePrefix(handlers', FreeSlot', link', session', writeBuf', rc'["main"], f) /\ Beside("main", f)
    BY <2>1, <2>3, <2>5 DEF FramePrefix, Beside
  <2> QED
    BY <1>0, <2>2, <2>3, <2>5, <2>6, PrefixStep
<1>5. ASSUME NEW t \in Threads, Requested(t) PROVE PrefixInv'
  <2>1. PICK op \in Requests, topic \in Topics \union {None} :
          (topic = None <=> op \in {"publish0", "publish1"}) /\ Request(t, op, topic)
    BY <1>5 DEF Requested
  <2>2. UNCHANGED <<app, rc, handlers, writeBuf, link, session, FreeSlot>> /\ Grows
    BY <2>1 DEF Request, FreeSlot, Grows
  <2> DEFINE f == Frame(op, "cas", topic)
  <2>3. f.op \in Requests /\ f.pc = "cas"
    BY DEF Frame
  <2> HIDE DEF f
  <2>4. PICK g : \/ Started(t, f)
                 \/ Pushed(t, f, g) /\ g.op \in Deliveries /\ g.pc = "handler"
    BY <1>0, <2>1, RequestMove DEF f, Same
  <2>5. CASE t = "main"
    <3>1. /\ \A x : x.op \in Requests \union Deliveries =>
                      FramePrefix(handlers', FreeSlot', link', session', writeBuf', rc'["main"], x)
          /\ \A x, y : x.op \in Deliveries \/ (x.op \in Requests /\ x.pc = "cas") => Beyond(x, y) /\ Beyond(y, x)
      BY DEF FramePrefix, Requests, Deliveries, Beyond
    <3>2. FreeSlot \in Nat /\ FreeSlot <= FreeSlot' /\ FreeSlot' \in Nat
      BY <2>2, FreeSlotIs, ClientAssumption
    <3>3. Steady(app) =>
            \A x : Waited("main", x) => FramePrefix(handlers', FreeSlot', link', session', writeBuf', rc'["main"], x)
      BY <1>0, <2>2, <3>2, WaitedPrefix
    <3>4. Beside("main", f) /\ (g.op \in Deliveries => Beside("main", g) /\ Beyond(f, g) /\ Beyond(g, f))
      BY <2>3, <3>1 DEF Beside
    <3> QED
      BY <1>0, <2>2, <2>3, <2>4, <2>5, <3>1, <3>3, <3>4, PrefixStep
  <2>6. CASE t # "main"
    <3>1. stack'["main"] = stack["main"]
      BY <1>0, <2>4, <2>6 DEF Started, Pushed
    <3> QED
      BY <2>2, <3>1 DEF PrefixInv
  <2> QED
    BY <2>5, <2>6
<1> QED
  BY <1>1, <1>2, <1>3, <1>4, <1>5
     DEF BrokerPublishes, PingTimerExpires, ReconnectTimerExpires, vars, net, rest

LEMMA NextPrefix == ASSUME Safe, Safe', BufferInv, PrefixInv, [Next]_vars PROVE PrefixInv'
BY StepPrefix, OtherPrefix DEF Next

\* Theorem: where one thread calls the client and no handler unsubscribes, subscribing again reports
\* success only when the broker has every topic that was before the first free slot when it began, whatever its
\* handlers subscribed to meanwhile.
THEOREM ResubscribedAlways == Spec => []ResubscribedPrefix
<1>1. Init => Safe /\ BufferInv /\ PrefixInv
  <2>1. ASSUME Init PROVE BufferInv /\ PrefixInv
    <3>1. \A t \in Threads : ~Running(t) /\ Len(stack[t]) = 0
      BY <2>1 DEF Init, Running
    <3> QED
      BY <3>1 DEF BufferInv, PrefixInv, Sends, At, Threads
  <2> QED
    BY <2>1, InitSafe
<1>2. Safe /\ BufferInv /\ PrefixInv /\ [Next]_vars => (Safe /\ BufferInv /\ PrefixInv)'
  BY NextSafe, NextBuffer, NextPrefix
<1>3. ASSUME Safe, PrefixInv PROVE ResubscribedPrefix
  <2> SUFFICES ASSUME NEW t \in Threads, At(t, "end"), Top(t).op = "resubscribe", rc[t] = "SUCCESS", link = "up",
                      OneThread, "unsubscribe" \notin app.handler
               PROVE  {handlers[i] : i \in 1..Top(t).count} \subseteq session
    BY DEF ResubscribedPrefix
  <2>1. Steady(app) /\ t = "main"
    BY <1>3, WorkerIdle DEF Steady, Single, OneThread, Safe, At, Threads
  <2>2. 1 \in 1..Len(stack["main"]) /\ Top("main") = stack["main"][1]
    BY <1>3, <2>1, SubscribeTop DEF Safe, At, Threads
  <2>3. FramePrefix(handlers, FreeSlot, link, session, writeBuf, rc["main"], Top("main"))
    BY <1>3, <2>1, <2>2 DEF PrefixInv
  <2> QED
    BY <2>1, <2>3 DEF FramePrefix, Upto, At
<1> QED
  BY <1>1, <1>2, <1>3, PTL DEF Spec
=============================================================================

---------------------------------- MODULE Wifi ----------------------------------
(***************************************************************************)
(* The WiFi active object (main/wifi.cpp): the station, the alternation of *)
(* two networks, and the WPS procedure, which survives restarts in the     *)
(* non-volatile storage.                                                   *)
(*                                                                         *)
(* Three tasks run beside app_main: the object's own, the driver's event   *)
(* loop, and the MQTT object that restarts the station.  The power may     *)
(* fail between any two writes to the storage.  A network is an element of *)
(* Networks or one of the two of the configuration; its password has the   *)
(* name of the network.                                                    *)
(***************************************************************************)
EXTENDS Naturals, Sequences

CONSTANTS
    Networks,       \* networks the WPS procedure may find
    None,           \* no value
    QueueSize,      \* length of the object's queue (20 in the code)
    MaxPresses,     \* times the button is pressed (bound)
    MaxLosses       \* times the power fails (bound)

ASSUME NetworksAssumption ==
    Networks \cap {"main", "alt"} = {} /\ None \notin Networks \cup {"main", "alt"}
ASSUME SizesAssumption ==
    QueueSize \in Nat \ {0} /\ MaxPresses \in Nat /\ MaxLosses \in Nat

VARIABLES
    nvs,            \* the storage: wps_procedure, wifi_wps_ssid, wifi_wps_pass
    boot,           \* the constructor: "storage", "connect" or "done"
    wpsProcedure,   \* the flag in memory
    alt,            \* the next network is the alternative one
    mode,           \* the driver: "off", "station" or "wps"
    config,         \* name and password the station was given
    starting,       \* an event WIFI_EVENT_STA_START still to be handled
    connecting,     \* esp_wifi_connect was called since the driver started
    queue,          \* requests for the object: "button" or "toggle"
    task,           \* the object's task: "idle", "pushed" or "written"
    isr,            \* the interrupt handler of the button is installed
    handler,        \* the event loop: "idle" or "wps"
    writes,         \* writes the event handler still has to do
    mqtt,           \* the MQTT object's init: "idle" or "stopped"
    presses, losses \* how often the button was pressed, the power failed

bounds   == <<presses, losses>>
stored   == <<nvs, bounds>>
driver   == <<mode, config, starting, connecting>>
events   == <<handler, writes>>
vars     == <<stored, boot, wpsProcedure, alt, driver, queue, task, isr, events, mqtt>>

Blank == [ssid |-> None, pass |-> None]

\* Everything but the storage is lost.
Volatile(p) ==
    /\ boot' = "storage" /\ wpsProcedure' = FALSE /\ alt' = FALSE
    /\ mode' = "off" /\ config' = Blank /\ starting' = FALSE /\ connecting' = FALSE
    /\ queue' = <<>> /\ task' = "idle" /\ isr' = FALSE
    /\ handler' = "idle" /\ writes' = <<>> /\ mqtt' = "idle"
    /\ losses' = p

\* A new device.
Init ==
    /\ nvs = [wps |-> FALSE, ssid |-> None, pass |-> None]
    /\ boot = "storage" /\ wpsProcedure = FALSE /\ alt = FALSE
    /\ mode = "off" /\ config = Blank /\ starting = FALSE /\ connecting = FALSE
    /\ queue = <<>> /\ task = "idle" /\ isr = FALSE
    /\ handler = "idle" /\ writes = <<>> /\ mqtt = "idle"
    /\ presses = 0 /\ losses = 0

Restart == Volatile(losses) /\ UNCHANGED <<nvs, presses>>

PowerLoss ==
    /\ losses < MaxLosses
    /\ Volatile(losses + 1)
    /\ UNCHANGED <<nvs, presses>>

-----------------------------------------------------------------------------
(* The station.                                                            *)

\* connect_wifi without WPS: the name is the stored one if it can be read, the
\* password too, but only after the name.
Main == [ssid |-> IF nvs.ssid # None THEN nvs.ssid ELSE "main",
         pass |-> IF nvs.ssid # None /\ nvs.pass # None THEN nvs.pass ELSE "main"]

\* connect_alt_wifi.
Alternative == [ssid |-> "alt", pass |-> "alt"]

\* esp_wifi_start: the driver reports a start, to the event loop.
Start(m) ==
    /\ mode' = m
    /\ starting' = (starting \/ mode = "off")
    /\ connecting' = (connecting /\ mode # "off")

StartStation(c) == Start("station") /\ config' = c

\* initWiFiStorage and initWPSButton: a flag that is absent counts as false.
ReadStorage ==
    /\ boot = "storage"
    /\ boot' = "connect"
    /\ wpsProcedure' = nvs.wps
    /\ isr' = TRUE
    /\ UNCHANGED <<stored, alt, driver, queue, task, events, mqtt>>

\* The procedure is started in the same step as the driver: the event loop may
\* call esp_wifi_connect before or after it.
ConnectWifi ==
    /\ boot = "connect"
    /\ boot' = "done"
    /\ IF wpsProcedure THEN Start("wps") /\ UNCHANGED config
                       ELSE StartStation(Main)
    /\ UNCHANGED <<stored, wpsProcedure, alt, queue, task, isr, events, mqtt>>

\* Mutant of Disconnect: the procedure is not considered.
DisconnectAlways ==
    /\ boot = "done" /\ mqtt = "idle"
    /\ mqtt' = "stopped"
    /\ mode' = "off"
    /\ UNCHANGED <<stored, boot, wpsProcedure, alt, config, starting, connecting, queue, task, isr, events>>

\* MQTT::init, in the MQTT object's task: disconnect ...
Disconnect ==
    /\ boot = "done" /\ mqtt = "idle"
    /\ mqtt' = "stopped"
    /\ mode' = IF wpsProcedure THEN mode ELSE "off"
    /\ UNCHANGED <<stored, boot, wpsProcedure, alt, config, starting, connecting, queue, task, isr, events>>

\* ... and, a second later, connectAndToggle.
Post(r) == queue' = IF Len(queue) < QueueSize THEN Append(queue, r) ELSE queue

ConnectAndToggle ==
    /\ mqtt = "stopped"
    /\ mqtt' = "idle"
    /\ Post("toggle")
    /\ UNCHANGED <<stored, boot, wpsProcedure, alt, driver, task, isr, events>>

Take(r) == task = "idle" /\ queue # <<>> /\ Head(queue) = r /\ queue' = Tail(queue)

\* Mutant of Toggle: never the alternative.
ToggleMain ==
    /\ Take("toggle")
    /\ IF wpsProcedure THEN UNCHANGED driver ELSE StartStation(Main)
    /\ UNCHANGED <<stored, boot, wpsProcedure, alt, task, isr, events, mqtt>>

Toggle ==
    /\ Take("toggle")
    /\ IF wpsProcedure THEN UNCHANGED <<alt, driver>>
                       ELSE /\ StartStation(IF alt THEN Alternative ELSE Main)
                            /\ alt' = ~alt
    /\ UNCHANGED <<stored, boot, wpsProcedure, task, isr, events, mqtt>>

\* WIFI_EVENT_STA_START: esp_wifi_connect, in the station mode and, since the
\* flag is not considered, in a WPS procedure; it fails in a driver that was
\* stopped again.
StaStart ==
    /\ starting /\ handler = "idle"
    /\ starting' = FALSE
    /\ connecting' = (connecting \/ mode # "off")
    /\ UNCHANGED <<stored, boot, wpsProcedure, alt, mode, config, queue, task, isr, events, mqtt>>

-----------------------------------------------------------------------------
(* The WPS procedure.                                                      *)

\* gpio_isr_handler posts from the interrupt.
Press ==
    /\ isr
    /\ presses < MaxPresses
    /\ presses' = presses + 1
    /\ Post("button")
    /\ UNCHANGED <<nvs, losses, boot, wpsProcedure, alt, driver, task, isr, events, mqtt>>

\* pushButton: no more interrupts, the flag in memory ...
PushButton ==
    /\ Take("button")
    /\ isr' = FALSE
    /\ wpsProcedure' = TRUE
    /\ task' = "pushed"
    /\ UNCHANGED <<stored, boot, alt, driver, events, mqtt>>

\* Mutant of PushStore: restart without a record.
PushStoreForgets ==
    /\ task = "pushed"
    /\ task' = "written"
    /\ UNCHANGED <<stored, boot, wpsProcedure, alt, driver, queue, isr, events, mqtt>>

\* ... and in the storage, restart.
PushStore ==
    /\ task = "pushed"
    /\ nvs' = [nvs EXCEPT !.wps = TRUE]
    /\ task' = "written"
    /\ UNCHANGED <<bounds, boot, wpsProcedure, alt, driver, queue, isr, events, mqtt>>

PushRestart == task = "written" /\ Restart

\* The driver reports the end of the WPS procedure, once and after its start.  Its exchange with the
\* access point takes seconds, a button pressed before is dealt with in
\* milliseconds (assumption).
Handle(ws) ==
    /\ mode = "wps" /\ task = "idle"
    /\ handler = "idle" /\ ~starting
    /\ handler' = "wps"
    /\ writes' = ws
    /\ UNCHANGED <<stored, boot, wpsProcedure, alt, driver, queue, task, isr, mqtt>>

Write(key, value) == [key |-> key, value |-> value]

\* Mutant of WpsSuccess: the procedure is ended first.
WpsSuccessFlagFirst(n) ==
    Handle(<<Write("wps", FALSE), Write("ssid", n), Write("pass", n)>>)

\* storeWPSAccess with the first of the networks found.
WpsSuccess(n) ==
    Handle(<<Write("ssid", n), Write("pass", n), Write("wps", FALSE)>>)

\* Mutant of WpsFails: the procedure is not ended.
WpsFailsForEver == Handle(<<Write("ssid", None), Write("pass", None)>>)

\* eraseWPS, when the procedure failed or ran out of time.
WpsFails ==
    Handle(<<Write("ssid", None), Write("pass", None), Write("wps", FALSE)>>)

Store ==
    /\ writes # <<>>
    /\ nvs' = [nvs EXCEPT ![Head(writes).key] = Head(writes).value]
    /\ writes' = Tail(writes)
    /\ UNCHANGED <<bounds, boot, wpsProcedure, alt, driver, queue, task, isr, handler, mqtt>>

WpsRestart == handler = "wps" /\ writes = <<>> /\ Restart

-----------------------------------------------------------------------------
Task    == Toggle \/ PushButton \/ PushStore \/ PushRestart
Outcome == WpsFails \/ \E n \in Networks : WpsSuccess(n)
Loop    == StaStart \/ Store \/ WpsRestart
AppMain == ReadStorage \/ ConnectWifi

Next == \/ AppMain \/ Task \/ Loop \/ Outcome
        \/ Disconnect \/ ConnectAndToggle
        \/ Press \/ PowerLoss

Spec == Init /\ [][Next]_vars

(* Every task goes on, and the driver ends the WPS procedure, by a timeout if *)
(* nothing else.  The MQTT object of a device without a connection restarts   *)
(* the station again and again (RetriesWiFi of module Mqtt).                  *)
Fairness ==
    /\ WF_vars(AppMain) /\ WF_vars(Task) /\ WF_vars(Loop)
    /\ WF_vars(Outcome)
    /\ WF_vars(Disconnect) /\ WF_vars(ConnectAndToggle)

FairSpec == Spec /\ Fairness

-----------------------------------------------------------------------------
(* Properties.                                                             *)

Names == Networks \cup {"main", "alt", None}

TypeOK ==
    /\ nvs \in [wps : BOOLEAN, ssid : Networks \cup {None}, pass : Networks \cup {None}]
    /\ boot \in {"storage", "connect", "done"}
    /\ wpsProcedure \in BOOLEAN /\ alt \in BOOLEAN /\ isr \in BOOLEAN
    /\ mode \in {"off", "station", "wps"} /\ config \in [ssid : Names, pass : Names]
    /\ starting \in BOOLEAN /\ connecting \in BOOLEAN
    /\ queue \in Seq({"button", "toggle"}) /\ Len(queue) <= QueueSize
    /\ task \in {"idle", "pushed", "written"}
    /\ handler \in {"idle", "wps"} /\ Len(writes) <= 3
    /\ mqtt \in {"idle", "stopped"}
    /\ presses \in 0..MaxPresses /\ losses \in 0..MaxLosses

\* The station never gets the name of one network and the password of another,
\* wherever the power failed in a WPS procedure and whenever the button was
\* pressed in it: the flag is cleared last.
CredentialsMatch == mode = "station" => config.ssid = config.pass

\* Until the WPS procedure ends, the driver is neither stopped, started again nor
\* given another network: not by the MQTT object's restarts of the station, not
\* by its toggling.  The one call that does reach the driver is the event
\* handler's esp_wifi_connect, which the start of the procedure itself brings
\* about: once, never again.
WpsNotRestarted ==
    [][mode = "wps" /\ boot' = "done" =>
          /\ UNCHANGED <<mode, config>>
          /\ connecting => connecting' /\ UNCHANGED starting]_vars

\* A press of the button that reached the queue starts the WPS procedure,
\* unless the power fails.
ButtonStartsWps ==
    \A k \in 0..MaxLosses :
        ("button" \in {queue[i] : i \in 1..Len(queue)} /\ losses = k) ~> (mode = "wps" \/ losses > k)

\* The WPS procedure ends with the station running.
WpsEnds == mode = "wps" ~> mode = "station"

\* Both networks are tried again and again ("Connects with up to two WiFi
\* networks for maximizing availability", README.md:8).
BothNetworksTried ==
    /\ []<>(mode = "station" /\ config.ssid = "alt")
    /\ []<>(mode = "station" /\ config.ssid # "alt")
=============================================================================

--------------------------------- MODULE Mqtt ---------------------------------
(***************************************************************************)
(* The MQTT active object (main/mqtt.cpp) and its state machine            *)
(* (main/mqttfsm.cpp): the three connection states, the six timers, the    *)
(* queue of the object, and what feeds that queue: the WiFi driver's       *)
(* events (main/wifi.cpp), the calls of the WWC object, the messages and   *)
(* the errors of the AWS IoT client.                                       *)
(*                                                                         *)
(* A handler is split where it blocks (vTaskDelay, TLS, an acknowledgement *)
(* of the server): other tasks go on posting while it waits.  Between two  *)
(* blocking calls it is one step.  pc says where the object's task is;     *)
(* target is the state a transition is heading for, which becomes          *)
(* currentState only when its onEntry has returned.                        *)
(*                                                                         *)
(* The client is abstracted to its session and its subscriptions, the      *)
(* station to its link; which of its calls fails is nondeterministic.      *)
(***************************************************************************)
EXTENDS Naturals, Sequences, FiniteSets, SequencesExt

CONSTANTS
    AppTopics,      \* topics the WWC object subscribes to
    TimeTopic,      \* mqttTimeTopic
    QueueSize,      \* length of the object's queue (20 in the code)
    Requests,       \* requests the WWC object makes once it runs (bound)
    Expiring,       \* timers whose expiries are explored (bound)
    Tracked,        \* kinds of message whose loss is recorded (history)
    None            \* no topic, no timer, no state

Topics == AppTopics \cup {TimeTopic}

ASSUME QueueAssumption == QueueSize \in Nat \ {0}
ASSUME TopicAssumption == IsFiniteSet(AppTopics) /\ TimeTopic \notin AppTopics /\ None \notin Topics
ASSUME RequestAssumption == Requests \subseteq {"subscribe", "unsubscribe", "subjectSend"}
ASSUME NoneAssumption == None \notin {"Init", "Connecting", "Connected", "up", "down"}

States == {"Init", "Connecting", "Connected"}

Timers == {"throttle", "obtainTime", "activity", "init", "reconnect", "safeGuard"}

\* Timers that belong to a state: onEntry starts them, onExit stops them.
TimersOf(s) ==
    CASE s = "Init"       -> {"init"}
      [] s = "Connecting" -> {"throttle", "reconnect", "safeGuard"}
      [] s = "Connected"  -> {"throttle", "activity", "obtainTime"}

Message ==
    [op : {"wifiConnected", "wifiDisconnected", "onError", "timeReceived"}, arg : {None}]
    \cup [op : {"subscribe", "unsubscribe", "incoming"}, arg : Topics]
    \cup [op : {"subjectSend"}, arg : {None}]
    \cup [op : {"timer"}, arg : Timers]

Msg(op, arg) == [op |-> op, arg |-> arg]
OnError      == Msg("onError", None)

VARIABLES
    queue,          \* messages for the object, oldest first
    lost,           \* tracked kinds of message dropped at a full queue since the boot
    pc,             \* where the object's task is
    state,          \* currentState
    target,         \* state being entered, None outside a transition
    todo,           \* topics the running loop still has to (un)subscribe
    armed,          \* timers running
    subscriptions,  \* topics in the subscriptions map
    activityInd,    \* traffic seen since the last activity expiry
    session,        \* the client: "none" before the first init, "closed", "open"
    clientSubs,     \* subscriptions of the open session
    reported,       \* last value given to stateCallback, None before the first
    link,           \* the station: "stopped", "joining", "failed" or "up"
    boot            \* the MQTT and WWC constructors, which run in app_main

fsmVars    == <<state, target>>
clientVars == <<session, clientSubs>>
vars == <<queue, lost, pc, fsmVars, todo, armed, subscriptions, activityInd,
          clientVars, reported, link, boot>>

\* createStateMachine has set currentState and is about to call onEntry; the
\* WiFi constructor has already started the station.
Init ==
    /\ queue = <<>> /\ lost = {}
    /\ pc = "idle" /\ state = "Init" /\ target = None /\ todo = {}
    /\ armed = {}
    /\ subscriptions = {} /\ activityInd = FALSE
    /\ session = "none" /\ clientSubs = {} /\ reported = None
    /\ link = "joining"
    /\ boot = "initStop"

-----------------------------------------------------------------------------
(* Helpers.                                                                *)

Aborts  == {"abortWifiConnected", "abortTimeReceived", "abortReconnect"}
Running == pc \notin Aborts

\* executeMethod for each of ms in turn, with q the queue before: those that
\* find the queue full are dropped.
PostTo(q, ms) ==
    LET room == QueueSize - Len(q)
        kept == IF Len(ms) <= room THEN Len(ms) ELSE room
    IN  /\ queue' = q \o SubSeq(ms, 1, kept)
        /\ lost' = lost \cup (Tracked \cap {ms[i].op : i \in kept + 1..Len(ms)})

Post(m) == PostTo(queue, <<m>>)

\* xTimerStop on some timers, then xTimerStart on others.  A request that a
\* stopped timer has already posted stays in the queue.
Retime(stopped, started) == armed' = (armed \ stopped) \cup started

\* stateCallback, which the WWC constructor registers at its very end.
Report(v) == reported' = IF boot = "done" THEN v ELSE reported

\* WiFi::disconnect, esp_wifi_stop: a station that is up reports the loss.
StopStation ==
    /\ link' = "stopped"
    /\ PostTo(queue, IF link = "up" THEN <<Msg("wifiDisconnected", None)>> ELSE <<>>)

\* WiFi::connectAndToggle: a stopped station is started and begins to join.
StartStation == link' = IF link = "stopped" THEN "joining" ELSE link

-----------------------------------------------------------------------------
(* Entering and leaving states.  Enter begins the onEntry of state s up to *)
(* its first blocking call; Leave runs onExit and goes on to Enter.        *)

EnterPc(s) == CASE s = "Init"       -> "initStop"
                [] s = "Connecting" -> "connect"
                [] s = "Connected"  -> "subscribeTopics"

\* Connecting's onEntry starts the safeguard before it blocks in the connect.
EnterTimers(s) == IF s = "Connecting" THEN {"safeGuard"} ELSE {}

\* Connected's onEntry begins with the callback and subscribes the whole map.
\* Connecting's forgets the old session in aws_iot_mqtt_free and _init.
Enter(s) ==
    /\ pc' = EnterPc(s)
    /\ target' = s
    /\ IF s = "Connected" THEN todo' = subscriptions' /\ Report("up")
                          ELSE todo' = {} /\ UNCHANGED reported
    /\ IF s = "Connecting" THEN session' = "closed" /\ clientSubs' = {}
                           ELSE UNCHANGED clientVars

\* Mutant of Transition: the loss of the connection is not reported.
TransitionSilent(next) ==
    IF state = "Connected"
    THEN /\ pc' = "unsubscribeTopics"
         /\ target' = next
         /\ todo' = subscriptions
         /\ UNCHANGED <<armed, clientVars, reported>>
    ELSE /\ Retime(TimersOf(state), EnterTimers(next))
         /\ Enter(next)

\* stateTransition(next).  Connected's onExit begins with the callback and the
\* unsubscriptions, which block; the other two only stop their timers.
Transition(next) ==
    IF state = "Connected"
    THEN /\ pc' = "unsubscribeTopics"
         /\ target' = next
         /\ todo' = subscriptions
         /\ Report("down")
         /\ UNCHANGED <<armed, clientVars>>
    ELSE /\ Retime(TimersOf(state), EnterTimers(next))
         /\ Enter(next)

\* Where onError leads from the current state.
ErrorTarget == IF state = "Connected" THEN "Connecting" ELSE "Init"

\* onEntry of the target has returned: it becomes the current state.
Settle ==
    /\ pc' = "idle"
    /\ state' = IF target = None THEN state ELSE target
    /\ target' = None

Quiet == UNCHANGED <<fsmVars, todo, armed, subscriptions, activityInd,
                     clientVars, reported>>

-----------------------------------------------------------------------------
(* The object's task takes the next message.                               *)

\* The task is idle and m is the oldest message.
Take(m) ==
    /\ pc = "idle"
    /\ queue # <<>>
    /\ Head(queue) = m
    /\ UNCHANGED <<link, boot>>

\* m is consumed and posts nothing.
Consume(m) == /\ Take(m)
              /\ queue' = Tail(queue)
              /\ lost' = lost

HandleWifiConnected ==
    /\ Consume(Msg("wifiConnected", None))
    /\ UNCHANGED <<state, subscriptions, activityInd>>
    /\ \/ /\ state = "Init"
          /\ Transition("Connecting")
       \/ /\ state # "Init"
          /\ pc' = "abortWifiConnected"
          /\ UNCHANGED <<target, todo, armed, clientVars, reported>>

\* Mutant of HandleWifiDisconnected: only the Connected state leaves.
HandleWifiDisconnectedLate ==
    /\ Consume(Msg("wifiDisconnected", None))
    /\ UNCHANGED <<state, subscriptions, activityInd>>
    /\ \/ /\ state # "Connected"
          /\ UNCHANGED <<pc, target, todo, armed, clientVars, reported>>
       \/ /\ state = "Connected"
          /\ Transition("Init")

HandleWifiDisconnected ==
    /\ Consume(Msg("wifiDisconnected", None))
    /\ UNCHANGED <<state, subscriptions, activityInd>>
    /\ \/ /\ state = "Init"
          /\ UNCHANGED <<pc, target, todo, armed, clientVars, reported>>
       \/ /\ state # "Init"
          /\ Transition("Init")

HandleError ==
    /\ Consume(OnError)
    /\ Transition(ErrorTarget)
    /\ UNCHANGED <<state, subscriptions, activityInd>>

\* timeReceived sets the clock, then unsubscribes, which blocks.
HandleTimeReceived ==
    /\ Consume(Msg("timeReceived", None))
    /\ \/ /\ state = "Init"
          /\ pc' = "abortTimeReceived"
          /\ UNCHANGED todo
       \/ /\ state # "Init"
          /\ pc' = "unsubscribeTime"
          /\ todo' = {TimeTopic}
    /\ UNCHANGED <<fsmVars, armed, subscriptions, activityInd, clientVars, reported>>

\* processIncommingMessage: the callback of the time topic posts timeReceived;
\* the callbacks of the WWC object post to another queue.
HandleIncoming(t) ==
    /\ Take(Msg("incoming", t))
    /\ PostTo(Tail(queue), IF t = TimeTopic /\ t \in subscriptions
                           THEN <<Msg("timeReceived", None)>> ELSE <<>>)
    /\ activityInd' = TRUE
    /\ UNCHANGED <<pc, fsmVars, todo, armed, subscriptions, clientVars, reported>>

HandleSubscribe(t) ==
    /\ Consume(Msg("subscribe", t))
    /\ subscriptions' = subscriptions \cup {t}
    /\ IF state = "Connected" THEN pc' = "subscribeOne" /\ todo' = {t}
                              ELSE UNCHANGED <<pc, todo>>
    /\ UNCHANGED <<fsmVars, armed, activityInd, clientVars, reported>>

HandleUnsubscribe(t) ==
    /\ Consume(Msg("unsubscribe", t))
    /\ subscriptions' = subscriptions \ {t}
    /\ IF state = "Init" THEN UNCHANGED <<pc, todo>>
                         ELSE pc' = "unsubscribeOne" /\ todo' = {t}
    /\ UNCHANGED <<fsmVars, armed, activityInd, clientVars, reported>>

\* Mutant of HandleSubjectSend: every state publishes.
HandleSubjectSendAlways ==
    /\ Consume(Msg("subjectSend", None))
    /\ pc' = "publish" /\ activityInd' = TRUE
    /\ UNCHANGED <<fsmVars, todo, armed, subscriptions, clientVars, reported>>

\* Only the Connected state publishes; the others discard the message.
HandleSubjectSend ==
    /\ Consume(Msg("subjectSend", None))
    /\ IF state = "Connected" THEN pc' = "publish" /\ activityInd' = TRUE
                              ELSE UNCHANGED <<pc, activityInd>>
    /\ UNCHANGED <<fsmVars, todo, armed, subscriptions, clientVars, reported>>

-----------------------------------------------------------------------------
(* Timer expiries.                                                         *)

ThrottleTimer ==
    /\ Consume(Msg("timer", "throttle"))
    /\ pc' = "yield"
    /\ Quiet

ObtainTimeTimer ==
    /\ Consume(Msg("timer", "obtainTime"))
    /\ pc' = "subscribeOne"
    /\ subscriptions' = subscriptions \cup {TimeTopic}
    /\ todo' = {TimeTopic}
    /\ UNCHANGED <<fsmVars, armed, activityInd, clientVars, reported>>

\* No traffic since the last expiry is an error, raised by a direct call.
ActivityTimer ==
    /\ Consume(Msg("timer", "activity"))
    /\ activityInd' = FALSE
    /\ IF activityInd
       THEN UNCHANGED <<pc, target, todo, armed, clientVars, reported>>
       ELSE Transition(ErrorTarget)
    /\ UNCHANGED <<state, subscriptions>>

InitTimer ==
    /\ Consume(Msg("timer", "init"))
    /\ pc' = "initStop"
    /\ Quiet

SafeGuardTimer ==
    /\ Consume(Msg("timer", "safeGuard"))
    /\ Transition(ErrorTarget)
    /\ UNCHANGED <<state, subscriptions, activityInd>>

\* reconnectMQTT: stop the timer and redo the onEntry of Connecting.
ReconnectTimer ==
    /\ Consume(Msg("timer", "reconnect"))
    /\ UNCHANGED <<state, subscriptions, activityInd>>
    /\ \/ /\ state = "Connecting"
          /\ Retime({"reconnect"}, EnterTimers("Connecting"))
          /\ Enter("Connecting")
       \/ /\ state # "Connecting"
          /\ Retime({"reconnect"}, {})
          /\ pc' = "abortReconnect"
          /\ UNCHANGED <<target, todo, clientVars, reported>>

-----------------------------------------------------------------------------
(* The blocking calls, and what their handlers do when they return.        *)

At(label) == /\ pc = label
             /\ UNCHANGED boot

\* init: stop the station, wait a second ...
InitStop ==
    /\ At("initStop")
    /\ StopStation
    /\ pc' = "initStart"
    /\ Quiet

\* Mutant of InitStart: onEntry does not start the init timer.
InitStartOnce ==
    /\ At("initStart")
    /\ StartStation
    /\ Settle
    /\ UNCHANGED <<queue, lost, todo, armed, subscriptions, activityInd,
                   clientVars, reported>>

\* ... and ask the WiFi object to join.  As an onEntry it starts the init timer.
InitStart ==
    /\ At("initStart")
    /\ StartStation
    /\ IF target = "Init" THEN Retime({}, {"init"}) ELSE UNCHANGED armed
    /\ Settle
    /\ UNCHANGED <<queue, lost, todo, subscriptions, activityInd, clientVars,
                   reported>>

\* connectMQTT succeeds: subscribe to the time topic.
ConnectOk ==
    /\ At("connect")
    /\ session' = "open"
    /\ subscriptions' = subscriptions \cup {TimeTopic}
    /\ todo' = {TimeTopic}
    /\ pc' = "subscribeTime"
    /\ UNCHANGED <<queue, lost, fsmVars, armed, activityInd, clientSubs,
                   reported, link>>

ConnectFails ==
    /\ At("connect")
    /\ Retime({}, {"reconnect"})
    /\ Settle
    /\ UNCHANGED <<queue, lost, todo, subscriptions, activityInd, clientVars,
                   reported, link>>

\* executeSubscribeTopic: an error is posted to the object itself.
SubscribeOk(t) ==
    /\ session = "open"
    /\ clientSubs' = clientSubs \cup {t}
    /\ UNCHANGED <<queue, lost>>

\* Mutant of SubscribeFails: the error is only logged.
SubscribeFailsLogged == UNCHANGED <<queue, lost, clientSubs>>

SubscribeFails ==
    /\ Post(OnError)
    /\ UNCHANGED clientSubs

SubscribeTopic(t) ==
    /\ pc \in {"subscribeTime", "subscribeTopics", "subscribeOne"}
    /\ t \in todo
    /\ todo' = todo \ {t}
    /\ SubscribeOk(t) \/ SubscribeFails
    /\ UNCHANGED <<pc, fsmVars, armed, subscriptions, activityInd, session,
                   reported, link, boot>>

\* executeUnsubscribeTopic: an error is only logged.
UnsubscribeTopic(t) ==
    /\ pc \in {"unsubscribeTime", "unsubscribeTopics", "unsubscribeOne"}
    /\ t \in todo
    /\ todo' = todo \ {t}
    /\ \/ session = "open" /\ clientSubs' = clientSubs \ {t}
       \/ UNCHANGED clientSubs
    /\ UNCHANGED <<queue, lost, pc, fsmVars, armed, subscriptions, activityInd,
                   session, reported, link, boot>>

\* The loop or the single call is over.
Done(label) == At(label) /\ todo = {} /\ UNCHANGED link

TimeSubscribed ==
    /\ Done("subscribeTime")
    /\ Retime({}, {"throttle"})
    /\ Settle
    /\ UNCHANGED <<queue, lost, todo, subscriptions, activityInd, clientVars, reported>>

SubscribeOneDone ==
    /\ Done("subscribeOne") \/ Done("unsubscribeOne")
    /\ pc' = "idle"
    /\ UNCHANGED <<queue, lost>> /\ Quiet

\* Connected's onEntry goes on: its timers, the shadow request, a first yield.
TopicsSubscribed ==
    /\ Done("subscribeTopics")
    /\ Retime({}, TimersOf("Connected"))
    /\ Post(Msg("subjectSend", None))
    /\ pc' = "yield"
    /\ UNCHANGED <<fsmVars, todo, subscriptions, activityInd, clientVars, reported>>

\* timeReceived goes on: Connecting moves to Connected, Connected reports again.
TimeUnsubscribed ==
    /\ Done("unsubscribeTime")
    /\ subscriptions' = subscriptions \ {TimeTopic}
    /\ \/ /\ state = "Connecting"
          /\ Transition("Connected")
       \/ /\ state = "Connected"
          /\ Report("up")
          /\ pc' = "idle"
          /\ UNCHANGED <<target, todo, armed, clientVars>>
    /\ UNCHANGED <<queue, lost, state, activityInd>>

\* Connected's onExit goes on: disconnect, which may block ...
TopicsUnsubscribed ==
    /\ Done("unsubscribeTopics")
    /\ pc' = "disconnect"
    /\ UNCHANGED <<queue, lost>> /\ Quiet

\* ... stop the timers, enter the next state.  A DISCONNECT that cannot be
\* sent leaves the session as it was.
Disconnect ==
    /\ At("disconnect")
    /\ Retime(TimersOf("Connected"), EnterTimers(target))
    /\ pc' = EnterPc(target)
    /\ \/ /\ target = "Connecting" \/ session = "open"
          /\ session' = "closed" /\ clientSubs' = {}
       \/ /\ target # "Connecting"
          /\ UNCHANGED clientVars
    /\ UNCHANGED <<queue, lost, fsmVars, todo, subscriptions, activityInd, reported, link>>

PublishEnds ==
    /\ At("publish")
    /\ \/ session = "open" /\ UNCHANGED <<queue, lost>>
       \/ Post(OnError)
    /\ pc' = "idle"
    /\ UNCHANGED link /\ Quiet

\* Mutant of Yield: a session that is not open is no error.
YieldIgnores ==
    /\ At("yield")
    /\ \/ UNCHANGED <<queue, lost, clientVars>>
       \/ /\ session = "open"
          /\ PostTo(queue, <<OnError>>)
          /\ session' = "closed" /\ clientSubs' = {}
    /\ Settle
    /\ UNCHANGED <<todo, armed, subscriptions, activityInd, reported, link>>

\* aws_iot_mqtt_yield ends.  A broken connection closes the session and is an
\* error twice: the client calls disconnectCallbackHandler, and yield fails.
Yield ==
    /\ At("yield")
    /\ \/ /\ session = "open"
          /\ \/ UNCHANGED <<queue, lost, clientVars>>
             \/ Post(OnError) /\ UNCHANGED clientVars
             \/ /\ PostTo(queue, <<OnError, OnError>>)
                /\ session' = "closed" /\ clientSubs' = {}
       \/ /\ session # "open"
          /\ Post(OnError) /\ UNCHANGED clientVars
    /\ Settle
    /\ UNCHANGED <<todo, armed, subscriptions, activityInd, reported, link>>

\* While the client reads, in yield or waiting for an acknowledgement, it hands
\* the messages it receives to iot_subscribe_callback_handler.
Reading == pc = "yield" \/ todo # {}

-----------------------------------------------------------------------------
(* The other tasks.  They run until the object has aborted.                *)

Outside == Running /\ UNCHANGED <<pc, fsmVars, todo, subscriptions, activityInd,
                                  clientVars, reported>>

\* The timer daemon: an expiry of a timer posts its request.
Expire(t) ==
    /\ Outside /\ UNCHANGED <<armed, link, boot>>
    /\ t \in armed \cap Expiring
    /\ Post(Msg("timer", t))

\* The WWC object's requests after its constructor.
WwcRequest(op, t) ==
    /\ Outside /\ UNCHANGED <<armed, link, boot>>
    /\ boot = "done"
    /\ op \in Requests
    /\ Post(Msg(op, IF op = "subjectSend" THEN None ELSE t))

\* The server publishes on a subscribed topic and the client reads it.
Delivery(t) ==
    /\ Outside /\ UNCHANGED <<armed, link, boot>>
    /\ Reading /\ session = "open" /\ t \in clientSubs
    /\ Post(Msg("incoming", t))

\* The driver's events.  A station that lost its link or did not get one stays
\* idle: only the next esp_wifi_start makes it join again.
GotIP ==
    /\ Outside /\ UNCHANGED <<armed, boot>>
    /\ link = "joining"
    /\ link' = "up"
    /\ Post(Msg("wifiConnected", None))

LinkFails ==
    /\ Outside /\ UNCHANGED <<armed, boot>>
    /\ link \in {"joining", "up"}
    /\ link' = "failed"
    /\ Post(Msg("wifiDisconnected", None))

\* app_main: onEntry of Init, then the WWC constructor's subscriptions and its
\* registration of stateCallback.
BootStep ==
    /\ Outside
    /\ \/ /\ boot = "initStop" /\ boot' = "initStart"
          /\ StopStation
          /\ UNCHANGED armed
       \/ /\ boot = "initStart" /\ boot' = "subscribe"
          /\ StartStation
          /\ Retime({}, {"init"})
          /\ UNCHANGED <<queue, lost>>
       \/ /\ boot = "subscribe" /\ boot' = "done"
          /\ PostTo(queue, SetToSeq({Msg("subscribe", t) : t \in AppTopics}))
          /\ UNCHANGED <<armed, link>>

\* abort() restarts the device.
Reboot ==
    /\ ~Running
    /\ queue' = <<>> /\ lost' = {}
    /\ pc' = "idle" /\ state' = "Init" /\ target' = None /\ todo' = {}
    /\ armed' = {}
    /\ subscriptions' = {} /\ activityInd' = FALSE
    /\ session' = "none" /\ clientSubs' = {} /\ reported' = None
    /\ link' = "joining"
    /\ boot' = "initStop"

-----------------------------------------------------------------------------
Handle ==
    \/ HandleWifiConnected \/ HandleWifiDisconnected \/ HandleError
    \/ HandleTimeReceived \/ HandleSubjectSend
    \/ \E t \in Topics : HandleIncoming(t) \/ HandleSubscribe(t) \/ HandleUnsubscribe(t)
    \/ ThrottleTimer \/ ObtainTimeTimer \/ ActivityTimer
    \/ InitTimer \/ SafeGuardTimer \/ ReconnectTimer

Continue ==
    \/ InitStop \/ InitStart \/ ConnectOk \/ ConnectFails
    \/ \E t \in Topics : SubscribeTopic(t) \/ UnsubscribeTopic(t)
    \/ TimeSubscribed \/ SubscribeOneDone \/ TopicsSubscribed \/ TimeUnsubscribed
    \/ TopicsUnsubscribed \/ Disconnect \/ PublishEnds \/ Yield

Environment ==
    \/ \E t \in Timers : Expire(t)
    \/ \E op \in Requests, t \in AppTopics : WwcRequest(op, t)
    \/ \E t \in Topics : Delivery(t)
    \/ GotIP \/ LinkFails
    \/ BootStep

Next == Handle \/ Continue \/ Environment \/ Reboot

Spec == Init /\ [][Next]_vars

-----------------------------------------------------------------------------
(* Properties.                                                             *)

TypeOK ==
    /\ queue \in Seq(Message) /\ Len(queue) <= QueueSize
    /\ lost \subseteq Tracked
    /\ pc \in {"idle", "initStop", "initStart", "connect", "subscribeTime",
               "subscribeTopics", "subscribeOne", "unsubscribeTime",
               "unsubscribeTopics", "unsubscribeOne", "disconnect", "publish",
               "yield"} \cup Aborts
    /\ state \in States /\ target \in States \cup {None}
    /\ todo \subseteq Topics
    /\ armed \subseteq Timers
    /\ subscriptions \subseteq Topics
    /\ activityInd \in BOOLEAN
    /\ session \in {"none", "closed", "open"} /\ clientSubs \subseteq Topics
    /\ reported \in {None, "up", "down"}
    /\ link \in {"stopped", "joining", "failed", "up"}
    /\ boot \in {"initStop", "initStart", "subscribe", "done"}

\* The device restarts in wifiConnected of Connecting or Connected only after a
\* wifiDisconnected message was dropped at a full queue: the driver's events
\* alternate, whatever is in the queue with them.
WifiAbortOnlyAfterLoss ==
    pc = "abortWifiConnected" => "wifiDisconnected" \in lost

\* No call of the AWS IoT client is made before aws_iot_mqtt_init, whatever
\* stale expiries and messages the queue still holds (mqtt.cpp: throttle,
\* executeSubscribeTopic, executeSubjectSend, executeDisconnect).
ClientReady ==
    session = "none" => pc \in {"idle", "initStop", "initStart"} \cup Aborts

\* Whenever the object waits for a message some timer will bring it back to
\* work: the retry of the WiFi, the safeguard of the connection attempt with
\* its retry or its polling, the polling of the connection.
WatchdogArmed ==
    pc = "idle" /\ boot = "done" =>
        CASE state = "Init"       -> "init" \in armed
          [] state = "Connecting" -> /\ "safeGuard" \in armed
                                     /\ armed \cap {"throttle", "reconnect"} # {}
          [] state = "Connected"  -> TimersOf("Connected") \subseteq armed

\* A connected device has a live subscription for every topic of its map, or an
\* error is queued that will make it connect again, or such an error was lost.
SubscriptionsLive ==
    pc = "idle" /\ state = "Connected" =>
        \/ subscriptions \subseteq clientSubs
        \/ OnError \in Range(queue)
        \/ "onError" \in lost

\* The last thing the WWC object was told about the connection is true.
ReportedTruth ==
    pc = "idle" /\ reported # None => (reported = "up" <=> state = "Connected")

-----------------------------------------------------------------------------
(* Liveness.                                                               *)

Accepted(A) == A /\ Len(queue') > Len(queue)

(* The object's task and app_main go on.  Each blocking call ends: every one *)
(* has a timeout.  A timer period is finite and no poster is locked out of   *)
(* the queue for ever, so an expiry and the error of a failed yield are each *)
(* accepted in the end if they are tried again and again.                    *)
Fairness ==
    /\ WF_vars(Handle)
    /\ WF_vars(Continue)
    /\ WF_vars(BootStep)
    /\ WF_vars(Reboot)
    /\ \A t \in Expiring : SF_vars(Accepted(Expire(t)))
    /\ SF_vars(session # "open" /\ Accepted(Yield))

FairSpec == Spec /\ Fairness

\* A device without a WiFi link does not give up: it restarts the station and
\* changes the network again and again, or its link comes up.
RetriesWiFi ==
    []<>(pc = "initStart" \/ state # "Init" \/ ~Running)

\* A broken session is noticed: the device leaves the Connected state.
BrokenSessionNoticed ==
    (state = "Connected" /\ session # "open") ~> state # "Connected"

-----------------------------------------------------------------------------
(* What the code's comments and assertions say, and what the code does not  *)
(* keep.                                                                    *)

\* reconnectMQTT runs only while connecting (mqtt.cpp:289, abort otherwise).
ReconnectsOnlyWhileConnecting == pc # "abortReconnect"

=============================================================================

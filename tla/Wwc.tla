---------------------------------- MODULE Wwc ----------------------------------
(***************************************************************************)
(* The WWC active object (main/wwc.cpp): the parameters of the working     *)
(* schedule, the control of the aeration and the circulation pump, and the *)
(* messages the object exchanges with the MQTT and the LED object.         *)
(*                                                                         *)
(* The unit of time is the period of aControlTmr.  The object's task is    *)
(* faster than that: time passes only when its queue is empty.  A JSON     *)
(* document is a function from some of the parameters to their values.     *)
(***************************************************************************)
EXTENDS Integers, Sequences

CONSTANTS
    Day,            \* length of a day
    Defaults,       \* parameters set by the constructor
    Docs,           \* documents the cloud may send (bound)
    NotANumber,     \* a value that is no number
    Heaps,          \* readings of the free heap
    HeapLimit,      \* 80000 in the code
    Times,          \* times the time service may report (bound)
    MaxTime,        \* time at which the clock stops (bound)
    QueueSize,      \* length of the object's queue (20 in the code)
    OutSize         \* length of the MQTT object's queue (20 in the code)

\* The parameters with a least legal value, and all parameters.
Least  == [normalPeriod |-> 1, normalDutyCycle |-> 0, circulationPeriod |-> 0,
           pumpFailureThreshold |-> 0]
Fields == DOMAIN Least \cup {"circulationStartGMTOffset"}

Params == {p \in [Fields -> Int] : \A f \in DOMAIN Least : p[f] >= Least[f]}

ASSUME DayAssumption      == Day \in Nat \ {0}
ASSUME DefaultsAssumption == Defaults \in Params
ASSUME DocsAssumption     ==
    \A d \in Docs : DOMAIN d \subseteq Fields /\ \A f \in DOMAIN d : d[f] \in Int \cup {NotANumber}
ASSUME NumberAssumption   == NotANumber \notin Int
ASSUME HeapAssumption     == Heaps \subseteq Int /\ HeapLimit \in Int
ASSUME TimeAssumption     == Times \subseteq Nat /\ MaxTime \in Nat
ASSUME SizesAssumption    == QueueSize \in Nat \ {0} /\ OutSize \in Nat \ {0}

VARIABLES
    queue,          \* requests for the object, oldest first
    params,         \* the parameters
    areation,       \* the areation flag
    circulation,    \* the circulation flag
    pins,           \* levels of the two outputs; the aeration pump runs at 0
    heap,           \* memmoryAvaliable
    outbox,         \* messages the MQTT object still has to publish
    led,            \* what the LED object was told last
    now,            \* system_clock::now()
    online,         \* what the MQTT object reported last
    clockSet,       \* the time was received since the boot
    lost            \* kinds of request dropped since the boot (history)

control == <<params, areation, circulation, pins, heap>>
world   == <<now, online, clockSet>>
vars    == <<queue, lost, control, outbox, led, world>>

Bool(b) == IF b THEN 1 ELSE 0

-----------------------------------------------------------------------------
(* The schedule.  Division and remainder are those of C++, which truncate. *)

Quotient(a, b)  == IF a >= 0 THEN a \div b ELSE -((-a) \div b)
Remainder(a, b) == IF a >= 0 THEN a % b ELSE -((-a) % b)

TimeFromMidnight(t, p)   == Remainder(t - p.circulationStartGMTOffset, Day)
TimeFromCycleStart(t, p) == Remainder(TimeFromMidnight(t, p), p.normalPeriod)
CurrentDayCycle(t, p)    == Quotient(TimeFromMidnight(t, p), p.normalPeriod)

\* Mutant of Areation: one period of control too long.
AreationInclusive(t, p) == TimeFromCycleStart(t, p) * 100 <= p.normalPeriod * p.normalDutyCycle

\* The duty cycle is a percentage here.
Areation(t, p)    == TimeFromCycleStart(t, p) * 100 < p.normalPeriod * p.normalDutyCycle

\* Mutant of Circulation: in every period.
CirculationEachPeriod(t, p) == TimeFromCycleStart(t, p) < p.circulationPeriod

Circulation(t, p) == /\ CurrentDayCycle(t, p) = 0
                     /\ TimeFromCycleStart(t, p) < p.circulationPeriod

-----------------------------------------------------------------------------
(* Requests.                                                               *)

Request(op)     == [op |-> op]
WithDoc(op, d)  == [op |-> op, doc |-> d]
Led(connected)  == [op |-> "led", connected |-> connected]

DocOps   == {"onShadow", "onControl"}
Requests == [op : {"controlOnTmr", "onTimeUpdate", "onReportStatus", "onDebugTmr"}]
            \cup [op : DocOps, doc : Docs]
            \cup [op : {"led"}, connected : BOOLEAN]

\* Requests whose loss the properties have to know of.
Tracked == {"onTimeUpdate", "led"}

\* executeMethod for each of rs in turn.
Post(rs) ==
    LET room == QueueSize - Len(queue)
        kept == IF Len(rs) <= room THEN Len(rs) ELSE room
    IN  /\ queue' = queue \o SubSeq(rs, 1, kept)
        /\ lost' = lost \cup (Tracked \cap {rs[i].op : i \in kept + 1..Len(rs)})

\* What the object publishes: its parameters, or the state of its pumps.
ShadowOf(p)  == [topic |-> "shadow", params |-> p]
Status(a, c) == [topic |-> "status", areation |-> a, circulation |-> c]

\* MQTT::subjectSend: dropped when the queue of the MQTT object is full.
SubjectSend(m) == outbox' = IF Len(outbox) < OutSize THEN Append(outbox, m) ELSE outbox

-----------------------------------------------------------------------------
BootPins == [areation |-> 0, circulation |-> 0]

\* The constructor.  memmoryAvaliable is not initialised: any reading.
Init ==
    /\ queue = <<>> /\ lost = {}
    /\ params = Defaults
    /\ areation = FALSE /\ circulation = FALSE /\ pins = BootPins
    /\ heap \in Heaps
    /\ outbox = <<>>
    /\ led = FALSE
    /\ now = 0 /\ online = FALSE /\ clockSet = FALSE

\* esp_restart; the system clock may survive it.
Restart ==
    /\ queue' = <<>> /\ lost' = {}
    /\ params' = Defaults
    /\ areation' = FALSE /\ circulation' = FALSE /\ pins' = BootPins
    /\ heap' \in Heaps
    /\ outbox' = <<>>
    /\ led' = FALSE
    /\ now' \in {0, now} /\ online' = FALSE /\ clockSet' = FALSE

-----------------------------------------------------------------------------
(* The object's task.                                                      *)

Take(op) == queue # <<>> /\ Head(queue).op = op /\ queue' = Tail(queue) /\ lost' = lost

\* controlOnTmr, and onTimeUpdate, which only calls it: a heap that is short
\* and has changed restarts the device, otherwise the schedule sets the pumps.
ControlOnTmr(h) ==
    /\ queue # <<>> /\ Head(queue).op \in {"controlOnTmr", "onTimeUpdate"}
    /\ \/ /\ h < HeapLimit /\ h # heap
          /\ Restart
       \/ /\ h >= HeapLimit \/ h = heap
          /\ heap' = h
          /\ areation' = Areation(now, params)
          /\ circulation' = Circulation(now, params)
          /\ pins' = [areation |-> Bool(~areation'), circulation |-> Bool(circulation')]
          /\ queue' = Tail(queue) /\ lost' = lost
          /\ UNCHANGED <<params, outbox, led, world>>

OnReportStatus ==
    /\ Take("onReportStatus")
    /\ SubjectSend(Status(areation, circulation))
    /\ UNCHANGED <<control, led, world>>

OnDebugTmr ==
    /\ Take("onDebugTmr")
    /\ UNCHANGED <<control, outbox, led, world>>

\* Mutant of Accepts: no bounds.
AcceptsAny(f, v) == v # NotANumber

\* processReceivedParameters: a parameter that is missing, no number or too
\* small is left as it is.
Accepts(f, v) == v # NotANumber /\ (f \in DOMAIN Least => v >= Least[f])

Received(p, d) == [f \in Fields |-> IF f \in DOMAIN d /\ Accepts(f, d[f]) THEN d[f] ELSE p[f]]

ProcessReceivedParameters ==
    /\ params' = Received(params, Head(queue).doc)
    /\ UNCHANGED <<areation, circulation, pins, heap, led, now, online, clockSet>>

\* onShadowUpdate and onShadowDelta, which differ in where the document has the
\* parameters, answer with the parameters in use ...
OnShadow ==
    /\ Take("onShadow")
    /\ ProcessReceivedParameters
    /\ SubjectSend(ShadowOf(params'))

\* ... onControl with the state of the pumps.
OnControl ==
    /\ Take("onControl")
    /\ ProcessReceivedParameters
    /\ SubjectSend(Status(areation, circulation))

\* The lambdas of onMqttCallback call the LED object.
OnLed ==
    /\ Take("led")
    /\ led' = Head(queue).connected
    /\ UNCHANGED <<control, outbox, world>>

Task == \/ \E h \in Heaps : ControlOnTmr(h)
        \/ OnReportStatus \/ OnDebugTmr \/ OnShadow \/ OnControl \/ OnLed

-----------------------------------------------------------------------------
(* The timers and the MQTT object.                                         *)

\* One period of aControlTmr passes; other timers may expire as well.
Tick(also) ==
    /\ queue = <<>>
    /\ now < MaxTime
    /\ now' = now + 1
    /\ Post(<<Request("controlOnTmr")>> \o also)
    /\ UNCHANGED <<control, outbox, led, online, clockSet>>

Alarms == {<<>>, <<Request("onReportStatus")>>, <<Request("onDebugTmr")>>}

\* Mutant of Connected: the time update does not run the control.
ConnectedNoControl(t) ==
    /\ now' = t
    /\ online' = TRUE /\ clockSet' = TRUE
    /\ Post(<<Led(TRUE)>>)
    /\ UNCHANGED <<control, outbox, led>>

\* processTimeMessage sets the clock, and the MQTT object calls
\* onMqttCallback(true, true) as it becomes, or stays, connected.
Connected(t) ==
    /\ now' = t
    /\ online' = TRUE /\ clockSet' = TRUE
    /\ Post(<<Request("onTimeUpdate"), Led(TRUE)>>)
    /\ UNCHANGED <<control, outbox, led>>

\* Mutant of Disconnected: the LED object is not told.
DisconnectedSilent ==
    /\ online
    /\ online' = FALSE
    /\ UNCHANGED <<queue, lost, control, outbox, led, now, clockSet>>

\* onMqttCallback(false, false).
Disconnected ==
    /\ online
    /\ online' = FALSE
    /\ Post(<<Led(FALSE)>>)
    /\ UNCHANGED <<control, outbox, led, now, clockSet>>

\* A message for a topic of the object; none arrives before the connection,
\* some may be handed over after it ended.
Arrive(op, d) ==
    /\ clockSet
    /\ Post(<<WithDoc(op, d)>>)
    /\ UNCHANGED <<control, outbox, led, world>>

\* The MQTT object takes the next message.
Publish ==
    /\ outbox # <<>>
    /\ outbox' = Tail(outbox)
    /\ UNCHANGED <<queue, lost, control, led, world>>

Others == \/ \E t \in Times : Connected(t)
          \/ Disconnected
          \/ \E op \in DocOps, d \in Docs : Arrive(op, d)
          \/ Publish

Next == Task \/ Others \/ \E a \in Alarms : Tick(a)

Spec == Init /\ [][Next]_vars

-----------------------------------------------------------------------------
(* Properties.                                                             *)

Publishable == [topic : {"shadow"}, params : Params]
               \cup [topic : {"status"}, areation : BOOLEAN, circulation : BOOLEAN]

\* The parameters stay legal, whatever the cloud sends: normalPeriod, the
\* divisor of the schedule, is never 0.
TypeOK ==
    /\ queue \in Seq(Requests) /\ Len(queue) <= QueueSize
    /\ params \in Params
    /\ areation \in BOOLEAN /\ circulation \in BOOLEAN
    /\ pins \in [{"areation", "circulation"} -> {0, 1}]
    /\ heap \in Heaps
    /\ outbox \in Seq(Publishable) /\ Len(outbox) <= OutSize
    /\ led \in BOOLEAN /\ online \in BOOLEAN /\ clockSet \in BOOLEAN
    /\ now \in Nat

\* A status message tells the true state of the pumps.  The aeration pump runs
\* from the boot on, before the schedule has set it: the message is true only
\* because a control run always comes first.
StatusTruthful ==
    [][Len(outbox') > Len(outbox) =>
          LET m == outbox'[Len(outbox')]
          IN  \/ m.topic = "shadow"
              \/ m = Status(pins.areation = 0, pins.circulation = 1)
              \/ "onTimeUpdate" \in lost]_vars

\* The LED object was told the current state of the connection, or will be.
LedTruth ==
    \/ led = online
    \/ "led" \in lost
    \/ \E i \in 1..Len(queue) : queue[i] = Led(online)
=============================================================================

------------------------------ MODULE MqttProofs ------------------------------
(***************************************************************************)
(* What module Mqtt guarantees for every set of topics, every length of    *)
(* the queue and any number of requests and expiries.                      *)
(***************************************************************************)
EXTENDS Mqtt, SequenceTheorems, FiniteSetTheorems, TLAPS

USE QueueAssumption, TopicAssumption, RequestAssumption, NoneAssumption
USE DEF fsmVars, clientVars

-----------------------------------------------------------------------------
(* The inductive invariants.                                               *)

\* Where the object is going: the state it is entering, or the one it is in.
Heading == IF target = None THEN state ELSE target

\* What the place of the task says about the transition and the topics at hand.
ControlInv ==
    /\ pc \in {"idle", "publish", "subscribeOne", "unsubscribeOne", "unsubscribeTime"} \cup Aborts
          => target = None
    /\ pc \in {"initStop", "initStart"} => target \in {None, "Init"}
    /\ pc \in {"connect", "subscribeTime"} => target = "Connecting"
    /\ pc = "subscribeTopics" => target = "Connected"
    /\ pc = "yield" => target \in {None, "Connected"}
    /\ pc \in {"unsubscribeTopics", "disconnect"} => target \in {"Init", "Connecting"}
    /\ todo # {} => pc \in {"subscribeTime", "subscribeTopics", "subscribeOne",
                            "unsubscribeTime", "unsubscribeTopics", "unsubscribeOne"}
    /\ pc = "unsubscribeTime" => todo \subseteq {TimeTopic}
    /\ pc = "unsubscribeOne" => todo \cap subscriptions = {}

\* A state that has been entered has its timers, and keeps them while it is in force.
ArmedInv ==
    /\ target = None /\ state = "Init" /\ boot \in {"subscribe", "done"} => "init" \in armed
    /\ target = None /\ state = "Connecting" =>
          "safeGuard" \in armed /\ armed \cap {"throttle", "reconnect"} # {}
    /\ target = None /\ state = "Connected" => TimersOf("Connected") \subseteq armed
    /\ pc \in {"connect", "subscribeTime"} => "safeGuard" \in armed
    /\ pc = "yield" /\ target = "Connected" => TimersOf("Connected") \subseteq armed

\* The WWC object was told where the object is heading.
TruthInv ==
    /\ boot # "done" => reported = None
    /\ reported # None => (reported = "up" <=> Heading = "Connected")

\* As long as the client has not been initialised only the init timer has run, and
\* nothing led away from the Init state.
OnlyInit(q) == \A i \in 1..Len(q) : q[i].op = "timer" => q[i].arg = "init"
SessionInv ==
    session = "none" =>
        /\ pc \in {"idle", "initStop", "initStart"} \cup Aborts
        /\ Heading = "Init" /\ state = "Init"
        /\ armed \subseteq {"init"}
        /\ OnlyInit(queue)

\* On the way to Connected and there, what is subscribed or about to be is the map, but for
\* the time topic while it is being given up, or an error is on its way.
ErrorQueued == (\E i \in 1..Len(queue) : queue[i] = OnError) \/ "onError" \in lost
AtHand == IF pc = "unsubscribeTime" THEN {TimeTopic} ELSE todo
LiveInv ==
    Heading = "Connected" => ErrorQueued \/ subscriptions \ AtHand \subseteq clientSubs

\* The driver's events alternate: between two of the events that say the station is up there
\* is one that says it is not, and after the last one as long as it is not up.  To have left
\* Init (left) counts as an event that was taken.
LossIn(q, i, j) == \E k \in i..j : q[k].op = "wifiDisconnected"
UpAt(q, left, i) == IF i = 0 THEN left ELSE q[i].op = "wifiConnected"
Alternates(q, left, up) ==
    \A i \in 0..Len(q) : UpAt(q, left, i) =>
        /\ up \/ LossIn(q, i + 1, Len(q))
        /\ \A j \in i + 1..Len(q) : UpAt(q, left, j) => LossIn(q, i + 1, j - 1)
LinkInv ==
    "wifiDisconnected" \notin lost =>
        Alternates(queue, Heading # "Init", link = "up") /\ pc # "abortWifiConnected"

-----------------------------------------------------------------------------
(* The queue.                                                              *)

QueueOK(q) == q \in Seq(Message) /\ Len(q) <= QueueSize

\* What executeMethod leaves in the queue: what was there, and the first of the new ones; one
\* that was dropped is on record if its kind is tracked.
LEMMA Posted ==
    ASSUME NEW q, QueueOK(q), NEW ms \in Seq(Message), lost \subseteq Tracked, PostTo(q, ms)
    PROVE  /\ QueueOK(queue') /\ lost \subseteq lost' /\ lost' \subseteq Tracked
           /\ Len(q) <= Len(queue') /\ Len(queue') <= Len(q) + Len(ms)
           /\ \A i \in 1..Len(q) : queue'[i] = q[i]
           /\ \A i \in Len(q) + 1..Len(queue') : queue'[i] = ms[i - Len(q)]
           /\ \A i \in Len(queue') - Len(q) + 1..Len(ms) : ms[i].op \in Tracked => ms[i].op \in lost'
<1> DEFINE room == QueueSize - Len(q)
           kept == IF Len(ms) <= room THEN Len(ms) ELSE room
           new == SubSeq(ms, 1, kept)
<1>1. q \in Seq(Message) /\ Len(q) \in Nat /\ Len(ms) \in Nat /\ Len(q) <= QueueSize
  BY DEF QueueOK
<1>2. kept \in 0..Len(ms) /\ Len(q) + kept <= QueueSize
  BY <1>1
<1>3. queue' = q \o new /\ lost' = lost \cup (Tracked \cap {ms[i].op : i \in kept + 1..Len(ms)})
  BY DEF PostTo
<1> HIDE DEF kept
<1>4. new \in Seq(Message) /\ Len(new) = kept /\ \A i \in 1..kept : new[i] = ms[i]
  BY <1>1, <1>2, SubSeqProperties
<1> HIDE DEF new
<1>5. queue' \in Seq(Message) /\ Len(queue') = Len(q) + kept
  BY <1>1, <1>3, <1>4, ConcatProperties
<1>6. \A i \in 1..Len(q) : queue'[i] = q[i]
  BY <1>1, <1>2, <1>3, <1>4, ConcatProperties
<1>7. \A i \in Len(q) + 1..Len(queue') : queue'[i] = ms[i - Len(q)]
  BY <1>1, <1>2, <1>3, <1>4, <1>5, ConcatProperties
<1>8. \A i \in kept + 1..Len(ms) : ms[i].op \in Tracked => ms[i].op \in lost'
  BY <1>3
<1>9. Len(queue') - Len(q) = kept
  BY <1>1, <1>2, <1>5
<1> QED
  BY <1>1, <1>2, <1>3, <1>5, <1>6, <1>7, <1>8, <1>9 DEF QueueOK

LEMMA TailOK ==
    ASSUME QueueOK(queue), queue # <<>>
    PROVE  /\ QueueOK(Tail(queue)) /\ Len(Tail(queue)) = Len(queue) - 1
           /\ \A i \in 1..Len(queue) - 1 : Tail(queue)[i] = queue[i + 1]
           /\ Head(queue) = queue[1] /\ Len(queue) >= 1
BY HeadTailProperties DEF QueueOK

LEMMA MessageOf ==
    /\ \A op \in {"wifiConnected", "wifiDisconnected", "onError", "timeReceived", "subjectSend"} : Msg(op, None) \in Message
    /\ \A t \in Topics : \A op \in {"subscribe", "unsubscribe", "incoming"} : Msg(op, t) \in Message
    /\ \A t \in Timers : Msg("timer", t) \in Message
    /\ OnError \in Message
    /\ \A op, arg : Msg(op, arg).op = op /\ Msg(op, arg).arg = arg
BY DEF Message, Msg, OnError

LEMMA PostedOne ==
    ASSUME NEW q, QueueOK(q), NEW m \in Message, lost \subseteq Tracked, PostTo(q, <<m>>)
    PROVE  /\ QueueOK(queue') /\ lost \subseteq lost' /\ lost' \subseteq Tracked
           /\ \A i \in 1..Len(q) : queue'[i] = q[i]
           /\ \/ Len(queue') = Len(q) /\ (m.op \in Tracked => m.op \in lost')
              \/ Len(queue') = Len(q) + 1 /\ queue'[Len(q) + 1] = m
<1>1. <<m>> \in Seq(Message) /\ Len(<<m>>) = 1 /\ <<m>>[1] = m
  OBVIOUS
<1>2. /\ QueueOK(queue') /\ lost \subseteq lost' /\ lost' \subseteq Tracked
      /\ Len(q) <= Len(queue') /\ Len(queue') <= Len(q) + 1
      /\ \A i \in 1..Len(q) : queue'[i] = q[i]
      /\ \A i \in Len(q) + 1..Len(queue') : queue'[i] = <<m>>[i - Len(q)]
      /\ \A i \in Len(queue') - Len(q) + 1..1 : <<m>>[i].op \in Tracked => <<m>>[i].op \in lost'
  BY <1>1, Posted
<1>3. Len(q) \in Nat /\ Len(queue') \in Nat
  BY <1>2 DEF QueueOK
<1>4. CASE Len(queue') = Len(q)
  BY <1>1, <1>2, <1>3, <1>4
<1>5. CASE Len(queue') = Len(q) + 1
  <2>1. Len(q) + 1 \in Len(q) + 1..Len(queue') /\ Len(q) + 1 - Len(q) = 1
    BY <1>3, <1>5
  <2> QED
    BY <1>1, <1>2, <1>5, <2>1
<1> QED
  BY <1>2, <1>3, <1>4, <1>5

LEMMA PostedNone ==
    ASSUME NEW q, QueueOK(q), lost \subseteq Tracked, PostTo(q, <<>>)
    PROVE  queue' = q /\ lost' = lost
<1>1. <<>> \in Seq(Message) /\ Len(<<>>) = 0 /\ Len(q) \in Nat
  BY DEF QueueOK
<1> DEFINE ms == <<>>
<1>2. /\ QueueOK(queue') /\ Len(q) <= Len(queue') /\ Len(queue') <= Len(q) + Len(ms)
      /\ \A i \in 1..Len(q) : queue'[i] = q[i]
  <2>1. ms \in Seq(Message) /\ PostTo(q, ms)
    BY <1>1
  <2> HIDE DEF ms
  <2> QED
    BY <2>1, Posted
<1>3. Len(queue') = Len(q)
  BY <1>1, <1>2 DEF QueueOK
<1>4. queue' = q
  BY <1>2, <1>3, SeqEqual DEF QueueOK
<1>5. lost' = lost
  BY <1>1 DEF PostTo, QueueOK
<1> QED
  BY <1>4, <1>5

\* A broken connection is an error twice.
LEMMA PostedErrors ==
    ASSUME NEW q, QueueOK(q), lost \subseteq Tracked, PostTo(q, <<OnError, OnError>>)
    PROVE  /\ QueueOK(queue') /\ lost \subseteq lost' /\ lost' \subseteq Tracked
           /\ Len(q) <= Len(queue')
           /\ \A i \in 1..Len(q) : queue'[i] = q[i]
           /\ \A i \in Len(q) + 1..Len(queue') : queue'[i] = OnError
           /\ Len(queue') = Len(q) => ("onError" \in Tracked => "onError" \in lost')
<1> DEFINE ms == <<OnError, OnError>>
<1>1. ms \in Seq(Message) /\ Len(ms) = 2 /\ \A i \in 1..2 : ms[i] = OnError
  BY MessageOf
<1> HIDE DEF ms
<1>2. PostTo(q, ms)
  BY DEF ms
<1>3. /\ QueueOK(queue') /\ lost \subseteq lost' /\ lost' \subseteq Tracked
      /\ Len(q) <= Len(queue') /\ Len(queue') <= Len(q) + 2
      /\ \A i \in 1..Len(q) : queue'[i] = q[i]
      /\ \A i \in Len(q) + 1..Len(queue') : queue'[i] = ms[i - Len(q)]
      /\ \A i \in Len(queue') - Len(q) + 1..2 : ms[i].op \in Tracked => ms[i].op \in lost'
  BY <1>1, <1>2, Posted
<1>4. Len(q) \in Nat /\ Len(queue') \in Nat
  BY <1>3 DEF QueueOK
<1>5. ASSUME NEW i \in Len(q) + 1..Len(queue') PROVE queue'[i] = OnError
  <2>1. i - Len(q) \in 1..2
    BY <1>3, <1>4
  <2> QED
    BY <1>1, <1>3, <2>1
<1>6. ASSUME Len(queue') = Len(q), "onError" \in Tracked PROVE "onError" \in lost'
  <2>1. 1 \in Len(queue') - Len(q) + 1..2
    BY <1>4, <1>6
  <2>2. ms[1].op \in Tracked => ms[1].op \in lost'
    BY <1>3, <2>1
  <2> QED
    BY <1>1, <1>6, <2>2, MessageOf DEF OnError
<1> QED
  BY <1>3, <1>5, <1>6

\* The subscriptions that the WWC constructor posts.
LEMMA BootMessages ==
    /\ SetToSeq({Msg("subscribe", t) : t \in AppTopics}) \in Seq({Msg("subscribe", t) : t \in AppTopics})
    /\ SetToSeq({Msg("subscribe", t) : t \in AppTopics}) \in Seq(Message)
<1> DEFINE S == {Msg("subscribe", t) : t \in AppTopics}
<1>1. IsFiniteSet(S)
  <2> DEFINE g == [t \in AppTopics |-> Msg("subscribe", t)]
  <2>1. g \in Surjection(AppTopics, S)
    BY DEF Surjection
  <2> QED
    BY <2>1, FS_Surjection
<1>2. S \subseteq Message
  BY MessageOf DEF Topics
<1> HIDE DEF S
<1>3. Cardinality(S) \in Nat /\ \E f : f \in Bijection(1..Cardinality(S), S)
  BY <1>1, FS_CardinalityType DEF ExistsBijection
<1>4. PICK f : f \in Bijection(1..Cardinality(S), S)
  BY <1>3
<1>5. f \in [1..Cardinality(S) -> S] /\ IsInjective(f)
  BY <1>4 DEF Bijection, Injection, IsInjective
<1>6. SetToSeq(S) \in [1..Cardinality(S) -> S]
  BY <1>5 DEF SetToSeq
<1>7. SetToSeq(S) \in Seq(S)
  BY <1>3, <1>6
<1>8. SetToSeq(S) \in Seq(Message)
  BY <1>2, <1>3, <1>6
<1> QED
  BY <1>7, <1>8 DEF S

-----------------------------------------------------------------------------
(* Types.                                                                  *)

LEMMA TimersOfType == \A s \in States : TimersOf(s) \subseteq Timers
BY DEF States, Timers, TimersOf

\* The part of the type that a transition can touch.
ControlTypes ==
    /\ pc \in {"idle", "initStop", "initStart", "connect", "subscribeTime",
               "subscribeTopics", "subscribeOne", "unsubscribeTime",
               "unsubscribeTopics", "unsubscribeOne", "disconnect", "publish",
               "yield"} \cup Aborts
    /\ target \in States \cup {None}
    /\ todo \subseteq Topics
    /\ armed \subseteq Timers
    /\ session \in {"none", "closed", "open"} /\ clientSubs \subseteq Topics
    /\ reported \in {None, "up", "down"}

LEMMA TransitionTypes ==
    ASSUME TypeOK, subscriptions' \subseteq Topics, NEW next \in States, Transition(next)
    PROVE  ControlTypes'
<1>1. EnterPc(next) \in {"initStop", "connect", "subscribeTopics"}
  BY DEF EnterPc, States
<1>2. EnterTimers(next) \subseteq Timers
  BY DEF EnterTimers, Timers
<1>3. CASE state = "Connected"
  BY <1>3 DEF ControlTypes, TypeOK, Transition, Report
<1>4. CASE state # "Connected"
  <2>1. Retime(TimersOf(state), EnterTimers(next)) /\ Enter(next)
    BY <1>4 DEF Transition
  <2>2. armed' \subseteq Timers
    BY <1>2, <2>1 DEF Retime, TypeOK
  <2>3. pc' = EnterPc(next) /\ target' = next
    BY <2>1 DEF Enter
  <2>4. todo' \subseteq Topics /\ reported' \in {None, "up", "down"}
    BY <2>1 DEF Enter, Report, TypeOK
  <2>5. session' \in {"none", "closed", "open"} /\ clientSubs' \subseteq Topics
    BY <2>1 DEF Enter, TypeOK
  <2> QED
    BY <1>1, <2>2, <2>3, <2>4, <2>5 DEF ControlTypes
<1> QED
  BY <1>3, <1>4

LEMMA StopStationTypes ==
    ASSUME QueueOK(queue), lost \subseteq Tracked, StopStation
    PROVE  QueueOK(queue') /\ lost' \subseteq Tracked
<1>1. CASE link = "up"
  BY <1>1, PostedOne, MessageOf DEF StopStation
<1>2. CASE link # "up"
  BY <1>2, PostedNone DEF StopStation
<1> QED
  BY <1>1, <1>2

LEMMA HandleTypes == ASSUME TypeOK, Handle PROVE TypeOK'
<1> QueueOK(queue) /\ lost \subseteq Tracked
  BY DEF TypeOK, QueueOK
<1> SUFFICES QueueOK(queue') /\ lost' \subseteq Tracked /\ ControlTypes' /\ subscriptions' \subseteq Topics
             /\ state' = state /\ activityInd' \in BOOLEAN /\ link' = link /\ boot' = boot
  BY DEF TypeOK, QueueOK, ControlTypes
<1>t. ControlTypes /\ subscriptions \subseteq Topics /\ activityInd \in BOOLEAN /\ state \in States
  BY DEF TypeOK, ControlTypes
<1>c. ASSUME NEW m, Consume(m) PROVE QueueOK(queue') /\ lost' = lost /\ link' = link /\ boot' = boot
  BY <1>c, TailOK DEF Consume, Take
<1>e. ErrorTarget \in States /\ {"Init", "Connecting", "Connected"} \subseteq States
  BY DEF ErrorTarget, States
<1>n. ASSUME UNCHANGED <<target, todo, armed, clientVars, reported>>,
             pc' \in {pc, "abortWifiConnected", "abortReconnect", "abortTimeReceived"}
      PROVE  ControlTypes'
  BY <1>t, <1>n DEF ControlTypes, Aborts
<1>1. CASE HandleWifiConnected
  <2>1. Consume(Msg("wifiConnected", None)) /\ UNCHANGED <<state, subscriptions, activityInd>>
    BY <1>1 DEF HandleWifiConnected
  <2>2. ControlTypes'
    BY <1>1, <1>t, <1>e, <1>n, TransitionTypes DEF HandleWifiConnected
  <2> QED
    BY <1>c, <1>t, <2>1, <2>2
<1>2. CASE HandleWifiDisconnected
  <2>1. Consume(Msg("wifiDisconnected", None)) /\ UNCHANGED <<state, subscriptions, activityInd>>
    BY <1>2 DEF HandleWifiDisconnected
  <2>2. ControlTypes'
    BY <1>2, <1>t, <1>e, <1>n, TransitionTypes DEF HandleWifiDisconnected
  <2> QED
    BY <1>c, <1>t, <2>1, <2>2
<1>3. CASE HandleError
  BY <1>3, <1>c, <1>t, <1>e, TransitionTypes DEF HandleError
<1>4. CASE HandleTimeReceived
  <2>1. Consume(Msg("timeReceived", None)) /\ UNCHANGED <<state, subscriptions, activityInd>>
    BY <1>4 DEF HandleTimeReceived
  <2>2. ControlTypes'
    BY <1>4, <1>t DEF HandleTimeReceived, ControlTypes, Aborts, Topics
  <2> QED
    BY <1>c, <1>t, <2>1, <2>2
<1>5. CASE HandleSubjectSend
  BY <1>5, <1>c, <1>t DEF HandleSubjectSend, ControlTypes
<1>6. ASSUME NEW t \in Topics, HandleIncoming(t) PROVE QueueOK(queue') /\ lost' \subseteq Tracked
  <2>1. QueueOK(Tail(queue)) /\ Msg("timeReceived", None) \in Message
    BY <1>6, TailOK, MessageOf DEF HandleIncoming, Take
  <2>2. CASE t = TimeTopic /\ t \in subscriptions
    <3>1. PostTo(Tail(queue), <<Msg("timeReceived", None)>>)
      BY <1>6, <2>2 DEF HandleIncoming
    <3> QED
      BY <2>1, <3>1, PostedOne
  <2>3. CASE ~(t = TimeTopic /\ t \in subscriptions)
    <3>1. PostTo(Tail(queue), <<>>)
      BY <1>6, <2>3 DEF HandleIncoming
    <3> QED
      BY <2>1, <3>1, PostedNone
  <2> QED
    BY <2>2, <2>3
<1>7. CASE \E t \in Topics : HandleIncoming(t)
  BY <1>6, <1>7, <1>t DEF HandleIncoming, Take, ControlTypes
<1>8. CASE \E t \in Topics : HandleSubscribe(t)
  BY <1>8, <1>c, <1>t DEF HandleSubscribe, ControlTypes
<1>9. CASE \E t \in Topics : HandleUnsubscribe(t)
  BY <1>9, <1>c, <1>t DEF HandleUnsubscribe, ControlTypes
<1>10. CASE ThrottleTimer \/ InitTimer
  BY <1>10, <1>c, <1>t DEF ThrottleTimer, InitTimer, Quiet, ControlTypes
<1>11. CASE ObtainTimeTimer
  BY <1>11, <1>c, <1>t DEF ObtainTimeTimer, ControlTypes, Topics
<1>12. CASE ActivityTimer
  <2>1. Consume(Msg("timer", "activity")) /\ activityInd' = FALSE /\ UNCHANGED <<state, subscriptions>>
    BY <1>12 DEF ActivityTimer
  <2>2. ControlTypes'
    BY <1>12, <1>t, <1>e, <1>n, TransitionTypes DEF ActivityTimer
  <2> QED
    BY <1>c, <1>t, <2>1, <2>2
<1>13. CASE SafeGuardTimer
  BY <1>13, <1>c, <1>t, <1>e, TransitionTypes DEF SafeGuardTimer
<1>14. CASE ReconnectTimer
  <2>1. Consume(Msg("timer", "reconnect")) /\ UNCHANGED <<state, subscriptions, activityInd>>
    BY <1>14 DEF ReconnectTimer
  <2>2. armed' \subseteq Timers
    BY <1>14, <1>t DEF ReconnectTimer, Retime, EnterTimers, ControlTypes, Timers
  <2>3. ControlTypes'
    BY <1>14, <1>t, <1>e, <2>2 DEF ReconnectTimer, Enter, EnterPc, ControlTypes, Aborts
  <2> QED
    BY <1>c, <1>t, <2>1, <2>3
<1>15. QED
  BY <1>1, <1>2, <1>3, <1>4, <1>5, <1>7, <1>8, <1>9, <1>10, <1>11, <1>12, <1>13, <1>14 DEF Handle

LEMMA ContinueTypes == ASSUME TypeOK, ControlInv, Continue PROVE TypeOK'
<1> QueueOK(queue) /\ lost \subseteq Tracked
  BY DEF TypeOK, QueueOK
<1> SUFFICES QueueOK(queue') /\ lost' \subseteq Tracked /\ ControlTypes' /\ subscriptions' \subseteq Topics
             /\ state' \in States /\ activityInd' \in BOOLEAN /\ boot' = boot
             /\ link' \in {"stopped", "joining", "failed", "up"}
  BY DEF TypeOK, QueueOK, ControlTypes
<1>t. ControlTypes /\ subscriptions \subseteq Topics /\ activityInd \in BOOLEAN /\ state \in States
      /\ link \in {"stopped", "joining", "failed", "up"}
  BY DEF TypeOK, ControlTypes
<1>e. Post(OnError) => QueueOK(queue') /\ lost' \subseteq Tracked
  BY PostedOne, MessageOf DEF Post
<1>1. CASE InitStop
  BY <1>1, <1>t, StopStationTypes DEF InitStop, At, Quiet, ControlTypes, StopStation
<1>2. CASE InitStart
  BY <1>2, <1>t DEF InitStart, At, StartStation, Settle, Retime, ControlTypes, States, Timers
<1>3. CASE ConnectOk
  BY <1>3, <1>t DEF ConnectOk, At, ControlTypes, Topics
<1>4. CASE ConnectFails
  BY <1>4, <1>t DEF ConnectFails, At, Settle, Retime, ControlTypes, States, Timers
<1>5. CASE \E t \in Topics : SubscribeTopic(t)
  BY <1>5, <1>t, <1>e DEF SubscribeTopic, SubscribeOk, SubscribeFails, ControlTypes
<1>6. CASE \E t \in Topics : UnsubscribeTopic(t)
  BY <1>6, <1>t DEF UnsubscribeTopic, ControlTypes
<1>7. CASE TimeSubscribed
  BY <1>7, <1>t DEF TimeSubscribed, Done, At, Settle, Retime, ControlTypes, States, Timers
<1>8. CASE SubscribeOneDone \/ TopicsUnsubscribed
  BY <1>8, <1>t DEF SubscribeOneDone, TopicsUnsubscribed, Done, At, Quiet, ControlTypes
<1>9. CASE TopicsSubscribed
  <2>1. QueueOK(queue') /\ lost' \subseteq Tracked
    BY <1>9, PostedOne, MessageOf DEF TopicsSubscribed, Post
  <2>2. armed' \subseteq Timers
    BY <1>9, <1>t, TimersOfType DEF TopicsSubscribed, Retime, ControlTypes, States
  <2> QED
    BY <1>9, <1>t, <2>1, <2>2 DEF TopicsSubscribed, Done, At, ControlTypes
<1>10. CASE TimeUnsubscribed
  <2>1. subscriptions' \subseteq Topics /\ "Connected" \in States
    BY <1>10, <1>t DEF TimeUnsubscribed, States
  <2>2. ControlTypes'
    <3>1. CASE Transition("Connected")
      BY <2>1, <3>1, TransitionTypes
    <3>2. CASE Report("up") /\ pc' = "idle" /\ UNCHANGED <<target, todo, armed, clientVars>>
      BY <3>2, <1>t DEF Report, ControlTypes
    <3> QED
      BY <1>10, <3>1, <3>2 DEF TimeUnsubscribed
  <2> QED
    BY <1>10, <1>t, <2>1, <2>2 DEF TimeUnsubscribed, Done, At
<1>11. CASE Disconnect
  <2>1. armed' \subseteq Timers
    BY <1>11, <1>t DEF Disconnect, Retime, EnterTimers, ControlTypes, Timers
  <2>2. pc' \in {"initStop", "connect", "subscribeTopics"}
    BY <1>11 DEF Disconnect, EnterPc, ControlInv, At
  <2> QED
    BY <1>11, <1>t, <2>1, <2>2 DEF Disconnect, At, ControlTypes
<1>12. CASE PublishEnds
  BY <1>12, <1>t, <1>e DEF PublishEnds, At, Quiet, ControlTypes
<1>13. CASE Yield
  <2>1. QueueOK(queue') /\ lost' \subseteq Tracked
    BY <1>13, <1>e, PostedErrors DEF Yield
  <2> QED
    BY <1>13, <1>t, <2>1 DEF Yield, At, Settle, ControlTypes, States
<1>14. QED
  BY <1>1, <1>2, <1>3, <1>4, <1>5, <1>6, <1>7, <1>8, <1>9, <1>10, <1>11, <1>12, <1>13 DEF Continue

LEMMA EnvironmentTypes == ASSUME TypeOK, Environment PROVE TypeOK'
<1> QueueOK(queue) /\ lost \subseteq Tracked
  BY DEF TypeOK, QueueOK
<1> SUFFICES QueueOK(queue') /\ lost' \subseteq Tracked /\ Outside /\ armed' \subseteq Timers
             /\ link' \in {"stopped", "joining", "failed", "up"}
             /\ boot' \in {"initStop", "initStart", "subscribe", "done"}
  BY DEF TypeOK, QueueOK, Outside
<1>t. armed \subseteq Timers /\ link \in {"stopped", "joining", "failed", "up"}
      /\ boot \in {"initStop", "initStart", "subscribe", "done"}
  BY DEF TypeOK
<1>1. CASE \E t \in Timers : Expire(t)
  BY <1>1, <1>t, PostedOne, MessageOf DEF Expire, Post
<1>2. ASSUME NEW op \in Requests, NEW t \in AppTopics, WwcRequest(op, t)
      PROVE  QueueOK(queue') /\ lost' \subseteq Tracked /\ Outside /\ UNCHANGED <<armed, link, boot>>
  <2>1. Msg(op, IF op = "subjectSend" THEN None ELSE t) \in Message
    BY MessageOf DEF Topics
  <2> QED
    BY <1>2, <2>1, PostedOne DEF WwcRequest, Post
<1>3. CASE \E t \in Topics : Delivery(t)
  BY <1>3, <1>t, PostedOne, MessageOf DEF Delivery, Post
<1>4. CASE GotIP
  BY <1>4, <1>t, PostedOne, MessageOf DEF GotIP, Post
<1>5. CASE LinkFails
  BY <1>5, <1>t, PostedOne, MessageOf DEF LinkFails, Post
<1>6. CASE BootStep
  <2>1. CASE boot = "initStop" /\ boot' = "initStart" /\ StopStation /\ UNCHANGED armed
    BY <1>6, <1>t, <2>1, StopStationTypes DEF BootStep, StopStation
  <2>2. CASE boot = "initStart" /\ boot' = "subscribe" /\ StartStation /\ Retime({}, {"init"})
              /\ UNCHANGED <<queue, lost>>
    BY <1>6, <1>t, <2>2 DEF BootStep, StartStation, Retime, Timers
  <2>3. CASE boot = "subscribe" /\ boot' = "done" /\ UNCHANGED <<armed, link>>
             /\ PostTo(queue, SetToSeq({Msg("subscribe", t) : t \in AppTopics}))
    BY <1>6, <1>t, <2>3, Posted, BootMessages DEF BootStep
  <2> QED
    BY <1>6, <2>1, <2>2, <2>3 DEF BootStep
<1> QED
  BY <1>1, <1>2, <1>3, <1>4, <1>5, <1>6, <1>t DEF Environment

LEMMA InitTypes == Init => TypeOK
<1> SUFFICES ASSUME Init PROVE TypeOK
  OBVIOUS
<1>1. <<>> \in Seq(Message) /\ Len(<<>>) = 0
  OBVIOUS
<1>2. queue \in Seq(Message) /\ Len(queue) <= QueueSize
  BY <1>1 DEF Init
<1> QED
  BY <1>2 DEF Init, TypeOK, States

LEMMA RebootTypes == Reboot => TypeOK'
<1> SUFFICES ASSUME Reboot PROVE TypeOK'
  OBVIOUS
<1>1. <<>> \in Seq(Message) /\ Len(<<>>) = 0
  OBVIOUS
<1>2. queue' \in Seq(Message) /\ Len(queue') <= QueueSize
  BY <1>1 DEF Reboot
<1> QED
  BY <1>2 DEF Reboot, TypeOK, States

-----------------------------------------------------------------------------
(* Where the task is.                                                      *)

\* A transition begins in a message handler, or in timeReceived after its unsubscription.
LEMMA TransitionControl ==
    ASSUME TypeOK, ControlInv, pc \in {"idle", "unsubscribeTime"}, todo = {},
           NEW next \in States, state = "Connected" => next # "Connected", Transition(next)
    PROVE  ControlInv'
<1>1. CASE state = "Connected"
  BY <1>1 DEF ControlInv, Transition, Aborts, States
<1>2. CASE state # "Connected"
  <2>1. pc' = EnterPc(next) /\ target' = next /\ (next # "Connected" => todo' = {})
    BY <1>2 DEF Transition, Enter
  <2>2. /\ next = "Init" => pc' = "initStop"
        /\ next = "Connecting" => pc' = "connect"
        /\ next = "Connected" => pc' = "subscribeTopics"
        /\ next \in {"Init", "Connecting", "Connected"}
    BY <2>1 DEF EnterPc, States
  <2> QED
    BY <2>1, <2>2 DEF ControlInv, Aborts
<1> QED
  BY <1>1, <1>2

LEMMA HandleControl == ASSUME TypeOK, ControlInv, Handle PROVE ControlInv'
<1>s. pc = "idle" /\ todo = {}
  BY DEF Handle, HandleWifiConnected, HandleWifiDisconnected, HandleError, HandleTimeReceived,
         HandleSubjectSend, HandleIncoming, HandleSubscribe, HandleUnsubscribe, ThrottleTimer,
         ObtainTimeTimer, ActivityTimer, InitTimer, SafeGuardTimer, ReconnectTimer, Consume, Take,
         ControlInv
<1>e. /\ ErrorTarget \in States /\ (state = "Connected" => ErrorTarget # "Connected")
      /\ {"Init", "Connecting", "Connected"} \subseteq States
  BY DEF ErrorTarget, States
<1>n. ASSUME UNCHANGED <<target, todo>>, pc' \in {"idle", "initStop", "yield", "publish"} \cup Aborts
      PROVE  ControlInv'
  BY <1>s, <1>n DEF ControlInv, Aborts
<1>1. CASE HandleWifiConnected
  BY <1>1, <1>s, <1>e, <1>n, TransitionControl DEF HandleWifiConnected, Aborts
<1>2. CASE HandleWifiDisconnected
  BY <1>2, <1>s, <1>e, <1>n, TransitionControl DEF HandleWifiDisconnected
<1>3. CASE HandleError \/ SafeGuardTimer
  BY <1>3, <1>s, <1>e, TransitionControl DEF HandleError, SafeGuardTimer
<1>4. CASE HandleTimeReceived
  BY <1>4, <1>s DEF HandleTimeReceived, ControlInv, Aborts
<1>5. CASE HandleSubjectSend \/ ThrottleTimer \/ InitTimer
  BY <1>5, <1>s, <1>n DEF HandleSubjectSend, ThrottleTimer, InitTimer, Quiet
<1>6. CASE \E t \in Topics : HandleIncoming(t)
  BY <1>6, <1>s, <1>n DEF HandleIncoming
<1>7. CASE \E t \in Topics : HandleSubscribe(t)
  BY <1>7, <1>s DEF HandleSubscribe, ControlInv, Aborts
<1>8. CASE \E t \in Topics : HandleUnsubscribe(t)
  BY <1>8, <1>s DEF HandleUnsubscribe, ControlInv, Aborts
<1>9. CASE ObtainTimeTimer
  BY <1>9, <1>s DEF ObtainTimeTimer, ControlInv, Aborts
<1>10. CASE ActivityTimer
  BY <1>10, <1>s, <1>e, <1>n, TransitionControl DEF ActivityTimer
<1>11. CASE ReconnectTimer
  BY <1>11, <1>s, <1>n DEF ReconnectTimer, Enter, EnterPc, ControlInv, Aborts
<1> QED
  BY <1>1, <1>2, <1>3, <1>4, <1>5, <1>6, <1>7, <1>8, <1>9, <1>10, <1>11 DEF Handle

LEMMA ContinueControl == ASSUME TypeOK, ControlInv, Continue PROVE ControlInv'
<1>1. CASE InitStop
  BY <1>1 DEF InitStop, At, Quiet, ControlInv, Aborts
<1>2. CASE InitStart
  BY <1>2 DEF InitStart, At, Settle, ControlInv, Aborts
<1>3. CASE ConnectOk
  BY <1>3 DEF ConnectOk, At, ControlInv, Aborts
<1>4. CASE ConnectFails
  BY <1>4 DEF ConnectFails, At, Settle, ControlInv, Aborts
<1>5. CASE \E t \in Topics : SubscribeTopic(t)
  BY <1>5 DEF SubscribeTopic, ControlInv, Aborts
<1>6. CASE \E t \in Topics : UnsubscribeTopic(t)
  BY <1>6 DEF UnsubscribeTopic, ControlInv, Aborts
<1>7. CASE TimeSubscribed
  BY <1>7 DEF TimeSubscribed, Done, At, Settle, ControlInv, Aborts
<1>8. CASE SubscribeOneDone
  BY <1>8 DEF SubscribeOneDone, Done, At, Quiet, ControlInv, Aborts
<1>9. CASE TopicsSubscribed
  BY <1>9 DEF TopicsSubscribed, Done, At, ControlInv, Aborts
<1>10. CASE TimeUnsubscribed
  <2>1. pc = "unsubscribeTime" /\ todo = {}
    BY <1>10 DEF TimeUnsubscribed, Done, At
  <2>2. CASE state = "Connecting" /\ Transition("Connected")
    BY <2>1, <2>2, TransitionControl DEF States
  <2>3. CASE pc' = "idle" /\ UNCHANGED <<target, todo>>
    BY <2>1, <2>3 DEF ControlInv, Aborts
  <2> QED
    BY <1>10, <2>2, <2>3 DEF TimeUnsubscribed
<1>11. CASE TopicsUnsubscribed
  BY <1>11 DEF TopicsUnsubscribed, Done, At, Quiet, ControlInv, Aborts
<1>12. CASE Disconnect
  BY <1>12 DEF Disconnect, At, EnterPc, ControlInv, Aborts
<1>13. CASE PublishEnds
  BY <1>13 DEF PublishEnds, At, Quiet, ControlInv, Aborts
<1>14. CASE Yield
  BY <1>14 DEF Yield, At, Settle, ControlInv, Aborts
<1> QED
  BY <1>1, <1>2, <1>3, <1>4, <1>5, <1>6, <1>7, <1>8, <1>9, <1>10, <1>11, <1>12, <1>13, <1>14 DEF Continue

LEMMA EnvironmentOutside == Environment => Outside
BY DEF Environment, Expire, WwcRequest, Delivery, GotIP, LinkFails, BootStep

LEMMA ControlStep == TypeOK /\ ControlInv /\ [Next]_vars => TypeOK' /\ ControlInv'
<1> SUFFICES ASSUME TypeOK, ControlInv, [Next]_vars PROVE TypeOK' /\ ControlInv'
  OBVIOUS
<1>1. CASE Handle
  BY <1>1, HandleTypes, HandleControl
<1>2. CASE Continue
  BY <1>2, ContinueTypes, ContinueControl
<1>3. CASE Environment
  <2>1. ControlInv'
    BY <1>3, EnvironmentOutside DEF Outside, ControlInv
  <2> QED
    BY <1>3, <2>1, EnvironmentTypes
<1>4. CASE Reboot
  BY <1>4, RebootTypes DEF Reboot, ControlInv, Aborts
<1>5. CASE UNCHANGED vars
  BY <1>5 DEF vars, TypeOK, ControlInv
<1> QED
  BY <1>1, <1>2, <1>3, <1>4, <1>5 DEF Next

LEMMA InitControl == Init => ControlInv
BY DEF Init, ControlInv, Aborts

LEMMA ControlAlways == Spec => [](TypeOK /\ ControlInv)
BY InitTypes, InitControl, ControlStep, PTL DEF Spec

\* Every variable keeps its type: in particular no handler posts what is not a message, and
\* executeMethod never makes the queue longer than it was created.
THEOREM TypeCorrect == Spec => []TypeOK
BY ControlAlways, PTL

-----------------------------------------------------------------------------
(* The timers.                                                             *)

LEMMA StateTimers ==
    /\ TimersOf("Init") = {"init"}
    /\ TimersOf("Connecting") = {"throttle", "reconnect", "safeGuard"}
    /\ TimersOf("Connected") = {"throttle", "activity", "obtainTime"}
BY DEF TimersOf

LEMMA TransitionArmed ==
    ASSUME TypeOK, ControlInv, ArmedInv, pc \in {"idle", "unsubscribeTime"}, state' = state, boot' = boot,
           NEW next \in States, Transition(next)
    PROVE  ArmedInv'
<1>1. target' = next /\ target' # None
  BY DEF Transition, Enter, States
<1>2. CASE state = "Connected"
  BY <1>1, <1>2 DEF ArmedInv, Transition
<1>3. CASE state # "Connected"
  <2>1. pc' = EnterPc(next) /\ armed' = (armed \ TimersOf(state)) \cup EnterTimers(next)
    BY <1>3 DEF Transition, Enter, Retime
  <2>2. CASE next = "Connecting"
    BY <1>1, <2>1, <2>2 DEF EnterPc, EnterTimers, ArmedInv
  <2>3. CASE next # "Connecting"
    <3>1. pc' \in {"initStop", "subscribeTopics"}
      BY <2>1, <2>3 DEF EnterPc, States
    <3> QED
      BY <1>1, <3>1 DEF ArmedInv
  <2> QED
    BY <2>2, <2>3
<1> QED
  BY <1>2, <1>3

LEMMA HandleArmed == ASSUME TypeOK, ControlInv, ArmedInv, Handle PROVE ArmedInv'
<1>s. pc = "idle" /\ UNCHANGED <<state, boot>>
  BY DEF Handle, HandleWifiConnected, HandleWifiDisconnected, HandleError, HandleTimeReceived,
         HandleSubjectSend, HandleIncoming, HandleSubscribe, HandleUnsubscribe, ThrottleTimer,
         ObtainTimeTimer, ActivityTimer, InitTimer, SafeGuardTimer, ReconnectTimer, Quiet, Consume, Take
<1>e. ErrorTarget \in States /\ {"Init", "Connecting", "Connected"} \subseteq States
  BY DEF ErrorTarget, States
<1>i. target = None /\ None \notin States
  BY <1>s DEF ControlInv, States
<1>n. ASSUME UNCHANGED <<target, armed>>, pc' \notin {"connect", "subscribeTime"} PROVE ArmedInv'
  BY <1>s, <1>n, <1>i DEF ArmedInv
<1>1. CASE HandleWifiConnected
  BY <1>1, <1>s, <1>e, <1>n, TransitionArmed DEF HandleWifiConnected
<1>2. CASE HandleWifiDisconnected
  BY <1>2, <1>s, <1>e, <1>n, TransitionArmed DEF HandleWifiDisconnected
<1>3. CASE HandleError \/ SafeGuardTimer
  BY <1>3, <1>s, <1>e, TransitionArmed DEF HandleError, SafeGuardTimer
<1>4. CASE HandleTimeReceived \/ HandleSubjectSend \/ ThrottleTimer \/ InitTimer \/ ObtainTimeTimer
  BY <1>4, <1>s, <1>n DEF HandleTimeReceived, HandleSubjectSend, ThrottleTimer, InitTimer, ObtainTimeTimer, Quiet
<1>5. CASE \E t \in Topics : HandleIncoming(t) \/ HandleSubscribe(t) \/ HandleUnsubscribe(t)
  BY <1>5, <1>s, <1>n DEF HandleIncoming, HandleSubscribe, HandleUnsubscribe
<1>6. CASE ActivityTimer
  BY <1>6, <1>s, <1>e, <1>n, TransitionArmed DEF ActivityTimer
<1>7. CASE ReconnectTimer
  <2>1. CASE state = "Connecting"
    BY <1>7, <1>s, <1>i, <2>1 DEF ReconnectTimer, Retime, Enter, EnterPc, EnterTimers, ArmedInv
  <2>2. CASE state # "Connecting"
    BY <1>7, <1>s, <1>i, <2>2, StateTimers DEF ReconnectTimer, Retime, ArmedInv
  <2> QED
    BY <2>1, <2>2
<1> QED
  BY <1>1, <1>2, <1>3, <1>4, <1>5, <1>6, <1>7 DEF Handle

LEMMA ContinueArmed == ASSUME TypeOK, ControlInv, ArmedInv, Continue PROVE ArmedInv'
<1>n. ASSUME UNCHANGED <<target, armed, boot, state>>, pc' = pc \/ pc' \notin {"connect", "subscribeTime", "yield"}
      PROVE ArmedInv'
  BY <1>n DEF ArmedInv
<1>t. None \notin States
  BY DEF States
<1>1. CASE InitStop \/ TopicsUnsubscribed \/ PublishEnds \/ SubscribeOneDone
  BY <1>1, <1>n DEF InitStop, TopicsUnsubscribed, PublishEnds, SubscribeOneDone, Done, At, Quiet
<1>2. CASE InitStart
  <2>1. target \in {None, "Init"} /\ pc' = "idle" /\ boot' = boot /\ target' = None
    BY <1>2 DEF InitStart, At, Settle, ControlInv
  <2>2. CASE target = "Init"
    BY <1>2, <2>1, <2>2 DEF InitStart, Settle, Retime, ArmedInv
  <2>3. CASE target = None
    BY <1>2, <2>1, <2>3 DEF InitStart, Settle, ArmedInv
  <2> QED
    BY <2>1, <2>2, <2>3
<1>3. CASE ConnectOk
  BY <1>3 DEF ConnectOk, At, ControlInv, ArmedInv
<1>4. CASE ConnectFails
  BY <1>4 DEF ConnectFails, At, Settle, Retime, ControlInv, ArmedInv
<1>5. CASE \E t \in Topics : SubscribeTopic(t) \/ UnsubscribeTopic(t)
  BY <1>5, <1>n DEF SubscribeTopic, UnsubscribeTopic
<1>6. CASE TimeSubscribed
  BY <1>6 DEF TimeSubscribed, Done, At, Settle, Retime, ControlInv, ArmedInv
<1>7. CASE TopicsSubscribed
  BY <1>7 DEF TopicsSubscribed, Done, At, Retime, ControlInv, ArmedInv
<1>8. CASE TimeUnsubscribed
  <2>1. pc = "unsubscribeTime" /\ UNCHANGED <<state, boot>>
    BY <1>8 DEF TimeUnsubscribed, Done, At
  <2>2. CASE Transition("Connected")
    BY <2>1, <2>2, TransitionArmed DEF States
  <2>3. CASE pc' = "idle" /\ UNCHANGED <<target, armed>>
    BY <2>1, <2>3, <1>n
  <2> QED
    BY <1>8, <2>2, <2>3 DEF TimeUnsubscribed
<1>9. CASE Disconnect
  BY <1>9, <1>t DEF Disconnect, At, Retime, EnterPc, EnterTimers, ControlInv, ArmedInv
<1>10. CASE Yield
  BY <1>10 DEF Yield, At, Settle, ControlInv, ArmedInv
<1> QED
  BY <1>1, <1>2, <1>3, <1>4, <1>5, <1>6, <1>7, <1>8, <1>9, <1>10 DEF Continue

LEMMA ArmedStep == TypeOK /\ ControlInv /\ ArmedInv /\ [Next]_vars => ArmedInv'
<1> SUFFICES ASSUME TypeOK, ControlInv, ArmedInv, [Next]_vars PROVE ArmedInv'
  OBVIOUS
<1>1. CASE Handle
  BY <1>1, HandleArmed
<1>2. CASE Continue
  BY <1>2, ContinueArmed
<1>3. CASE Environment
  <2>1. Outside
    BY <1>3, EnvironmentOutside
  <2>2. CASE UNCHANGED <<armed, boot>>
    BY <2>1, <2>2 DEF Outside, ArmedInv
  <2>3. CASE BootStep
    BY <2>1, <2>3 DEF BootStep, Outside, Retime, ArmedInv
  <2> QED
    BY <1>3, <2>2, <2>3 DEF Environment, Expire, WwcRequest, Delivery, GotIP, LinkFails
<1>4. CASE Reboot
  BY <1>4 DEF Reboot, ArmedInv
<1>5. CASE UNCHANGED vars
  BY <1>5 DEF vars, ArmedInv
<1> QED
  BY <1>1, <1>2, <1>3, <1>4, <1>5 DEF Next

\* Whenever the object waits for a message a timer will bring it back to work, whichever of
\* the blocking calls failed, in whatever order stale expiries and events arrive.
THEOREM WatchdogAlways == Spec => []WatchdogArmed
<1>1. Init => ArmedInv
  BY DEF Init, ArmedInv
<1>2. TypeOK /\ ControlInv /\ ArmedInv => WatchdogArmed
  BY DEF TypeOK, States, ControlInv, ArmedInv, WatchdogArmed
<1> QED
  BY <1>1, <1>2, ControlAlways, ArmedStep, PTL DEF Spec

-----------------------------------------------------------------------------
(* What the WWC object was told.                                           *)

\* Connected's onEntry and onExit begin with the callback.
LEMMA TransitionTruth ==
    ASSUME TypeOK, ControlInv, TruthInv, pc \in {"idle", "unsubscribeTime"}, state' = state, boot' = boot,
           NEW next \in States, state = "Connected" => next # "Connected", Transition(next)
    PROVE  TruthInv'
<1>1. target' = next /\ target = None /\ Heading = state /\ Heading' = next
  BY DEF Transition, Enter, States, Heading, ControlInv
<1>2. CASE state = "Connected"
  BY <1>1, <1>2 DEF TruthInv, Transition, Report
<1>3. CASE state # "Connected"
  BY <1>1, <1>3 DEF TruthInv, Transition, Enter, Report
<1> QED
  BY <1>2, <1>3

LEMMA TruthStep == TypeOK /\ ControlInv /\ TruthInv /\ [Next]_vars => TruthInv'
<1> SUFFICES ASSUME TypeOK, ControlInv, TruthInv, [Next]_vars PROVE TruthInv'
  OBVIOUS
<1>n. ASSUME Heading' = Heading, UNCHANGED <<boot, reported>> PROVE TruthInv'
  BY <1>n DEF TruthInv
<1>s. ASSUME Settle, UNCHANGED <<boot, reported>> PROVE TruthInv'
  BY <1>s, <1>n DEF Settle, Heading
<1>q. ASSUME UNCHANGED <<target, state, boot, reported>> PROVE TruthInv'
  BY <1>q, <1>n DEF Heading
<1>1. CASE Handle
  <2>s. pc = "idle" /\ UNCHANGED <<state, boot>>
    BY <1>1 DEF Handle, HandleWifiConnected, HandleWifiDisconnected, HandleError, HandleTimeReceived,
         HandleSubjectSend, HandleIncoming, HandleSubscribe, HandleUnsubscribe, ThrottleTimer,
         ObtainTimeTimer, ActivityTimer, InitTimer, SafeGuardTimer, ReconnectTimer, Quiet, Consume, Take
  <2>e. /\ ErrorTarget \in States /\ (state = "Connected" => ErrorTarget # "Connected")
        /\ {"Init", "Connecting", "Connected"} \subseteq States
    BY DEF ErrorTarget, States
  <2>1. CASE HandleWifiConnected
    BY <2>1, <2>s, <2>e, <1>q, TransitionTruth DEF HandleWifiConnected
  <2>2. CASE HandleWifiDisconnected
    BY <2>2, <2>s, <2>e, <1>q, TransitionTruth DEF HandleWifiDisconnected
  <2>3. CASE HandleError \/ SafeGuardTimer
    BY <2>3, <2>s, <2>e, TransitionTruth DEF HandleError, SafeGuardTimer
  <2>4. CASE ActivityTimer
    BY <2>4, <2>s, <2>e, <1>q, TransitionTruth DEF ActivityTimer
  <2>5. CASE ReconnectTimer
    BY <2>5, <2>s, <1>n, <1>q DEF ReconnectTimer, Enter, Heading, ControlInv
  <2>6. CASE HandleTimeReceived \/ HandleSubjectSend \/ ThrottleTimer \/ InitTimer \/ ObtainTimeTimer
    BY <2>6, <2>s, <1>q DEF HandleTimeReceived, HandleSubjectSend, ThrottleTimer, InitTimer, ObtainTimeTimer, Quiet
  <2>7. CASE \E t \in Topics : HandleIncoming(t) \/ HandleSubscribe(t) \/ HandleUnsubscribe(t)
    BY <2>7, <2>s, <1>q DEF HandleIncoming, HandleSubscribe, HandleUnsubscribe
  <2> QED
    BY <1>1, <2>1, <2>2, <2>3, <2>4, <2>5, <2>6, <2>7 DEF Handle
<1>2. CASE Continue
  <2>1. CASE InitStart \/ ConnectFails \/ TimeSubscribed \/ Yield
    BY <2>1, <1>s DEF InitStart, ConnectFails, TimeSubscribed, Yield, Done, At
  <2>2. CASE InitStop \/ ConnectOk \/ SubscribeOneDone \/ TopicsSubscribed \/ TopicsUnsubscribed
             \/ Disconnect \/ PublishEnds \/ \E t \in Topics : SubscribeTopic(t) \/ UnsubscribeTopic(t)
    BY <2>2, <1>q DEF InitStop, ConnectOk, SubscribeOneDone, TopicsSubscribed, TopicsUnsubscribed,
         Disconnect, PublishEnds, SubscribeTopic, UnsubscribeTopic, Done, At, Quiet
  <2>3. CASE TimeUnsubscribed
    <3>1. pc = "unsubscribeTime" /\ UNCHANGED <<state, boot>>
      BY <2>3 DEF TimeUnsubscribed, Done, At
    <3>2. CASE state = "Connecting" /\ Transition("Connected")
      BY <3>1, <3>2, TransitionTruth DEF States
    <3>3. CASE state = "Connected" /\ Report("up") /\ UNCHANGED target
      BY <3>1, <3>3 DEF ControlInv, Report, TruthInv, Heading
    <3> QED
      BY <2>3, <3>2, <3>3 DEF TimeUnsubscribed
  <2> QED
    BY <1>2, <2>1, <2>2, <2>3 DEF Continue
<1>3. CASE Environment
  <2>1. UNCHANGED <<target, state, reported>>
    BY <1>3, EnvironmentOutside DEF Outside
  <2>2. boot = "done" => boot' = "done"
    BY <1>3 DEF Environment, Expire, WwcRequest, Delivery, GotIP, LinkFails, BootStep
  <2> QED
    BY <2>1, <2>2 DEF TruthInv, Heading
<1>4. CASE Reboot
  BY <1>4 DEF Reboot, TruthInv
<1>5. CASE UNCHANGED vars
  BY <1>5, <1>q DEF vars
<1> QED
  BY <1>1, <1>2, <1>3, <1>4, <1>5 DEF Next

\* The last thing stateCallback said to the WWC object is true whenever the object waits.
THEOREM ReportsTrue == Spec => []ReportedTruth
<1>1. Init => TruthInv
  BY DEF Init, TruthInv
<1>2. ControlInv /\ TruthInv => ReportedTruth
  BY DEF ControlInv, TruthInv, Heading, ReportedTruth
<1> QED
  BY <1>1, <1>2, ControlAlways, TruthStep, PTL DEF Spec

-----------------------------------------------------------------------------
(* What each kind of step does to the queue.                               *)

\* The queue goes on from q: some messages of these kinds were put behind it.
Extended(q, ops) ==
    /\ QueueOK(q) /\ QueueOK(queue') /\ Len(q) <= Len(queue')
    /\ \A i \in 1..Len(q) : queue'[i] = q[i]
    /\ \A i \in Len(q) + 1..Len(queue') : queue'[i].op \in ops

LEMMA ExtendedByOne ==
    ASSUME NEW q, QueueOK(q), NEW m \in Message, lost \subseteq Tracked, PostTo(q, <<m>>), NEW ops, m.op \in ops
    PROVE  Extended(q, ops) /\ lost \subseteq lost'
<1>1. /\ QueueOK(queue') /\ lost \subseteq lost'
      /\ \A i \in 1..Len(q) : queue'[i] = q[i]
      /\ \/ Len(queue') = Len(q)
         \/ Len(queue') = Len(q) + 1 /\ queue'[Len(q) + 1] = m
  BY PostedOne
<1>2. Len(q) \in Nat
  BY DEF QueueOK
<1>3. \A i \in Len(q) + 1..Len(queue') : queue'[i].op \in ops
  BY <1>1, <1>2
<1> QED
  BY <1>1, <1>2, <1>3 DEF Extended

LEMMA ExtendedByNone ==
    ASSUME NEW q, QueueOK(q), queue' = q, NEW ops
    PROVE  Extended(q, ops)
<1>1. Len(q) \in Nat
  BY DEF QueueOK
<1> QED
  BY <1>1 DEF Extended

LEMMA StopQueue ==
    ASSUME TypeOK, StopStation
    PROVE  Extended(queue, {"wifiDisconnected"}) /\ lost \subseteq lost'
<1>1. QueueOK(queue) /\ lost \subseteq Tracked
  BY DEF TypeOK, QueueOK
<1>2. CASE link = "up"
  BY <1>1, <1>2, ExtendedByOne, MessageOf DEF StopStation
<1>3. CASE link # "up"
  BY <1>1, <1>3, PostedNone, ExtendedByNone DEF StopStation
<1> QED
  BY <1>2, <1>3

LEMMA HandleQueue ==
    ASSUME TypeOK, Handle
    PROVE  /\ pc = "idle" /\ queue # <<>> /\ UNCHANGED <<state, link, boot>>
           /\ Extended(Tail(queue), {"timeReceived"}) /\ lost \subseteq lost'
<1>1. QueueOK(queue) /\ lost \subseteq Tracked
  BY DEF TypeOK, QueueOK
<1>2. ASSUME NEW m, Consume(m)
      PROVE  /\ pc = "idle" /\ queue # <<>> /\ Extended(Tail(queue), {"timeReceived"}) /\ lost \subseteq lost'
             /\ UNCHANGED <<link, boot>>
  BY <1>1, <1>2, TailOK, ExtendedByNone DEF Consume, Take
<1>3. ASSUME NEW t \in Topics, HandleIncoming(t)
      PROVE  /\ pc = "idle" /\ queue # <<>> /\ Extended(Tail(queue), {"timeReceived"}) /\ lost \subseteq lost'
             /\ UNCHANGED <<link, boot>>
  <2>1. /\ pc = "idle" /\ queue # <<>> /\ UNCHANGED <<link, boot>>
        /\ PostTo(Tail(queue), IF t = TimeTopic /\ t \in subscriptions
                               THEN <<Msg("timeReceived", None)>> ELSE <<>>)
    BY <1>3 DEF HandleIncoming, Take
  <2>2. QueueOK(Tail(queue))
    BY <1>1, <2>1, TailOK
  <2>3. CASE t = TimeTopic /\ t \in subscriptions
    BY <1>1, <2>1, <2>2, <2>3, ExtendedByOne, MessageOf
  <2>4. CASE ~(t = TimeTopic /\ t \in subscriptions)
    BY <1>1, <2>1, <2>2, <2>4, PostedNone, ExtendedByNone
  <2> QED
    BY <2>1, <2>3, <2>4
<1>4. UNCHANGED state
  BY DEF Handle, HandleWifiConnected, HandleWifiDisconnected, HandleError, HandleTimeReceived,
         HandleSubjectSend, HandleIncoming, HandleSubscribe, HandleUnsubscribe, ThrottleTimer,
         ObtainTimeTimer, ActivityTimer, InitTimer, SafeGuardTimer, ReconnectTimer, Quiet
<1> QED
  BY <1>2, <1>3, <1>4 DEF Handle, HandleWifiConnected, HandleWifiDisconnected, HandleError, HandleTimeReceived,
         HandleSubjectSend, HandleSubscribe, HandleUnsubscribe, ThrottleTimer,
         ObtainTimeTimer, ActivityTimer, InitTimer, SafeGuardTimer, ReconnectTimer

LEMMA ContinueQueue ==
    ASSUME TypeOK, Continue, ~InitStop
    PROVE  Extended(queue, {"onError", "subjectSend"}) /\ lost \subseteq lost'
<1>1. QueueOK(queue) /\ lost \subseteq Tracked
  BY DEF TypeOK, QueueOK
<1>2. ASSUME UNCHANGED <<queue, lost>>
      PROVE  Extended(queue, {"onError", "subjectSend"}) /\ lost \subseteq lost'
  BY <1>1, <1>2, ExtendedByNone
<1>3. ASSUME Post(OnError) \/ Post(Msg("subjectSend", None))
      PROVE  Extended(queue, {"onError", "subjectSend"}) /\ lost \subseteq lost'
  <2>1. CASE Post(OnError)
    BY <1>1, <2>1, ExtendedByOne, MessageOf DEF Post, OnError
  <2>2. CASE Post(Msg("subjectSend", None))
    BY <1>1, <2>2, ExtendedByOne, MessageOf DEF Post
  <2> QED
    BY <1>3, <2>1, <2>2
<1>4. ASSUME PostTo(queue, <<OnError, OnError>>)
      PROVE  Extended(queue, {"onError", "subjectSend"}) /\ lost \subseteq lost'
  BY <1>1, <1>4, PostedErrors, MessageOf DEF Extended, OnError
<1>5. CASE Yield
  BY <1>5, <1>2, <1>3, <1>4 DEF Yield
<1>6. CASE TopicsSubscribed \/ PublishEnds
  BY <1>6, <1>2, <1>3 DEF TopicsSubscribed, PublishEnds
<1>7. CASE \E t \in Topics : SubscribeTopic(t)
  BY <1>7, <1>2, <1>3 DEF SubscribeTopic, SubscribeOk, SubscribeFails
<1>8. CASE InitStart \/ ConnectOk \/ ConnectFails \/ TimeSubscribed \/ SubscribeOneDone
           \/ TimeUnsubscribed \/ TopicsUnsubscribed \/ Disconnect \/ \E t \in Topics : UnsubscribeTopic(t)
  BY <1>8, <1>2 DEF InitStart, ConnectOk, ConnectFails, TimeSubscribed, SubscribeOneDone,
         TimeUnsubscribed, TopicsUnsubscribed, Disconnect, UnsubscribeTopic
<1> QED
  BY <1>5, <1>6, <1>7, <1>8 DEF Continue

\* What the environment posts besides the expiries and the driver's events.
LEMMA BootQueue ==
    ASSUME TypeOK, PostTo(queue, SetToSeq({Msg("subscribe", t) : t \in AppTopics}))
    PROVE  Extended(queue, {"subscribe"}) /\ lost \subseteq lost'
<1> DEFINE S == {Msg("subscribe", t) : t \in AppTopics}
           ms == SetToSeq(S)
<1>1. QueueOK(queue) /\ lost \subseteq Tracked /\ Len(queue) \in Nat
  BY DEF TypeOK, QueueOK
<1>2. ms \in Seq(S) /\ ms \in Seq(Message) /\ \A m \in S : m.op = "subscribe"
  BY BootMessages, MessageOf
<1>3. PostTo(queue, ms)
  OBVIOUS
<1> HIDE DEF ms, S
<1>4. /\ QueueOK(queue') /\ lost \subseteq lost'
      /\ Len(queue) <= Len(queue') /\ Len(queue') <= Len(queue) + Len(ms)
      /\ \A i \in 1..Len(queue) : queue'[i] = queue[i]
      /\ \A i \in Len(queue) + 1..Len(queue') : queue'[i] = ms[i - Len(queue)]
  BY <1>1, <1>2, <1>3, Posted
<1>5. ASSUME NEW i \in Len(queue) + 1..Len(queue') PROVE queue'[i].op = "subscribe"
  <2>1. Len(ms) \in Nat /\ Len(queue') \in Nat
    BY <1>2, <1>4 DEF QueueOK
  <2>2. i - Len(queue) \in 1..Len(ms)
    BY <1>1, <1>4, <2>1
  <2>3. ms[i - Len(queue)] \in S
    BY <1>2, <2>2
  <2> QED
    BY <1>2, <1>4, <2>3
<1> QED
  BY <1>1, <1>4, <1>5 DEF Extended

LEMMA RequestQueue ==
    ASSUME TypeOK, NEW op \in Requests, NEW t \in AppTopics, WwcRequest(op, t)
    PROVE  Extended(queue, Requests) /\ lost \subseteq lost'
<1>1. QueueOK(queue) /\ lost \subseteq Tracked
  BY DEF TypeOK, QueueOK
<1>2. Msg(op, IF op = "subjectSend" THEN None ELSE t) \in Message
  BY MessageOf DEF Topics
<1> QED
  BY <1>1, <1>2, ExtendedByOne, MessageOf DEF WwcRequest, Post

LEMMA DeliveryQueue ==
    ASSUME TypeOK, NEW t \in Topics, Delivery(t)
    PROVE  Extended(queue, {"incoming"}) /\ lost \subseteq lost'
<1>1. QueueOK(queue) /\ lost \subseteq Tracked
  BY DEF TypeOK, QueueOK
<1> QED
  BY <1>1, ExtendedByOne, MessageOf DEF Delivery, Post

LEMMA ExpireQueue ==
    ASSUME TypeOK, NEW t \in Timers, Expire(t)
    PROVE  Extended(queue, {"timer"}) /\ lost \subseteq lost'
<1>1. QueueOK(queue) /\ lost \subseteq Tracked
  BY DEF TypeOK, QueueOK
<1> QED
  BY <1>1, ExtendedByOne, MessageOf DEF Expire, Post

LEMMA LinkQueue ==
    ASSUME TypeOK, GotIP \/ LinkFails
    PROVE  Extended(queue, {"wifiConnected", "wifiDisconnected"}) /\ lost \subseteq lost'
<1>1. QueueOK(queue) /\ lost \subseteq Tracked
  BY DEF TypeOK, QueueOK
<1>2. CASE GotIP
  BY <1>1, <1>2, ExtendedByOne, MessageOf DEF GotIP, Post
<1>3. CASE LinkFails
  BY <1>1, <1>3, ExtendedByOne, MessageOf DEF LinkFails, Post
<1> QED
  BY <1>2, <1>3

-----------------------------------------------------------------------------
(* The client is initialised before it is used.                            *)

LEMMA OnlyInitTail == ASSUME QueueOK(queue), queue # <<>>, OnlyInit(queue) PROVE OnlyInit(Tail(queue))
<1>1. /\ Len(Tail(queue)) = Len(queue) - 1 /\ Len(queue) \in Nat
      /\ \A i \in 1..Len(queue) - 1 : Tail(queue)[i] = queue[i + 1]
  BY TailOK DEF QueueOK
<1>2. ASSUME NEW i \in 1..Len(queue) - 1 PROVE i + 1 \in 1..Len(queue)
  BY <1>1
<1> QED
  BY <1>1, <1>2 DEF OnlyInit

LEMMA OnlyInitExtended ==
    ASSUME NEW q, NEW ops, "timer" \notin ops, Extended(q, ops), OnlyInit(q)
    PROVE  OnlyInit(queue')
<1>1. Len(q) \in Nat /\ Len(queue') \in Nat
  BY DEF Extended, QueueOK
<1>2. ASSUME NEW i \in 1..Len(queue'), queue'[i].op = "timer" PROVE queue'[i].arg = "init"
  <2>1. CASE i <= Len(q)
    BY <1>1, <1>2, <2>1 DEF Extended, OnlyInit
  <2>2. CASE i > Len(q)
    <3>1. i \in Len(q) + 1..Len(queue')
      BY <1>1, <2>2
    <3> QED
      BY <1>2, <3>1 DEF Extended
  <2> QED
    BY <1>1, <2>1, <2>2
<1> QED
  BY <1>2 DEF OnlyInit

\* Only a reboot makes the session "none" again.
LEMMA SessionStep == TypeOK /\ ControlInv /\ SessionInv /\ [Next]_vars => SessionInv'
<1> SUFFICES ASSUME TypeOK, ControlInv, SessionInv, [Next]_vars, session' = "none"
             PROVE  /\ pc' \in {"idle", "initStop", "initStart"} \cup Aborts
                    /\ Heading' = "Init" /\ state' = "Init"
                    /\ armed' \subseteq {"init"}
                    /\ OnlyInit(queue')
  BY DEF SessionInv
<1>1. CASE Reboot
  BY <1>1 DEF Reboot, Heading, OnlyInit
<1>2. CASE UNCHANGED vars
  BY <1>2 DEF vars, SessionInv, Heading, OnlyInit
<1> SUFFICES ASSUME Handle \/ Continue \/ Environment
             PROVE  /\ pc' \in {"idle", "initStop", "initStart"} \cup Aborts
                    /\ Heading' = "Init" /\ state' = "Init"
                    /\ armed' \subseteq {"init"}
                    /\ OnlyInit(queue')
  BY <1>1, <1>2 DEF Next
<1>3. session = "none"
  <2>1. Environment => session' = session
    BY EnvironmentOutside DEF Outside
  <2>2. Continue => session' # "none" \/ session' = session
    BY DEF Continue, InitStop, InitStart, ConnectOk, ConnectFails, SubscribeTopic, UnsubscribeTopic,
           TimeSubscribed, SubscribeOneDone, TopicsSubscribed, TimeUnsubscribed, TopicsUnsubscribed,
           Disconnect, PublishEnds, Yield, Quiet, Transition, Enter
  <2>3. Handle => session' # "none" \/ session' = session
    BY DEF Handle, HandleWifiConnected, HandleWifiDisconnected, HandleError, HandleTimeReceived,
         HandleSubjectSend, HandleIncoming, HandleSubscribe, HandleUnsubscribe, ThrottleTimer,
         ObtainTimeTimer, ActivityTimer, InitTimer, SafeGuardTimer, ReconnectTimer, Quiet, Transition, Enter
  <2> QED
    BY <2>1, <2>2, <2>3
<1>4. /\ pc \in {"idle", "initStop", "initStart"} \cup Aborts
      /\ Heading = "Init" /\ state = "Init" /\ armed \subseteq {"init"} /\ OnlyInit(queue)
      /\ target \in {None, "Init"} /\ QueueOK(queue)
  BY <1>3 DEF SessionInv, Heading, TypeOK, QueueOK
<1>5. CASE Handle
  <2>1. pc = "idle" /\ queue # <<>> /\ state' = "Init" /\ Extended(Tail(queue), {"timeReceived"}) /\ target = None
    BY <1>4, <1>5, HandleQueue DEF ControlInv
  <2>2. OnlyInit(queue')
    BY <1>4, <2>1, OnlyInitTail, OnlyInitExtended
  <2>3. ASSUME NEW t, Take(Msg("timer", t)) PROVE t = "init"
    BY <1>4, <2>1, <2>3, TailOK, MessageOf DEF OnlyInit, Take
  <2> SUFFICES /\ pc' \in {"idle", "initStop", "initStart"} \cup Aborts
               /\ target' \in {None, "Init"} /\ armed' \subseteq {"init"}
    BY <2>1, <2>2 DEF Heading
  <2>4. ~ThrottleTimer /\ ~ObtainTimeTimer /\ ~ActivityTimer /\ ~SafeGuardTimer /\ ~ReconnectTimer
    BY <2>3 DEF ThrottleTimer, ObtainTimeTimer, ActivityTimer, SafeGuardTimer, ReconnectTimer, Consume
  <2>5. CASE HandleWifiConnected
    <3>1. session' = "closed"
      BY <1>4, <2>1, <2>5 DEF HandleWifiConnected, Transition, Enter
    <3> QED
      BY <3>1
  <2>6. CASE HandleWifiDisconnected
    BY <1>4, <2>1, <2>6 DEF HandleWifiDisconnected
  <2>7. CASE HandleError
    <3>1. Transition("Init")
      BY <1>4, <2>7 DEF HandleError, ErrorTarget
    <3> QED
      BY <1>4, <3>1 DEF Transition, Enter, EnterPc, Retime, EnterTimers
  <2>8. CASE HandleTimeReceived \/ HandleSubjectSend \/ InitTimer
    BY <1>4, <2>1, <2>8 DEF HandleTimeReceived, HandleSubjectSend, InitTimer, Quiet, Aborts
  <2>9. CASE \E t \in Topics : HandleIncoming(t) \/ HandleSubscribe(t) \/ HandleUnsubscribe(t)
    BY <1>4, <2>1, <2>9 DEF HandleIncoming, HandleSubscribe, HandleUnsubscribe
  <2> QED
    BY <1>5, <2>4, <2>5, <2>6, <2>7, <2>8, <2>9 DEF Handle
<1>6. CASE Continue
  <2>1. InitStop \/ InitStart
    BY <1>3, <1>4, <1>6 DEF Continue, ConnectOk, ConnectFails, SubscribeTopic, UnsubscribeTopic,
           TimeSubscribed, SubscribeOneDone, TopicsSubscribed, TimeUnsubscribed, TopicsUnsubscribed,
           Disconnect, PublishEnds, Yield, Done, At, Aborts
  <2>2. CASE InitStop
    <3>1. OnlyInit(queue')
      BY <1>4, <2>2, StopQueue, OnlyInitExtended DEF InitStop
    <3> QED
      BY <1>4, <2>2, <3>1 DEF InitStop, Quiet, Heading
  <2>3. CASE InitStart
    BY <1>4, <2>3 DEF InitStart, Settle, Retime, Heading, OnlyInit
  <2> QED
    BY <2>1, <2>2, <2>3
<1>7. CASE Environment
  <2>1. UNCHANGED <<pc, state, target>> /\ Heading' = Heading
    BY <1>7, EnvironmentOutside DEF Outside, Heading
  <2> SUFFICES armed' \subseteq {"init"} /\ OnlyInit(queue')
    BY <1>4, <2>1
  <2>2. ASSUME NEW t \in Timers, Expire(t) PROVE armed' \subseteq {"init"} /\ OnlyInit(queue')
    <3>1. t = "init" /\ UNCHANGED armed /\ PostTo(queue, <<Msg("timer", "init")>>) /\ lost \subseteq Tracked
      BY <1>4, <2>2 DEF Expire, Post, TypeOK
    <3>2. /\ \A i \in 1..Len(queue) : queue'[i] = queue[i]
          /\ Len(queue') = Len(queue) \/ (Len(queue') = Len(queue) + 1 /\ queue'[Len(queue) + 1] = Msg("timer", "init"))
      BY <1>4, <3>1, PostedOne, MessageOf DEF Timers
    <3>3. Len(queue) \in Nat /\ Msg("timer", "init").arg = "init"
      BY <1>4, MessageOf DEF QueueOK
    <3>4. OnlyInit(queue')
      BY <1>4, <3>2, <3>3 DEF OnlyInit
    <3> QED
      BY <1>4, <3>1, <3>4
  <2>3. ASSUME NEW op \in Requests, NEW t \in AppTopics, WwcRequest(op, t) PROVE armed' \subseteq {"init"} /\ OnlyInit(queue')
    <3>1. "timer" \notin Requests
      OBVIOUS
    <3> QED
      BY <1>4, <2>3, <3>1, RequestQueue, OnlyInitExtended DEF WwcRequest
  <2>4. ASSUME NEW t \in Topics, Delivery(t) PROVE armed' \subseteq {"init"} /\ OnlyInit(queue')
    BY <1>4, <2>4, DeliveryQueue, OnlyInitExtended DEF Delivery
  <2>5. CASE GotIP \/ LinkFails
    BY <1>4, <2>5, LinkQueue, OnlyInitExtended DEF GotIP, LinkFails
  <2>6. CASE BootStep
    <3>1. CASE StopStation /\ UNCHANGED armed
      BY <1>4, <3>1, StopQueue, OnlyInitExtended
    <3>2. CASE Retime({}, {"init"}) /\ UNCHANGED <<queue, lost>>
      BY <1>4, <3>2 DEF Retime, OnlyInit
    <3>3. CASE PostTo(queue, SetToSeq({Msg("subscribe", t) : t \in AppTopics})) /\ UNCHANGED <<armed, link>>
      BY <1>4, <3>3, BootQueue, OnlyInitExtended
    <3> QED
      BY <2>6, <3>1, <3>2, <3>3 DEF BootStep
  <2> QED
    BY <1>7, <2>2, <2>3, <2>4, <2>5, <2>6 DEF Environment
<1> QED
  BY <1>5, <1>6, <1>7

\* No call of the AWS IoT client is made before aws_iot_mqtt_init, whatever expiries and
\* messages were queued before.
THEOREM ClientReadyAlways == Spec => []ClientReady
<1>1. Init => SessionInv
  BY DEF Init, SessionInv, Heading, OnlyInit
<1>2. SessionInv => ClientReady
  BY DEF SessionInv, ClientReady
<1> QED
  BY <1>1, <1>2, ControlAlways, SessionStep, PTL DEF Spec

-----------------------------------------------------------------------------
(* The subscriptions of a connected device.                                *)

\* An error on its way stays there until it is executed.
LEMMA ErrorKept == ASSUME NEW ops, Extended(queue, ops), lost \subseteq lost', ErrorQueued PROVE ErrorQueued'
<1>1. Len(queue) \in Nat /\ Len(queue') \in Nat /\ Len(queue) <= Len(queue')
  BY DEF Extended, QueueOK
<1>2. ASSUME NEW i \in 1..Len(queue), queue[i] = OnError PROVE i \in 1..Len(queue') /\ queue'[i] = OnError
  BY <1>1, <1>2 DEF Extended
<1> QED
  BY <1>2 DEF ErrorQueued

LEMMA ErrorBehind ==
    ASSUME NEW ops, QueueOK(queue), queue # <<>>, Head(queue) # OnError, Extended(Tail(queue), ops), lost \subseteq lost', ErrorQueued
    PROVE  ErrorQueued'
<1>1. /\ Len(Tail(queue)) = Len(queue) - 1 /\ Len(queue) \in Nat /\ Head(queue) = queue[1]
      /\ \A i \in 1..Len(queue) - 1 : Tail(queue)[i] = queue[i + 1]
  BY TailOK DEF QueueOK
<1>2. Len(queue') \in Nat /\ Len(queue) - 1 <= Len(queue')
      /\ \A i \in 1..Len(queue) - 1 : queue'[i] = Tail(queue)[i]
  BY <1>1 DEF Extended, QueueOK
<1>3. ASSUME NEW i \in 1..Len(queue), queue[i] = OnError PROVE i - 1 \in 1..Len(queue') /\ queue'[i - 1] = OnError
  <2>1. i # 1
    BY <1>1, <1>3
  <2>2. i - 1 \in 1..Len(queue) - 1 /\ (i - 1) + 1 = i
    BY <1>1, <2>1
  <2> QED
    BY <1>1, <1>2, <1>3, <2>2
<1> QED
  BY <1>3 DEF ErrorQueued

LEMMA ErrorPosted ==
    ASSUME TypeOK, "onError" \in Tracked, Post(OnError) \/ PostTo(queue, <<OnError, OnError>>)
    PROVE  ErrorQueued'
<1>1. QueueOK(queue) /\ lost \subseteq Tracked /\ Len(queue) \in Nat
  BY DEF TypeOK, QueueOK
<1>2. CASE Post(OnError)
  <2>1. \/ "onError" \in lost'
        \/ Len(queue') = Len(queue) + 1 /\ queue'[Len(queue) + 1] = OnError
    BY <1>1, <1>2, PostedOne, MessageOf DEF Post, OnError
  <2> QED
    BY <1>1, <2>1 DEF ErrorQueued
<1>3. CASE PostTo(queue, <<OnError, OnError>>)
  <2>1. /\ Len(queue) <= Len(queue') /\ Len(queue') \in Nat
        /\ \A i \in Len(queue) + 1..Len(queue') : queue'[i] = OnError
        /\ Len(queue') = Len(queue) => "onError" \in lost'
    BY <1>1, <1>3, PostedErrors DEF QueueOK
  <2>2. CASE Len(queue') = Len(queue)
    BY <2>1, <2>2 DEF ErrorQueued
  <2>3. CASE Len(queue') > Len(queue)
    <3>1. Len(queue) + 1 \in Len(queue) + 1..Len(queue') /\ Len(queue) + 1 \in 1..Len(queue')
      BY <1>1, <2>1, <2>3
    <3> QED
      BY <2>1, <3>1 DEF ErrorQueued
  <2> QED
    BY <1>1, <2>1, <2>2, <2>3
<1> QED
  BY <1>2, <1>3

LEMMA LiveStep == "onError" \in Tracked => (TypeOK /\ ControlInv /\ LiveInv /\ [Next]_vars => LiveInv')
<1> SUFFICES ASSUME "onError" \in Tracked, TypeOK, ControlInv, LiveInv, [Next]_vars PROVE LiveInv'
  OBVIOUS
<1>n. ASSUME Heading' # "Connected" PROVE LiveInv'
  BY <1>n DEF LiveInv
<1>q. QueueOK(queue) /\ None \notin States
  BY DEF TypeOK, QueueOK, States
\* A step that keeps the queued error need only keep what is subscribed.
<1>k. ASSUME ErrorQueued => ErrorQueued', Heading = "Connected",
             subscriptions \ AtHand \subseteq clientSubs => subscriptions' \ AtHand' \subseteq clientSubs'
      PROVE  LiveInv'
  BY <1>k DEF LiveInv
<1>1. CASE Handle
  <2>1. pc = "idle" /\ target = None /\ Heading = state /\ todo = {} /\ AtHand = {}
        /\ queue # <<>> /\ UNCHANGED state /\ Extended(Tail(queue), {"timeReceived"}) /\ lost \subseteq lost'
    BY <1>1, HandleQueue DEF ControlInv, Heading, AtHand
  <2>2. Head(queue) # OnError => (ErrorQueued => ErrorQueued')
    BY <1>q, <2>1, ErrorBehind
  <2>t. ASSUME NEW next \in States, next # "Connected", Transition(next) PROVE LiveInv'
    BY <1>n, <1>q, <2>t DEF Transition, Enter, Heading
  <2>e. ErrorTarget \in States /\ ErrorTarget # "Connected" /\ {"Init", "Connecting"} \subseteq States
    BY DEF ErrorTarget, States
  <2>h. ASSUME NEW m, Take(m), m.op # "onError" PROVE ErrorQueued => ErrorQueued'
    BY <2>2, <2>h, MessageOf DEF Take, OnError
  \* Steps that change neither the state nor the subscriptions.
  <2>k. ASSUME NEW m, Take(m), m.op # "onError", UNCHANGED <<target, todo, subscriptions, clientSubs>>,
               pc' # "unsubscribeTime"
        PROVE  LiveInv'
    <3>1. CASE state = "Connected"
      BY <1>k, <2>1, <2>h, <2>k, <3>1 DEF AtHand
    <3>2. CASE state # "Connected"
      BY <1>n, <2>1, <2>k, <3>2 DEF Heading
    <3> QED
      BY <3>1, <3>2
  <2>3. CASE HandleWifiConnected
    BY <2>1, <2>3, <2>t, <2>e, <2>k, MessageOf DEF HandleWifiConnected, Consume
  <2>4. CASE HandleWifiDisconnected
    <3>1. CASE state = "Init"
      BY <1>n, <2>1, <2>4, <3>1 DEF HandleWifiDisconnected, Heading
    <3>2. CASE Transition("Init")
      BY <2>t, <2>e, <3>2
    <3> QED
      BY <2>4, <3>1, <3>2 DEF HandleWifiDisconnected
  <2>5. CASE HandleError \/ SafeGuardTimer
    BY <2>5, <2>t, <2>e DEF HandleError, SafeGuardTimer
  <2>6. CASE HandleTimeReceived
    <3>1. Take(Msg("timeReceived", None)) /\ UNCHANGED <<target, subscriptions, clientSubs>>
      BY <2>6 DEF HandleTimeReceived, Consume
    <3>2. ErrorQueued => ErrorQueued'
      BY <2>h, <3>1, MessageOf
    <3>3. CASE state = "Connected"
      BY <1>k, <2>1, <2>6, <3>1, <3>2, <3>3 DEF HandleTimeReceived, AtHand
    <3>4. CASE state # "Connected"
      BY <1>n, <2>1, <3>1, <3>4 DEF Heading
    <3> QED
      BY <3>3, <3>4
  <2>7. CASE HandleSubjectSend \/ ThrottleTimer \/ InitTimer
    BY <2>1, <2>7, <2>k, MessageOf DEF HandleSubjectSend, ThrottleTimer, InitTimer, Consume, Quiet
  <2>8. ASSUME NEW t \in Topics, HandleIncoming(t) PROVE LiveInv'
    BY <2>1, <2>8, <2>k, MessageOf DEF HandleIncoming
  <2>9. ASSUME NEW t \in Topics, HandleSubscribe(t) \/ HandleUnsubscribe(t) \/ (t = TimeTopic /\ ObtainTimeTimer)
        PROVE  LiveInv'
    <3>1. /\ \/ Take(Msg("subscribe", t)) \/ Take(Msg("unsubscribe", t)) \/ Take(Msg("timer", "obtainTime"))
          /\ subscriptions' \in {subscriptions \cup {t}, subscriptions \ {t}} /\ UNCHANGED <<target, clientSubs>>
      BY <2>9 DEF HandleSubscribe, HandleUnsubscribe, ObtainTimeTimer, Consume
    <3>2. ErrorQueued => ErrorQueued'
      BY <2>h, <3>1, MessageOf
    <3>3. CASE state = "Connected"
      <4>1. todo' = {t} /\ pc' # "unsubscribeTime"
        BY <2>9, <3>3 DEF HandleSubscribe, HandleUnsubscribe, ObtainTimeTimer
      <4> QED
        BY <1>k, <2>1, <3>1, <3>2, <3>3, <4>1 DEF AtHand
    <3>4. CASE state # "Connected"
      BY <1>n, <2>1, <3>1, <3>4 DEF Heading
    <3> QED
      BY <3>3, <3>4
  <2>10. CASE ActivityTimer
    BY <2>1, <2>10, <2>t, <2>e, <2>k, MessageOf DEF ActivityTimer, Consume
  <2>11. CASE ReconnectTimer
    <3>1. CASE state = "Connecting"
      BY <1>n, <2>1, <2>11, <3>1, <1>q DEF ReconnectTimer, Enter, Heading
    <3>2. CASE state # "Connecting"
      BY <2>1, <2>11, <3>2, <2>k, MessageOf DEF ReconnectTimer, Consume
    <3> QED
      BY <3>1, <3>2
  <2> QED
    BY <1>1, <2>3, <2>4, <2>5, <2>6, <2>7, <2>8, <2>9, <2>10, <2>11 DEF Handle, Topics
<1>2. CASE Continue
  <2>1. ErrorQueued => ErrorQueued'
    <3>1. CASE InitStop
      BY <3>1, StopQueue, ErrorKept DEF InitStop
    <3> QED
      BY <1>2, <3>1, ContinueQueue, ErrorKept
  <2>n. ASSUME Heading' = Heading, Heading # "Connected" PROVE LiveInv'
    BY <1>n, <2>n
  <2>k. ASSUME Heading' = Heading,
               Heading = "Connected" => (subscriptions \ AtHand \subseteq clientSubs => subscriptions' \ AtHand' \subseteq clientSubs')
        PROVE  LiveInv'
    BY <1>k, <2>1, <2>k, <2>n
  <2>s. Settle => Heading' = Heading
    BY DEF Settle, Heading
  <2>2. CASE InitStop \/ InitStart \/ ConnectFails \/ TimeSubscribed \/ TopicsSubscribed \/ PublishEnds
             \/ TopicsUnsubscribed \/ SubscribeOneDone
    <3>1. Heading' = Heading /\ UNCHANGED <<todo, subscriptions, clientSubs>> /\ pc # "unsubscribeTime" /\ pc' # "unsubscribeTime"
      BY <2>2, <2>s DEF InitStop, InitStart, ConnectFails, TimeSubscribed, TopicsSubscribed, PublishEnds,
           TopicsUnsubscribed, SubscribeOneDone, Done, At, Quiet, Settle, Heading
    <3> QED
      BY <2>k, <3>1 DEF AtHand
  <2>3. CASE ConnectOk \/ Disconnect
    BY <2>3, <2>n, <1>q DEF ConnectOk, Disconnect, At, ControlInv, Heading
  <2>4. ASSUME NEW t \in Topics, SubscribeTopic(t) PROVE LiveInv'
    <3>1. Heading' = Heading /\ UNCHANGED subscriptions /\ todo' = todo \ {t} /\ AtHand = todo /\ AtHand' = todo'
      BY <2>4 DEF SubscribeTopic, Heading, AtHand
    <3>2. CASE SubscribeOk(t)
      BY <2>k, <3>1, <3>2 DEF SubscribeOk
    <3>3. CASE SubscribeFails
      BY <3>3, ErrorPosted DEF SubscribeFails, LiveInv
    <3> QED
      BY <2>4, <3>2, <3>3 DEF SubscribeTopic
  <2>5. ASSUME NEW t \in Topics, UnsubscribeTopic(t) PROVE LiveInv'
    <3>1. /\ Heading' = Heading /\ UNCHANGED <<pc, subscriptions>> /\ todo' = todo \ {t} /\ t \in todo
          /\ clientSubs \ {t} \subseteq clientSubs'
      BY <2>5 DEF UnsubscribeTopic, Heading
    <3>2. CASE pc = "unsubscribeTime"
      BY <2>k, <3>1, <3>2 DEF AtHand, ControlInv
    <3>3. CASE pc = "unsubscribeOne"
      BY <2>k, <3>1, <3>3 DEF AtHand, ControlInv
    <3>4. CASE pc = "unsubscribeTopics"
      BY <2>n, <3>1, <3>4 DEF Heading, ControlInv
    <3> QED
      BY <2>5, <3>2, <3>3, <3>4 DEF UnsubscribeTopic
  <2>6. CASE TimeUnsubscribed
    <3>1. /\ pc = "unsubscribeTime" /\ todo = {} /\ target = None /\ Heading = state /\ AtHand = {TimeTopic}
          /\ subscriptions' = subscriptions \ {TimeTopic}
      BY <2>6 DEF TimeUnsubscribed, Done, At, ControlInv, Heading, AtHand
    <3>2. CASE state = "Connecting" /\ Transition("Connected")
      <4>1. todo' = subscriptions' /\ pc' = "subscribeTopics"
        BY <3>2 DEF Transition, Enter, EnterPc
      <4> QED
        BY <4>1 DEF LiveInv, AtHand
    <3>3. CASE pc' = "idle" /\ UNCHANGED <<state, target, todo, clientVars>>
      BY <2>k, <3>1, <3>3 DEF AtHand, Heading
    <3> QED
      BY <2>6, <3>2, <3>3 DEF TimeUnsubscribed
  <2>7. CASE Yield
    <3>1. Heading' = Heading /\ pc = "yield" /\ pc' = "idle" /\ UNCHANGED <<todo, subscriptions>>
      BY <2>7, <2>s DEF Yield, At, Settle
    <3>2. CASE UNCHANGED clientVars
      BY <2>k, <3>1, <3>2 DEF AtHand
    <3>3. CASE PostTo(queue, <<OnError, OnError>>)
      BY <3>3, ErrorPosted DEF LiveInv
    <3> QED
      BY <2>7, <3>2, <3>3 DEF Yield
  <2> QED
    BY <1>2, <2>2, <2>3, <2>4, <2>5, <2>6, <2>7 DEF Continue
<1>3. CASE Environment
  <2>1. UNCHANGED <<pc, state, target, todo, subscriptions, clientSubs>>
    BY <1>3, EnvironmentOutside DEF Outside
  <2>2. ErrorQueued => ErrorQueued'
    <3>1. CASE BootStep
      <4>1. CASE StopStation
        BY <4>1, StopQueue, ErrorKept
      <4>2. CASE UNCHANGED <<queue, lost>>
        BY <4>2 DEF ErrorQueued
      <4>3. CASE PostTo(queue, SetToSeq({Msg("subscribe", t) : t \in AppTopics}))
        BY <4>3, BootQueue, ErrorKept
      <4> QED
        BY <3>1, <4>1, <4>2, <4>3 DEF BootStep
    <3> QED
      BY <1>3, <3>1, RequestQueue, DeliveryQueue, ExpireQueue, LinkQueue, ErrorKept DEF Environment
  <2> QED
    BY <2>1, <2>2 DEF LiveInv, Heading, AtHand
<1>4. CASE Reboot
  BY <1>4 DEF Reboot, LiveInv, Heading
<1>5. CASE UNCHANGED vars
  BY <1>5 DEF vars, LiveInv, Heading, AtHand, ErrorQueued
<1> QED
  BY <1>1, <1>2, <1>3, <1>4, <1>5 DEF Next

\* A connected device that waits for a message has subscribed its whole map, or an error is
\* queued that makes it connect again, or such an error was dropped at a full queue.
THEOREM SubscriptionsAlways == ASSUME "onError" \in Tracked PROVE Spec => []SubscriptionsLive
<1>1. Init => LiveInv
  BY DEF Init, LiveInv, Heading
<1>2. TypeOK /\ ControlInv /\ LiveInv => SubscriptionsLive
  BY DEF TypeOK, ControlInv, LiveInv, Heading, AtHand, ErrorQueued, SubscriptionsLive, Range
<1>3. TypeOK /\ ControlInv /\ LiveInv /\ [Next]_vars => LiveInv'
  BY LiveStep
<1> QED
  BY <1>1, <1>2, <1>3, ControlAlways, PTL DEF Spec

-----------------------------------------------------------------------------
(* The driver's events.                                                    *)

\* To go back to Init, or to come up, asks for less.
LEMMA AlternatesWeaker ==
    ASSUME NEW q, NEW left \in BOOLEAN, NEW up \in BOOLEAN, Alternates(q, left, up),
           NEW left2 \in BOOLEAN, NEW up2 \in BOOLEAN, left2 => left, up => up2
    PROVE  Alternates(q, left2, up2)
BY DEF Alternates, UpAt, LossIn

\* A message taken that is no event of the driver.
LEMMA AlternatesTail ==
    ASSUME QueueOK(queue), queue # <<>>, NEW left \in BOOLEAN, NEW up \in BOOLEAN, Alternates(queue, left, up),
           NEW left2 \in BOOLEAN,
           left2 => \/ left /\ Head(queue).op # "wifiDisconnected"
                    \/ Head(queue).op = "wifiConnected"
    PROVE  Alternates(Tail(queue), left2, up)
<1> DEFINE n == Len(queue)
           q == Tail(queue)
<1>1. /\ Len(q) = n - 1 /\ n \in Nat /\ n >= 1 /\ Head(queue) = queue[1]
      /\ \A i \in 1..n - 1 : q[i] = queue[i + 1]
  BY TailOK DEF QueueOK
<1> HIDE DEF n, q
<1>2. Len(queue) = n /\ q = Tail(queue)
  BY DEF n, q
\* Place i of the tail is place i + 1 of the queue; so is place 0, if it counts the head.
<1>3. ASSUME NEW a \in Nat, NEW b \in Nat, b <= n - 1, LossIn(queue, a + 2, b + 1) PROVE LossIn(q, a + 1, b)
  <2>1. PICK k \in a + 2..b + 1 : queue[k].op = "wifiDisconnected"
    BY <1>3 DEF LossIn
  <2>2. k - 1 \in a + 1..b /\ k - 1 \in 1..n - 1 /\ (k - 1) + 1 = k
    BY <1>1, <1>3, <2>1
  <2> QED
    BY <1>1, <2>1, <2>2 DEF LossIn
<1>4. ASSUME NEW i \in 0..n - 1, UpAt(q, left2, i)
      PROVE  /\ up \/ LossIn(queue, i + 2, n)
             /\ \A j \in i + 2..n : UpAt(queue, left, j) => LossIn(queue, i + 2, j - 1)
  <2>1. CASE i # 0 \/ Head(queue).op = "wifiConnected"
    <3>1. i + 1 \in 0..n /\ i + 1 # 0 /\ (i + 1) + 1 = i + 2
      BY <1>1
    <3>2. queue[i + 1].op = "wifiConnected"
      BY <1>1, <1>4, <2>1 DEF UpAt
    <3> QED
      BY <1>2, <3>1, <3>2 DEF Alternates, UpAt
  <2>2. CASE i = 0 /\ Head(queue).op # "wifiConnected"
    <3>1. left /\ queue[1].op # "wifiDisconnected"
      BY <1>1, <1>4, <2>2 DEF UpAt
    <3>2. ASSUME NEW b \in 0..n, LossIn(queue, 1, b) PROVE LossIn(queue, 2, b)
      <4>1. PICK k \in 1..b : queue[k].op = "wifiDisconnected"
        BY <3>2 DEF LossIn
      <4>2. k \in 2..b
        BY <3>1, <4>1
      <4> QED
        BY <4>1, <4>2 DEF LossIn
    <3>3. /\ up \/ LossIn(queue, 1, n)
          /\ \A j \in 1..n : UpAt(queue, left, j) => LossIn(queue, 1, j - 1)
      <4>1. 0 \in 0..n /\ 0 + 1 = 1
        BY <1>1
      <4> QED
        BY <1>2, <3>1, <4>1 DEF Alternates, UpAt
    <3>4. \A j \in 2..n : j \in 1..n /\ j - 1 \in 0..n
      BY <1>1
    <3>5. n \in 0..n
      BY <1>1
    <3> QED
      BY <2>2, <3>2, <3>3, <3>4, <3>5
  <2> QED
    BY <2>1, <2>2
<1>5. ASSUME NEW i \in 0..n - 1, UpAt(q, left2, i), NEW j \in i + 1..n - 1, UpAt(q, left2, j)
      PROVE  LossIn(q, i + 1, j - 1)
  <2>1. j \in 1..n - 1 /\ j + 1 \in i + 2..n /\ j + 1 # 0 /\ j # 0 /\ (j + 1) - 1 = j
    BY <1>1
  <2>2. UpAt(queue, left, j + 1)
    BY <1>1, <1>5, <2>1 DEF UpAt
  <2>3. LossIn(queue, i + 2, j)
    BY <1>4, <1>5, <2>1, <2>2
  <2>4. i \in Nat /\ j - 1 \in Nat /\ j - 1 <= n - 1 /\ (j - 1) + 1 = j
    BY <1>1, <2>1
  <2> QED
    BY <1>3, <2>3, <2>4
<1>6. ASSUME NEW i \in 0..n - 1, UpAt(q, left2, i), ~up PROVE LossIn(q, i + 1, n - 1)
  <2>1. LossIn(queue, i + 2, n)
    BY <1>4, <1>6
  <2>2. i \in Nat /\ n - 1 \in Nat /\ n - 1 <= n - 1 /\ (n - 1) + 1 = n
    BY <1>1
  <2> QED
    BY <1>3, <2>1, <2>2
<1>7. Alternates(q, left2, up)
  BY <1>1, <1>5, <1>6 DEF Alternates
<1> QED
  BY <1>2, <1>7

\* Messages put behind, none of which says that the station is up.
LEMMA AlternatesExtended ==
    ASSUME NEW q, NEW ops, "wifiConnected" \notin ops, Extended(q, ops),
           NEW left \in BOOLEAN, NEW up \in BOOLEAN, Alternates(q, left, up)
    PROVE  Alternates(queue', left, up)
<1> DEFINE n == Len(q)
           m == Len(queue')
<1>1. n \in Nat /\ m \in Nat /\ n <= m
  BY DEF Extended, QueueOK
<1>2. /\ \A i \in 1..n : queue'[i] = q[i]
      /\ \A i \in n + 1..m : queue'[i].op # "wifiConnected"
  BY DEF Extended
<1>3. \A i \in 0..n : UpAt(queue', left, i) = UpAt(q, left, i)
  BY <1>1, <1>2 DEF UpAt
<1>4. \A i \in 0..m : UpAt(queue', left, i) => i \in 0..n
  BY <1>1, <1>2 DEF UpAt
<1>5. ASSUME NEW a \in 1..n + 1, NEW b \in 0..n, NEW c \in b..m, LossIn(q, a, b) PROVE LossIn(queue', a, c)
  BY <1>1, <1>2, <1>5 DEF LossIn
<1> HIDE DEF m
<1>6. ASSUME NEW i \in 0..m, UpAt(queue', left, i)
      PROVE  /\ up \/ LossIn(queue', i + 1, m)
             /\ \A j \in i + 1..m : UpAt(queue', left, j) => LossIn(queue', i + 1, j - 1)
  <2>1. i \in 0..n /\ UpAt(q, left, i) /\ i + 1 \in 1..n + 1
    BY <1>1, <1>3, <1>4, <1>6
  <2>2. up \/ LossIn(queue', i + 1, m)
    <3>1. n \in 0..n /\ m \in n..m
      BY <1>1
    <3> QED
      BY <1>5, <2>1, <3>1 DEF Alternates
  <2>3. ASSUME NEW j \in i + 1..m, UpAt(queue', left, j) PROVE LossIn(queue', i + 1, j - 1)
    <3>1. j \in 0..m
      BY <1>1
    <3>2. j \in 0..n
      BY <1>4, <2>3, <3>1
    <3>3. j \in i + 1..n /\ UpAt(q, left, j) /\ j - 1 \in 0..n /\ j - 1 \in j - 1..m
      BY <1>1, <1>3, <2>1, <2>3, <3>2
    <3>4. LossIn(q, i + 1, j - 1)
      BY <2>1, <3>3 DEF Alternates
    <3> QED
      BY <1>5, <2>1, <3>3, <3>4
  <2> QED
    BY <2>2, <2>3
<1> QED
  BY <1>6 DEF Alternates, m

\* The station goes down and says so, or comes up and says so.
LEMMA AlternatesEvent ==
    ASSUME NEW q, QueueOK(q), QueueOK(queue'), NEW m, Len(queue') = Len(q) + 1, queue'[Len(q) + 1] = m,
           \A i \in 1..Len(q) : queue'[i] = q[i],
           NEW left \in BOOLEAN, NEW up \in BOOLEAN, Alternates(q, left, up)
    PROVE  /\ m.op = "wifiDisconnected" => Alternates(queue', left, FALSE)
           /\ m.op = "wifiConnected" /\ ~up => Alternates(queue', left, TRUE)
<1> DEFINE n == Len(q)
<1>1. n \in Nat /\ Len(queue') = n + 1 /\ queue'[n + 1] = m /\ \A i \in 1..n : queue'[i] = q[i]
  BY DEF QueueOK
<1>2. \A i \in 0..n : UpAt(queue', left, i) = UpAt(q, left, i)
  BY <1>1 DEF UpAt
<1>3. ASSUME NEW a \in 1..n + 1, NEW b \in 0..n, LossIn(q, a, b) PROVE LossIn(queue', a, b)
  BY <1>1, <1>3 DEF LossIn
<1>4. ASSUME NEW i \in 0..n, UpAt(q, left, i), NEW j \in i + 1..n, UpAt(queue', left, j)
      PROVE  LossIn(queue', i + 1, j - 1)
  <2>1. j \in 0..n /\ i + 1 \in 1..n + 1 /\ j - 1 \in 0..n
    BY <1>1
  <2>2. LossIn(q, i + 1, j - 1)
    BY <1>2, <1>4, <2>1 DEF Alternates
  <2> QED
    BY <1>3, <2>1, <2>2
<1>5. ASSUME m.op = "wifiDisconnected" PROVE Alternates(queue', left, FALSE)
  <2>1. ASSUME NEW i \in 0..n + 1, UpAt(queue', left, i) PROVE i \in 0..n /\ UpAt(q, left, i)
    BY <1>1, <1>2, <1>5, <2>1 DEF UpAt
  <2>2. ASSUME NEW i \in 0..n PROVE LossIn(queue', i + 1, n + 1)
    <3>1. n + 1 \in i + 1..n + 1
      BY <1>1
    <3> QED
      BY <1>1, <1>5, <3>1 DEF LossIn
  <2>3. ASSUME NEW i \in 0..n + 1, UpAt(queue', left, i), NEW j \in i + 1..n + 1, UpAt(queue', left, j)
        PROVE  LossIn(queue', i + 1, j - 1)
    <3>1. j \in 0..n + 1 /\ i \in 0..n /\ UpAt(q, left, i)
      BY <1>1, <2>1, <2>3
    <3>2. j \in i + 1..n
      BY <1>1, <2>1, <2>3, <3>1
    <3> QED
      BY <1>4, <2>3, <3>1, <3>2
  <2> QED
    BY <1>1, <2>1, <2>2, <2>3 DEF Alternates
<1>6. ASSUME m.op = "wifiConnected", ~up PROVE Alternates(queue', left, TRUE)
  <2>1. ASSUME NEW i \in 0..n, UpAt(q, left, i) PROVE LossIn(queue', i + 1, n)
    <3>1. i + 1 \in 1..n + 1 /\ n \in 0..n
      BY <1>1
    <3>2. LossIn(q, i + 1, n)
      BY <1>6, <2>1 DEF Alternates
    <3> QED
      BY <1>3, <3>1, <3>2
  <2>2. ASSUME NEW i \in 0..n + 1, UpAt(queue', left, i), NEW j \in i + 1..n + 1, UpAt(queue', left, j)
        PROVE  LossIn(queue', i + 1, j - 1)
    <3>1. i \in 0..n
      BY <1>1
    <3>2. UpAt(q, left, i)
      BY <1>2, <2>2, <3>1
    <3>3. CASE j = n + 1
      <4>1. j - 1 = n
        BY <1>1, <3>3
      <4> QED
        BY <2>1, <3>1, <3>2, <4>1
    <3>4. CASE j # n + 1
      <4>1. j \in i + 1..n
        BY <1>1, <3>4
      <4> QED
        BY <1>4, <2>2, <3>1, <3>2, <4>1
    <3> QED
      BY <3>3, <3>4
  <2> QED
    BY <1>1, <2>2 DEF Alternates
<1> QED
  BY <1>5, <1>6

\* What leads away from Init is the event that the station is up, and nothing else.
LEMMA HandleLeft ==
    ASSUME TypeOK, ControlInv, Handle
    PROVE  Heading' # "Init" => \/ Heading # "Init" /\ Head(queue).op # "wifiDisconnected"
                                \/ Head(queue).op = "wifiConnected"
<1>1. pc = "idle" /\ target = None /\ Heading = state /\ UNCHANGED state /\ None \notin States
  BY HandleQueue DEF ControlInv, Heading, States
<1>2. ASSUME NEW m, Take(m), m.op # "wifiDisconnected", UNCHANGED target
      PROVE  Heading' # "Init" => Heading # "Init" /\ Head(queue).op # "wifiDisconnected"
  BY <1>1, <1>2 DEF Take, Heading
<1>3. ASSUME Transition(ErrorTarget) PROVE Heading' # "Init" => Heading # "Init"
  BY <1>1, <1>3 DEF Transition, Enter, ErrorTarget, Heading
<1>4. CASE HandleWifiConnected
  BY <1>4, MessageOf DEF HandleWifiConnected, Consume, Take
<1>5. CASE HandleWifiDisconnected
  BY <1>1, <1>5 DEF HandleWifiDisconnected, Transition, Enter, Heading
<1>6. CASE HandleError \/ SafeGuardTimer
  BY <1>3, <1>6, MessageOf DEF HandleError, SafeGuardTimer, Consume, Take, OnError
<1>7. CASE HandleTimeReceived \/ HandleSubjectSend \/ ThrottleTimer \/ InitTimer \/ ObtainTimeTimer
  BY <1>2, <1>7, MessageOf DEF HandleTimeReceived, HandleSubjectSend, ThrottleTimer, InitTimer, ObtainTimeTimer,
     Quiet, Consume
<1>8. CASE \E t \in Topics : HandleIncoming(t) \/ HandleSubscribe(t) \/ HandleUnsubscribe(t)
  BY <1>2, <1>8, MessageOf DEF HandleIncoming, HandleSubscribe, HandleUnsubscribe, Consume
<1>9. CASE ActivityTimer
  BY <1>2, <1>3, <1>9, MessageOf DEF ActivityTimer, Consume, Take
<1>10. CASE ReconnectTimer
  <2>1. Take(Msg("timer", "reconnect"))
    BY <1>10 DEF ReconnectTimer, Consume
  <2>2. Head(queue).op # "wifiDisconnected"
    BY <2>1, MessageOf DEF Take
  <2>3. CASE state = "Connecting"
    BY <1>1, <2>2, <2>3
  <2>4. CASE state # "Connecting"
    BY <1>2, <1>10, <2>1, <2>4, MessageOf DEF ReconnectTimer
  <2> QED
    BY <2>3, <2>4
<1> QED
  BY <1>4, <1>5, <1>6, <1>7, <1>8, <1>9, <1>10 DEF Handle

LEMMA LinkStep == "wifiDisconnected" \in Tracked => (TypeOK /\ ControlInv /\ LinkInv /\ [Next]_vars => LinkInv')
<1> SUFFICES ASSUME "wifiDisconnected" \in Tracked, TypeOK, ControlInv, LinkInv, [Next]_vars,
                    "wifiDisconnected" \notin lost'
             PROVE  Alternates(queue, Heading # "Init", link = "up")' /\ pc' # "abortWifiConnected"
  BY DEF LinkInv
<1> DEFINE left == Heading # "Init"
           up == link = "up"
<1>1. CASE Reboot
  <2>1. queue' = <<>> /\ Len(<<>>) = 0 /\ Heading' = "Init" /\ pc' = "idle"
    BY <1>1 DEF Reboot, Heading
  <2> QED
    BY <2>1 DEF Alternates, UpAt
<1>2. CASE UNCHANGED vars
  BY <1>2 DEF vars, LinkInv, Alternates, UpAt, LossIn, Heading
<1>3. ASSUME "wifiDisconnected" \notin lost
      PROVE  Alternates(queue, left, up) /\ pc # "abortWifiConnected"
  BY <1>3 DEF LinkInv
<1>q. QueueOK(queue) /\ lost \subseteq Tracked /\ Len(queue) \in Nat
  BY DEF TypeOK, QueueOK
\* Steps that put something behind the queue, none of it an event that the station is up.
<1>e. ASSUME NEW ops, "wifiConnected" \notin ops, Extended(queue, ops), lost \subseteq lost',
             Heading' # "Init" => Heading # "Init", link = "up" => link' = "up", pc' # "abortWifiConnected"
      PROVE  Alternates(queue, Heading # "Init", link = "up")' /\ pc' # "abortWifiConnected"
  <2>1. Alternates(queue', left, up)
    BY <1>3, <1>e, AlternatesExtended
  <2>2. Alternates(queue', left', up')
    BY <2>1, <1>e, AlternatesWeaker
  <2> QED
    BY <1>e, <2>2
\* Steps after which the station is not up: the loss is in the queue.
<1>d. ASSUME PostTo(queue, <<Msg("wifiDisconnected", None)>>), link' # "up", Heading' = Heading, pc' # "abortWifiConnected"
      PROVE  Alternates(queue, Heading # "Init", link = "up")' /\ pc' # "abortWifiConnected"
  <2>1. /\ QueueOK(queue') /\ lost \subseteq lost'
        /\ \A i \in 1..Len(queue) : queue'[i] = queue[i]
        /\ Len(queue') = Len(queue) + 1 /\ queue'[Len(queue) + 1] = Msg("wifiDisconnected", None)
    BY <1>d, <1>q, PostedOne, MessageOf
  <2>2. Alternates(queue', left, FALSE)
    <3>1. Alternates(queue, left, up) /\ left \in BOOLEAN /\ up \in BOOLEAN
      BY <1>3, <2>1
    <3>2. Msg("wifiDisconnected", None).op = "wifiDisconnected"
      BY MessageOf
    <3> HIDE DEF left, up
    <3> QED
      BY <1>q, <2>1, <3>1, <3>2, AlternatesEvent
  <2>3. Alternates(queue', left', up')
    BY <1>d, <2>2, AlternatesWeaker
  <2> QED
    BY <1>d, <2>3
<1>4. CASE Handle
  <2>1. /\ pc = "idle" /\ queue # <<>> /\ UNCHANGED <<state, link>> /\ target = None /\ Heading = state
        /\ Extended(Tail(queue), {"timeReceived"}) /\ lost \subseteq lost' /\ Alternates(queue, left, up)
    BY <1>3, <1>4, HandleQueue DEF ControlInv, Heading
  <2>2. Alternates(Tail(queue), left', up)
    BY <1>4, <1>q, <2>1, HandleLeft, AlternatesTail
  <2>3. Alternates(queue', left', up')
    BY <2>1, <2>2, AlternatesExtended
  <2>4. ASSUME pc' = "abortWifiConnected" PROVE FALSE
    <3>1. HandleWifiConnected
      BY <1>4, <2>1, <2>4 DEF Handle, HandleWifiDisconnected, HandleError, HandleTimeReceived,
         HandleSubjectSend, HandleIncoming, HandleSubscribe, HandleUnsubscribe, ThrottleTimer,
         ObtainTimeTimer, ActivityTimer, InitTimer, SafeGuardTimer, ReconnectTimer, Transition, Enter, EnterPc,
         ErrorTarget
    <3>2. state # "Init"
      BY <2>4, <3>1 DEF HandleWifiConnected, Transition, Enter, EnterPc
    <3>3. queue[1].op = "wifiConnected" /\ Len(queue) >= 1
      BY <1>q, <2>1, <3>1, TailOK, MessageOf DEF HandleWifiConnected, Consume, Take
    <3>4. UpAt(queue, left, 0) /\ UpAt(queue, left, 1)
      BY <2>1, <3>2, <3>3 DEF UpAt
    <3>5. 0 \in 0..Len(queue) /\ 1 \in 0 + 1..Len(queue) /\ 0 + 1 = 1 /\ 1 - 1 = 0
      BY <1>q, <3>3
    <3>6. LossIn(queue, 1, 0)
      BY <2>1, <3>4, <3>5 DEF Alternates
    <3> QED
      BY <3>6 DEF LossIn
  <2> QED
    BY <2>3, <2>4
<1>5. CASE Continue
  <2>1. Heading' # "Init" => Heading # "Init"
    BY <1>5 DEF Continue, InitStop, InitStart, ConnectOk, ConnectFails, SubscribeTopic, UnsubscribeTopic,
           TimeSubscribed, SubscribeOneDone, TopicsSubscribed, TimeUnsubscribed, TopicsUnsubscribed,
           Disconnect, PublishEnds, Yield, Quiet, Settle, Transition, Enter, Heading, ControlInv, Done, At
  <2>2. pc' # "abortWifiConnected"
    BY <1>5 DEF Continue, InitStop, InitStart, ConnectOk, ConnectFails, SubscribeTopic, UnsubscribeTopic,
           TimeSubscribed, SubscribeOneDone, TopicsSubscribed, TimeUnsubscribed, TopicsUnsubscribed,
           Disconnect, PublishEnds, Yield, Quiet, Settle, Transition, Enter, EnterPc, ControlInv, Done, At
  <2>3. CASE InitStop
    <3>1. Heading' = Heading /\ link' = "stopped"
      BY <2>3 DEF InitStop, StopStation, Quiet, Heading
    <3>2. CASE link = "up"
      BY <1>d, <2>2, <2>3, <3>1, <3>2 DEF InitStop, StopStation
    <3>3. CASE link # "up"
      BY <1>e, <2>1, <2>2, <2>3, <3>3, StopQueue DEF InitStop
    <3> QED
      BY <3>2, <3>3
  <2>4. CASE ~InitStop
    <3>1. link = "up" => link' = "up"
      BY <1>5, <2>4 DEF Continue, InitStart, StartStation, ConnectOk, ConnectFails, SubscribeTopic, UnsubscribeTopic,
           TimeSubscribed, SubscribeOneDone, TopicsSubscribed, TimeUnsubscribed, TopicsUnsubscribed,
           Disconnect, PublishEnds, Yield, Done
    <3> QED
      BY <1>5, <1>e, <2>1, <2>2, <2>4, <3>1, ContinueQueue
  <2> QED
    BY <2>3, <2>4
<1>6. CASE Environment
  <2>1. UNCHANGED <<pc, state, target>> /\ Heading' = Heading /\ Running
    BY <1>6, EnvironmentOutside DEF Outside, Heading
  <2>2. pc' # "abortWifiConnected"
    BY <2>1 DEF Running, Aborts
  <2>3. CASE \/ \E t \in Timers : Expire(t)
             \/ \E op \in Requests, t \in AppTopics : WwcRequest(op, t)
             \/ \E t \in Topics : Delivery(t)
    <3>1. link' = link /\ "wifiConnected" \notin Requests
      BY <2>3 DEF Expire, WwcRequest, Delivery
    <3> QED
      BY <1>e, <2>1, <2>2, <2>3, <3>1, ExpireQueue, RequestQueue, DeliveryQueue
  <2>4. CASE GotIP
    <3>1. ~up /\ up' /\ PostTo(queue, <<Msg("wifiConnected", None)>>)
      BY <2>4 DEF GotIP, Post
    <3>2. /\ QueueOK(queue') /\ lost \subseteq lost'
          /\ \A i \in 1..Len(queue) : queue'[i] = queue[i]
          /\ \/ Len(queue') = Len(queue)
             \/ Len(queue') = Len(queue) + 1 /\ queue'[Len(queue) + 1] = Msg("wifiConnected", None)
      BY <1>q, <3>1, PostedOne, MessageOf
    <3>3. CASE Len(queue') = Len(queue)
      <4>1. queue' = queue
        BY <1>q, <3>2, <3>3, SeqEqual DEF QueueOK
      <4>2. Extended(queue, {})
        BY <1>q, <4>1, ExtendedByNone
      <4> QED
        BY <1>e, <2>1, <2>2, <3>1, <3>2, <4>2
    <3>4. CASE Len(queue') = Len(queue) + 1 /\ queue'[Len(queue) + 1] = Msg("wifiConnected", None)
      <4>1. Alternates(queue', left, TRUE)
        BY <1>3, <1>q, <3>1, <3>2, <3>4, AlternatesEvent, MessageOf
      <4> QED
        BY <2>1, <2>2, <3>1, <4>1
    <3> QED
      BY <3>2, <3>3, <3>4
  <2>5. CASE LinkFails
    BY <1>d, <2>1, <2>2, <2>5 DEF LinkFails, Post
  <2>6. CASE BootStep
    <3>1. CASE StopStation
      <4>1. CASE link = "up"
        BY <1>d, <2>1, <2>2, <3>1, <4>1 DEF StopStation
      <4>2. CASE link # "up"
        BY <1>e, <2>1, <2>2, <3>1, <4>2, StopQueue
      <4> QED
        BY <4>1, <4>2
    <3>2. CASE StartStation /\ UNCHANGED <<queue, lost>>
      <4>1. Extended(queue, {}) /\ (link = "up" => link' = "up")
        BY <1>q, <3>2, ExtendedByNone DEF StartStation
      <4> QED
        BY <1>e, <2>1, <2>2, <3>2, <4>1
    <3>3. CASE PostTo(queue, SetToSeq({Msg("subscribe", t) : t \in AppTopics})) /\ UNCHANGED link
      BY <1>e, <2>1, <2>2, <3>3, BootQueue
    <3> QED
      BY <2>6, <3>1, <3>2, <3>3 DEF BootStep
  <2> QED
    BY <1>6, <2>3, <2>4, <2>5, <2>6 DEF Environment
<1> QED
  BY <1>1, <1>2, <1>4, <1>5, <1>6 DEF Next

\* The device restarts in wifiConnected of Connecting or Connected only if a wifiDisconnected
\* message was dropped at a full queue, however long the queue is and whatever else is in it.
THEOREM WifiAbortsAfterLoss == ASSUME "wifiDisconnected" \in Tracked PROVE Spec => []WifiAbortOnlyAfterLoss
<1>1. Init => LinkInv
  <2> SUFFICES ASSUME Init PROVE LinkInv
    OBVIOUS
  <2>1. queue = <<>> /\ Len(<<>>) = 0 /\ Heading = "Init" /\ pc = "idle"
    BY DEF Init, Heading
  <2> QED
    BY <2>1 DEF LinkInv, Alternates, UpAt
<1>2. LinkInv => WifiAbortOnlyAfterLoss
  BY DEF LinkInv, WifiAbortOnlyAfterLoss
<1>3. TypeOK /\ ControlInv /\ LinkInv /\ [Next]_vars => LinkInv'
  BY LinkStep
<1> QED
  BY <1>1, <1>2, <1>3, ControlAlways, PTL DEF Spec
=============================================================================

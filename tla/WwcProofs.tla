------------------------------- MODULE WwcProofs -------------------------------
(***************************************************************************)
(* What module Wwc guarantees for every day, every set of documents and    *)
(* every length of the queues.                                             *)
(***************************************************************************)
EXTENDS Wwc, SequenceTheorems, TLAPS

USE DayAssumption, DefaultsAssumption, DocsAssumption, NumberAssumption,
    HeapAssumption, TimeAssumption, SizesAssumption

-----------------------------------------------------------------------------
(* Facts about the queue.                                                  *)

\* Taking a request shifts the others.
LEMMA TailFacts ==
    ASSUME NEW S, NEW q \in Seq(S), q # <<>>
    PROVE  /\ Head(q) \in S
           /\ Head(q) = q[1]
           /\ Len(q) \in Nat \ {0}
           /\ Tail(q) \in Seq(S)
           /\ Len(Tail(q)) = Len(q) - 1
           /\ \A i \in 1..Len(q) - 1 : Tail(q)[i] = q[i + 1]
  BY HeadTailProperties, EmptySeq, LenProperties

\* Posting appends the first k of some requests: all of them, or as many as the
\* queue has room for, and then the kinds of the others are noted.
LEMMA PostFacts ==
    ASSUME queue \in Seq(Requests), Len(queue) <= QueueSize,
           NEW rs \in Seq(Requests), Post(rs)
    PROVE  /\ queue' \in Seq(Requests)
           /\ Len(queue') <= QueueSize
           /\ lost \subseteq lost'
           /\ \E k \in 0..Len(rs) :
                 /\ Len(queue') = Len(queue) + k
                 /\ \A i \in 1..Len(queue) : queue'[i] = queue[i]
                 /\ \A i \in 1..k : queue'[Len(queue) + i] = rs[i]
                 /\ k < Len(rs) => k = QueueSize - Len(queue)
                 /\ \A i \in k + 1..Len(rs) : rs[i].op \in Tracked => rs[i].op \in lost'
<1>. DEFINE room == QueueSize - Len(queue)
            k    == IF Len(rs) <= room THEN Len(rs) ELSE room
            head == SubSeq(rs, 1, k)
<1>1. Len(queue) \in Nat /\ Len(rs) \in Nat
  BY LenProperties
<1>2. k \in 0..Len(rs) /\ k <= room /\ (k < Len(rs) => k = room)
  BY <1>1
<1>3. \A i \in 1..k : rs[i] \in Requests
  BY <1>1, <1>2, ElementOfSeq
<1>4. head \in Seq(Requests) /\ Len(head) = k /\ \A i \in 1..k : head[i] = rs[i]
  <2>1. k \in Int /\ k >= 0 /\ 1 \in Int
    BY <1>1, <1>2
  <2>2. /\ head \in Seq(Requests)
        /\ Len(head) = IF 1 <= k THEN k - 1 + 1 ELSE 0
        /\ \A i \in 1..k - 1 + 1 : head[i] = rs[1 + i - 1]
    <3>. HIDE DEF k
    <3>. QED  BY <1>3, <2>1, SubSeqProperties
  <2>. HIDE DEF k, head
  <2>. QED  BY <2>1, <2>2
<1>5. queue' = queue \o head
  BY DEF Post
<1>6. lost' = lost \cup (Tracked \cap {rs[i].op : i \in k + 1..Len(rs)})
  BY DEF Post
<1>7. /\ queue \o head \in Seq(Requests)
      /\ Len(queue \o head) = Len(queue) + k
      /\ \A i \in 1..Len(queue) + k :
            (queue \o head)[i] = IF i <= Len(queue) THEN queue[i] ELSE head[i - Len(queue)]
  <2>1. queue \in Seq(Requests) /\ head \in Seq(Requests) /\ Len(head) = k
    BY <1>4
  <2>. HIDE DEF k, head
  <2>2. /\ queue \o head \in Seq(Requests)
        /\ Len(queue \o head) = Len(queue) + Len(head)
        /\ \A i \in 1..Len(queue) + Len(head) :
              (queue \o head)[i] = IF i <= Len(queue) THEN queue[i] ELSE head[i - Len(queue)]
    BY <2>1, ConcatProperties
  <2>. QED  BY <2>1, <2>2
<1>. HIDE DEF k, head
<1>8. /\ \A i \in 1..Len(queue) : queue'[i] = queue[i]
      /\ \A i \in 1..k : queue'[Len(queue) + i] = rs[i]
  BY <1>1, <1>2, <1>4, <1>5, <1>7
<1>9. Len(queue') <= QueueSize
  BY <1>1, <1>2, <1>5, <1>7
<1>10. \A i \in k + 1..Len(rs) : rs[i].op \in Tracked => rs[i].op \in lost'
  BY <1>6
<1>. QED  BY <1>2, <1>5, <1>6, <1>7, <1>8, <1>9, <1>10

\* What the timers and the MQTT object post are requests.
LEMMA PostedRequests ==
    /\ \A a \in Alarms : <<Request("controlOnTmr")>> \o a \in Seq(Requests)
    /\ \A a \in Alarms : /\ Len(<<Request("controlOnTmr")>> \o a) \in {1, 2}
                         /\ (<<Request("controlOnTmr")>> \o a)[1] = Request("controlOnTmr")
                         /\ \A i \in 1..Len(<<Request("controlOnTmr")>> \o a) :
                               (<<Request("controlOnTmr")>> \o a)[i].op # "led"
    /\ <<Request("onTimeUpdate"), Led(TRUE)>> \in Seq(Requests)
    /\ <<Led(FALSE)>> \in Seq(Requests)
    /\ \A op \in DocOps, d \in Docs : <<WithDoc(op, d)>> \in Seq(Requests)
<1>1. /\ Request("controlOnTmr") \in Requests /\ Request("onReportStatus") \in Requests
      /\ Request("onDebugTmr") \in Requests /\ Request("onTimeUpdate") \in Requests
      /\ Led(TRUE) \in Requests /\ Led(FALSE) \in Requests
      /\ \A op \in DocOps, d \in Docs : WithDoc(op, d) \in Requests
  BY DEF Requests, Request, Led, WithDoc, DocOps
<1>2. /\ <<Request("onTimeUpdate"), Led(TRUE)>> \in Seq(Requests)
      /\ <<Led(FALSE)>> \in Seq(Requests)
      /\ \A op \in DocOps, d \in Docs : <<WithDoc(op, d)>> \in Seq(Requests)
      /\ <<Request("controlOnTmr")>> \in Seq(Requests)
  <2>1. \A x \in Requests : <<x>> \in Seq(Requests)
    OBVIOUS
  <2>2. \A x, y \in Requests : <<x, y>> \in Seq(Requests)
    OBVIOUS
  <2>. QED  BY <1>1, <2>1, <2>2, Zenon
<1>3. ASSUME NEW a \in Alarms
      PROVE  /\ a \in Seq(Requests) /\ Len(a) \in {0, 1}
             /\ \A i \in 1..Len(a) : a[i].op # "led"
  <2>1. CASE a = <<>>
    BY <2>1, EmptySeq
  <2>2. ASSUME NEW x \in Requests, a = <<x>>, x.op # "led"
        PROVE  /\ a \in Seq(Requests) /\ Len(a) = 1
               /\ \A i \in 1..Len(a) : a[i].op # "led"
    BY <2>2
  <2>3. /\ Request("onReportStatus").op # "led"
        /\ Request("onDebugTmr").op # "led"
    BY DEF Request
  <2>. QED  BY <1>1, <1>3, <2>1, <2>2, <2>3 DEF Alarms
<1>4. ASSUME NEW a \in Alarms
      PROVE  /\ <<Request("controlOnTmr")>> \o a \in Seq(Requests)
             /\ Len(<<Request("controlOnTmr")>> \o a) \in {1, 2}
             /\ (<<Request("controlOnTmr")>> \o a)[1] = Request("controlOnTmr")
             /\ \A i \in 1..Len(<<Request("controlOnTmr")>> \o a) :
                    (<<Request("controlOnTmr")>> \o a)[i].op # "led"
  <2>. DEFINE c == <<Request("controlOnTmr")>>
  <2>1. c \in Seq(Requests) /\ Len(c) = 1 /\ c[1] = Request("controlOnTmr") /\ c[1].op # "led"
    BY <1>2 DEF Request
  <2>2. /\ c \o a \in Seq(Requests)
        /\ Len(c \o a) = 1 + Len(a)
        /\ \A i \in 1..1 + Len(a) : (c \o a)[i] = IF i <= 1 THEN c[i] ELSE a[i - 1]
    <3>1. a \in Seq(Requests) /\ Len(a) \in Nat
      BY <1>3, <1>4
    <3>2. c \in Seq(Requests) /\ Len(c) = 1
      BY <2>1
    <3>. HIDE DEF c
    <3>3. /\ c \o a \in Seq(Requests)
          /\ Len(c \o a) = Len(c) + Len(a)
          /\ \A i \in 1..Len(c) + Len(a) : (c \o a)[i] = IF i <= Len(c) THEN c[i] ELSE a[i - Len(c)]
      BY <3>1, <3>2, ConcatProperties
    <3>. QED  BY <3>2, <3>3
  <2>. HIDE DEF c
  <2>3. Len(c \o a) \in {1, 2} /\ (c \o a)[1] = c[1]
    BY <2>2, <1>3
  <2>4. \A i \in 1..Len(c \o a) : (c \o a)[i].op # "led"
    BY <2>1, <2>2, <1>3
  <2>. QED  BY <2>1, <2>2, <2>3, <2>4 DEF c
<1>. QED  BY <1>2, <1>4

-----------------------------------------------------------------------------
(* Type correctness.                                                       *)

\* A legal set of parameters stays legal, whatever document is received.
LEMMA ReceivedLegal ==
    ASSUME NEW p \in Params, NEW d \in Docs
    PROVE  Received(p, d) \in Params
<1>1. p \in [Fields -> Int] /\ \A f \in DOMAIN Least : p[f] >= Least[f]
  BY DEF Params
<1>2. \A f \in DOMAIN d : d[f] \in Int \cup {NotANumber}
  OBVIOUS
<1>3. ASSUME NEW f \in Fields
      PROVE  /\ Received(p, d)[f] \in Int
             /\ f \in DOMAIN Least => Received(p, d)[f] >= Least[f]
  <2>1. CASE f \in DOMAIN d /\ Accepts(f, d[f])
    BY <1>2, <2>1 DEF Received, Accepts
  <2>2. CASE ~(f \in DOMAIN d /\ Accepts(f, d[f]))
    BY <1>1, <2>2 DEF Received
  <2>. QED  BY <2>1, <2>2
<1>4. Received(p, d) \in [Fields -> Int]
  BY <1>3 DEF Received
<1>5. DOMAIN Least \subseteq Fields
  BY DEF Fields
<1>. QED  BY <1>3, <1>4, <1>5 DEF Params

\* Publishing keeps the type of the outbox.
LEMMA SubjectSendType ==
    ASSUME outbox \in Seq(Publishable), Len(outbox) <= OutSize,
           NEW m \in Publishable, SubjectSend(m)
    PROVE  /\ outbox' \in Seq(Publishable)
           /\ Len(outbox') <= OutSize
           /\ Len(outbox') > Len(outbox) => outbox'[Len(outbox')] = m
<1>1. Len(outbox) \in Nat
  BY LenProperties
<1>2. CASE Len(outbox) < OutSize
  BY <1>1, <1>2, AppendProperties DEF SubjectSend
<1>3. CASE ~(Len(outbox) < OutSize)
  BY <1>1, <1>3 DEF SubjectSend
<1>. QED  BY <1>2, <1>3

\* A boot brings every variable to its type.
LEMMA RestartType ==
    ASSUME TypeOK, Restart
    PROVE  TypeOK'
<1>1. /\ queue' = <<>> /\ params' = Defaults /\ outbox' = <<>> /\ pins' = BootPins
      /\ areation' = FALSE /\ circulation' = FALSE /\ heap' \in Heaps /\ led' = FALSE
      /\ now' \in {0, now} /\ online' = FALSE /\ clockSet' = FALSE
  BY DEF Restart
<1>2. <<>> \in Seq(Requests) /\ Len(<<>>) = 0 /\ <<>> \in Seq(Publishable)
  BY EmptySeq
<1>3. BootPins \in [{"areation", "circulation"} -> {0, 1}]
  BY DEF BootPins
<1>4. /\ queue' \in Seq(Requests) /\ Len(queue') <= QueueSize
      /\ outbox' \in Seq(Publishable) /\ Len(outbox') <= OutSize
  BY <1>1, <1>2
<1>5. params' \in Params /\ now' \in Nat
  BY <1>1 DEF TypeOK
<1>. QED  BY <1>1, <1>3, <1>4, <1>5 DEF TypeOK

\* Every variable keeps its type; the divisor of the schedule is positive and
\* no queue exceeds its length.
THEOREM TypeCorrect == Spec => []TypeOK
<1>1. Init => TypeOK
  <2>1. <<>> \in Seq(Requests) /\ Len(<<>>) = 0 /\ <<>> \in Seq(Publishable)
    BY EmptySeq
  <2>2. BootPins \in [{"areation", "circulation"} -> {0, 1}]
    BY DEF BootPins
  <2> SUFFICES ASSUME Init  PROVE TypeOK
    OBVIOUS
  <2>3. /\ queue \in Seq(Requests) /\ Len(queue) <= QueueSize
        /\ outbox \in Seq(Publishable) /\ Len(outbox) <= OutSize
    BY <2>1 DEF Init
  <2>4. params \in Params /\ now \in Nat
    BY DEF Init
  <2>. QED  BY <2>2, <2>3, <2>4 DEF Init, TypeOK
<1>2. TypeOK /\ [Next]_vars => TypeOK'
  <2> SUFFICES ASSUME TypeOK, [Next]_vars  PROVE TypeOK'
    OBVIOUS
  <2>0. queue # <<>> => /\ Head(queue) \in Requests
                        /\ Tail(queue) \in Seq(Requests) /\ Len(Tail(queue)) <= QueueSize
    BY TailFacts DEF TypeOK
  <2>1. ASSUME NEW h \in Heaps, ControlOnTmr(h)  PROVE TypeOK'
    <3>1. CASE Restart
      BY <3>1, RestartType
    <3>2. CASE ~Restart
      <4>1. /\ heap' = h
            /\ areation' = Areation(now, params) /\ circulation' = Circulation(now, params)
            /\ pins' = [areation |-> Bool(~areation'), circulation |-> Bool(circulation')]
            /\ queue # <<>> /\ queue' = Tail(queue)
            /\ UNCHANGED <<params, outbox, led, world>>
        BY <2>1, <3>2 DEF ControlOnTmr
      <4>2. areation' \in BOOLEAN /\ circulation' \in BOOLEAN
        BY <4>1 DEF Areation, Circulation
      <4>3. pins' \in [{"areation", "circulation"} -> {0, 1}]
        BY <4>1 DEF Bool
      <4>. QED  BY <2>0, <4>1, <4>2, <4>3 DEF TypeOK, world
    <3>. QED  BY <3>1, <3>2
  <2>2. CASE OnReportStatus
    <3>1. Status(areation, circulation) \in Publishable
      BY DEF Publishable, Status, TypeOK
    <3>2. outbox' \in Seq(Publishable) /\ Len(outbox') <= OutSize
      BY <2>2, <3>1, SubjectSendType DEF OnReportStatus, TypeOK
    <3>. QED  BY <2>0, <2>2, <3>2 DEF OnReportStatus, Take, TypeOK, control, world
  <2>3. CASE OnDebugTmr
    BY <2>0, <2>3 DEF OnDebugTmr, Take, TypeOK, control, world
  <2>4. ASSUME queue # <<>>, Head(queue).op \in DocOps, ProcessReceivedParameters
        PROVE  params' \in Params
    <3>1. Head(queue).doc \in Docs
      BY <2>0, <2>4 DEF Requests, DocOps
    <3>. QED  BY <2>4, <3>1, ReceivedLegal DEF ProcessReceivedParameters, TypeOK
  <2>5. CASE OnShadow
    <3>1. params' \in Params
      BY <2>4, <2>5 DEF OnShadow, Take, DocOps
    <3>2. ShadowOf(params') \in Publishable
      BY <3>1 DEF Publishable, ShadowOf
    <3>3. outbox' \in Seq(Publishable) /\ Len(outbox') <= OutSize
      BY <2>5, <3>2, SubjectSendType DEF OnShadow, TypeOK
    <3>. QED  BY <2>0, <2>5, <3>1, <3>3 DEF OnShadow, Take, ProcessReceivedParameters, TypeOK
  <2>6. CASE OnControl
    <3>1. params' \in Params
      BY <2>4, <2>6 DEF OnControl, Take, DocOps
    <3>2. Status(areation, circulation) \in Publishable
      BY DEF Publishable, Status, TypeOK
    <3>3. outbox' \in Seq(Publishable) /\ Len(outbox') <= OutSize
      BY <2>6, <3>2, SubjectSendType DEF OnControl, TypeOK
    <3>. QED  BY <2>0, <2>6, <3>1, <3>3 DEF OnControl, Take, ProcessReceivedParameters, TypeOK
  <2>7. CASE OnLed
    <3>1. Head(queue).connected \in BOOLEAN
      BY <2>0, <2>7 DEF OnLed, Take, Requests, DocOps
    <3>. QED  BY <2>0, <2>7, <3>1 DEF OnLed, Take, TypeOK, control, world
  <2>8. ASSUME NEW a \in Alarms, Tick(a)  PROVE TypeOK'
    <3>1. queue' \in Seq(Requests) /\ Len(queue') <= QueueSize
      BY <2>8, PostFacts, PostedRequests DEF Tick, TypeOK
    <3>. QED  BY <2>8, <3>1 DEF Tick, TypeOK, control
  <2>9. ASSUME NEW t \in Times, Connected(t)  PROVE TypeOK'
    <3>1. queue' \in Seq(Requests) /\ Len(queue') <= QueueSize
      BY <2>9, PostFacts, PostedRequests DEF Connected, TypeOK
    <3>. QED  BY <2>9, <3>1 DEF Connected, TypeOK, control
  <2>10. CASE Disconnected
    <3>1. queue' \in Seq(Requests) /\ Len(queue') <= QueueSize
      BY <2>10, PostFacts, PostedRequests DEF Disconnected, TypeOK
    <3>. QED  BY <2>10, <3>1 DEF Disconnected, TypeOK, control
  <2>11. ASSUME NEW op \in DocOps, NEW d \in Docs, Arrive(op, d)  PROVE TypeOK'
    <3>1. queue' \in Seq(Requests) /\ Len(queue') <= QueueSize
      BY <2>11, PostFacts, PostedRequests DEF Arrive, TypeOK
    <3>. QED  BY <2>11, <3>1 DEF Arrive, TypeOK, control, world
  <2>12. CASE Publish
    <3>1. outbox' \in Seq(Publishable) /\ Len(outbox') <= OutSize
      BY <2>12, TailFacts DEF Publish, TypeOK
    <3>. QED  BY <2>12, <3>1 DEF Publish, TypeOK, control, world
  <2>13. CASE UNCHANGED vars
    BY <2>13 DEF vars, TypeOK, control, world
  <2>. QED
    BY <2>1, <2>2, <2>3, <2>5, <2>6, <2>7, <2>8, <2>9, <2>10, <2>11, <2>12, <2>13
       DEF Next, Task, Others
<1>. QED  BY <1>1, <1>2, PTL DEF Spec

-----------------------------------------------------------------------------
(* The LED.                                                                *)

\* No request for the LED is among the requests of q.
NoLed(q) == \A i \in 1..Len(q) : q[i].op # "led"

\* The youngest request for the LED in q is r.
LastLed(q, r) ==
    \E i \in 1..Len(q) : q[i] = r /\ \A j \in i + 1..Len(q) : q[j].op # "led"

\* The inductive form of LedTruth: it is the youngest request that counts.
LedInv ==
    \/ "led" \in lost
    \/ NoLed(queue) /\ led = online
    \/ LastLed(queue, Led(online))

\* Posting requests that are not for the LED does not disturb it.
LEMMA LedPost ==
    ASSUME TypeOK, LedInv, NEW rs \in Seq(Requests), Post(rs), NoLed(rs),
           led' = led, online' = online
    PROVE  LedInv'
<1>1. PICK k \in 0..Len(rs) :
          /\ Len(queue') = Len(queue) + k
          /\ \A i \in 1..Len(queue) : queue'[i] = queue[i]
          /\ \A i \in 1..k : queue'[Len(queue) + i] = rs[i]
  BY PostFacts DEF TypeOK
<1>2. lost \subseteq lost'
  BY PostFacts DEF TypeOK
<1>3. Len(queue) \in Nat /\ Len(rs) \in Nat
  BY LenProperties DEF TypeOK
<1>4. \A i \in Len(queue) + 1..Len(queue') : queue'[i].op # "led"
  <2> SUFFICES ASSUME NEW i \in Len(queue) + 1..Len(queue')  PROVE queue'[i].op # "led"
    OBVIOUS
  <2>1. i - Len(queue) \in 1..k /\ i - Len(queue) \in 1..Len(rs)
        /\ Len(queue) + (i - Len(queue)) = i
    BY <1>1, <1>3
  <2>2. queue'[i] = rs[i - Len(queue)]
    BY <1>1, <2>1
  <2>. QED  BY <2>1, <2>2 DEF NoLed
<1>5. CASE "led" \in lost
  BY <1>2, <1>5 DEF LedInv
<1>6. CASE NoLed(queue) /\ led = online
  <2>1. NoLed(queue')
    BY <1>1, <1>3, <1>4, <1>6 DEF NoLed
  <2>. QED  BY <1>6, <2>1 DEF LedInv
<1>7. CASE LastLed(queue, Led(online))
  <2>1. PICK i \in 1..Len(queue) :
            queue[i] = Led(online) /\ \A j \in i + 1..Len(queue) : queue[j].op # "led"
    BY <1>7 DEF LastLed
  <2>2. i \in 1..Len(queue') /\ queue'[i] = Led(online')
    BY <1>1, <1>3, <2>1
  <2>3. ASSUME NEW j \in i + 1..Len(queue')  PROVE queue'[j].op # "led"
    <3>1. CASE j \in Len(queue) + 1..Len(queue')
      BY <1>4, <3>1
    <3>2. CASE j \notin Len(queue) + 1..Len(queue')
      <4>1. j \in i + 1..Len(queue) /\ j \in 1..Len(queue)
        BY <1>1, <1>3, <3>2
      <4>2. queue'[j] = queue[j] /\ queue[j].op # "led"
        BY <1>1, <2>1, <4>1
      <4>. QED  BY <4>2
    <3>. QED  BY <3>1, <3>2
  <2>. QED  BY <2>2, <2>3 DEF LedInv, LastLed
<1>. QED  BY <1>5, <1>6, <1>7 DEF LedInv

\* Posting a request for the LED last makes it the one that counts, or it is
\* lost.
LEMMA LedAsked ==
    ASSUME TypeOK, NEW rs \in Seq(Requests), rs # <<>>, Post(rs),
           rs[Len(rs)] = Led(online')
    PROVE  LedInv'
<1>1. PICK k \in 0..Len(rs) :
          /\ Len(queue') = Len(queue) + k
          /\ \A i \in 1..k : queue'[Len(queue) + i] = rs[i]
          /\ \A i \in k + 1..Len(rs) : rs[i].op \in Tracked => rs[i].op \in lost'
  BY PostFacts DEF TypeOK
<1>2. Len(queue) \in Nat /\ Len(rs) \in Nat \ {0}
  BY LenProperties, EmptySeq DEF TypeOK
<1>3. CASE k = Len(rs)
  <2>1. /\ Len(queue') = Len(queue) + Len(rs)
        /\ Len(queue') \in 1..Len(queue')
        /\ queue'[Len(queue')] = Led(online')
    BY <1>1, <1>2, <1>3
  <2>2. \A j \in Len(queue') + 1..Len(queue') : queue'[j].op # "led"
    BY <2>1
  <2>. QED  BY <2>1, <2>2 DEF LedInv, LastLed
<1>4. CASE k # Len(rs)
  <2>1. Len(rs) \in k + 1..Len(rs) /\ rs[Len(rs)].op = "led"
    BY <1>1, <1>2, <1>4 DEF Led
  <2>. QED  BY <1>1, <2>1 DEF LedInv, Tracked
<1>. QED  BY <1>3, <1>4

\* Taking a request that is not for the LED does not disturb it.
LEMMA LedTake ==
    ASSUME TypeOK, LedInv, queue # <<>>, Head(queue).op # "led",
           queue' = Tail(queue), lost' = lost, led' = led, online' = online
    PROVE  LedInv'
<1>1. /\ Head(queue) = queue[1]
      /\ Len(queue) \in Nat \ {0}
      /\ Len(queue') = Len(queue) - 1
      /\ \A i \in 1..Len(queue) - 1 : queue'[i] = queue[i + 1]
  BY TailFacts DEF TypeOK
<1>2. CASE "led" \in lost
  BY <1>2 DEF LedInv
<1>3. CASE NoLed(queue) /\ led = online
  <2>1. NoLed(queue')
    BY <1>1, <1>3 DEF NoLed
  <2>. QED  BY <1>3, <2>1 DEF LedInv
<1>4. CASE LastLed(queue, Led(online))
  <2>1. PICK i \in 1..Len(queue) :
            queue[i] = Led(online) /\ \A j \in i + 1..Len(queue) : queue[j].op # "led"
    BY <1>4 DEF LastLed
  <2>2. i # 1
    BY <1>1, <2>1 DEF Led
  <2>3. i - 1 \in 1..Len(queue') /\ queue'[i - 1] = Led(online')
    BY <1>1, <2>1, <2>2
  <2>4. \A j \in i - 1 + 1..Len(queue') : queue'[j].op # "led"
    BY <1>1, <2>1
  <2>. QED  BY <2>3, <2>4 DEF LedInv, LastLed
<1>. QED  BY <1>2, <1>3, <1>4 DEF LedInv

\* The LED object was told the current state of the connection, or will be,
\* unless a request for it was dropped.
THEOREM LedCorrect == Spec => []LedTruth
<1>1. Init => LedInv
  <2>1. NoLed(<<>>)
    BY EmptySeq DEF NoLed
  <2>. QED  BY <2>1 DEF Init, LedInv
<1>2. TypeOK /\ LedInv /\ [Next]_vars => LedInv'
  <2> SUFFICES ASSUME TypeOK, LedInv, [Next]_vars  PROVE LedInv'
    OBVIOUS
  <2>1. ASSUME NEW h \in Heaps, ControlOnTmr(h)  PROVE LedInv'
    <3>1. CASE Restart
      <4>1. queue' = <<>> /\ led' = FALSE /\ online' = FALSE
        BY <3>1 DEF Restart
      <4>2. NoLed(<<>>)
        BY EmptySeq DEF NoLed
      <4>. QED  BY <4>1, <4>2 DEF LedInv
    <3>2. CASE ~Restart
      BY <2>1, <3>2, LedTake DEF ControlOnTmr, world
    <3>. QED  BY <3>1, <3>2
  <2>2. CASE OnReportStatus \/ OnDebugTmr
    BY <2>2, LedTake DEF OnReportStatus, OnDebugTmr, Take, world
  <2>3. CASE OnShadow \/ OnControl
    BY <2>3, LedTake DEF OnShadow, OnControl, Take, ProcessReceivedParameters
  <2>4. CASE OnLed
    <3>1. /\ Head(queue) = queue[1]
          /\ Len(queue) \in Nat \ {0}
          /\ Len(queue') = Len(queue) - 1
          /\ \A i \in 1..Len(queue) - 1 : queue'[i] = queue[i + 1]
      BY <2>4, TailFacts DEF TypeOK, OnLed, Take
    <3>2. /\ led' = queue[1].connected /\ queue[1].op = "led"
          /\ lost' = lost /\ online' = online
      BY <2>4, <3>1 DEF OnLed, Take, world
    <3>3. CASE "led" \in lost
      BY <3>2, <3>3 DEF LedInv
    <3>4. CASE NoLed(queue)
      BY <3>1, <3>2, <3>4 DEF NoLed
    <3>5. CASE LastLed(queue, Led(online))
      <4>1. PICK i \in 1..Len(queue) :
                queue[i] = Led(online) /\ \A j \in i + 1..Len(queue) : queue[j].op # "led"
        BY <3>5 DEF LastLed
      <4>2. CASE i = 1
        <5>1. led' = online'
          BY <3>2, <4>1, <4>2 DEF Led
        <5>2. NoLed(queue')
          BY <3>1, <4>1, <4>2 DEF NoLed
        <5>. QED  BY <5>1, <5>2 DEF LedInv
      <4>3. CASE i # 1
        <5>1. i - 1 \in 1..Len(queue') /\ queue'[i - 1] = Led(online')
          BY <3>1, <3>2, <4>1, <4>3
        <5>2. \A j \in i - 1 + 1..Len(queue') : queue'[j].op # "led"
          BY <3>1, <4>1
        <5>. QED  BY <5>1, <5>2 DEF LedInv, LastLed
      <4>. QED  BY <4>2, <4>3
    <3>. QED  BY <3>3, <3>4, <3>5 DEF LedInv
  <2>5. ASSUME NEW a \in Alarms, Tick(a)  PROVE LedInv'
    <3>1. NoLed(<<Request("controlOnTmr")>> \o a)
      BY PostedRequests DEF NoLed
    <3>. QED  BY <2>5, <3>1, LedPost, PostedRequests DEF Tick
  <2>6. ASSUME NEW t \in Times, Connected(t)  PROVE LedInv'
    <3>. DEFINE rs == <<Request("onTimeUpdate"), Led(TRUE)>>
    <3>1. rs # <<>> /\ rs[Len(rs)] = Led(TRUE)
      OBVIOUS
    <3>2. rs \in Seq(Requests)
      BY PostedRequests
    <3>3. Post(rs) /\ online' = TRUE
      BY <2>6 DEF Connected
    <3>. HIDE DEF rs
    <3>. QED  BY <3>1, <3>2, <3>3, LedAsked
  <2>7. CASE Disconnected
    <3>. DEFINE rs == <<Led(FALSE)>>
    <3>1. rs # <<>> /\ rs[Len(rs)] = Led(FALSE)
      OBVIOUS
    <3>2. rs \in Seq(Requests)
      BY PostedRequests
    <3>3. Post(rs) /\ online' = FALSE
      BY <2>7 DEF Disconnected
    <3>. HIDE DEF rs
    <3>. QED  BY <3>1, <3>2, <3>3, LedAsked
  <2>8. ASSUME NEW op \in DocOps, NEW d \in Docs, Arrive(op, d)  PROVE LedInv'
    <3>. DEFINE rs == <<WithDoc(op, d)>>
    <3>1. NoLed(rs)
      BY DEF NoLed, WithDoc, DocOps
    <3>2. rs \in Seq(Requests)
      BY PostedRequests
    <3>3. Post(rs) /\ led' = led /\ online' = online
      BY <2>8 DEF Arrive, world
    <3>. HIDE DEF rs
    <3>. QED  BY <3>1, <3>2, <3>3, LedPost
  <2>9. CASE Publish \/ UNCHANGED vars
    <3>1. UNCHANGED <<queue, lost, led, online>>
      BY <2>9 DEF Publish, vars, world
    <3>. QED  BY <3>1 DEF LedInv, NoLed, LastLed
  <2>. QED
    BY <2>1, <2>2, <2>3, <2>4, <2>5, <2>6, <2>7, <2>8, <2>9 DEF Next, Task, Others
<1>3. LedInv => LedTruth
  <2>1. LastLed(queue, Led(online)) => \E i \in 1..Len(queue) : queue[i] = Led(online)
    BY DEF LastLed
  <2>. QED  BY <2>1 DEF LedInv, LedTruth
<1>. QED  BY <1>1, <1>2, <1>3, TypeCorrect, PTL DEF Spec

-----------------------------------------------------------------------------
(* The status messages.                                                    *)

Controls == {"controlOnTmr", "onTimeUpdate"}
Reports  == {"onReportStatus", "onControl"}

\* The outputs are what the flags say.
Shown == pins.areation = Bool(~areation) /\ pins.circulation = Bool(circulation)

NoReport(q) == \A i \in 1..Len(q) : q[i].op \notin Reports

\* A control run comes before any request that reports the state of the pumps.
ControlFirst(q) ==
    \E i \in 1..Len(q) : q[i].op \in Controls /\ \A j \in 1..i - 1 : q[j].op \notin Reports

\* The inductive form of StatusTruthful: until the first control run nothing
\* that reports comes first.
StatusInv ==
    \/ Shown
    \/ "onTimeUpdate" \in lost
    \/ ControlFirst(queue)
    \/ ~clockSet /\ NoReport(queue)

\* Posting keeps a pending control run, and what was lost stays lost.
LEMMA StatusPost ==
    ASSUME TypeOK, NEW rs \in Seq(Requests), Post(rs),
           UNCHANGED <<areation, circulation, pins>>,
           Shown \/ "onTimeUpdate" \in lost \/ ControlFirst(queue)
    PROVE  StatusInv'
<1>1. PICK k \in 0..Len(rs) :
          /\ Len(queue') = Len(queue) + k
          /\ \A i \in 1..Len(queue) : queue'[i] = queue[i]
  BY PostFacts DEF TypeOK
<1>2. lost \subseteq lost'
  BY PostFacts DEF TypeOK
<1>3. Len(queue) \in Nat
  BY LenProperties DEF TypeOK
<1>4. CASE Shown
  BY <1>4 DEF StatusInv, Shown
<1>5. CASE "onTimeUpdate" \in lost
  BY <1>2, <1>5 DEF StatusInv
<1>6. CASE ControlFirst(queue)
  <2>1. PICK i \in 1..Len(queue) :
            queue[i].op \in Controls /\ \A j \in 1..i - 1 : queue[j].op \notin Reports
    BY <1>6 DEF ControlFirst
  <2>2. i \in 1..Len(queue') /\ queue'[i].op \in Controls
    BY <1>1, <1>3, <2>1
  <2>3. \A j \in 1..i - 1 : queue'[j].op \notin Reports
    BY <1>1, <1>3, <2>1
  <2>. QED  BY <2>2, <2>3 DEF StatusInv, ControlFirst
<1>. QED  BY <1>4, <1>5, <1>6

\* Posting a control run first, behind requests that do not report, brings it
\* into the queue before any report, or it is lost.
LEMMA StatusControl ==
    ASSUME TypeOK, NoReport(queue), NEW rs \in Seq(Requests), rs # <<>>, Post(rs),
           rs[1].op \in Controls,
           rs[1].op = "onTimeUpdate" \/ queue = <<>>
    PROVE  StatusInv'
<1>1. PICK k \in 0..Len(rs) :
          /\ Len(queue') = Len(queue) + k
          /\ \A i \in 1..Len(queue) : queue'[i] = queue[i]
          /\ \A i \in 1..k : queue'[Len(queue) + i] = rs[i]
          /\ k < Len(rs) => k = QueueSize - Len(queue)
          /\ \A i \in k + 1..Len(rs) : rs[i].op \in Tracked => rs[i].op \in lost'
  BY PostFacts DEF TypeOK
<1>2. Len(queue) \in Nat /\ Len(rs) \in Nat \ {0}
  BY LenProperties, EmptySeq DEF TypeOK
<1>3. CASE k = 0
  <2>1. queue # <<>>
    BY <1>1, <1>2, <1>3, EmptySeq
  <2>2. 1 \in k + 1..Len(rs) /\ rs[1].op = "onTimeUpdate"
    BY <1>2, <1>3, <2>1
  <2>. QED  BY <1>1, <2>2 DEF StatusInv, Tracked
<1>4. CASE k # 0
  <2>. DEFINE i == Len(queue) + 1
  <2>1. i \in 1..Len(queue') /\ queue'[i] = rs[1]
    BY <1>1, <1>2, <1>4
  <2>2. \A j \in 1..i - 1 : queue'[j].op \notin Reports
    BY <1>1, <1>2 DEF NoReport
  <2>. QED  BY <2>1, <2>2 DEF StatusInv, ControlFirst
<1>. QED  BY <1>3, <1>4

\* Taking a request that is no control run keeps a pending one.
LEMMA StatusTake ==
    ASSUME TypeOK, StatusInv, queue # <<>>, Head(queue).op \notin Controls,
           queue' = Tail(queue), lost' = lost,
           UNCHANGED <<areation, circulation, pins, clockSet>>
    PROVE  StatusInv'
<1>1. /\ Head(queue) = queue[1]
      /\ Len(queue) \in Nat \ {0}
      /\ Len(queue') = Len(queue) - 1
      /\ \A i \in 1..Len(queue) - 1 : queue'[i] = queue[i + 1]
  BY TailFacts DEF TypeOK
<1>2. CASE Shown
  BY <1>2 DEF StatusInv, Shown
<1>3. CASE "onTimeUpdate" \in lost
  BY <1>3 DEF StatusInv
<1>4. CASE ControlFirst(queue)
  <2>1. PICK i \in 1..Len(queue) :
            queue[i].op \in Controls /\ \A j \in 1..i - 1 : queue[j].op \notin Reports
    BY <1>4 DEF ControlFirst
  <2>2. i # 1
    BY <1>1, <2>1
  <2>3. i - 1 \in 1..Len(queue') /\ queue'[i - 1].op \in Controls
    BY <1>1, <2>1, <2>2
  <2>4. \A j \in 1..i - 1 - 1 : queue'[j].op \notin Reports
    BY <1>1, <2>1
  <2>. QED  BY <2>3, <2>4 DEF StatusInv, ControlFirst
<1>5. CASE ~clockSet /\ NoReport(queue)
  <2>1. NoReport(queue')
    BY <1>1, <1>5 DEF NoReport
  <2>. QED  BY <1>5, <2>1 DEF StatusInv
<1>. QED  BY <1>2, <1>3, <1>4, <1>5 DEF StatusInv

\* A request that reports is executed only when the outputs are what the flags
\* say, unless a control run was dropped.
LEMMA ReportShown ==
    ASSUME TypeOK, StatusInv, queue # <<>>, Head(queue).op \in Reports
    PROVE  Shown \/ "onTimeUpdate" \in lost
<1>1. Head(queue) = queue[1] /\ Len(queue) \in Nat \ {0}
  BY TailFacts DEF TypeOK
<1>2. ~NoReport(queue)
  BY <1>1 DEF NoReport
<1>3. ~ControlFirst(queue)
  BY <1>1 DEF ControlFirst, Controls, Reports
<1>. QED  BY <1>2, <1>3 DEF StatusInv

\* A status message tells the true state of the pumps, unless a control run was
\* dropped.
THEOREM StatusCorrect == Spec => StatusTruthful
<1>1. Init => StatusInv
  <2>1. NoReport(<<>>)
    BY EmptySeq DEF NoReport
  <2>. QED  BY <2>1 DEF Init, StatusInv
<1>2. TypeOK /\ StatusInv /\ [Next]_vars => StatusInv'
  <2> SUFFICES ASSUME TypeOK, StatusInv, [Next]_vars  PROVE StatusInv'
    OBVIOUS
  <2>1. ASSUME NEW h \in Heaps, ControlOnTmr(h)  PROVE StatusInv'
    <3>1. CASE Restart
      <4>1. queue' = <<>> /\ clockSet' = FALSE
        BY <3>1 DEF Restart
      <4>2. NoReport(<<>>)
        BY EmptySeq DEF NoReport
      <4>. QED  BY <4>1, <4>2 DEF StatusInv
    <3>2. CASE ~Restart
      BY <2>1, <3>2 DEF ControlOnTmr, StatusInv, Shown
    <3>. QED  BY <3>1, <3>2
  <2>2. CASE OnReportStatus \/ OnDebugTmr
    BY <2>2, StatusTake DEF OnReportStatus, OnDebugTmr, Take, control, world, Controls
  <2>3. CASE OnShadow \/ OnControl
    BY <2>3, StatusTake DEF OnShadow, OnControl, Take, ProcessReceivedParameters, Controls
  <2>4. CASE OnLed
    BY <2>4, StatusTake DEF OnLed, Take, control, world, Controls
  <2>5. ASSUME NEW a \in Alarms, Tick(a)  PROVE StatusInv'
    <3>. DEFINE rs == <<Request("controlOnTmr")>> \o a
    <3>1. rs \in Seq(Requests) /\ Len(rs) \in {1, 2} /\ rs[1] = Request("controlOnTmr")
      BY PostedRequests
    <3>2. Post(rs) /\ queue = <<>>
      BY <2>5 DEF Tick
    <3>. HIDE DEF rs
    <3>3. NoReport(queue)
      BY <3>2, EmptySeq DEF NoReport
    <3>4. rs # <<>> /\ rs[1].op \in Controls
      BY <3>1, EmptySeq DEF Request, Controls
    <3>. QED  BY <3>1, <3>2, <3>3, <3>4, StatusControl
  <2>6. ASSUME NEW t \in Times, Connected(t)  PROVE StatusInv'
    <3>. DEFINE rs == <<Request("onTimeUpdate"), Led(TRUE)>>
    <3>1. rs # <<>> /\ rs[1].op = "onTimeUpdate"
      BY DEF Request
    <3>2. rs \in Seq(Requests)
      BY PostedRequests
    <3>3. Post(rs) /\ UNCHANGED <<areation, circulation, pins>>
      BY <2>6 DEF Connected, control
    <3>. HIDE DEF rs
    <3>4. CASE NoReport(queue)
      BY <3>1, <3>2, <3>3, <3>4, StatusControl DEF Controls
    <3>5. CASE ~NoReport(queue)
      BY <3>2, <3>3, <3>5, StatusPost DEF StatusInv
    <3>. QED  BY <3>4, <3>5
  <2>7. CASE Disconnected
    <3>. DEFINE rs == <<Led(FALSE)>>
    <3>1. NoReport(rs)
      BY DEF NoReport, Led, Reports
    <3>2. rs \in Seq(Requests)
      BY PostedRequests
    <3>3. Post(rs) /\ UNCHANGED <<areation, circulation, pins, clockSet>>
      BY <2>7 DEF Disconnected, control
    <3>. HIDE DEF rs
    <3>4. CASE NoReport(queue) /\ ~clockSet
      <4>1. PICK k \in 0..Len(rs) :
                /\ Len(queue') = Len(queue) + k
                /\ \A i \in 1..Len(queue) : queue'[i] = queue[i]
                /\ \A i \in 1..k : queue'[Len(queue) + i] = rs[i]
        BY <3>2, <3>3, PostFacts DEF TypeOK
      <4>2. Len(queue) \in Nat /\ Len(rs) \in Nat
        BY <3>2, LenProperties DEF TypeOK
      <4>3. ASSUME NEW i \in 1..Len(queue')  PROVE queue'[i].op \notin Reports
        <5>1. CASE i <= Len(queue)
          BY <3>4, <4>1, <4>2, <5>1 DEF NoReport
        <5>2. CASE i > Len(queue)
          <6>1. i - Len(queue) \in 1..k /\ i - Len(queue) \in 1..Len(rs)
                /\ Len(queue) + (i - Len(queue)) = i
            BY <4>1, <4>2, <5>2
          <6>2. queue'[i] = rs[i - Len(queue)]
            BY <4>1, <6>1
          <6>. QED  BY <3>1, <6>1, <6>2 DEF NoReport
        <5>. QED  BY <4>1, <4>2, <5>1, <5>2
      <4>. QED  BY <3>3, <3>4, <4>3 DEF StatusInv, NoReport
    <3>5. CASE ~(NoReport(queue) /\ ~clockSet)
      BY <3>2, <3>3, <3>5, StatusPost DEF StatusInv
    <3>. QED  BY <3>4, <3>5
  <2>8. ASSUME NEW op \in DocOps, NEW d \in Docs, Arrive(op, d)  PROVE StatusInv'
    <3>1. <<WithDoc(op, d)>> \in Seq(Requests)
      BY PostedRequests
    <3>2. /\ Post(<<WithDoc(op, d)>>) /\ clockSet
          /\ UNCHANGED <<areation, circulation, pins>>
      BY <2>8 DEF Arrive, control
    <3>. QED  BY <3>1, <3>2, StatusPost DEF StatusInv
  <2>9. CASE Publish \/ UNCHANGED vars
    <3>1. UNCHANGED <<queue, lost, areation, circulation, pins, clockSet>>
      BY <2>9 DEF Publish, vars, control, world
    <3>. QED  BY <3>1 DEF StatusInv, Shown, NoReport, ControlFirst
  <2>. QED
    BY <2>1, <2>2, <2>3, <2>4, <2>5, <2>6, <2>7, <2>8, <2>9 DEF Next, Task, Others
<1>3. TypeOK /\ StatusInv /\ [Next]_vars =>
          [Len(outbox') > Len(outbox) =>
             LET m == outbox'[Len(outbox')]
             IN  \/ m.topic = "shadow"
                 \/ m = Status(pins.areation = 0, pins.circulation = 1)
                 \/ "onTimeUpdate" \in lost]_vars
  <2> SUFFICES ASSUME TypeOK, StatusInv, Next, Len(outbox') > Len(outbox)
               PROVE  \/ outbox'[Len(outbox')].topic = "shadow"
                      \/ outbox'[Len(outbox')] = Status(pins.areation = 0, pins.circulation = 1)
                      \/ "onTimeUpdate" \in lost
    OBVIOUS
  <2>1. Len(outbox) \in Nat /\ outbox \in Seq(Publishable) /\ Len(outbox) <= OutSize
    BY LenProperties DEF TypeOK
  <2>2. ~UNCHANGED outbox
    BY <2>1
  <2>3. ASSUME queue # <<>>, Head(queue).op \in Reports,
               SubjectSend(Status(areation, circulation))
        PROVE  \/ outbox'[Len(outbox')] = Status(pins.areation = 0, pins.circulation = 1)
               \/ "onTimeUpdate" \in lost
    <3>1. Status(areation, circulation) \in Publishable
      BY DEF Publishable, Status, TypeOK
    <3>2. outbox'[Len(outbox')] = Status(areation, circulation)
      BY <2>1, <2>3, <3>1, SubjectSendType
    <3>3. Shown => (areation <=> pins.areation = 0) /\ (circulation <=> pins.circulation = 1)
      BY DEF Shown, Bool, TypeOK
    <3>4. Shown => areation = (pins.areation = 0) /\ circulation = (pins.circulation = 1)
      BY <3>3, Zenon DEF TypeOK
    <3>. QED  BY <2>3, <3>2, <3>4, ReportShown
  <2>4. CASE OnReportStatus
    BY <2>3, <2>4 DEF OnReportStatus, Take, Reports
  <2>5. CASE OnControl
    BY <2>3, <2>5 DEF OnControl, Take, Reports
  <2>6. CASE OnShadow
    <3>1. Head(queue) \in Requests /\ Head(queue).op \in DocOps
      BY <2>6, TailFacts DEF OnShadow, Take, DocOps, TypeOK
    <3>2. Head(queue).doc \in Docs
      BY <3>1 DEF Requests, DocOps
    <3>3. params' \in Params
      BY <2>6, <3>2, ReceivedLegal DEF OnShadow, ProcessReceivedParameters, TypeOK
    <3>4. ShadowOf(params') \in Publishable
      BY <3>3 DEF Publishable, ShadowOf
    <3>5. outbox'[Len(outbox')] = ShadowOf(params')
      BY <2>1, <2>6, <3>4, SubjectSendType DEF OnShadow
    <3>. QED  BY <3>5 DEF ShadowOf
  <2>7. ASSUME NEW h \in Heaps, ControlOnTmr(h)  PROVE FALSE
    <3>1. CASE Restart
      <4>1. outbox' = <<>>
        BY <3>1 DEF Restart
      <4>2. Len(outbox') = 0
        BY <4>1, EmptySeq
      <4>. QED  BY <2>1, <4>2
    <3>2. CASE ~Restart
      BY <2>2, <2>7, <3>2 DEF ControlOnTmr
    <3>. QED  BY <3>1, <3>2
  <2>8. CASE Publish
    BY <2>1, <2>8, TailFacts DEF Publish
  <2>. QED
    BY <2>2, <2>4, <2>5, <2>6, <2>7, <2>8
       DEF Next, Task, Others, OnDebugTmr, OnLed, Tick, Connected, Disconnected, Arrive
<1>. QED  BY <1>1, <1>2, <1>3, TypeCorrect, PTL DEF Spec, StatusTruthful

-----------------------------------------------------------------------------
(* The schedule.                                                           *)

\* A number below the divisor, and only such a number, has quotient 0; it is
\* its own remainder.
LEMMA DivisionFacts ==
    ASSUME NEW a \in Nat, NEW n \in Nat \ {0}
    PROVE  /\ (a \div n = 0) <=> (a < n)
           /\ a < n => a % n = a
           /\ a % n \in 0..n - 1
  OBVIOUS

\* From the offset on, the circulation pump runs in the first circulationPeriod
\* of the day, cut off by the end of the first normalPeriod.
THEOREM CirculationWindow ==
    ASSUME NEW p \in Params, NEW t \in Int, t >= p.circulationStartGMTOffset
    PROVE  /\ TimeFromMidnight(t, p) \in 0..Day - 1
           /\ Circulation(t, p) <=> /\ TimeFromMidnight(t, p) < p.normalPeriod
                                     /\ TimeFromMidnight(t, p) < p.circulationPeriod
<1>. DEFINE since == t - p.circulationStartGMTOffset
            m     == TimeFromMidnight(t, p)
<1>1. /\ p.circulationStartGMTOffset \in Int /\ p.normalPeriod \in Nat \ {0}
      /\ p.circulationPeriod \in Nat
  BY DEF Params, Fields, Least
<1>2. since \in Nat /\ Day \in Nat \ {0} /\ m = since % Day
  BY <1>1, DayAssumption DEF TimeFromMidnight, Remainder
<1>. HIDE DEF m, since
<1>3. m \in 0..Day - 1
  BY <1>2, DivisionFacts
<1>4. /\ CurrentDayCycle(t, p) = m \div p.normalPeriod
      /\ TimeFromCycleStart(t, p) = m % p.normalPeriod
  BY <1>1, <1>3 DEF m, CurrentDayCycle, TimeFromCycleStart, Quotient, Remainder
<1>5. Circulation(t, p) <=> m < p.normalPeriod /\ m < p.circulationPeriod
  BY <1>1, <1>3, <1>4, DivisionFacts DEF Circulation
<1>. QED  BY <1>3, <1>5 DEF m
=============================================================================

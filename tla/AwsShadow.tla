------------------------------ MODULE AwsShadow ------------------------------
(***************************************************************************)
(* The vendored AWS IoT shadow code, one thing and one client: requests    *)
(* that wait for an accepted or rejected answer or a timeout, the topics   *)
(* they subscribe to and give up again, and the deltas of registered keys. *)
(*                                                                         *)
(* One thread makes requests and yields.  While a call waits for the       *)
(* acknowledgement of a subscribe or unsubscribe, the messages read        *)
(* meanwhile are delivered, so handlers run inside other calls, and the    *)
(* application's callbacks may make requests of their own.  The calls      *)
(* under way are a stack.  An MQTT call either succeeds or fails; how is   *)
(* the business of AwsMqttClient.                                          *)
(***************************************************************************)
EXTENDS PortTimer, Sequences, SequencesExt, FiniteSetsExt

CONSTANTS
  MaxAcks,       \* MAX_ACKS_TO_COMEIN_AT_ANY_GIVEN_TIME
  MaxTopics,     \* MAX_TOPICS_AT_ANY_GIVEN_TIME
  MaxTokens,     \* MAX_JSON_TOKEN_EXPECTED: keys that may be registered
  TimeoutMs,     \* timeout_seconds, in milliseconds
  Apps,          \* applications: which actions, whether persistent, keys, and what callbacks do;
                 \* bounds: requests made, MQTT calls that fail, deltas sent, times it starts anew
  StartTicks,    \* the tick counter when it starts
  MaxDepth       \* bound: calls within calls

\* How many requests may wait and topics be held, the length of a timeout, and where the tick
\* counter starts.
ASSUME ShadowAssumption ==
  MaxAcks \in Nat /\ MaxTopics \in Nat /\ TimeoutMs \in Nat /\ StartTicks \subseteq 0..Wrap - 1

VARIABLES
  app,           \* the application
  stack,         \* the calls under way, the innermost last
  ackWaitList,   \* AckWaitList
  subList,       \* SubscriptionList
  tokenTable,    \* the keys of tokenTable, in order
  deltaFlag,     \* deltaTopicSubscribedFlag
  tokenNum,      \* clientTokenNum
  version,       \* shadowJsonVersionNum
  parsed,        \* the document jsonTokenStruct was filled from
  rxBuf,         \* the document in shadowRxBuf
  subscribed,    \* the topics the client is subscribed to
  cloud,         \* answers on their way
  deltas,        \* deltas on their way
  cloudVersion,  \* the version of the cloud's document
  now,           \* xTaskGetTickCount
  requests,      \* what became of each request so far
  applied,       \* of each key, the version of the last delta applied to it
  failures, inits, reentered, full

records == <<ackWaitList, subList>>
table == <<tokenTable, deltaFlag, applied>>
buffers == <<parsed, rxBuf>>
service == <<cloud, deltas, cloudVersion>>
ghosts == <<inits, reentered, full>>
vars == <<app, stack, records, table, tokenNum, version, buffers, subscribed, service, now, requests, failures, ghosts>>

Keys == UNION {a.keys : a \in Apps}
Actions == UNION {a.actions : a \in Apps}
Topic(action, verdict) == [action |-> action, verdict |-> verdict]
DeltaTopic == Topic("update", "delta")
NoTopic == Topic("none", "none")
AckTopics(action) == {Topic(action, "accepted"), Topic(action, "rejected")}
\* A document that is no delta: of a request, of an answer, or none.
NoDoc == [version |-> 0, keys |-> {}]
Slots == 1..MaxAcks
Entries == 1..MaxTopics

FreeAck == [free |-> TRUE, token |-> 0, action |-> "none", timer |-> Countdown(0, 0), req |-> 0, age |-> 0]
FreeEntry == [free |-> TRUE, topic |-> NoTopic, count |-> 0, sticky |-> FALSE]

Init ==
  /\ app \in Apps
  /\ stack = <<>>
  /\ ackWaitList = [i \in Slots |-> FreeAck] /\ subList = [i \in Entries |-> FreeEntry]
  /\ tokenTable = <<>> /\ deltaFlag = FALSE /\ applied = [k \in Keys |-> 0]
  /\ tokenNum = 0 /\ version = 0
  /\ parsed = NoDoc /\ rxBuf = NoDoc
  /\ subscribed = {} /\ cloud = {} /\ deltas = {} /\ cloudVersion = 0
  /\ now \in StartTicks
  /\ requests = <<>>
  /\ failures = 0 /\ inits = 0 /\ reentered = FALSE /\ full = FALSE

-----------------------------------------------------------------------------
(* The stack of calls. *)

Call(kind, pc) ==
  [kind |-> kind, pc |-> pc, slot |-> 0, req |-> 0, token |-> 0, action |-> "none", sticky |-> FALSE,
   topic |-> NoTopic, entry |-> 0, rejected |-> 0, failed |-> FALSE, doc |-> NoDoc, key |-> "none"]
Idle == stack = <<>>
Top == Last(stack)
Push(call) == stack' = Append(stack, call)
Return == stack' = Front(stack)
GoOn(call) == stack' = Append(Front(stack), call)
At(pc) == ~Idle /\ Top.pc = pc
Waiting == {"subscribe accepted", "subscribe rejected", "withdraw", "unsubscribe", "subscribe delta"}
\* Messages are read in aws_iot_mqtt_yield and while a call waits.
Receiving == (Idle \/ (~Idle /\ Top.pc \in Waiting)) /\ Len(stack) < MaxDepth
Fails == failures < app.failures /\ failures' = failures + 1
Succeeds == UNCHANGED failures
Smallest(set) == IF set = {} THEN 0 ELSE Min(set)

-----------------------------------------------------------------------------
(* Requests: aws_iot_shadow_internal_action. *)

FreeEntries == {i \in Entries : subList[i].free}
EntryOf(topic) == Smallest({i \in Entries : ~subList[i].free /\ subList[i].topic = topic})
IsSubscriptionPresent(action) == \A topic \in AckTopics(action) : EntryOf(topic) # 0
\* Mutant of IncrementSubscriptionCnt: the count stays as it was.
IncrementNothing(action, sticky) == UNCHANGED subList
IncrementSubscriptionCnt(action, sticky) ==
  subList' = [i \in Entries |-> IF ~subList[i].free /\ subList[i].topic \in AckTopics(action)
                                THEN [subList[i] EXCEPT !.count = @ + 1, !.sticky = sticky] ELSE subList[i]]
\* getNextFreeIndexOfAckWaitList
FreeSlot == Smallest({i \in Slots : ackWaitList[i].free})

\* A request begins: its document's client token is extracted, a record and, unless they
\* are there, two entries for the topics are looked for.  With no record it fails.  With
\* fewer than two entries it goes on without a subscription, after an unsubscribe from what
\* the one entry was last used for.  A callback that makes it may run inside other calls.
Begin(action, sticky) ==
  LET call == [Call("request", "publish") EXCEPT !.req = Len(requests) + 1, !.token = tokenNum, !.action = action,
                                                 !.sticky = sticky, !.slot = FreeSlot]
      accepted == Smallest(FreeEntries)
      rejected == Smallest(FreeEntries \ {accepted}) IN
  /\ requests' = Append(requests, [answers |-> <<>>, truth |-> "none", sent |-> FALSE])
  /\ parsed' = NoDoc
  /\ \/ FreeSlot = 0 /\ UNCHANGED <<stack, subList, full>>
     \/ /\ FreeSlot # 0 /\ IsSubscriptionPresent(action)
        /\ Push(call) /\ IncrementSubscriptionCnt(action, sticky) /\ UNCHANGED full
     \/ /\ FreeSlot # 0 /\ ~IsSubscriptionPresent(action) /\ rejected # 0
        /\ Push([call EXCEPT !.pc = "subscribe accepted", !.entry = accepted, !.rejected = rejected])
        /\ subList' = [subList EXCEPT ![accepted].free = FALSE, ![accepted].topic = Topic(action, "accepted"),
                                      ![rejected].free = FALSE]
        /\ UNCHANGED full
     \/ /\ FreeSlot # 0 /\ ~IsSubscriptionPresent(action) /\ rejected = 0
        /\ full' = TRUE
        /\ IF accepted # 0 /\ subList[accepted].count = 1
           THEN Push([call EXCEPT !.pc = "withdraw", !.topic = subList[accepted].topic])
           ELSE Push(call)
        /\ UNCHANGED subList
Request ==
  /\ Len(requests) < app.requests /\ Len(stack) < MaxDepth
  /\ \/ Idle /\ UNCHANGED reentered
     \/ /\ At("callback") /\ app.nests
        /\ reentered' = (reentered \/ Len(stack) > 1 \/ Top.kind = "expire")
  /\ \E action \in app.actions, sticky \in app.sticky : Begin(action, sticky)
  /\ tokenNum' = tokenNum + 1
  /\ UNCHANGED <<app, ackWaitList, table, version, rxBuf, subscribed, service, now, failures, inits>>

\* subscribeToShadowActionAcks: one topic after the other; a failure gives both entries up
\* and, if the count of the first is one, unsubscribes.  The settling time passes by Tick.
FreeToo(entry, entries) == [i \in Entries |-> IF i = entry THEN [entries[i] EXCEPT !.free = TRUE] ELSE entries[i]]
Withdraw ==
  IF subList[Top.entry].count = 1
  THEN /\ GoOn([Top EXCEPT !.pc = "withdraw", !.failed = TRUE, !.topic = subList[Top.entry].topic])
       /\ subList' = FreeToo(Top.entry, subList)
  ELSE Return /\ subList' = FreeToo(Top.rejected, FreeToo(Top.entry, subList))
SubscribeAccepted ==
  /\ At("subscribe accepted")
  /\ \/ /\ Succeeds /\ subscribed' = subscribed \union {Topic(Top.action, "accepted")}
        /\ subList' = [subList EXCEPT ![Top.entry].count = 1, ![Top.entry].sticky = Top.sticky,
                                      ![Top.rejected].topic = Topic(Top.action, "rejected")]
        /\ GoOn([Top EXCEPT !.pc = "subscribe rejected"])
     \/ Fails /\ UNCHANGED subscribed /\ Withdraw
  /\ UNCHANGED <<app, ackWaitList, table, tokenNum, version, buffers, service, now, requests, ghosts>>
SubscribeRejected ==
  /\ At("subscribe rejected")
  /\ \/ /\ Succeeds /\ subscribed' = subscribed \union {Topic(Top.action, "rejected")}
        /\ subList' = [subList EXCEPT ![Top.rejected].count = 1, ![Top.rejected].sticky = Top.sticky]
        /\ GoOn([Top EXCEPT !.pc = "publish"])
     \/ Fails /\ UNCHANGED subscribed /\ Withdraw
  /\ UNCHANGED <<app, ackWaitList, table, tokenNum, version, buffers, service, now, requests, ghosts>>
Withdrawn ==
  /\ At("withdraw")
  /\ \/ Succeeds /\ subscribed' = subscribed \ {Top.topic}
     \/ Fails /\ UNCHANGED subscribed
  /\ subList' = FreeToo(Top.rejected, subList)
  /\ IF Top.failed THEN Return ELSE GoOn([Top EXCEPT !.pc = "publish"])
  /\ UNCHANGED <<app, ackWaitList, table, tokenNum, version, buffers, service, now, requests, ghosts>>

\* publishToShadowAction, and addToAckWaitList with the record found at the beginning.  The
\* service answers, with its version; an answer may be late or never arrive.
\* Mutant of StartTimer: it runs from tick 0.
TimerFromZero == Countdown(0, TimeoutMs)
StartTimer == Countdown(now, TimeoutMs)
Publish ==
  /\ At("publish") /\ Return
  /\ \/ /\ Fails /\ UNCHANGED <<ackWaitList, cloud, requests>>
     \/ /\ Succeeds
        /\ \E verdict \in {"accepted", "rejected"} :
             /\ cloud' = cloud \union {[req |-> Top.req, token |-> Top.token, topic |-> Topic(Top.action, verdict),
                                        version |-> cloudVersion]}
             /\ requests' = [requests EXCEPT ![Top.req].truth = verdict, ![Top.req].sent = TRUE]
        /\ ackWaitList' = [ackWaitList EXCEPT ![Top.slot] =
             [free |-> FALSE, token |-> Top.token, action |-> Top.action, timer |-> StartTimer, req |-> Top.req, age |-> 0]]
  /\ UNCHANGED <<app, subList, table, tokenNum, version, buffers, subscribed, deltas, cloudVersion, now, ghosts>>

-----------------------------------------------------------------------------
(* Answers and timeouts. *)

Answer(req, verdict) == [requests EXCEPT ![req].answers = Append(@, verdict)]
\* AckStatusCallback: the first waiting record with the token of the answer.
\* Mutant of Match: with the action of the answer.
MatchAction(m) == Smallest({i \in Slots : ~ackWaitList[i].free /\ ackWaitList[i].action = m.topic.action})
Match(m) == Smallest({i \in Slots : ~ackWaitList[i].free /\ ackWaitList[i].token = m.token})
AckStatusCallback ==
  /\ Receiving
  /\ \E m \in cloud :
       /\ cloud' = cloud \ {m}
       /\ m.topic \in subscribed
       /\ parsed' = NoDoc /\ rxBuf' = NoDoc
       /\ version' = IF m.topic = Topic("get", "accepted") THEN Max({version, m.version}) ELSE version
       /\ IF Match(m) = 0 THEN UNCHANGED <<stack, requests>>
          ELSE /\ Push([Call("answer", "callback") EXCEPT !.slot = Match(m)])
               /\ requests' = Answer(ackWaitList[Match(m)].req, m.topic.verdict)
  /\ UNCHANGED <<app, records, table, tokenNum, subscribed, deltas, cloudVersion, now, failures, ghosts>>
\* HandleExpiredResponseCallbacks, from a slot on.
Expired(i) == ~ackWaitList[i].free /\ HasExpired(ackWaitList[i].timer, now)
HandleExpired(from, calls) ==
  LET i == Smallest({j \in Slots : j >= from /\ Expired(j)}) IN
  IF i = 0 THEN stack' = calls /\ UNCHANGED requests
  ELSE /\ stack' = Append(calls, [Call("expire", "callback") EXCEPT !.slot = i])
       /\ requests' = Answer(ackWaitList[i].req, IF ackWaitList[i].age < TimeoutMs \div TickPeriod THEN "early" ELSE "timeout")
\* aws_iot_shadow_yield, when there is something to do before messages are read.
Yield ==
  /\ Idle /\ \E i \in Slots : Expired(i)
  /\ HandleExpired(1, stack)
  /\ UNCHANGED <<app, records, table, tokenNum, version, buffers, subscribed, service, now, failures, ghosts>>

\* Mutant of Freed: the record stays in use.
StillInUse(slot) == ackWaitList
\* Of a free record only the action is ever read again.
Freed(slot) == [ackWaitList EXCEPT ![slot] = [FreeAck EXCEPT !.action = ackWaitList[slot].action]]
\* The callback returns, and the topics of the record are given up one after the other.  A
\* record whose time is over is freed before that, an answered one after it.
AnswerHandled ==
  /\ At("callback") /\ Top.kind \in {"answer", "expire"}
  /\ GoOn([Top EXCEPT !.pc = "leave accepted"])
  /\ ackWaitList' = IF Top.kind = "answer" THEN ackWaitList ELSE Freed(Top.slot)
  /\ UNCHANGED <<app, subList, table, tokenNum, version, buffers, subscribed, service, now, requests, failures, ghosts>>
\* unsubscribeFromAcceptedAndRejected, for one of the two topics: the last one who waits
\* unsubscribes, the others only count down.
LastWaiter(entry) == ~subList[entry].sticky /\ subList[entry].count = 1
Leave(verdict, next) ==
  LET topic == Topic(ackWaitList[Top.slot].action, verdict)
      i == EntryOf(topic) IN
  \/ i # 0 /\ LastWaiter(i) /\ GoOn([Top EXCEPT !.pc = "unsubscribe", !.entry = i, !.topic = topic]) /\ UNCHANGED subList
  \/ i # 0 /\ ~LastWaiter(i) /\ GoOn([Top EXCEPT !.pc = next]) /\ subList' = [subList EXCEPT ![i].count = IF @ > 1 THEN @ - 1 ELSE @]
  \/ i = 0 /\ GoOn([Top EXCEPT !.pc = next]) /\ UNCHANGED subList
LeaveTopic ==
  /\ \/ At("leave accepted") /\ Leave("accepted", "leave rejected")
     \/ At("leave rejected") /\ Leave("rejected", "left")
  /\ UNCHANGED <<app, ackWaitList, table, tokenNum, version, buffers, subscribed, service, now, requests, failures, ghosts>>
\* Mutant of Unsubscribed: the entry is not freed.
UnsubscribedKept == UNCHANGED subList
Unsubscribed == subList' = [subList EXCEPT ![Top.entry].free = TRUE]
Unsubscribe ==
  /\ At("unsubscribe")
  /\ \/ Succeeds /\ subscribed' = subscribed \ {Top.topic} /\ Unsubscribed
     \/ Fails /\ UNCHANGED <<subscribed, subList>>
  /\ GoOn([Top EXCEPT !.pc = IF Top.topic.verdict = "accepted" THEN "leave rejected" ELSE "left"])
  /\ UNCHANGED <<app, ackWaitList, table, tokenNum, version, buffers, service, now, requests, ghosts>>
Left ==
  /\ At("left")
  /\ IF Top.kind = "answer"
     THEN Return /\ ackWaitList' = Freed(Top.slot) /\ UNCHANGED requests
     ELSE HandleExpired(Top.slot + 1, Front(stack)) /\ UNCHANGED ackWaitList
  /\ UNCHANGED <<app, subList, table, tokenNum, version, buffers, subscribed, service, now, failures, ghosts>>

-----------------------------------------------------------------------------
(* Deltas. *)

Registered(key) == IF Len(tokenTable) < MaxTokens THEN Append(tokenTable, key) ELSE tokenTable
\* registerJsonTokenOnDelta: the first one subscribes, and is not tried again if that fails.
RegisterDelta ==
  /\ Idle
  /\ \E key \in app.keys :
       /\ key \notin ToSet(tokenTable)
       /\ IF deltaFlag THEN tokenTable' = Registered(key) /\ UNCHANGED stack
          ELSE Push([Call("register", "subscribe delta") EXCEPT !.key = key]) /\ UNCHANGED tokenTable
  /\ UNCHANGED <<app, records, deltaFlag, applied, tokenNum, version, buffers, subscribed, service, now, requests, failures,
                 ghosts>>
SubscribeDelta ==
  /\ At("subscribe delta") /\ Return
  /\ \/ Succeeds /\ subscribed' = subscribed \union {DeltaTopic}
     \/ Fails /\ UNCHANGED subscribed
  /\ deltaFlag' = TRUE
  /\ tokenTable' = Registered(Top.key)
  /\ UNCHANGED <<app, records, applied, tokenNum, version, buffers, service, now, requests, ghosts>>
\* Deltas may arrive in another order than they were sent, or not at all.
CloudDelta ==
  /\ cloudVersion < app.deltas
  /\ cloudVersion' = cloudVersion + 1
  /\ \E keys \in SUBSET app.keys \ {{}} : deltas' = deltas \union {[version |-> cloudVersion + 1, keys |-> keys]}
  /\ UNCHANGED <<app, stack, records, table, tokenNum, version, buffers, subscribed, cloud, now, requests, failures, ghosts>>
\* shadow_delta_callback: an old one is discarded if the application wants that.
\* Mutant of IsOld: the same version is, an older one is not.
IsOldSame(doc) == app.discards /\ doc.version = version
IsOld(doc) == app.discards /\ doc.version <= version
ShadowDeltaCallback ==
  /\ Receiving
  /\ \E doc \in deltas :
       /\ deltas' = deltas \ {doc}
       /\ DeltaTopic \in subscribed
       /\ parsed' = doc /\ rxBuf' = doc
       /\ IF IsOld(doc) THEN UNCHANGED <<stack, version>>
          ELSE /\ version' = IF app.discards THEN doc.version ELSE version
               /\ Push([Call("delta", "next key") EXCEPT !.slot = 1, !.doc = doc])
  /\ UNCHANGED <<app, records, table, tokenNum, subscribed, cloud, cloudVersion, now, requests, failures, ghosts>>
KeysLeft == Top.slot <= Len(tokenTable)
\* The next key: its value is where jsonTokenStruct says in shadowRxBuf.  Nothing is found
\* when a callback's call left the two with different documents.
Applies(key) == parsed = rxBuf /\ key \in parsed.keys
NextKey ==
  /\ At("next key") /\ KeysLeft
  /\ LET key == tokenTable[Top.slot] IN
     IF Applies(key)
     THEN /\ applied' = [applied EXCEPT ![key] = parsed.version]
          /\ GoOn([Top EXCEPT !.pc = "callback"])
     ELSE UNCHANGED applied /\ GoOn([Top EXCEPT !.slot = @ + 1])
  /\ UNCHANGED <<app, records, tokenTable, deltaFlag, tokenNum, version, buffers, subscribed, service, now, requests, failures,
                 ghosts>>
KeyHandled ==
  /\ At("callback") /\ Top.kind = "delta"
  /\ GoOn([Top EXCEPT !.pc = "next key", !.slot = @ + 1])
  /\ UNCHANGED <<app, records, table, tokenNum, version, buffers, subscribed, service, now, requests, failures, ghosts>>
DeltaHandled ==
  /\ At("next key") /\ ~KeysLeft /\ Return
  /\ UNCHANGED <<app, records, table, tokenNum, version, buffers, subscribed, service, now, requests, failures, ghosts>>

-----------------------------------------------------------------------------
\* aws_iot_shadow_init and aws_iot_shadow_connect, again: whoever waits is forgotten, the
\* client tokens start over, and the session with its topics is new.
ShadowInit ==
  /\ Idle /\ inits < app.inits /\ inits' = inits + 1
  /\ ackWaitList' = [i \in Slots |-> FreeAck]
  /\ subList' = [i \in Entries |-> [subList[i] EXCEPT !.free = TRUE, !.count = 0, !.sticky = FALSE]]
  /\ tokenTable' = <<>> /\ deltaFlag' = FALSE /\ tokenNum' = 0 /\ version' = 0
  /\ subscribed' = {}
  /\ UNCHANGED <<app, stack, applied, buffers, service, now, requests, failures, reentered, full>>

\* Time passes.  An application yields often enough that the tick counter does not come
\* around while a request waits.  The clock matters only where a timer starts or is read.
Tick ==
  /\ Idle \/ At("publish") \/ At("left")
  /\ \A i \in Slots : ~ackWaitList[i].free => ackWaitList[i].age < Wrap - 1
  /\ \E i \in Slots : ~ackWaitList[i].free
  /\ now' = Later(now, 1)
  /\ ackWaitList' = [i \in Slots |-> IF ackWaitList[i].free THEN ackWaitList[i] ELSE [ackWaitList[i] EXCEPT !.age = @ + 1]]
  /\ UNCHANGED <<app, stack, subList, table, tokenNum, version, buffers, subscribed, service, requests, failures, ghosts>>

Proceed ==
  \/ SubscribeAccepted \/ SubscribeRejected \/ Withdrawn \/ Publish
  \/ AnswerHandled \/ LeaveTopic \/ Unsubscribe \/ Left
  \/ SubscribeDelta \/ NextKey \/ KeyHandled \/ DeltaHandled
Next ==
  \/ Request \/ RegisterDelta \/ ShadowInit \/ Yield \/ Proceed
  \/ AckStatusCallback \/ ShadowDeltaCallback \/ CloudDelta \/ Tick
\* Calls proceed, time passes, and the application yields again and again.
Spec == Init /\ [][Next]_vars /\ WF_vars(Proceed) /\ WF_vars(Tick) /\ WF_vars(Yield)

-----------------------------------------------------------------------------
(* Properties. *)

\* The values of the variables.
TypeOK ==
  /\ now \in Ticks /\ version \in 0..cloudVersion
  /\ Len(stack) <= MaxDepth
  /\ \A i \in Slots : ackWaitList[i].timer \in Timers /\ ackWaitList[i].req \in 0..Len(requests)
  /\ \A i \in Entries : subList[i].count \in 0..Len(requests) + 1
  /\ Len(tokenTable) <= MaxTokens /\ ToSet(tokenTable) \subseteq app.keys
  /\ subscribed \subseteq {DeltaTopic} \union UNION {AckTopics(action) : action \in Actions}

InUse == {i \in Slots : ~ackWaitList[i].free}
Waiters == {i \in InUse : requests[ackWaitList[i].req].answers = <<>>}

\* No request was told twice what became of it: that gives its topics up twice.
ToldOnce == \A r \in DOMAIN requests : Len(requests[r].answers) <= 1
\* HandleExpiredResponseCallbacks tells no request of a timeout before its time is over, wherever
\* xTaskGetTickCount wraps while it waits.
NeverEarly == \A r \in DOMAIN requests : "early" \notin ToSet(requests[r].answers)
\* A request is told once what became of it, and what it is told is the service's own answer
\* to it, or a timeout when its time is over, wherever the tick counter wraps: unless a
\* callback made a request inside another call or on a timeout, when one may be told twice,
\* or the client tokens started over, when an old answer may pass for a new one.
TruthfulAnswers ==
  /\ NeverEarly
  /\ \A r \in DOMAIN requests :
       /\ inits = 0 => ToSet(requests[r].answers) \subseteq {requests[r].truth, "timeout"}
       /\ inits = 0 /\ ~reentered => Len(requests[r].answers) <= 1
\* As long as a request waits, the client is subscribed to the topics of its answer, unless
\* there was no entry left for them, a callback made a request inside another call, an MQTT call
\* failed (a failed unsubscribe leaves half a pair, and the topic is listed twice later), or a
\* request was told twice, as an old answer may be after the client tokens started over.
WaitersSubscribed ==
  ~reentered /\ ~full /\ failures = 0 /\ ToldOnce => \A i \in Waiters : AckTopics(ackWaitList[i].action) \subseteq subscribed
\* When nobody waits, nothing stays subscribed, unless it was meant to, an MQTT call failed, a
\* callback made a request inside another call, a request was told twice, or there was no entry
\* left once.
Released ==
  Idle /\ InUse = {} /\ failures = 0 /\ ~reentered /\ ~full /\ ToldOnce /\ app.sticky = {FALSE} =>
    subscribed \subseteq {DeltaTopic} /\ \A i \in Entries : subList[i].free
\* No key goes back to an older version, where old deltas are discarded, unless a call that
\* a callback made in the middle of a delta read another one: an old one is discarded only
\* after it has taken the place of the first, whose other keys then get its values.
DeltasInOrder ==
  [][app.discards /\ inits = 0 /\ (At("next key") => parsed = Top.doc) =>
       \A key \in Keys : applied'[key] >= applied[key]]_vars
\* Every request that was published is answered in the end.
AllAnswered ==
  <>[](reentered \/ inits > 0 \/ \A r \in DOMAIN requests : requests[r].sent => requests[r].answers # <<>>)
=============================================================================

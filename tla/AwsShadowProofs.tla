--------------------------- MODULE AwsShadowProofs ---------------------------
(***************************************************************************)
(* What the shadow code guarantees about the order of deltas, about        *)
(* timeouts, about the answers its callers are told and about the topics   *)
(* held for them, for any application, number of records, topics and keys, *)
(* and however often calls nest and fail.                                  *)
(***************************************************************************)
EXTENDS AwsShadow, PortTimerProofs, FiniteSetTheorems, SequenceTheorems, NaturalsInduction, WellFoundedInduction

-----------------------------------------------------------------------------
(* The stack of calls.  All the invariants ask of it is which documents the calls hold. *)

HoldsDoc(call) == "doc" \in DOMAIN call
IsStack(s) ==
  /\ s \in Seq({s[j] : j \in DOMAIN s})
  /\ \A j \in DOMAIN s : HoldsDoc(s[j])
Docs(s) == {s[j].doc : j \in DOMAIN s}

LEMMA Pushed ==
  ASSUME NEW s, IsStack(s), NEW call, HoldsDoc(call)
  PROVE  IsStack(Append(s, call)) /\ Docs(Append(s, call)) = Docs(s) \cup {call.doc}
<1> DEFINE t == Append(s, call)
           S == {s[j] : j \in DOMAIN s} \cup {call}
<1>1. s \in Seq(S) /\ call \in S
  BY DEF IsStack
<1>2. t \in Seq(S) /\ Len(t) = Len(s) + 1 /\ DOMAIN t = 1..Len(s) + 1 /\ DOMAIN s = 1..Len(s) /\ Len(s) \in Nat
  BY <1>1
<1>3. \A j \in DOMAIN s : t[j] = s[j]
  BY <1>1
<1>4. t[Len(s) + 1] = call
  BY <1>1
<1>5. \A j \in DOMAIN t : j \in DOMAIN s \/ j = Len(s) + 1
  BY <1>2
<1> HIDE DEF t
<1>6. \A j \in 1..Len(t) : t[j] \in {t[i] : i \in DOMAIN t}
  BY <1>2
<1>7. t \in Seq({t[i] : i \in DOMAIN t})
  BY <1>2, <1>6
<1>8. \A j \in DOMAIN t : HoldsDoc(t[j])
  BY <1>3, <1>4, <1>5 DEF IsStack
<1>9. Docs(t) = Docs(s) \cup {call.doc}
  BY <1>2, <1>3, <1>4, <1>5 DEF Docs
<1> QED
  BY <1>7, <1>8, <1>9 DEF IsStack, t

LEMMA Returned ==
  ASSUME NEW s, IsStack(s), s # <<>>
  PROVE  /\ IsStack(Front(s)) /\ Docs(Front(s)) \subseteq Docs(s)
         /\ HoldsDoc(Last(s)) /\ Last(s).doc \in Docs(s)
<1> DEFINE t == Front(s)
           S == {s[j] : j \in DOMAIN s}
<1>1. s \in Seq(S) /\ Len(s) \in Nat \ {0} /\ DOMAIN s = 1..Len(s)
  BY DEF IsStack
<1>2. t \in Seq(S) /\ Len(t) = Len(s) - 1 /\ DOMAIN t = 1..Len(s) - 1
  BY <1>1 DEF Front
<1>3. \A j \in DOMAIN t : j \in DOMAIN s /\ t[j] = s[j]
  BY <1>1, <1>2 DEF Front
<1>4. Len(s) \in DOMAIN s
  BY <1>1
<1> HIDE DEF t
<1> HIDE DEF S
<1>5. Len(t) \in Nat /\ DOMAIN t = 1..Len(t) /\ t = [j \in 1..Len(t) |-> t[j]]
  BY <1>1, <1>2
<1>6. t \in Seq({t[i] : i \in DOMAIN t})
  BY <1>5
<1>7. IsStack(t) /\ Docs(t) \subseteq Docs(s)
  BY <1>3, <1>6 DEF IsStack, Docs
<1> QED
  BY <1>4, <1>7 DEF Last, IsStack, Docs, t

\* The calls that are left hold what they held; a new one may hold no document.
Quiet == IsStack(stack') /\ Docs(stack') \subseteq Docs(stack) \cup {NoDoc}

LEMMA QuietReturn ==
  ASSUME IsStack(stack), ~Idle, Return
  PROVE  Quiet
BY Returned DEF Quiet, Return, Idle

LEMMA QuietGoOn ==
  ASSUME IsStack(stack), ~Idle, NEW call, HoldsDoc(call), call.doc = Top.doc, GoOn(call)
  PROVE  Quiet
<1>1. IsStack(Front(stack)) /\ Docs(Front(stack)) \subseteq Docs(stack) /\ Top.doc \in Docs(stack)
  BY Returned DEF Idle, Top
<1>2. IsStack(Append(Front(stack), call)) /\ Docs(Append(Front(stack), call)) = Docs(Front(stack)) \cup {call.doc}
  BY <1>1, Pushed
<1> QED
  BY <1>1, <1>2 DEF Quiet, GoOn

LEMMA QuietPush ==
  ASSUME IsStack(stack), NEW call, HoldsDoc(call), call.doc = NoDoc, Push(call)
  PROVE  Quiet
BY Pushed DEF Quiet, Push

-----------------------------------------------------------------------------
(* Deltas. *)

\* The documents on their way or in hand are different deltas the service has sent.
SentInv ==
  /\ cloudVersion \in Nat
  /\ \A d \in deltas : d.version \in 1..cloudVersion
  /\ \A d \in Docs(stack) : d \notin deltas /\ (d = NoDoc \/ d.version \in 1..cloudVersion)
\* What was read and applied is not newer than the version kept; and as long as the document
\* parsed last is one in hand, no other one was applied after it that is newer.
OrderInv ==
  app.discards /\ inits = 0 =>
    /\ parsed.version <= version
    /\ \A key \in Keys : applied[key] <= version
    /\ parsed \in Docs(stack) /\ parsed # NoDoc => \A key \in Keys : applied[key] <= parsed.version
DeltaInv ==
  /\ IsStack(stack)
  /\ version \in Nat /\ parsed.version \in Nat /\ inits \in Nat
  /\ applied \in [Keys -> Nat]
  /\ \A m \in cloud : m.version \in Nat
  /\ SentInv /\ OrderInv

LEMMA NoDocVersion == NoDoc.version = 0 /\ NoDoc.keys = {}
BY DEF NoDoc

\* A step that applies no document, and reads none that is a delta, keeps the invariant.
LEMMA QuietStep ==
  ASSUME DeltaInv, Quiet, UNCHANGED <<app, applied, inits, deltas, cloudVersion>>,
         parsed' \in {parsed, NoDoc}, version' \in Nat, version' >= version,
         \A m \in cloud' : m \in cloud \/ m.version \in Nat
  PROVE  DeltaInv'
<1>1. SentInv'
  <2>1. ASSUME NEW d \in Docs(stack') PROVE d \notin deltas /\ (d = NoDoc \/ d.version \in 1..cloudVersion)
    <3>1. d \in Docs(stack) \/ d = NoDoc
      BY DEF Quiet
    <3> QED
      BY <3>1, NoDocVersion DEF DeltaInv, SentInv
  <2> QED
    BY <2>1 DEF DeltaInv, SentInv
<1>2. OrderInv'
  <2> SUFFICES ASSUME app.discards, inits = 0
               PROVE  /\ parsed'.version <= version'
                      /\ \A key \in Keys : applied[key] <= version'
                      /\ parsed' \in Docs(stack') /\ parsed' # NoDoc => \A key \in Keys : applied[key] <= parsed'.version
    BY DEF OrderInv
  <2>1. \A key \in Keys : applied[key] \in Nat
    BY DEF DeltaInv
  <2>2. /\ parsed.version <= version
        /\ \A key \in Keys : applied[key] <= version
        /\ parsed \in Docs(stack) /\ parsed # NoDoc => \A key \in Keys : applied[key] <= parsed.version
    BY DEF DeltaInv, OrderInv
  <2>3. parsed'.version <= version'
    BY <2>2, NoDocVersion DEF DeltaInv
  <2>4. \A key \in Keys : applied[key] <= version'
    BY <2>1, <2>2 DEF DeltaInv
  <2>5. ASSUME parsed' \in Docs(stack'), parsed' # NoDoc
        PROVE  \A key \in Keys : applied[key] <= parsed'.version
    BY <2>2, <2>5 DEF Quiet
  <2> QED
    BY <2>3, <2>4, <2>5
<1> QED
  BY <1>1, <1>2, NoDocVersion DEF DeltaInv, Quiet

LEMMA QuietExpired ==
  ASSUME NEW from, NEW calls, IsStack(calls), Docs(calls) \subseteq Docs(stack), HandleExpired(from, calls)
  PROVE  Quiet
<1>1. stack' = calls \/ \E slot : stack' = Append(calls, [Call("expire", "callback") EXCEPT !.slot = slot])
  BY DEF HandleExpired
<1>2. ASSUME NEW slot, stack' = Append(calls, [Call("expire", "callback") EXCEPT !.slot = slot]) PROVE Quiet
  <2>1. HoldsDoc([Call("expire", "callback") EXCEPT !.slot = slot])
        /\ [Call("expire", "callback") EXCEPT !.slot = slot].doc = NoDoc
    BY DEF HoldsDoc, Call
  <2> QED
    BY <1>2, <2>1, Pushed DEF Quiet
<1> QED
  BY <1>1, <1>2 DEF Quiet

\* The steps of a call that is under way.
LEMMA QuietProceed ==
  ASSUME IsStack(stack),
         SubscribeAccepted \/ SubscribeRejected \/ Withdrawn \/ Publish \/ AnswerHandled \/ LeaveTopic
           \/ Unsubscribe \/ Left \/ SubscribeDelta \/ KeyHandled \/ DeltaHandled
  PROVE  Quiet
<1>1. ~Idle
  BY DEF At, SubscribeAccepted, SubscribeRejected, Withdrawn, Publish, AnswerHandled, LeaveTopic, Unsubscribe, Left,
         SubscribeDelta, KeyHandled, DeltaHandled
<1>2. HoldsDoc(Top)
  BY <1>1, Returned DEF Idle, Top
<1>3. CASE SubscribeAccepted
  <2>1. CASE GoOn([Top EXCEPT !.pc = "subscribe rejected"])
    BY <1>1, <1>2, <2>1, QuietGoOn DEF HoldsDoc
  <2>2. CASE Withdraw
    BY <1>1, <1>2, <2>2, QuietGoOn, QuietReturn DEF Withdraw, HoldsDoc
  <2> QED
    BY <1>3, <2>1, <2>2 DEF SubscribeAccepted
<1>4. CASE SubscribeRejected
  <2>1. CASE GoOn([Top EXCEPT !.pc = "publish"])
    BY <1>1, <1>2, <2>1, QuietGoOn DEF HoldsDoc
  <2>2. CASE Withdraw
    BY <1>1, <1>2, <2>2, QuietGoOn, QuietReturn DEF Withdraw, HoldsDoc
  <2> QED
    BY <1>4, <2>1, <2>2 DEF SubscribeRejected
<1>5. CASE Withdrawn
  BY <1>1, <1>2, <1>5, QuietGoOn, QuietReturn DEF Withdrawn, HoldsDoc
<1>6. CASE Publish \/ SubscribeDelta \/ DeltaHandled
  BY <1>1, <1>6, QuietReturn DEF Publish, SubscribeDelta, DeltaHandled
<1>7. CASE AnswerHandled \/ KeyHandled
  BY <1>1, <1>2, <1>7, QuietGoOn DEF AnswerHandled, KeyHandled, HoldsDoc
<1>8. CASE LeaveTopic
  <2>1. ASSUME NEW verdict, NEW next, Leave(verdict, next) PROVE Quiet
    BY <1>1, <1>2, <2>1, QuietGoOn DEF Leave, HoldsDoc
  <2> QED
    BY <1>8, <2>1 DEF LeaveTopic
<1>9. CASE Unsubscribe
  BY <1>1, <1>2, <1>9, QuietGoOn DEF Unsubscribe, HoldsDoc
<1>10. CASE Left
  <2>1. CASE Return
    BY <1>1, <2>1, QuietReturn
  <2>2. CASE HandleExpired(Top.slot + 1, Front(stack))
    BY <1>1, <2>2, QuietExpired, Returned DEF Idle
  <2> QED
    BY <1>10, <2>1, <2>2 DEF Left
<1> QED
  BY <1>3, <1>4, <1>5, <1>6, <1>7, <1>8, <1>9, <1>10

LEMMA QuietBegin ==
  ASSUME IsStack(stack), Request
  PROVE  Quiet
<1>1. PICK action, sticky : Begin(action, sticky)
  BY DEF Request
<1> DEFINE call == [Call("request", "publish") EXCEPT !.req = Len(requests) + 1, !.token = tokenNum, !.action = action,
                                                     !.sticky = sticky, !.slot = FreeSlot]
<1>2. HoldsDoc(call) /\ call.doc = NoDoc
  BY DEF HoldsDoc, Call
<1> HIDE DEF call
<1>3. CASE UNCHANGED stack
  BY <1>3 DEF Quiet
<1>4. CASE Push(call)
  BY <1>2, <1>4, QuietPush
<1>5. CASE \E accepted, rejected :
             Push([call EXCEPT !.pc = "subscribe accepted", !.entry = accepted, !.rejected = rejected])
  BY <1>2, <1>5, QuietPush DEF HoldsDoc
<1>6. CASE \E topic : Push([call EXCEPT !.pc = "withdraw", !.topic = topic])
  BY <1>2, <1>6, QuietPush DEF HoldsDoc
<1>7. UNCHANGED stack \/ Push(call)
      \/ (\E accepted, rejected :
             Push([call EXCEPT !.pc = "subscribe accepted", !.entry = accepted, !.rejected = rejected]))
      \/ (\E topic : Push([call EXCEPT !.pc = "withdraw", !.topic = topic]))
  BY <1>1, Zenon DEF Begin, call
<1> QED
  BY <1>3, <1>4, <1>5, <1>6, <1>7

\* A delta is read: it is in hand now, or was older than the one kept.
LEMMA DeltaRead ==
  ASSUME DeltaInv, ShadowDeltaCallback
  PROVE  DeltaInv'
<1>1. PICK doc \in deltas :
        /\ deltas' = deltas \ {doc}
        /\ parsed' = doc
        /\ IF IsOld(doc) THEN UNCHANGED <<stack, version>>
           ELSE /\ version' = IF app.discards THEN doc.version ELSE version
                /\ Push([Call("delta", "next key") EXCEPT !.slot = 1, !.doc = doc])
  BY DEF ShadowDeltaCallback
<1>2. UNCHANGED <<app, cloud, applied, cloudVersion, inits>>
  BY DEF ShadowDeltaCallback, table, ghosts
<1>3. doc.version \in 1..cloudVersion /\ cloudVersion \in Nat /\ doc \notin Docs(stack) /\ doc # NoDoc
  BY NoDocVersion DEF DeltaInv, SentInv
<1>4. IsStack(stack') /\ Docs(stack') \subseteq Docs(stack) \cup {doc}
  <2> DEFINE call == [Call("delta", "next key") EXCEPT !.slot = 1, !.doc = doc]
  <2>1. HoldsDoc(call) /\ call.doc = doc
    BY DEF HoldsDoc, Call
  <2>2. UNCHANGED stack \/ stack' = Append(stack, call)
    BY <1>1 DEF Push
  <2> HIDE DEF call
  <2>3. IsStack(stack)
    BY DEF DeltaInv
  <2>4. CASE UNCHANGED stack
    BY <2>3, <2>4
  <2>5. CASE stack' = Append(stack, call)
    BY <2>1, <2>3, <2>5, Pushed
  <2> QED
    BY <2>2, <2>4, <2>5
<1>5. IsOld(doc) => Docs(stack') = Docs(stack)
  BY <1>1
<1>6. SentInv'
  BY <1>1, <1>2, <1>3, <1>4 DEF DeltaInv, SentInv
<1>7. OrderInv'
  <2> SUFFICES ASSUME app.discards, inits = 0
               PROVE  /\ doc.version <= version'
                      /\ \A key \in Keys : applied[key] <= version'
                      /\ doc \in Docs(stack') => \A key \in Keys : applied[key] <= doc.version
    BY <1>1, <1>2 DEF OrderInv
  <2>1. \A key \in Keys : applied[key] \in Nat /\ applied[key] <= version
    BY DEF DeltaInv, OrderInv
  <2>2. version \in Nat
    BY DEF DeltaInv
  <2>3. CASE IsOld(doc)
    BY <1>1, <1>3, <1>5, <2>1, <2>3 DEF IsOld
  <2>4. CASE ~IsOld(doc)
    <3>1. version' = doc.version /\ doc.version > version
      BY <1>1, <1>3, <2>2, <2>4 DEF IsOld
    <3> QED
      BY <1>3, <2>1, <2>2, <3>1
  <2> QED
    BY <2>3, <2>4
<1>8. version' \in Nat
  BY <1>1, <1>3 DEF DeltaInv
<1> QED
  BY <1>1, <1>2, <1>3, <1>4, <1>6, <1>7, <1>8 DEF DeltaInv

\* A key gets the value of the document parsed last.
LEMMA KeyApplied ==
  ASSUME DeltaInv, NextKey
  PROVE  DeltaInv'
<1>1. UNCHANGED <<app, cloud, deltas, cloudVersion, inits, parsed, version>>
  BY DEF NextKey, service, buffers, ghosts
<1>2. Quiet
  <2>1. ~Idle
    BY DEF NextKey, At
  <2>2. HoldsDoc(Top)
    BY <2>1, Returned DEF Idle, Top, DeltaInv
  <2>3. GoOn([Top EXCEPT !.pc = "callback"]) \/ GoOn([Top EXCEPT !.slot = @ + 1])
    BY DEF NextKey
  <2> QED
    BY <2>1, <2>2, <2>3, QuietGoOn DEF HoldsDoc, DeltaInv
<1>3. CASE UNCHANGED applied
  <2>1. version' \in Nat /\ version' >= version /\ parsed' \in {parsed, NoDoc}
    BY <1>1 DEF DeltaInv
  <2> QED
    BY <1>1, <1>2, <1>3, <2>1, QuietStep
<1>4. CASE \E key : applied' = [applied EXCEPT ![key] = parsed.version]
  <2>1. applied' \in [Keys -> Nat] /\ \A k \in Keys : applied'[k] \in {applied[k], parsed.version}
    BY <1>4 DEF DeltaInv
  <2>2. SentInv'
    <3>1. ASSUME NEW d \in Docs(stack') PROVE d \notin deltas /\ (d = NoDoc \/ d.version \in 1..cloudVersion)
      <4>1. d \in Docs(stack) \/ d = NoDoc
        BY <1>2 DEF Quiet
      <4> QED
        BY <4>1, NoDocVersion DEF DeltaInv, SentInv
    <3> QED
      BY <1>1, <3>1 DEF DeltaInv, SentInv
  <2>3. OrderInv'
    BY <1>1, <1>2, <2>1 DEF DeltaInv, OrderInv, Quiet
  <2> QED
    BY <1>1, <1>2, <2>1, <2>2, <2>3 DEF DeltaInv, Quiet
<1>5. UNCHANGED applied \/ applied' = [applied EXCEPT ![tokenTable[Top.slot]] = parsed.version]
  BY DEF NextKey
<1> QED
  BY <1>3, <1>4, <1>5

LEMMA DeltaInvStep == DeltaInv /\ [Next]_vars => DeltaInv'
<1> SUFFICES ASSUME DeltaInv, [Next]_vars PROVE DeltaInv'
  OBVIOUS
<1> USE DEF DeltaInv
<1>1. CASE Request
  <2>1. Quiet
    BY <1>1, QuietBegin
  <2>2. UNCHANGED <<app, applied, inits, deltas, cloudVersion, version, cloud>> /\ parsed' = NoDoc
    BY <1>1 DEF Request, Begin, table, service
  <2> QED
    BY <2>1, <2>2, QuietStep
<1>2. CASE RegisterDelta
  <2>1. Quiet
    <3>1. CASE UNCHANGED stack
      BY <3>1 DEF Quiet
    <3>2. CASE \E key : Push([Call("register", "subscribe delta") EXCEPT !.key = key])
      <4>1. PICK key : Push([Call("register", "subscribe delta") EXCEPT !.key = key])
        BY <3>2
      <4>2. HoldsDoc([Call("register", "subscribe delta") EXCEPT !.key = key])
            /\ [Call("register", "subscribe delta") EXCEPT !.key = key].doc = NoDoc
        BY DEF HoldsDoc, Call
      <4> QED
        BY <4>1, <4>2, QuietPush
    <3> QED
      BY <1>2, <3>1, <3>2 DEF RegisterDelta
  <2>2. UNCHANGED <<app, applied, inits, deltas, cloudVersion, version, cloud, parsed>>
    BY <1>2 DEF RegisterDelta, service, buffers, ghosts
  <2> QED
    BY <2>1, <2>2, QuietStep
<1>3. CASE ShadowInit
  <2>1. inits' = inits + 1 /\ version' = 0 /\ UNCHANGED <<app, stack, applied, buffers, service>>
    BY <1>3 DEF ShadowInit
  <2>2. UNCHANGED <<stack, applied, parsed, cloud, deltas, cloudVersion>>
    BY <2>1 DEF buffers, service
  <2>3. inits' \in Nat \ {0}
    BY <2>1
  <2>4. OrderInv'
    BY <2>3 DEF OrderInv
  <2>5. SentInv'
    BY <2>2 DEF SentInv
  <2> QED
    BY <2>1, <2>2, <2>3, <2>4, <2>5
<1>4. CASE Yield
  <2>1. Quiet
    BY <1>4, QuietExpired DEF Yield
  <2>2. UNCHANGED <<app, applied, inits, deltas, cloudVersion, version, cloud, parsed>>
    BY <1>4 DEF Yield, service, buffers, ghosts, table
  <2> QED
    BY <2>1, <2>2, QuietStep
<1>5. CASE SubscribeAccepted \/ SubscribeRejected \/ Withdrawn \/ AnswerHandled \/ LeaveTopic
             \/ Unsubscribe \/ Left \/ SubscribeDelta \/ KeyHandled \/ DeltaHandled
  <2>1. Quiet
    BY <1>5, QuietProceed
  <2>2. UNCHANGED <<app, applied, inits, deltas, cloudVersion, version, cloud, parsed>>
    BY <1>5 DEF SubscribeAccepted, SubscribeRejected, Withdrawn, AnswerHandled, LeaveTopic, Unsubscribe, Left,
         SubscribeDelta, KeyHandled, DeltaHandled, service, buffers, ghosts, table
  <2> QED
    BY <2>1, <2>2, QuietStep
<1>6. CASE Publish
  <2>1. Quiet
    BY <1>6, QuietProceed
  <2>2. UNCHANGED <<app, applied, inits, deltas, cloudVersion, version, parsed>>
    BY <1>6 DEF Publish, buffers, ghosts, table
  <2>3. \A m \in cloud' : m \in cloud \/ m.version \in Nat
    BY <1>6 DEF Publish, SentInv
  <2> QED
    BY <2>1, <2>2, <2>3, QuietStep
<1>7. CASE NextKey
  BY <1>7, KeyApplied
<1>8. CASE AckStatusCallback
  <2>1. PICK m \in cloud :
          /\ cloud' = cloud \ {m} /\ parsed' = NoDoc
          /\ version' = IF m.topic = Topic("get", "accepted") THEN Max({version, m.version}) ELSE version
          /\ UNCHANGED stack \/ Push([Call("answer", "callback") EXCEPT !.slot = Match(m)])
    BY <1>8 DEF AckStatusCallback
  <2>2. Quiet
    <3>1. HoldsDoc([Call("answer", "callback") EXCEPT !.slot = Match(m)])
          /\ [Call("answer", "callback") EXCEPT !.slot = Match(m)].doc = NoDoc
      BY DEF HoldsDoc, Call
    <3>2. CASE UNCHANGED stack
      BY <3>2 DEF Quiet
    <3> QED
      BY <2>1, <3>1, <3>2, QuietPush
  <2>3. version' \in Nat /\ version' >= version
    <3>1. version \in Nat /\ m.version \in Nat
      BY DEF SentInv
    <3>2. \E x \in {version, m.version} : \A y \in {version, m.version} : x >= y
      BY <3>1
    <3>3. Max({version, m.version}) \in {version, m.version} /\ Max({version, m.version}) >= version
      BY <3>2 DEF Max
    <3> QED
      BY <2>1, <3>1, <3>3
  <2>4. UNCHANGED <<app, applied, inits, deltas, cloudVersion>>
    BY <1>8 DEF AckStatusCallback, ghosts, table
  <2> QED
    BY <2>1, <2>2, <2>3, <2>4, QuietStep
<1>9. CASE ShadowDeltaCallback
  BY <1>9, DeltaRead
<1>10. CASE CloudDelta
  <2>1. UNCHANGED <<app, stack, applied, inits, version, parsed, cloud>>
    BY <1>10 DEF CloudDelta, buffers, ghosts, table
  <2>2. PICK keys : deltas' = deltas \cup {[version |-> cloudVersion + 1, keys |-> keys]}
    BY <1>10 DEF CloudDelta
  <2>3. cloudVersion' = cloudVersion + 1
    BY <1>10 DEF CloudDelta
  <2>4. SentInv'
    <3>1. ASSUME NEW d \in Docs(stack)
          PROVE  d \notin deltas' /\ (d = NoDoc \/ d.version \in 1..cloudVersion')
      <4>1. d \notin deltas /\ (d = NoDoc \/ d.version \in 1..cloudVersion) /\ cloudVersion \in Nat
        BY DEF SentInv
      <4>2. d # [version |-> cloudVersion + 1, keys |-> keys]
        <5>1. d.version # cloudVersion + 1
          BY <4>1, NoDocVersion
        <5> QED
          BY <5>1
      <4> QED
        BY <2>2, <2>3, <4>1, <4>2
    <3>2. ASSUME NEW d \in deltas' PROVE d.version \in 1..cloudVersion'
      BY <2>2, <2>3, <3>2 DEF SentInv
    <3> QED
      BY <2>1, <2>3, <3>1, <3>2 DEF SentInv
  <2>5. OrderInv'
    BY <2>1 DEF OrderInv
  <2> QED
    BY <2>1, <2>4, <2>5
<1>11. CASE Tick
  <2>1. UNCHANGED <<app, stack, applied, inits, deltas, cloudVersion, version, cloud, parsed>>
    BY <1>11 DEF Tick, service, buffers, ghosts, table
  <2> QED
    BY <2>1, QuietStep DEF Quiet
<1>12. CASE UNCHANGED vars
  <2>1. UNCHANGED <<app, stack, applied, inits, deltas, cloudVersion, version, cloud, parsed>>
    BY <1>12 DEF vars, service, buffers, ghosts, table
  <2> QED
    BY <2>1, QuietStep DEF Quiet
<1> QED
  BY <1>1, <1>2, <1>3, <1>4, <1>5, <1>6, <1>7, <1>8, <1>9, <1>10, <1>11, <1>12 DEF Next, Proceed

LEMMA DeltaInvInit == Init => DeltaInv
<1> SUFFICES ASSUME Init PROVE DeltaInv
  OBVIOUS
<1>1. stack = <<>> /\ Docs(stack) = {} /\ IsStack(stack)
  BY DEF Init, Docs, IsStack
<1>2. SentInv
  BY <1>1 DEF Init, SentInv
<1>3. OrderInv
  BY <1>1, NoDocVersion DEF Init, OrderInv
<1> QED
  BY <1>1, <1>2, <1>3, NoDocVersion DEF Init, DeltaInv

\* In every state the documents in hand are different deltas the service has sent, and as long
\* as the document in the shared buffers is one of them, no key has a newer value than it.
THEOREM DeltaInvAlways == Spec => []DeltaInv
<1>1. Init => DeltaInv
  BY DeltaInvInit
<1>2. DeltaInv /\ [Next]_vars => DeltaInv'
  BY DeltaInvStep
<1> QED
  BY <1>1, <1>2, PTL DEF Spec

\* Only the loop over the registered keys in shadow_delta_callback changes what is applied.
LEMMA OnlyNextKeyApplies ==
  ASSUME [Next]_vars, ~NextKey
  PROVE  applied' = applied \/ ~(app.discards /\ inits = 0)
<1>1. CASE UNCHANGED vars
  BY <1>1 DEF vars, table
<1>2. CASE Request \/ RegisterDelta \/ ShadowInit \/ Yield
  BY <1>2 DEF Request, RegisterDelta, ShadowInit, Yield, table
<1>3. CASE AckStatusCallback \/ ShadowDeltaCallback \/ CloudDelta \/ Tick
  BY <1>3 DEF AckStatusCallback, ShadowDeltaCallback, CloudDelta, Tick, table
<1>4. CASE SubscribeAccepted \/ SubscribeRejected \/ Withdrawn \/ Publish \/ AnswerHandled \/ LeaveTopic
  BY <1>4 DEF SubscribeAccepted, SubscribeRejected, Withdrawn, Publish, AnswerHandled, LeaveTopic, table
<1>5. CASE Unsubscribe \/ Left \/ SubscribeDelta \/ KeyHandled \/ DeltaHandled
  BY <1>5 DEF Unsubscribe, Left, SubscribeDelta, KeyHandled, DeltaHandled, table
<1> QED
  BY <1>1, <1>2, <1>3, <1>4, <1>5 DEF Next, Proceed

\* The key that gets a value had none that is newer, and the others keep theirs.
LEMMA AppliedInOrder ==
  ASSUME DeltaInv, NextKey, app.discards, inits = 0, parsed = Top.doc, NEW key \in Keys
  PROVE  applied[key] <= applied'[key]
<1>1. applied \in [Keys -> Nat] /\ parsed.version \in Nat
  BY DEF DeltaInv
<1>2. parsed \in Docs(stack)
  BY Returned DEF NextKey, At, Idle, Top, DeltaInv
<1>3. applied' = applied
      \/ (parsed.keys # {} /\ applied' = [applied EXCEPT ![tokenTable[Top.slot]] = parsed.version])
  BY DEF NextKey, Applies
<1>4. CASE applied' = applied
  BY <1>1, <1>4
<1>5. CASE parsed.keys # {} /\ applied' = [applied EXCEPT ![tokenTable[Top.slot]] = parsed.version]
  <2>1. parsed # NoDoc
    BY <1>5, NoDocVersion
  <2>2. applied[key] <= parsed.version
    BY <1>2, <2>1 DEF DeltaInv, OrderInv
  <2>3. applied'[key] = applied[key] \/ applied'[key] = parsed.version
    BY <1>1, <1>5
  <2> QED
    BY <1>1, <2>2, <2>3
<1> QED
  BY <1>3, <1>4, <1>5

LEMMA SameIsNotLess == \A n \in Nat : n >= n
OBVIOUS

LEMMA DeltaStepInOrder ==
  ASSUME DeltaInv, [Next]_vars, app.discards, inits = 0, At("next key") => parsed = Top.doc, NEW key \in Keys
  PROVE  applied'[key] >= applied[key]
<1>1. applied \in [Keys -> Nat] /\ applied' \in [Keys -> Nat]
  BY DeltaInvStep DEF DeltaInv
<1>2. applied[key] \in Nat /\ applied'[key] \in Nat
  BY <1>1
<1>3. CASE ~NextKey
  <2>1. applied'[key] = applied[key]
    BY <1>3, OnlyNextKeyApplies
  <2> QED
    BY <1>2, <2>1, SameIsNotLess, Zenon
<1>4. CASE NextKey
  <2>1. At("next key")
    BY <1>4 DEF NextKey
  <2>2. applied[key] <= applied'[key]
    BY <1>4, <2>1, AppliedInOrder
  <2> QED
    BY <1>2, <2>2
<1> QED
  BY <1>3, <1>4

\* Where old deltas are discarded, no key goes back to an older version while the document in
\* the shared buffers is the delta under way: whatever the number of records and keys, and
\* whatever callbacks, lost answers, failed calls and reordered deltas come in between.
THEOREM DeltasCorrect == Spec => DeltasInOrder
<1>1. DeltaInv /\ [Next]_vars =>
        [app.discards /\ inits = 0 /\ (At("next key") => parsed = Top.doc) =>
           \A key \in Keys : applied'[key] >= applied[key]]_vars
  BY DeltaStepInOrder
<1> QED
  BY <1>1, DeltaInvAlways, PTL DEF Spec, DeltasInOrder

-----------------------------------------------------------------------------
(* Timeouts. *)

LEMMA MinOfSlots == ASSUME NEW set, set \subseteq Nat, set # {} PROVE Min(set) \in set
<1>1. PICK x \in set : \A y \in set : ~(<<y, x>> \in OpToRel(<, Nat))
  BY NatLessThanWellFounded, WFMin
<1>2. ASSUME NEW y \in set PROVE x <= y
  <2>1. x \in Nat /\ y \in Nat /\ <<y, x>> \in Nat \X Nat
    OBVIOUS
  <2>2. ~(y < x)
    BY <1>1, <2>1 DEF OpToRel
  <2> QED
    BY <2>1, <2>2
<1> QED
  BY <1>2 DEF Min

LEMMA SmallestIsIn ==
  ASSUME NEW set, set \subseteq Nat, Smallest(set) # 0
  PROVE  Smallest(set) \in set
BY MinOfSlots DEF Smallest

LEMMA SeqExcept ==
  ASSUME NEW S, NEW s \in Seq(S), NEW i, NEW e, i \in DOMAIN s => e \in S
  PROVE  [s EXCEPT ![i] = e] \in Seq(S)
<1>1. CASE i \in DOMAIN s
  BY <1>1, ExceptSeq
<1>2. CASE i \notin DOMAIN s
  <2>1. [s EXCEPT ![i] = e] = s
    BY <1>2
  <2> QED
    BY <2>1
<1> QED
  BY <1>1, <1>2

Told == {"accepted", "rejected", "timeout"}
RequestRecords == [answers : Seq(Told), truth : {"none", "accepted", "rejected"}, sent : BOOLEAN]
\* A request is told its answer or of a timeout, and nothing else.
AnswersInv ==
  /\ requests \in Seq(RequestRecords)
  /\ \A m \in cloud : m.topic.verdict \in {"accepted", "rejected"}
\* The timer of a record in use was started its age ago.
Timed(record, time) ==
  record.free \/ /\ "age" \in DOMAIN record /\ record.age \in Ticks
                 /\ \E start \in Ticks : record.timer = Countdown(start, TimeoutMs) /\ time = Later(start, record.age)
TimedInv ==
  /\ now \in Ticks
  /\ ackWaitList = [i \in Slots |-> ackWaitList[i]]
  /\ \A i \in Slots : Timed(ackWaitList[i], now)
TimeoutInv == AnswersInv /\ TimedInv

LEMMA AnswerTold ==
  ASSUME AnswersInv, NEW req, NEW verdict \in Told
  PROVE  Answer(req, verdict) \in Seq(RequestRecords)
<1> DEFINE e == [requests[req] EXCEPT !.answers = Append(@, verdict)]
<1>1. ASSUME req \in DOMAIN requests PROVE e \in RequestRecords
  <2>1. requests[req] \in RequestRecords
    BY <1>1 DEF AnswersInv
  <2>2. Append(requests[req].answers, verdict) \in Seq(Told)
    BY <2>1, AppendProperties DEF RequestRecords
  <2> QED
    BY <2>1, <2>2 DEF RequestRecords
<1> HIDE DEF e
<1>2. [requests EXCEPT ![req] = e] \in Seq(RequestRecords)
  BY <1>1, SeqExcept DEF AnswersInv
<1> QED
  BY <1>2 DEF Answer, e

\* A record whose timer has expired has waited its time, wherever the tick counter wrapped.
LEMMA ExpiredIsDue ==
  ASSUME TimedInv, NEW i \in Slots, Expired(i)
  PROVE  ~(ackWaitList[i].age < TimeoutMs \div TickPeriod)
<1>1. ackWaitList[i].age \in Ticks /\ HasExpired(ackWaitList[i].timer, now)
  BY DEF TimedInv, Timed, Expired
<1>2. PICK start \in Ticks :
        ackWaitList[i].timer = Countdown(start, TimeoutMs) /\ now = Later(start, ackWaitList[i].age)
  BY DEF TimedInv, Timed, Expired
<1>3. ackWaitList[i].age >= TimeoutMs \div TickPeriod
  BY <1>1, <1>2, TimerExact, ShadowAssumption
<1>4. ackWaitList[i].age \in Int /\ TimeoutMs \div TickPeriod \in Int
  BY <1>1, ShadowAssumption, TimerAssumption DEF Ticks
<1> QED
  BY <1>3, <1>4

LEMMA ExpiredTold ==
  ASSUME TimeoutInv, NEW from, NEW calls, HandleExpired(from, calls)
  PROVE  requests' \in Seq(RequestRecords)
<1> DEFINE due == {j \in Slots : j >= from /\ Expired(j)}
           i == Smallest(due)
<1>1. CASE UNCHANGED requests
  BY <1>1 DEF TimeoutInv, AnswersInv
<1>2. CASE i # 0 /\ requests' = Answer(ackWaitList[i].req, IF ackWaitList[i].age < TimeoutMs \div TickPeriod THEN "early" ELSE "timeout")
  <2>1. due \subseteq Nat
    BY ShadowAssumption DEF Slots
  <2>2. i \in due
    BY <1>2, <2>1, SmallestIsIn
  <2>3. ~(ackWaitList[i].age < TimeoutMs \div TickPeriod)
    BY <2>2, ExpiredIsDue DEF TimeoutInv
  <2>4. requests' = Answer(ackWaitList[i].req, "timeout")
    BY <1>2, <2>3
  <2> QED
    BY <2>4, AnswerTold DEF TimeoutInv, Told
<1> QED
  BY <1>1, <1>2 DEF HandleExpired

\* A step that starts no timer and lets no time pass keeps the invariant if what it tells is right.
LEMMA TimersKept ==
  ASSUME TimeoutInv, UNCHANGED now, cloud' \subseteq cloud, requests' \in Seq(RequestRecords),
         ackWaitList' = [j \in Slots |-> ackWaitList'[j]],
         \A j \in Slots : ackWaitList'[j] = ackWaitList[j] \/ ackWaitList'[j].free
  PROVE  TimeoutInv'
<1>1. AnswersInv'
  BY DEF TimeoutInv, AnswersInv
<1>2. ASSUME NEW j \in Slots PROVE Timed(ackWaitList'[j], now)
  BY DEF TimeoutInv, TimedInv, Timed
<1>3. TimedInv'
  BY <1>2 DEF TimeoutInv, TimedInv
<1> QED
  BY <1>1, <1>3 DEF TimeoutInv

LEMMA NothingTimed ==
  ASSUME TimeoutInv, UNCHANGED <<now, cloud, ackWaitList, requests>>
  PROVE  TimeoutInv'
BY TimersKept DEF TimeoutInv, AnswersInv, TimedInv

LEMMA FreedIsFree ==
  ASSUME TimeoutInv, NEW slot
  PROVE  /\ Freed(slot) = [j \in Slots |-> Freed(slot)[j]]
         /\ \A j \in Slots : Freed(slot)[j] = ackWaitList[j] \/ Freed(slot)[j].free
<1> DEFINE e == [FreeAck EXCEPT !.action = ackWaitList[slot].action]
<1>1. e.free
  BY DEF FreeAck
<1> HIDE DEF e
<1>2. Freed(slot) = [ackWaitList EXCEPT ![slot] = e]
  BY DEF Freed, e
<1> QED
  BY <1>1, <1>2 DEF TimeoutInv, TimedInv

LEMMA RequestTimed == ASSUME TimeoutInv, Request PROVE TimeoutInv'
<1>1. requests' = Append(requests, [answers |-> <<>>, truth |-> "none", sent |-> FALSE])
      /\ UNCHANGED <<now, cloud, ackWaitList>>
  BY DEF Request, Begin, service
<1>2. [answers |-> <<>>, truth |-> "none", sent |-> FALSE] \in RequestRecords
  BY DEF RequestRecords
<1>3. requests' \in Seq(RequestRecords)
  BY <1>1, <1>2, AppendProperties DEF TimeoutInv, AnswersInv
<1> QED
  BY <1>1, <1>3, TimersKept DEF TimeoutInv, TimedInv

LEMMA PublishTimed == ASSUME TimeoutInv, Publish PROVE TimeoutInv'
<1>1. CASE UNCHANGED <<ackWaitList, cloud, requests>>
  BY <1>1, NothingTimed DEF Publish
<1>2. CASE \E verdict \in {"accepted", "rejected"} :
             /\ cloud' = cloud \union {[req |-> Top.req, token |-> Top.token, topic |-> Topic(Top.action, verdict),
                                        version |-> cloudVersion]}
             /\ requests' = [requests EXCEPT ![Top.req].truth = verdict, ![Top.req].sent = TRUE]
             /\ ackWaitList' = [ackWaitList EXCEPT ![Top.slot] =
                  [free |-> FALSE, token |-> Top.token, action |-> Top.action, timer |-> StartTimer, req |-> Top.req, age |-> 0]]
             /\ UNCHANGED now
  <2>1. PICK verdict \in {"accepted", "rejected"} :
             /\ cloud' = cloud \union {[req |-> Top.req, token |-> Top.token, topic |-> Topic(Top.action, verdict),
                                        version |-> cloudVersion]}
             /\ requests' = [requests EXCEPT ![Top.req].truth = verdict, ![Top.req].sent = TRUE]
             /\ ackWaitList' = [ackWaitList EXCEPT ![Top.slot] =
                  [free |-> FALSE, token |-> Top.token, action |-> Top.action, timer |-> StartTimer, req |-> Top.req, age |-> 0]]
             /\ UNCHANGED now
    BY <1>2
  <2>2. \A m \in cloud' : m.topic.verdict \in {"accepted", "rejected"}
    BY <2>1 DEF TimeoutInv, AnswersInv, Topic
  <2>3. requests' \in Seq(RequestRecords)
    <3> DEFINE e == [requests[Top.req] EXCEPT !.truth = verdict, !.sent = TRUE]
    <3>1. ASSUME Top.req \in DOMAIN requests PROVE e \in RequestRecords
      <4>1. requests[Top.req] \in RequestRecords
        BY <3>1 DEF TimeoutInv, AnswersInv
      <4> QED
        BY <4>1 DEF RequestRecords
    <3>2. requests' = [requests EXCEPT ![Top.req] = e]
      BY <2>1 DEF TimeoutInv, AnswersInv
    <3> HIDE DEF e
    <3> QED
      BY <3>1, <3>2, SeqExcept DEF TimeoutInv, AnswersInv
  <2>4. TimedInv'
    <3> DEFINE e == [free |-> FALSE, token |-> Top.token, action |-> Top.action, timer |-> StartTimer, req |-> Top.req,
                     age |-> 0]
    <3>1. Timed(e, now)
      <4>1. 0 \in Ticks /\ now \in Ticks /\ Later(now, 0) = now
        BY TimerAssumption DEF TimeoutInv, TimedInv, Ticks, Later
      <4> QED
        BY <4>1 DEF Timed, StartTimer
    <3> HIDE DEF e
    <3>2. ackWaitList' = [ackWaitList EXCEPT ![Top.slot] = e] /\ UNCHANGED now
      BY <2>1 DEF e
    <3>3. \A j \in Slots : ackWaitList'[j] = ackWaitList[j] \/ ackWaitList'[j] = e
      BY <3>2 DEF TimeoutInv, TimedInv
    <3>4. ackWaitList' = [j \in Slots |-> ackWaitList'[j]]
      BY <3>2 DEF TimeoutInv, TimedInv
    <3>5. \A j \in Slots : Timed(ackWaitList'[j], now)
      BY <3>1, <3>3 DEF TimeoutInv, TimedInv
    <3> QED
      BY <3>2, <3>4, <3>5 DEF TimeoutInv, TimedInv
  <2> QED
    BY <2>2, <2>3, <2>4 DEF TimeoutInv, AnswersInv
<1> QED
  BY <1>1, <1>2 DEF Publish

LEMMA TickTimed == ASSUME TimeoutInv, Tick PROVE TimeoutInv'
<1>1. UNCHANGED <<requests, cloud>> /\ now' = Later(now, 1)
      /\ ackWaitList' = [j \in Slots |-> IF ackWaitList[j].free THEN ackWaitList[j] ELSE [ackWaitList[j] EXCEPT !.age = @ + 1]]
      /\ \A j \in Slots : ~ackWaitList[j].free => ackWaitList[j].age < Wrap - 1
  BY DEF Tick, service
<1>2. now' \in Ticks
  BY <1>1, TimerAssumption DEF TimeoutInv, TimedInv, Later, Ticks
<1>3. ASSUME NEW j \in Slots PROVE Timed(ackWaitList'[j], now')
  <2>1. CASE ackWaitList[j].free
    BY <1>1, <2>1 DEF Timed
  <2>2. CASE ~ackWaitList[j].free
    <3>1. ackWaitList'[j] = [ackWaitList[j] EXCEPT !.age = @ + 1]
      BY <1>1, <2>2
    <3>2. "age" \in DOMAIN ackWaitList[j] /\ ackWaitList[j].age \in Ticks /\ ackWaitList[j].age < Wrap - 1
      BY <1>1, <2>2 DEF TimeoutInv, TimedInv, Timed
    <3>3. PICK start \in Ticks :
            ackWaitList[j].timer = Countdown(start, TimeoutMs) /\ now = Later(start, ackWaitList[j].age)
      BY <2>2 DEF TimeoutInv, TimedInv, Timed
    <3>4. /\ "age" \in DOMAIN ackWaitList'[j] /\ ackWaitList'[j].age = ackWaitList[j].age + 1
          /\ ackWaitList'[j].timer = ackWaitList[j].timer
      BY <3>1, <3>2
    <3>5. now' = Later(start, ackWaitList[j].age + 1)
      BY <1>1, <3>2, <3>3, TimerAssumption DEF Later, Ticks
    <3>6. ackWaitList[j].age + 1 \in Ticks
      BY <3>2, TimerAssumption DEF Ticks
    <3> QED
      BY <3>3, <3>4, <3>5, <3>6 DEF Timed
  <2> QED
    BY <2>1, <2>2
<1>4. ackWaitList' = [j \in Slots |-> ackWaitList'[j]]
  BY <1>1
<1> QED
  BY <1>1, <1>2, <1>3, <1>4 DEF TimeoutInv, AnswersInv, TimedInv

LEMMA TimeoutInvStep == TimeoutInv /\ [Next]_vars => TimeoutInv'
<1> SUFFICES ASSUME TimeoutInv, [Next]_vars PROVE TimeoutInv'
  OBVIOUS
<1>1. CASE Request
  BY <1>1, RequestTimed
<1>2. CASE Publish
  BY <1>2, PublishTimed
<1>3. CASE Tick
  BY <1>3, TickTimed
<1>4. CASE RegisterDelta \/ CloudDelta \/ ShadowDeltaCallback \/ UNCHANGED vars
  BY <1>4, NothingTimed DEF RegisterDelta, CloudDelta, ShadowDeltaCallback, vars, service, records
<1>5. CASE SubscribeAccepted \/ SubscribeRejected \/ Withdrawn \/ LeaveTopic \/ Unsubscribe
  BY <1>5, NothingTimed DEF SubscribeAccepted, SubscribeRejected, Withdrawn, LeaveTopic, Unsubscribe, service
<1>6. CASE SubscribeDelta \/ NextKey \/ KeyHandled \/ DeltaHandled
  BY <1>6, NothingTimed DEF SubscribeDelta, NextKey, KeyHandled, DeltaHandled, service, records
<1>7. CASE ShadowInit
  <2>1. ackWaitList' = [j \in Slots |-> FreeAck] /\ UNCHANGED <<now, cloud, requests>>
    BY <1>7 DEF ShadowInit, service
  <2>2. FreeAck.free
    BY DEF FreeAck
  <2> QED
    BY <2>1, <2>2, TimersKept DEF TimeoutInv, AnswersInv
<1>8. CASE Yield
  <2>1. requests' \in Seq(RequestRecords)
    BY <1>8, ExpiredTold DEF Yield
  <2>2. UNCHANGED <<now, cloud, ackWaitList>>
    BY <1>8 DEF Yield, service, records
  <2> QED
    BY <2>1, <2>2, TimersKept DEF TimeoutInv, TimedInv
<1>9. CASE AnswerHandled
  <2>1. UNCHANGED <<now, cloud, requests>> /\ (ackWaitList' = ackWaitList \/ ackWaitList' = Freed(Top.slot))
    BY <1>9 DEF AnswerHandled, service
  <2> QED
    BY <2>1, NothingTimed, FreedIsFree, TimersKept DEF TimeoutInv, AnswersInv
<1>10. CASE Left
  <2>1. CASE UNCHANGED <<now, cloud, requests>> /\ ackWaitList' = Freed(Top.slot)
    BY <2>1, FreedIsFree, TimersKept DEF TimeoutInv, AnswersInv
  <2>2. CASE UNCHANGED <<now, cloud, ackWaitList>> /\ HandleExpired(Top.slot + 1, Front(stack))
    <3>1. requests' \in Seq(RequestRecords)
      BY <2>2, ExpiredTold
    <3> QED
      BY <2>2, <3>1, TimersKept DEF TimeoutInv, TimedInv
  <2> QED
    BY <1>10, <2>1, <2>2 DEF Left, service
<1>11. CASE AckStatusCallback
  <2>1. PICK m \in cloud :
          cloud' = cloud \ {m}
          /\ (UNCHANGED requests \/ requests' = Answer(ackWaitList[Match(m)].req, m.topic.verdict))
    BY <1>11 DEF AckStatusCallback
  <2>2. UNCHANGED <<now, ackWaitList>>
    BY <1>11 DEF AckStatusCallback, records
  <2>3. requests' \in Seq(RequestRecords)
    BY <2>1, AnswerTold DEF TimeoutInv, AnswersInv, Told
  <2> QED
    BY <2>1, <2>2, <2>3, TimersKept DEF TimeoutInv, TimedInv
<1> QED
  BY <1>1, <1>2, <1>3, <1>4, <1>5, <1>6, <1>7, <1>8, <1>9, <1>10, <1>11 DEF Next, Proceed

LEMMA TimeoutInvInit == Init => TimeoutInv
<1> SUFFICES ASSUME Init PROVE TimeoutInv
  OBVIOUS
<1>1. AnswersInv
  BY DEF Init, AnswersInv
<1>2. FreeAck.free
  BY DEF FreeAck
<1>3. TimedInv
  BY <1>2, ShadowAssumption DEF Init, TimedInv, Timed, Ticks
<1> QED
  BY <1>1, <1>3 DEF TimeoutInv

\* Every record in use carries a timer that was started as long ago as it has waited, and no
\* request is told anything but an answer of the service or a timeout.
THEOREM TimeoutInvAlways == Spec => []TimeoutInv
<1>1. Init => TimeoutInv
  BY TimeoutInvInit
<1>2. TimeoutInv /\ [Next]_vars => TimeoutInv'
  BY TimeoutInvStep
<1> QED
  BY <1>1, <1>2, PTL DEF Spec

\* HandleExpiredResponseCallbacks tells no request of a timeout before its time is over: however
\* wide the tick counter is and wherever it wraps, whatever the timeout and the number of records.
THEOREM TimeoutsDue == Spec => []NeverEarly
<1>1. TimeoutInv => NeverEarly
  <2> SUFFICES ASSUME TimeoutInv, NEW r \in DOMAIN requests PROVE "early" \notin ToSet(requests[r].answers)
    BY DEF NeverEarly
  <2>1. requests[r] \in RequestRecords
    BY DEF TimeoutInv, AnswersInv
  <2>2. requests[r].answers \in Seq(Told)
    BY <2>1 DEF RequestRecords
  <2>3. ToSet(requests[r].answers) \subseteq Told
    BY <2>2 DEF ToSet
  <2> QED
    BY <2>3 DEF Told
<1> QED
  BY <1>1, TimeoutInvAlways, PTL

-----------------------------------------------------------------------------
(* The stack of calls and the lists: their types, and what a step does to the stack. *)

Verdicts == {"accepted", "rejected"}
Persistence == BOOLEAN \cup UNION {a.sticky : a \in Apps}
TopicNames == [action : Actions \cup {"none", "update"}, verdict : Verdicts \cup {"delta", "none"}]
Documents == [version : Nat, keys : SUBSET Keys]
Handling == {"callback", "leave accepted", "leave rejected", "unsubscribe", "left"}
PcsOf(kind) ==
  CASE kind = "request"                 -> {"publish", "subscribe accepted", "subscribe rejected", "withdraw"}
    [] kind \in {"answer", "expire"}    -> Handling
    [] kind = "delta"                   -> {"next key", "callback"}
    [] kind = "register"                -> {"subscribe delta"}
Kinds == {"request", "answer", "expire", "delta", "register"}
Pcs == UNION {PcsOf(kind) : kind \in Kinds}
Calls == [kind : Kinds, pc : Pcs, slot : Nat, req : Nat, token : Nat, action : Actions \cup {"none"},
          sticky : Persistence, topic : TopicNames, entry : Nat, rejected : Nat, failed : BOOLEAN,
          doc : Documents, key : Keys \cup {"none"}]
TimerValues == {Countdown(t, ms) : t \in Nat, ms \in Nat}
AckRecords == [free : BOOLEAN, token : Nat, action : Actions \cup {"none"}, timer : TimerValues, req : Nat, age : Nat]
EntryRecords == [free : BOOLEAN, topic : TopicNames, count : Nat, sticky : Persistence]

\* Who can call whom: a request runs inside a callback, what a message causes inside of what waits, and
\* a timeout is told by the application's own yield.
WellPlaced(f) ==
  /\ f.pc \in PcsOf(f.kind)
  /\ f.pc \in {"subscribe accepted", "subscribe rejected"} => f.entry \in Entries /\ f.rejected \in Entries \ {f.entry}
CallOK(s, j) ==
  /\ WellPlaced(s[j])
  /\ s[j].kind = "expire" => j = 1
  /\ j < Len(s) => IF s[j + 1].kind = "request" THEN s[j].pc = "callback" ELSE s[j].pc \in Waiting
StackInv ==
  /\ \A j \in 1..Len(stack) : CallOK(stack, j)
  /\ ~reentered => \A j \in 1..Len(stack) : stack[j].kind = "request" =>
                     j = 1 \/ (j = 2 /\ stack[1].kind \in {"answer", "delta"})

TypeInv ==
  /\ app \in Apps
  /\ stack \in Seq(Calls)
  /\ ackWaitList \in [Slots -> AckRecords] /\ subList \in [Entries -> EntryRecords]
  /\ \A m \in cloud : m.req \in Nat /\ m.token \in Nat
  /\ deltas \subseteq Documents /\ cloudVersion \in Nat
  /\ tokenNum \in Nat /\ failures \in Nat /\ inits \in Nat
  /\ reentered \in BOOLEAN /\ full \in BOOLEAN

\* A call begins, the innermost one goes on as c, or it ends.
Entered(c) ==
  /\ stack' \in Seq(Calls) /\ Len(stack) \in Nat /\ Len(stack') = Len(stack) + 1
  /\ stack'[Len(stack) + 1] = c
  /\ \A j \in 1..Len(stack) : stack'[j] = stack[j]
Resumed(c) ==
  /\ stack' \in Seq(Calls) /\ Len(stack) \in Nat \ {0} /\ Len(stack') = Len(stack)
  /\ stack'[Len(stack)] = c
  /\ \A j \in 1..Len(stack) - 1 : stack'[j] = stack[j]
Ended ==
  /\ stack' \in Seq(Calls) /\ Len(stack) \in Nat \ {0} /\ Len(stack') = Len(stack) - 1
  /\ \A j \in 1..Len(stack) - 1 : stack'[j] = stack[j]

LEMMA PushEnters ==
  ASSUME stack \in Seq(Calls), NEW c \in Calls, Push(c)
  PROVE  Entered(c)
<1>1. Len(stack) \in Nat
  OBVIOUS
<1> QED
  BY <1>1 DEF Push, Entered

LEMMA TopIs ==
  ASSUME stack \in Seq(Calls), ~Idle
  PROVE  Len(stack) \in Nat \ {0} /\ Top = stack[Len(stack)] /\ Top \in Calls
BY DEF Idle, Top, Last

LEMMA FrontIs ==
  ASSUME stack \in Seq(Calls), ~Idle
  PROVE  /\ Front(stack) \in Seq(Calls) /\ Len(Front(stack)) = Len(stack) - 1
         /\ \A j \in 1..Len(stack) - 1 : Front(stack)[j] = stack[j]
<1>1. Len(stack) \in Nat \ {0} /\ DOMAIN stack = 1..Len(stack)
  BY DEF Idle
<1> QED
  BY <1>1 DEF Front

LEMMA ReturnEnds ==
  ASSUME stack \in Seq(Calls), ~Idle, Return
  PROVE  Ended
BY FrontIs, TopIs DEF Return, Ended

LEMMA GoOnResumes ==
  ASSUME stack \in Seq(Calls), ~Idle, NEW c \in Calls, GoOn(c)
  PROVE  Resumed(c)
<1> DEFINE f == Front(stack)
<1>1. f \in Seq(Calls) /\ Len(f) = Len(stack) - 1 /\ Len(stack) \in Nat \ {0}
      /\ \A j \in 1..Len(stack) - 1 : f[j] = stack[j]
  BY FrontIs, TopIs
<1>2. stack' = Append(f, c)
  BY DEF GoOn
<1> HIDE DEF f
<1>3. Len(f) + 1 = Len(stack)
  BY <1>1
<1>4. Append(f, c) \in Seq(Calls) /\ Len(Append(f, c)) = Len(f) + 1 /\ Append(f, c)[Len(f) + 1] = c
      /\ \A j \in 1..Len(f) : Append(f, c)[j] = f[j]
  BY <1>1
<1> QED
  BY <1>1, <1>2, <1>3, <1>4 DEF Resumed

LEMMA NewCall ==
  ASSUME NEW kind \in Kinds, NEW pc \in PcsOf(kind)
  PROVE  Call(kind, pc) \in Calls /\ Call(kind, pc).kind = kind /\ Call(kind, pc).pc = pc
<1>1. pc \in Pcs
  BY DEF Pcs
<1>2. NoTopic \in TopicNames /\ NoDoc \in Documents
  BY DEF NoTopic, Topic, TopicNames, NoDoc, Documents
<1>3. FALSE \in Persistence
  <2>1. BOOLEAN \subseteq Persistence
    BY DEF Persistence
  <2> QED
    BY <2>1
<1>4. FALSE \in BOOLEAN /\ "none" \in Keys \cup {"none"} /\ "none" \in Actions \cup {"none"}
  BY Zenon
<1>5. 0 \in Nat
  OBVIOUS
<1> QED
  BY <1>1, <1>2, <1>3, <1>4, <1>5, Zenon DEF Call, Calls

\* What a call may do, and who may be below it, after a step.
LEMMA StackStep ==
  ASSUME TypeInv, StackInv, reentered => reentered', NEW c,
         \/ UNCHANGED stack
         \/ Ended
         \/ Resumed(c) /\ WellPlaced(c) /\ c.kind = Top.kind
         \/ /\ Entered(c) /\ WellPlaced(c)
            /\ c.kind = "expire" => Idle
            /\ ~Idle => IF c.kind = "request" THEN Top.pc = "callback" ELSE Top.pc \in Waiting
            /\ c.kind = "request" /\ ~reentered' => Idle \/ (Len(stack) = 1 /\ Top.kind \in {"answer", "delta"})
  PROVE  StackInv'
<1> DEFINE n == Len(stack)
<1>0. stack \in Seq(Calls) /\ n \in Nat /\ (n = 0 <=> Idle) /\ (~Idle => Top = stack[n])
  <2>1. ~Idle => Top = stack[n] /\ n # 0
    BY TopIs DEF TypeInv
  <2> QED
    BY <2>1 DEF TypeInv, Idle
<1> HIDE DEF n
<1>1. CASE UNCHANGED stack
  BY <1>1 DEF StackInv
<1>2. CASE Ended
  <2>1. /\ Len(stack') = n - 1 /\ n # 0
        /\ \A j \in 1..n - 1 : stack'[j] = stack[j]
    BY <1>2 DEF Ended, n
  <2>2. ASSUME NEW j \in 1..n - 1 PROVE CallOK(stack', j)
    <3>1. j \in 1..n /\ (j < n - 1 => j + 1 \in 1..n - 1)
      BY <1>0
    <3>2. CallOK(stack, j)
      BY <3>1 DEF StackInv, n
    <3> QED
      BY <1>0, <2>1, <3>1, <3>2 DEF CallOK, n
  <2>3. ASSUME ~reentered', NEW j \in 1..n - 1, stack'[j].kind = "request"
        PROVE  j = 1 \/ (j = 2 /\ stack'[1].kind \in {"answer", "delta"})
    <3>1. j \in 1..n /\ 1 \in 1..n - 1
      BY <1>0
    <3> QED
      BY <2>1, <2>3, <3>1 DEF StackInv, n
  <2> QED
    BY <2>1, <2>2, <2>3 DEF StackInv
<1>3. CASE Resumed(c) /\ WellPlaced(c) /\ c.kind = Top.kind
  <2>1. /\ Len(stack') = n /\ n # 0 /\ stack'[n] = c /\ c.kind = stack[n].kind /\ ~Idle
        /\ \A j \in 1..n - 1 : stack'[j] = stack[j]
    BY <1>0, <1>3 DEF Resumed, n
  <2>2. \A j \in 1..n : stack'[j].kind = stack[j].kind /\ (j # n => stack'[j] = stack[j])
    BY <1>0, <2>1
  <2>3. ASSUME NEW j \in 1..n PROVE CallOK(stack', j)
    <3>1. CallOK(stack, j)
      BY DEF StackInv, n
    <3>2. j < n => j + 1 \in 1..n
      BY <1>0
    <3>3. CASE j = n
      BY <1>3, <2>1, <3>1, <3>3 DEF CallOK, n
    <3>4. CASE j # n
      BY <1>0, <2>1, <2>2, <3>1, <3>2, <3>4 DEF CallOK, n
    <3> QED
      BY <3>3, <3>4
  <2>4. 1 \in 1..n
    BY <1>0, <2>1
  <2> QED
    BY <2>1, <2>2, <2>3, <2>4 DEF StackInv, n
<1>4. CASE /\ Entered(c) /\ WellPlaced(c)
           /\ c.kind = "expire" => Idle
           /\ ~Idle => IF c.kind = "request" THEN Top.pc = "callback" ELSE Top.pc \in Waiting
           /\ c.kind = "request" /\ ~reentered' => Idle \/ (n = 1 /\ Top.kind \in {"answer", "delta"})
  <2>1. /\ Len(stack') = n + 1 /\ stack'[n + 1] = c
        /\ \A j \in 1..n : stack'[j] = stack[j]
    BY <1>4 DEF Entered, n
  <2>2. \A j \in 1..n + 1 : j \in 1..n \/ j = n + 1
    BY <1>0
  <2>3. ASSUME NEW j \in 1..n PROVE CallOK(stack', j)
    <3>1. CallOK(stack, j)
      BY DEF StackInv, n
    <3>2. CASE j = n
      BY <1>0, <1>4, <2>1, <3>1, <3>2 DEF CallOK, n
    <3>3. CASE j # n
      <4>1. j < n /\ j + 1 \in 1..n /\ j < n + 1
        BY <1>0, <3>3
      <4> QED
        BY <1>0, <2>1, <3>1, <4>1 DEF CallOK, n
    <3> QED
      BY <3>2, <3>3
  <2>4. CallOK(stack', n + 1)
    <3>1. c.kind = "expire" => n + 1 = 1
      BY <1>0, <1>4
    <3>2. ~(n + 1 < Len(stack'))
      BY <1>0, <2>1
    <3> QED
      BY <1>4, <2>1, <3>1, <3>2 DEF CallOK
  <2>5. ASSUME ~reentered', NEW j \in 1..n + 1, stack'[j].kind = "request"
        PROVE  j = 1 \/ (j = 2 /\ stack'[1].kind \in {"answer", "delta"})
    <3>1. CASE j \in 1..n
      <4>1. 1 \in 1..n
        BY <1>0, <3>1
      <4> QED
        BY <2>1, <2>5, <3>1, <4>1 DEF StackInv, n
    <3>2. CASE j = n + 1
      <4>1. Idle \/ (n = 1 /\ Top.kind \in {"answer", "delta"})
        BY <1>4, <2>1, <2>5, <3>2
      <4>2. CASE Idle
        BY <1>0, <3>2, <4>2
      <4>3. CASE n = 1 /\ Top.kind \in {"answer", "delta"} /\ ~Idle
        BY <1>0, <2>1, <3>2, <4>3
      <4> QED
        BY <4>1, <4>2, <4>3
    <3> QED
      BY <2>2, <3>1, <3>2
  <2> QED
    BY <2>1, <2>2, <2>3, <2>4, <2>5 DEF StackInv
<1> QED
  BY <1>1, <1>2, <1>3, <1>4 DEF n

LEMMA StackEnds ==
  ASSUME TypeInv, StackInv, reentered => reentered', Ended
  PROVE  stack' \in Seq(Calls) /\ StackInv'
<1>1. ASSUME NEW c PROVE StackInv'
  BY StackStep
<1> QED
  BY <1>1 DEF Ended

NextPc(pc) == [Top EXCEPT !.pc = pc]
\* c is the call f, further on.
Same(c, f) ==
  /\ c.kind = f.kind /\ c.slot = f.slot /\ c.req = f.req /\ c.token = f.token /\ c.action = f.action
  /\ c.sticky = f.sticky /\ c.rejected = f.rejected

LEMMA PcOfKind ==
  /\ \A kind \in Kinds : \A pc \in PcsOf(kind) :
       /\ pc \in {"publish", "subscribe accepted", "subscribe rejected", "withdraw"} => kind = "request"
       /\ pc \in Handling \ {"callback"} => kind \in {"answer", "expire"}
       /\ pc = "callback" => kind \in {"answer", "expire", "delta"}
       /\ pc = "next key" => kind = "delta"
       /\ pc = "subscribe delta" => kind = "register"
  /\ \A kind \in Kinds : PcsOf(kind) \subseteq Pcs
<1>1. ASSUME NEW kind \in Kinds, NEW pc \in PcsOf(kind)
      PROVE  /\ pc \in {"publish", "subscribe accepted", "subscribe rejected", "withdraw"} => kind = "request"
             /\ pc \in Handling \ {"callback"} => kind \in {"answer", "expire"}
             /\ pc = "callback" => kind \in {"answer", "expire", "delta"}
             /\ pc = "next key" => kind = "delta"
             /\ pc = "subscribe delta" => kind = "register"
  BY DEF PcsOf, Kinds, Handling
<1> QED
  BY <1>1 DEF Pcs

LEMMA TopKind ==
  ASSUME TypeInv, StackInv, ~Idle
  PROVE  /\ Top \in Calls /\ Top.kind \in Kinds /\ Top.pc \in PcsOf(Top.kind) /\ WellPlaced(Top)
         /\ Len(stack) \in Nat \ {0} /\ Len(stack) \in 1..Len(stack) /\ Top = stack[Len(stack)]
         /\ Top.kind = "expire" => Len(stack) = 1
<1>1. Len(stack) \in Nat \ {0} /\ Top = stack[Len(stack)] /\ Top \in Calls
  BY TopIs DEF TypeInv
<1>2. Len(stack) \in 1..Len(stack)
  BY <1>1
<1>3. CallOK(stack, Len(stack))
  BY <1>2 DEF StackInv
<1> QED
  BY <1>1, <1>2, <1>3 DEF CallOK, WellPlaced, Calls

\* The innermost call goes on: on its way, with another topic, with an entry found.
Turned(pc, failed, topic) == [Top EXCEPT !.pc = pc, !.failed = failed, !.topic = topic]
Leaving(pc, entry, topic) == [Top EXCEPT !.pc = pc, !.entry = entry, !.topic = topic]

LEMMA GoesOn ==
  ASSUME TypeInv, StackInv, ~Idle, NEW pc \in PcsOf(Top.kind)
  PROVE  /\ NextPc(pc) \in Calls /\ NextPc(pc).pc = pc /\ Same(NextPc(pc), Top) /\ NextPc(pc).entry = Top.entry
         /\ GoOn(NextPc(pc)) => Resumed(NextPc(pc))
<1>1. Top \in Calls /\ pc \in Pcs
  BY TopKind, PcOfKind
<1>2. NextPc(pc) \in Calls /\ NextPc(pc).pc = pc /\ Same(NextPc(pc), Top) /\ NextPc(pc).entry = Top.entry
  BY <1>1 DEF NextPc, Same, Calls
<1> QED
  BY <1>2, GoOnResumes DEF TypeInv

LEMMA Turns ==
  ASSUME TypeInv, StackInv, ~Idle, NEW pc \in PcsOf(Top.kind), NEW failed \in BOOLEAN, NEW topic \in TopicNames
  PROVE  /\ Turned(pc, failed, topic) \in Calls /\ Turned(pc, failed, topic).pc = pc /\ Same(Turned(pc, failed, topic), Top)
         /\ GoOn(Turned(pc, failed, topic)) => Resumed(Turned(pc, failed, topic))
<1>1. Top \in Calls /\ pc \in Pcs
  BY TopKind, PcOfKind
<1>2. /\ Turned(pc, failed, topic) \in Calls /\ Turned(pc, failed, topic).pc = pc
      /\ Same(Turned(pc, failed, topic), Top)
  BY <1>1 DEF Turned, Same, Calls
<1> QED
  BY <1>2, GoOnResumes DEF TypeInv

LEMMA Leaves ==
  ASSUME TypeInv, StackInv, ~Idle, NEW pc \in PcsOf(Top.kind), NEW entry \in Nat, NEW topic \in TopicNames
  PROVE  /\ Leaving(pc, entry, topic) \in Calls /\ Leaving(pc, entry, topic).pc = pc /\ Same(Leaving(pc, entry, topic), Top)
         /\ GoOn(Leaving(pc, entry, topic)) => Resumed(Leaving(pc, entry, topic))
<1>1. Top \in Calls /\ pc \in Pcs
  BY TopKind, PcOfKind
<1>2. /\ Leaving(pc, entry, topic) \in Calls /\ Leaving(pc, entry, topic).pc = pc
      /\ Same(Leaving(pc, entry, topic), Top)
  BY <1>1 DEF Leaving, Same, Calls
<1> QED
  BY <1>2, GoOnResumes DEF TypeInv

LEMMA WaitingPcs ==
  Waiting = {"subscribe accepted", "subscribe rejected", "withdraw", "unsubscribe", "subscribe delta"}
BY DEF Waiting

-----------------------------------------------------------------------------
(* What each step does to the stack and the lists. *)

LEMMA SmallestNat ==
  ASSUME NEW set, set \subseteq Nat
  PROVE  Smallest(set) \in Nat
BY MinOfSlots DEF Smallest

LEMMA SlotsAndEntries ==
  /\ Slots \subseteq Nat \ {0} /\ Entries \subseteq Nat \ {0}
  /\ \A set \in SUBSET Slots : Smallest(set) \in Nat /\ (Smallest(set) # 0 => Smallest(set) \in set)
  /\ \A set \in SUBSET Entries : Smallest(set) \in Nat /\ (Smallest(set) # 0 => Smallest(set) \in set)
<1>1. Slots \subseteq Nat \ {0} /\ Entries \subseteq Nat \ {0}
  BY ShadowAssumption DEF Slots, Entries
<1>2. ASSUME NEW set, set \subseteq Nat \ {0}
      PROVE  Smallest(set) \in Nat /\ (Smallest(set) # 0 => Smallest(set) \in set)
  BY <1>2, SmallestNat, SmallestIsIn
<1> QED
  BY <1>1, <1>2

LEMMA FreeSlotIs ==
  /\ FreeSlot \in Nat
  /\ FreeSlot # 0 => FreeSlot \in Slots \ InUse
<1>1. {i \in Slots : ackWaitList[i].free} \in SUBSET Slots
  OBVIOUS
<1> QED
  BY <1>1, SlotsAndEntries DEF FreeSlot, InUse

LEMMA EntryOfIs ==
  ASSUME NEW topic
  PROVE  /\ EntryOf(topic) \in Nat
         /\ EntryOf(topic) # 0 =>
              EntryOf(topic) \in Entries /\ ~subList[EntryOf(topic)].free /\ subList[EntryOf(topic)].topic = topic
<1>1. {i \in Entries : ~subList[i].free /\ subList[i].topic = topic} \in SUBSET Entries
  OBVIOUS
<1> QED
  BY <1>1, SlotsAndEntries DEF EntryOf

LEMMA AppIs ==
  ASSUME TypeInv
  PROVE  app.actions \subseteq Actions /\ app.sticky \subseteq Persistence /\ app.keys \subseteq Keys /\ BOOLEAN \subseteq Persistence
BY DEF TypeInv, Actions, Persistence, Keys

\* The call of a request.
AskCall(action, sticky) ==
  [Call("request", "publish") EXCEPT !.req = Len(requests) + 1, !.token = tokenNum, !.action = action,
                                     !.sticky = sticky, !.slot = FreeSlot]
LEMMA AskCallIs ==
  ASSUME TypeInv, TimeoutInv, NEW action \in app.actions, NEW sticky \in app.sticky
  PROVE  /\ AskCall(action, sticky) \in Calls
         /\ AskCall(action, sticky).kind = "request" /\ AskCall(action, sticky).pc = "publish"
         /\ AskCall(action, sticky).req = Len(requests) + 1 /\ AskCall(action, sticky).token = tokenNum
         /\ AskCall(action, sticky).slot = FreeSlot /\ AskCall(action, sticky).action = action
         /\ AskCall(action, sticky).sticky = sticky
<1>1. "publish" \in PcsOf("request") /\ "request" \in Kinds
  BY DEF PcsOf, Kinds
<1>2. Call("request", "publish") \in Calls /\ Call("request", "publish").kind = "request" /\ Call("request", "publish").pc = "publish"
  BY <1>1, NewCall
<1>3. action \in Actions /\ sticky \in Persistence /\ FreeSlot \in Nat /\ tokenNum \in Nat
  BY AppIs, FreeSlotIs DEF TypeInv
<1>4. Len(requests) + 1 \in Nat
  BY DEF TimeoutInv, AnswersInv
<1> QED
  BY <1>2, <1>3, <1>4, Zenon DEF Calls, AskCall

\* The call of a request as it begins: with a subscription ahead, or an unsubscribe, or neither.
Begins(c) ==
  \E action \in app.actions, sticky \in app.sticky :
    LET call == AskCall(action, sticky)
        accepted == Smallest(FreeEntries)
        rejected == Smallest(FreeEntries \ {accepted}) IN
    \/ c = call
    \/ /\ accepted \in FreeEntries /\ rejected \in FreeEntries /\ accepted # rejected
       /\ c = [call EXCEPT !.pc = "subscribe accepted", !.entry = accepted, !.rejected = rejected]
    \/ accepted \in FreeEntries /\ full' /\ c = [call EXCEPT !.pc = "withdraw", !.topic = subList[accepted].topic]

LEMMA BeginsIs ==
  ASSUME TypeInv, TimeoutInv, NEW c, Begins(c)
  PROVE  /\ c \in Calls /\ c.kind = "request" /\ c.pc \in PcsOf("request") /\ WellPlaced(c)
         /\ c.req = Len(requests) + 1 /\ c.token = tokenNum /\ c.slot = FreeSlot
<1>1. PICK action \in app.actions, sticky \in app.sticky, a \in Nat, b \in Nat, topic \in TopicNames :
        \/ c = AskCall(action, sticky)
        \/ /\ a \in Entries /\ b \in Entries \ {a}
           /\ c = [AskCall(action, sticky) EXCEPT !.pc = "subscribe accepted", !.entry = a, !.rejected = b]
        \/ c = [AskCall(action, sticky) EXCEPT !.pc = "withdraw", !.topic = topic]
  <2> DEFINE accepted == Smallest(FreeEntries)
             rejected == Smallest(FreeEntries \ {accepted})
  <2>1. PICK action \in app.actions, sticky \in app.sticky :
          \/ c = AskCall(action, sticky)
          \/ /\ accepted \in FreeEntries /\ rejected \in FreeEntries /\ accepted # rejected
             /\ c = [AskCall(action, sticky) EXCEPT !.pc = "subscribe accepted", !.entry = accepted, !.rejected = rejected]
          \/ accepted \in FreeEntries /\ c = [AskCall(action, sticky) EXCEPT !.pc = "withdraw", !.topic = subList[accepted].topic]
    BY DEF Begins
  <2>2. accepted \in Nat /\ rejected \in Nat
    BY SlotsAndEntries DEF FreeEntries
  <2>3. accepted \in FreeEntries => subList[accepted].topic \in TopicNames
    BY DEF FreeEntries, TypeInv, EntryRecords
  <2>4. FreeEntries \subseteq Entries
    BY DEF FreeEntries
  <2>5. NoTopic \in TopicNames
    BY DEF NoTopic, Topic, TopicNames
  <2> HIDE DEF accepted, rejected
  <2> QED
    BY <2>1, <2>2, <2>3, <2>4, <2>5
<1>2. AskCall(action, sticky) \in Calls
  BY AskCallIs
<1>3. /\ \A pc \in {"publish", "subscribe accepted", "withdraw"} : pc \in PcsOf("request") /\ pc \in Pcs
  BY PcOfKind DEF Kinds, PcsOf
<1>4. /\ c \in Calls /\ c.pc \in {"publish", "subscribe accepted", "withdraw"}
      /\ c.pc = "subscribe accepted" => c.entry \in Entries /\ c.rejected \in Entries \ {c.entry}
  <2>1. CASE c = AskCall(action, sticky)
    BY <2>1, <1>2, AskCallIs
  <2>2. CASE /\ a \in Entries /\ b \in Entries \ {a}
             /\ c = [AskCall(action, sticky) EXCEPT !.pc = "subscribe accepted", !.entry = a, !.rejected = b]
    BY <2>2, <1>2, <1>3 DEF Calls
  <2>3. CASE c = [AskCall(action, sticky) EXCEPT !.pc = "withdraw", !.topic = topic]
    BY <2>3, <1>2, <1>3 DEF Calls
  <2> QED
    BY <1>1, <2>1, <2>2, <2>3
<1>5. c.kind = AskCall(action, sticky).kind /\ c.req = AskCall(action, sticky).req
      /\ c.token = AskCall(action, sticky).token /\ c.slot = AskCall(action, sticky).slot
  BY <1>1, <1>2 DEF Calls
<1>6. AskCall(action, sticky).kind = "request" /\ AskCall(action, sticky).req = Len(requests) + 1
  BY AskCallIs
<1>7. AskCall(action, sticky).token = tokenNum /\ AskCall(action, sticky).slot = FreeSlot
  BY AskCallIs
<1>8. c.kind = "request" /\ c.req = Len(requests) + 1 /\ c.token = tokenNum /\ c.slot = FreeSlot
  BY <1>5, <1>6, <1>7
<1>9. c.pc \in PcsOf("request") /\ c.pc # "subscribe rejected"
  BY <1>3, <1>4
<1>10. WellPlaced(c)
  BY <1>4, <1>8, <1>9 DEF WellPlaced
<1> QED
  BY <1>4, <1>8, <1>9, <1>10

\* A request enters a call, or fails without one.
LEMMA RequestMove ==
  ASSUME TypeInv, TimeoutInv, StackInv, Request
  PROVE  /\ \/ UNCHANGED stack
            \/ FreeSlot # 0 /\ \E c : Begins(c) /\ Entered(c)
         /\ ~Idle => Top.pc = "callback"
         /\ reentered' \in BOOLEAN /\ (reentered => reentered')
         /\ ~reentered' => Idle \/ (Len(stack) = 1 /\ Top.kind \in {"answer", "delta"})
<1>1. PICK action \in app.actions, sticky \in app.sticky : Begin(action, sticky)
  BY DEF Request
<1>2. UNCHANGED stack \/ (FreeSlot # 0 /\ \E c : Begins(c) /\ Push(c))
  <2> DEFINE accepted == Smallest(FreeEntries)
             rejected == Smallest(FreeEntries \ {accepted})
  <2>1. (accepted # 0 => accepted \in FreeEntries) /\ (rejected # 0 => rejected \in FreeEntries /\ rejected # accepted)
        /\ accepted \in Nat
    <3>1. FreeEntries \in SUBSET Entries /\ FreeEntries \ {accepted} \in SUBSET Entries
      BY DEF FreeEntries
    <3> HIDE DEF accepted
    <3>2. rejected # 0 => rejected \in FreeEntries \ {accepted}
      BY <3>1, SlotsAndEntries
    <3> QED
      BY <3>1, <3>2, SlotsAndEntries DEF accepted
  <2>2. rejected # 0 => accepted # 0
    <3> SUFFICES ASSUME accepted = 0, rejected # 0 PROVE FALSE
      OBVIOUS
    <3>1. FreeEntries = {}
      <4>1. ASSUME FreeEntries # {} PROVE accepted \in FreeEntries
        <5>1. FreeEntries \subseteq Nat
          BY SlotsAndEntries DEF FreeEntries
        <5> QED
          BY <4>1, <5>1, MinOfSlots DEF Smallest
      <4>2. 0 \notin FreeEntries
        BY SlotsAndEntries DEF FreeEntries
      <4> QED
        BY <4>1, <4>2
    <3> QED
      BY <2>1, <3>1
  <2> HIDE DEF accepted, rejected
  <2>3. Begin(action, sticky) =>
          \/ UNCHANGED stack
          \/ FreeSlot # 0 /\ Push(AskCall(action, sticky))
          \/ /\ FreeSlot # 0 /\ rejected # 0
             /\ Push([AskCall(action, sticky) EXCEPT !.pc = "subscribe accepted", !.entry = accepted, !.rejected = rejected])
          \/ /\ FreeSlot # 0 /\ accepted # 0 /\ full'
             /\ Push([AskCall(action, sticky) EXCEPT !.pc = "withdraw", !.topic = subList[accepted].topic])
    BY DEF Begin, AskCall, accepted, rejected
  <2> QED
    BY <1>1, <2>1, <2>2, <2>3, Zenon DEF Begins, accepted, rejected
<1>3. ASSUME NEW c, Begins(c), Push(c) PROVE Entered(c)
  BY <1>3, BeginsIs, PushEnters DEF TypeInv
<1>4. /\ Idle /\ UNCHANGED reentered
      \/ /\ At("callback") /\ reentered' = (reentered \/ Len(stack) > 1 \/ Top.kind = "expire")
  BY DEF Request
<1>5. ~Idle /\ At("callback") => /\ Len(stack) \in Nat \ {0} /\ Top.kind \in {"answer", "expire", "delta"}
                               /\ (~(Len(stack) > 1) => Len(stack) = 1)
  <2>1. ~Idle => Len(stack) \in Nat \ {0}
    BY TopKind
  <2>2. \A n \in Nat \ {0} : ~(n > 1) => n = 1
    OBVIOUS
  <2> QED
    BY <2>1, <2>2, TopKind, PcOfKind DEF At
<1>6. ~Idle => Top.pc = "callback"
  BY <1>4 DEF At
<1>7. reentered' \in BOOLEAN /\ (reentered => reentered')
  BY <1>4, Zenon DEF TypeInv
<1>8. ~reentered' => Idle \/ (Len(stack) = 1 /\ Top.kind \in {"answer", "delta"})
  <2>1. CASE Idle
    BY <2>1
  <2>2. CASE At("callback") /\ reentered' = (reentered \/ Len(stack) > 1 \/ Top.kind = "expire")
    <3>1. ~reentered' => ~(Len(stack) > 1) /\ Top.kind # "expire"
      BY <2>2, Zenon
    <3>2. ~Idle
      BY <2>2 DEF At
    <3>3. Len(stack) \in Nat \ {0} /\ Top.kind \in {"answer", "expire", "delta"}
      BY <1>5, <2>2, <3>2
    <3> QED
      BY <1>5, <2>2, <3>1, <3>2, <3>3, Zenon
  <2> QED
    BY <1>4, <2>1, <2>2
<1>9. UNCHANGED stack \/ (FreeSlot # 0 /\ \E c : Begins(c) /\ Entered(c))
  BY <1>2, <1>3
<1> QED
  BY <1>6, <1>7, <1>8, <1>9

\* A step that gives no answer, begins no request and frees no record: what becomes of the stack.
Quietly ==
  \/ UNCHANGED stack
  \/ \E c \in Calls : /\ Entered(c) /\ c.kind \in {"register", "delta"} /\ WellPlaced(c)
                      /\ ~Idle => Top.pc \in Waiting
  \/ \E c \in Calls : /\ Resumed(c) /\ Same(c, Top) /\ WellPlaced(c)
                      /\ Top.kind = "expire" => "callback" \notin {Top.pc, c.pc}
  \/ \E c \in Calls : Resumed(c) /\ c.kind = "delta" /\ Top.kind = "delta" /\ WellPlaced(c)
  \/ Ended /\ ~Idle /\ Top.kind \in {"request", "register", "delta"}

LEMMA FreedToo ==
  ASSUME NEW entries \in [Entries -> EntryRecords], NEW i
  PROVE  FreeToo(i, entries) \in [Entries -> EntryRecords]
BY DEF FreeToo, EntryRecords

LEMMA ActionIs ==
  ASSUME NEW action \in Actions \cup {"none"}, NEW verdict \in Verdicts
  PROVE  Topic(action, verdict) \in TopicNames /\ Topic(action, verdict).verdict = verdict
BY DEF Topic, TopicNames, Verdicts

LEMMA RequestPcs ==
  /\ \A pc \in {"publish", "subscribe accepted", "subscribe rejected", "withdraw"} :
       pc \in PcsOf("request") /\ pc # "callback" /\ \A kind \in Kinds : pc \in PcsOf(kind) => kind = "request"
  /\ \A pc \in Handling : \A kind \in {"answer", "expire"} : pc \in PcsOf(kind)
  /\ \A pc \in Handling \ {"callback"} : \A kind \in Kinds : pc \in PcsOf(kind) => kind \in {"answer", "expire"}
  /\ \A pc \in PcsOf("delta") : pc \in {"next key", "callback"}
  /\ "next key" \in PcsOf("delta") /\ "callback" \in PcsOf("delta") /\ "subscribe delta" \in PcsOf("register")
  /\ \A kind \in Kinds : "next key" \in PcsOf(kind) => kind = "delta"
  /\ \A kind \in Kinds : "subscribe delta" \in PcsOf(kind) => kind = "register"
BY DEF PcsOf, Handling, Kinds

LEMMA TopicWithdrawn ==
  ASSUME TypeInv, StackInv, ~Idle, Top.kind = "request", Top.entry \in Entries, Withdraw
  PROVE  Quietly /\ subList' \in [Entries -> EntryRecords]
<1>0. Top \in Calls /\ Top.kind \in Kinds
  BY TopKind
<1>1. CASE subList[Top.entry].count = 1
  <2> DEFINE topic == subList[Top.entry].topic
             c == Turned("withdraw", TRUE, topic)
  <2>1. topic \in TopicNames
    BY <1>1 DEF TypeInv, EntryRecords
  <2>2. GoOn(c) /\ subList' = FreeToo(Top.entry, subList)
    BY <1>1 DEF Withdraw, Turned
  <2>3. "withdraw" \in PcsOf(Top.kind) /\ TRUE \in BOOLEAN
    BY RequestPcs
  <2> HIDE DEF topic
  <2>4. c \in Calls /\ c.pc = "withdraw" /\ Same(c, Top) /\ (GoOn(c) => Resumed(c))
    BY <2>1, <2>3, Turns
  <2>5. c.kind = "request" /\ WellPlaced(c)
    BY <2>3, <2>4 DEF Same, WellPlaced
  <2> HIDE DEF c
  <2> QED
    BY <2>2, <2>4, <2>5, FreedToo DEF Quietly, TypeInv
<1>2. CASE Return /\ subList' = FreeToo(Top.rejected, FreeToo(Top.entry, subList))
  BY <1>2, FreedToo, ReturnEnds DEF TypeInv, Quietly
<1> QED
  BY <1>1, <1>2 DEF Withdraw

\* The calls that subscribe and unsubscribe go on or end.
LEMMA SubscribeMove ==
  ASSUME TypeInv, StackInv, SubscribeAccepted \/ SubscribeRejected
  PROVE  Top.kind = "request" /\ Quietly /\ subList' \in [Entries -> EntryRecords]
<1>0. ~Idle /\ Top.pc \in {"subscribe accepted", "subscribe rejected"} /\ Top.kind = "request" /\ Top \in Calls
  <2>1. ~Idle /\ Top.pc \in {"subscribe accepted", "subscribe rejected"}
    BY DEF SubscribeAccepted, SubscribeRejected, At
  <2>2. Top \in Calls /\ Top.kind \in Kinds /\ Top.pc \in PcsOf(Top.kind)
    BY <2>1, TopKind
  <2> QED
    BY <2>1, <2>2, PcOfKind
<1>1. Top.entry \in Entries /\ Top.rejected \in Entries \ {Top.entry}
  BY <1>0, TopKind DEF WellPlaced
<1>2. CASE Withdraw
  BY <1>0, <1>1, <1>2, TopicWithdrawn
<1>3. ASSUME NEW pc \in {"subscribe rejected", "publish"}, GoOn(NextPc(pc))
      PROVE  Quietly
  <2> DEFINE c == NextPc(pc)
  <2>1. pc \in PcsOf(Top.kind)
    BY <1>0, RequestPcs
  <2>3. c \in Calls /\ c.pc = pc /\ Same(c, Top) /\ c.entry = Top.entry /\ (GoOn(c) => Resumed(c))
    BY <1>0, <2>1, GoesOn
  <2>4. WellPlaced(c)
    BY <1>0, <1>1, <2>1, <2>3 DEF WellPlaced, Same
  <2> HIDE DEF c
  <2> QED
    BY <1>0, <1>3, <2>3, <2>4 DEF Quietly, c
<1>4. CASE /\ subList' = [subList EXCEPT ![Top.entry].count = 1, ![Top.entry].sticky = Top.sticky,
                                         ![Top.rejected].topic = Topic(Top.action, "rejected")]
           /\ GoOn(NextPc("subscribe rejected"))
  <2> DEFINE topic == Topic(Top.action, "rejected")
             e == [subList[Top.entry] EXCEPT !.count = 1, !.sticky = Top.sticky]
             f == [subList[Top.rejected] EXCEPT !.topic = topic]
  <2>1. topic \in TopicNames /\ Top.sticky \in Persistence
    BY <1>0, ActionIs DEF Calls, Verdicts
  <2> HIDE DEF topic
  <2>2. e \in EntryRecords /\ f \in EntryRecords
    BY <1>1, <2>1 DEF TypeInv, EntryRecords
  <2>3. subList' = [subList EXCEPT ![Top.entry] = e, ![Top.rejected] = f]
    BY <1>1, <1>4 DEF TypeInv, topic
  <2> HIDE DEF e, f
  <2>4. subList' \in [Entries -> EntryRecords]
    BY <1>1, <2>2, <2>3 DEF TypeInv
  <2> QED
    BY <1>0, <1>3, <1>4, <2>4
<1>5. CASE /\ subList' = [subList EXCEPT ![Top.rejected].count = 1, ![Top.rejected].sticky = Top.sticky]
           /\ GoOn(NextPc("publish"))
  <2> DEFINE e == [subList[Top.rejected] EXCEPT !.count = 1, !.sticky = Top.sticky]
  <2>1. Top.sticky \in Persistence
    BY <1>0 DEF Calls
  <2>2. e \in EntryRecords
    BY <1>1, <2>1 DEF TypeInv, EntryRecords
  <2>3. subList' = [subList EXCEPT ![Top.rejected] = e]
    BY <1>1, <1>5 DEF TypeInv
  <2> HIDE DEF e
  <2> QED
    BY <1>0, <1>1, <1>3, <1>5, <2>2, <2>3, ZenonT(30) DEF TypeInv
<1> QED
  BY <1>0, <1>2, <1>4, <1>5 DEF SubscribeAccepted, SubscribeRejected, NextPc

LEMMA WithdrawnMove ==
  ASSUME TypeInv, StackInv, Withdrawn
  PROVE  Top.kind = "request" /\ Quietly /\ subList' \in [Entries -> EntryRecords]
<1>0. ~Idle /\ Top.pc = "withdraw" /\ Top.kind = "request" /\ Top \in Calls
  <2>1. ~Idle /\ Top.pc = "withdraw"
    BY DEF Withdrawn, At
  <2>2. Top \in Calls /\ Top.kind \in Kinds /\ Top.pc \in PcsOf(Top.kind)
    BY <2>1, TopKind
  <2> QED
    BY <2>1, <2>2, PcOfKind
<1>1. CASE GoOn(NextPc("publish"))
  <2> DEFINE c == NextPc("publish")
  <2>1. "publish" \in PcsOf(Top.kind)
    BY <1>0, RequestPcs
  <2>3. c \in Calls /\ c.pc = "publish" /\ Same(c, Top) /\ (GoOn(c) => Resumed(c))
    BY <1>0, <2>1, GoesOn
  <2>4. WellPlaced(c)
    BY <2>1, <2>3 DEF WellPlaced, Same
  <2> HIDE DEF c
  <2> QED
    BY <1>0, <1>1, <2>3, <2>4, FreedToo DEF Quietly, c, TypeInv, Withdrawn
<1>2. CASE Return
  BY <1>0, <1>2, ReturnEnds, FreedToo DEF Quietly, TypeInv, Withdrawn
<1> QED
  BY <1>1, <1>2 DEF Withdrawn, NextPc

\* An answer or a timeout that is handled goes on.
LEMMA HandlingMove ==
  ASSUME TypeInv, StackInv, AnswerHandled \/ LeaveTopic \/ Unsubscribe
  PROVE  /\ ~Idle /\ Top.kind \in {"answer", "expire"}
         /\ \E c \in Calls : Resumed(c) /\ Same(c, Top) /\ WellPlaced(c) /\ c.pc \in Handling \ {"callback"}
         /\ LeaveTopic \/ Unsubscribe => Top.pc \in Handling \ {"callback"}
<1>0. ~Idle /\ Top \in Calls /\ Top.kind \in {"answer", "expire"} /\ Top.pc \in Handling
      /\ (LeaveTopic \/ Unsubscribe => Top.pc \in Handling \ {"callback"})
  <2>1. AnswerHandled => ~Idle /\ Top.kind \in {"answer", "expire"} /\ Top.pc = "callback"
    BY DEF AnswerHandled, At
  <2>2. LeaveTopic => ~Idle /\ Top.pc \in Handling \ {"callback"}
    BY DEF LeaveTopic, At, Handling
  <2>3. Unsubscribe => ~Idle /\ Top.pc \in Handling \ {"callback"}
    BY DEF Unsubscribe, At, Handling
  <2> QED
    BY <2>1, <2>2, <2>3, TopKind, RequestPcs DEF Handling
<1>1. PICK pc \in Handling \ {"callback"}, i \in Nat, topic \in TopicNames :
        GoOn(NextPc(pc)) \/ GoOn(Leaving(pc, i, topic))
  <2>0. NoTopic \in TopicNames /\ 0 \in Nat
    BY DEF NoTopic, Topic, TopicNames
  <2>1. CASE AnswerHandled
    BY <2>0, <2>1 DEF AnswerHandled, Handling, NextPc
  <2>2. CASE Unsubscribe
    BY <2>0, <2>2 DEF Unsubscribe, Handling, NextPc
  <2>3. CASE LeaveTopic
    <3>1. ASSUME NEW verdict \in Verdicts, NEW next \in {"leave rejected", "left"}, Leave(verdict, next)
          PROVE  \E pc \in Handling \ {"callback"}, i \in Nat, topic \in TopicNames :
                   GoOn(NextPc(pc)) \/ GoOn(Leaving(pc, i, topic))
      <4> DEFINE topic == Topic(ackWaitList[Top.slot].action, verdict)
                 i == EntryOf(topic)
      <4>1. i \in Nat /\ (i # 0 => topic \in TopicNames)
        <5>1. i \in Nat /\ (i # 0 => i \in Entries /\ subList[i].topic = topic)
          BY EntryOfIs
        <5> HIDE DEF i
        <5> QED
          BY <5>1 DEF TypeInv, EntryRecords
      <4>2. "unsubscribe" \in Handling \ {"callback"} /\ next \in Handling \ {"callback"}
        BY DEF Handling
      <4>3. \/ i # 0 /\ GoOn([Top EXCEPT !.pc = "unsubscribe", !.entry = i, !.topic = topic])
            \/ GoOn([Top EXCEPT !.pc = next])
        BY <3>1 DEF Leave
      <4> HIDE DEF topic, i
      <4> QED
        BY <2>0, <4>1, <4>2, <4>3 DEF NextPc, Leaving
    <3> QED
      BY <2>3, <3>1 DEF LeaveTopic, Verdicts
  <2> QED
    BY <2>1, <2>2, <2>3
<1>2. pc \in PcsOf(Top.kind)
  BY <1>0, RequestPcs
<1>3. \E c \in Calls : c.pc = pc /\ Same(c, Top) /\ Resumed(c)
  BY <1>0, <1>1, <1>2, GoesOn, Leaves
<1>4. ASSUME NEW c \in Calls, c.pc = pc, Same(c, Top) PROVE WellPlaced(c) /\ c.pc \in Handling \ {"callback"}
  BY <1>2, <1>4 DEF WellPlaced, Same, Handling
<1> QED
  BY <1>0, <1>3, <1>4

\* The calls of an answer and of a timeout.
AnswerCall(i) == [Call("answer", "callback") EXCEPT !.slot = i]
ExpireCall(i) == [Call("expire", "callback") EXCEPT !.slot = i]

LEMMA TellingCalls ==
  ASSUME NEW i \in Nat
  PROVE  /\ AnswerCall(i) \in Calls /\ AnswerCall(i).kind = "answer" /\ AnswerCall(i).slot = i
         /\ AnswerCall(i).pc = "callback" /\ WellPlaced(AnswerCall(i))
         /\ ExpireCall(i) \in Calls /\ ExpireCall(i).kind = "expire" /\ ExpireCall(i).slot = i
         /\ ExpireCall(i).pc = "callback" /\ WellPlaced(ExpireCall(i))
<1>1. ASSUME NEW kind \in {"answer", "expire"}, NEW c, c = [Call(kind, "callback") EXCEPT !.slot = i]
      PROVE  c \in Calls /\ c.kind = kind /\ c.slot = i /\ c.pc = "callback" /\ WellPlaced(c)
  <2>1. "callback" \in PcsOf(kind) /\ kind \in Kinds
    BY RequestPcs DEF Kinds, Handling
  <2>2. Call(kind, "callback") \in Calls /\ Call(kind, "callback").kind = kind /\ Call(kind, "callback").pc = "callback"
    BY <2>1, NewCall
  <2>3. c \in Calls /\ c.kind = kind /\ c.slot = i /\ c.pc = "callback"
    BY <1>1, <2>2 DEF Calls
  <2> QED
    BY <2>1, <2>3 DEF WellPlaced
<1> QED
  BY <1>1 DEF AnswerCall, ExpireCall

LEMMA ExpiredMove ==
  ASSUME TypeInv, TimeoutInv, NEW from, NEW calls, HandleExpired(from, calls)
  PROVE  \/ stack' = calls /\ UNCHANGED requests
         \/ \E i \in Slots : /\ i \in InUse /\ stack' = Append(calls, ExpireCall(i))
                             /\ requests' = Answer(ackWaitList[i].req, "timeout")
<1> DEFINE due == {j \in Slots : j >= from /\ Expired(j)}
           i == Smallest(due)
<1>1. CASE i # 0
  <2>1. i \in due
    BY <1>1, SlotsAndEntries
  <2>2. i \in Slots /\ i \in InUse /\ ~(ackWaitList[i].age < TimeoutMs \div TickPeriod)
    BY <2>1, ExpiredIsDue DEF TimeoutInv, Expired, InUse
  <2>3. /\ stack' = Append(calls, ExpireCall(i))
        /\ requests' = Answer(ackWaitList[i].req, IF ackWaitList[i].age < TimeoutMs \div TickPeriod THEN "early" ELSE "timeout")
    BY <1>1 DEF HandleExpired, ExpireCall
  <2> HIDE DEF i
  <2> QED
    BY <2>2, <2>3
<1>2. CASE i = 0
  BY <1>2 DEF HandleExpired
<1> QED
  BY <1>1, <1>2

LEMMA YieldMove ==
  ASSUME TypeInv, TimeoutInv, StackInv, Yield
  PROVE  /\ Idle
         /\ \/ UNCHANGED <<stack, requests>>
            \/ \E i \in InUse : Entered(ExpireCall(i)) /\ requests' = Answer(ackWaitList[i].req, "timeout")
<1>1. Idle /\ HandleExpired(1, stack)
  BY DEF Yield
<1>2. ASSUME NEW i \in InUse, stack' = Append(stack, ExpireCall(i)) PROVE Entered(ExpireCall(i))
  <2>1. ExpireCall(i) \in Calls
    BY TellingCalls, SlotsAndEntries DEF InUse
  <2> QED
    BY <1>2, <2>1, PushEnters DEF Push, TypeInv
<1> QED
  BY <1>1, <1>2, ExpiredMove

LEMMA LeftMove ==
  ASSUME TypeInv, TimeoutInv, StackInv, Left
  PROVE  /\ ~Idle /\ Top.kind \in {"answer", "expire"} /\ Top.pc = "left"
         /\ \/ Top.kind = "answer" /\ Ended /\ UNCHANGED requests /\ ackWaitList' = Freed(Top.slot)
            \/ Top.kind = "expire" /\ Ended /\ UNCHANGED <<requests, ackWaitList>>
            \/ /\ Top.kind = "expire" /\ UNCHANGED ackWaitList
               /\ \E i \in InUse : Resumed(ExpireCall(i)) /\ requests' = Answer(ackWaitList[i].req, "timeout")
<1>1. ~Idle /\ Top.pc = "left" /\ Top.kind \in {"answer", "expire"}
  <2>1. ~Idle /\ Top.pc = "left"
    BY DEF Left, At
  <2>2. Top.kind \in Kinds /\ Top.pc \in PcsOf(Top.kind)
    BY <2>1, TopKind
  <2> QED
    BY <2>1, <2>2, PcOfKind DEF Handling
<1>2. CASE Top.kind = "answer" /\ Return
  BY <1>1, <1>2, ReturnEnds DEF Left, TypeInv
<1>3. CASE Top.kind = "expire" /\ UNCHANGED ackWaitList /\ HandleExpired(Top.slot + 1, Front(stack))
  <2>1. CASE stack' = Front(stack) /\ UNCHANGED requests
    BY <1>1, <1>3, <2>1, ReturnEnds DEF Return, TypeInv
  <2>2. ASSUME NEW i \in InUse, stack' = Append(Front(stack), ExpireCall(i)) PROVE Resumed(ExpireCall(i))
    <3>1. ExpireCall(i) \in Calls
      BY TellingCalls, SlotsAndEntries DEF InUse
    <3> QED
      BY <1>1, <2>2, <3>1, GoOnResumes DEF GoOn, TypeInv
  <2>3. CASE \E i \in InUse : /\ stack' = Append(Front(stack), ExpireCall(i))
                              /\ requests' = Answer(ackWaitList[i].req, "timeout")
    BY <1>1, <1>3, <2>2, <2>3
  <2> QED
    BY <1>3, <2>1, <2>3, ExpiredMove
<1> QED
  BY <1>1, <1>2, <1>3 DEF Left

LEMMA MatchIs ==
  ASSUME NEW m
  PROVE  Match(m) \in Nat /\ (Match(m) # 0 => Match(m) \in InUse /\ ackWaitList[Match(m)].token = m.token)
<1>1. {i \in Slots : ~ackWaitList[i].free /\ ackWaitList[i].token = m.token} \in SUBSET Slots
  OBVIOUS
<1> QED
  BY <1>1, SlotsAndEntries DEF Match, InUse

LEMMA AnswerMove ==
  ASSUME TypeInv, AckStatusCallback
  PROVE  /\ ~Idle => Top.pc \in Waiting
         /\ UNCHANGED <<ackWaitList, subList>>
         /\ \E m \in cloud :
              /\ cloud' = cloud \ {m}
              /\ \/ UNCHANGED <<stack, requests>>
                 \/ \E i \in InUse : /\ ackWaitList[i].token = m.token /\ Entered(AnswerCall(i))
                                     /\ requests' = Answer(ackWaitList[i].req, m.topic.verdict)
<1>1. PICK m \in cloud :
        /\ cloud' = cloud \ {m}
        /\ \/ UNCHANGED <<stack, requests>>
           \/ /\ Match(m) # 0 /\ Push(AnswerCall(Match(m)))
              /\ requests' = Answer(ackWaitList[Match(m)].req, m.topic.verdict)
  BY DEF AckStatusCallback, AnswerCall
<1>2. ASSUME Push(AnswerCall(Match(m))) PROVE Entered(AnswerCall(Match(m)))
  BY <1>2, MatchIs, TellingCalls, PushEnters DEF TypeInv
<1> QED
  BY <1>1, <1>2, MatchIs DEF AckStatusCallback, Receiving, records

LEMMA PublishMove ==
  ASSUME TypeInv, StackInv, Publish
  PROVE  ~Idle /\ Top.kind = "request" /\ Top \in Calls /\ Ended
<1>1. ~Idle /\ Top.pc = "publish" /\ Return
  BY DEF Publish, At
<1>2. Top \in Calls /\ Top.kind \in Kinds /\ Top.pc \in PcsOf(Top.kind)
  BY <1>1, TopKind
<1> QED
  BY <1>1, <1>2, PcOfKind, ReturnEnds DEF TypeInv

\* The calls of deltas and of the registration of a key.
LEMMA RegisterMove ==
  ASSUME TypeInv, StackInv, RegisterDelta
  PROVE  Quietly
<1>1. CASE UNCHANGED stack
  BY <1>1 DEF Quietly
<1>2. ASSUME NEW key \in app.keys, Push([Call("register", "subscribe delta") EXCEPT !.key = key])
      PROVE  Quietly
  <2> DEFINE c == [Call("register", "subscribe delta") EXCEPT !.key = key]
  <2>1. "subscribe delta" \in PcsOf("register") /\ "register" \in Kinds /\ key \in Keys
    BY RequestPcs, AppIs DEF Kinds
  <2>2. /\ Call("register", "subscribe delta") \in Calls /\ Call("register", "subscribe delta").kind = "register"
        /\ Call("register", "subscribe delta").pc = "subscribe delta"
    BY <2>1, NewCall
  <2>3. c \in Calls /\ c.kind = "register" /\ c.pc = "subscribe delta"
    BY <2>1, <2>2 DEF Calls
  <2>4. WellPlaced(c)
    BY <2>1, <2>3 DEF WellPlaced
  <2>5. Push(c)
    BY <1>2
  <2> HIDE DEF c
  <2>6. Entered(c)
    BY <2>3, <2>5, PushEnters DEF TypeInv
  <2> QED
    BY <2>3, <2>4, <2>6 DEF Quietly, RegisterDelta
<1> QED
  BY <1>1, <1>2 DEF RegisterDelta

LEMMA DeltaReadMove ==
  ASSUME TypeInv, StackInv, ShadowDeltaCallback
  PROVE  Quietly
<1>1. CASE UNCHANGED stack
  BY <1>1 DEF Quietly
<1>2. ASSUME NEW doc \in deltas, Push([Call("delta", "next key") EXCEPT !.slot = 1, !.doc = doc])
      PROVE  Quietly
  <2> DEFINE c == [Call("delta", "next key") EXCEPT !.slot = 1, !.doc = doc]
  <2>1. "next key" \in PcsOf("delta") /\ "delta" \in Kinds /\ doc \in Documents
    BY RequestPcs DEF Kinds, TypeInv
  <2>2. /\ Call("delta", "next key") \in Calls /\ Call("delta", "next key").kind = "delta"
        /\ Call("delta", "next key").pc = "next key"
    BY <2>1, NewCall
  <2>3. c \in Calls /\ c.kind = "delta" /\ c.pc = "next key"
    BY <2>1, <2>2 DEF Calls
  <2>4. WellPlaced(c)
    BY <2>1, <2>3 DEF WellPlaced
  <2>5. Push(c)
    BY <1>2
  <2> HIDE DEF c
  <2>6. Entered(c)
    BY <2>3, <2>5, PushEnters DEF TypeInv
  <2>7. ~Idle => Top.pc \in Waiting
    BY DEF ShadowDeltaCallback, Receiving
  <2> QED
    BY <2>3, <2>4, <2>6, <2>7 DEF Quietly
<1> QED
  BY <1>1, <1>2 DEF ShadowDeltaCallback

LEMMA KeyMove ==
  ASSUME TypeInv, StackInv, NextKey \/ KeyHandled
  PROVE  Quietly
<1>1. ~Idle /\ Top.kind = "delta" /\ Top \in Calls
  <2>1. ~Idle /\ (Top.pc = "next key" \/ Top.kind = "delta")
    BY DEF NextKey, KeyHandled, At
  <2>2. Top \in Calls /\ Top.kind \in Kinds /\ Top.pc \in PcsOf(Top.kind)
    BY <2>1, TopKind
  <2> QED
    BY <2>1, <2>2, PcOfKind
<1>2. ASSUME NEW c, GoOn(c),
             \/ c = [Top EXCEPT !.pc = "callback"]
             \/ c = [Top EXCEPT !.slot = @ + 1]
             \/ c = [Top EXCEPT !.pc = "next key", !.slot = @ + 1]
      PROVE  Quietly
  <2>1. Top.slot + 1 \in Nat /\ Top.pc \in PcsOf("delta")
    BY <1>1, TopKind DEF Calls
  <2>2. \A pc \in {"next key", "callback"} : pc \in PcsOf("delta") /\ pc \in Pcs
    BY RequestPcs DEF Pcs, Kinds
  <2>3. c \in Calls /\ c.kind = "delta" /\ c.pc \in PcsOf("delta")
    <3>1. CASE c = [Top EXCEPT !.pc = "callback"]
      BY <1>1, <2>2, <3>1 DEF Calls
    <3>2. CASE c = [Top EXCEPT !.slot = @ + 1]
      BY <1>1, <2>1, <3>2 DEF Calls
    <3>3. CASE c = [Top EXCEPT !.pc = "next key", !.slot = @ + 1]
      BY <1>1, <2>1, <2>2, <3>3 DEF Calls
    <3> QED
      BY <1>2, <3>1, <3>2, <3>3
  <2>4. WellPlaced(c)
    BY <2>3, RequestPcs DEF WellPlaced
  <2>5. Resumed(c)
    BY <1>1, <1>2, <2>3, GoOnResumes DEF TypeInv
  <2> QED
    BY <1>1, <2>3, <2>4, <2>5 DEF Quietly
<1>3. \E c : /\ GoOn(c)
             /\ \/ c = [Top EXCEPT !.pc = "callback"]
                \/ c = [Top EXCEPT !.slot = @ + 1]
                \/ c = [Top EXCEPT !.pc = "next key", !.slot = @ + 1]
  BY DEF NextKey, KeyHandled
<1> QED
  BY <1>2, <1>3

LEMMA DeltaDoneMove ==
  ASSUME TypeInv, StackInv, SubscribeDelta \/ DeltaHandled
  PROVE  Quietly
<1>1. ~Idle /\ Top.pc \in {"subscribe delta", "next key"} /\ Return
  BY DEF SubscribeDelta, DeltaHandled, At
<1>2. Top.kind \in Kinds /\ Top.pc \in PcsOf(Top.kind)
  BY <1>1, TopKind
<1>3. Top.kind \in {"register", "delta"}
  BY <1>1, <1>2, PcOfKind
<1> QED
  BY <1>1, <1>3, ReturnEnds DEF TypeInv, Quietly

\* A step that gives no answer, begins no request and changes no record.
QuietNext ==
  \/ RegisterDelta \/ CloudDelta \/ ShadowDeltaCallback \/ SubscribeAccepted \/ SubscribeRejected \/ Withdrawn
  \/ LeaveTopic \/ Unsubscribe \/ SubscribeDelta \/ NextKey \/ KeyHandled \/ DeltaHandled \/ UNCHANGED vars

LEMMA QuietNextMove ==
  ASSUME TypeInv, StackInv, QuietNext
  PROVE  Quietly /\ UNCHANGED <<app, ackWaitList, cloud, requests, tokenNum, inits, reentered>>
<1>1. CASE RegisterDelta
  BY <1>1, RegisterMove DEF RegisterDelta, records, service, ghosts
<1>2. CASE CloudDelta \/ UNCHANGED vars
  BY <1>2 DEF CloudDelta, Quietly, vars, records, service, ghosts
<1>3. CASE ShadowDeltaCallback
  BY <1>3, DeltaReadMove DEF ShadowDeltaCallback, records, ghosts
<1>4. CASE SubscribeAccepted \/ SubscribeRejected
  BY <1>4, SubscribeMove DEF SubscribeAccepted, SubscribeRejected, service, ghosts
<1>5. CASE Withdrawn
  BY <1>5, WithdrawnMove DEF Withdrawn, service, ghosts
<1>6. CASE LeaveTopic \/ Unsubscribe
  <2>1. Quietly
    BY <1>6, HandlingMove DEF Quietly
  <2> QED
    BY <1>6, <2>1 DEF LeaveTopic, Unsubscribe, service, ghosts
<1>7. CASE SubscribeDelta \/ DeltaHandled
  BY <1>7, DeltaDoneMove DEF SubscribeDelta, DeltaHandled, records, service, ghosts
<1>8. CASE NextKey \/ KeyHandled
  BY <1>8, KeyMove DEF NextKey, KeyHandled, records, service, ghosts
<1> QED
  BY <1>1, <1>2, <1>3, <1>4, <1>5, <1>6, <1>7, <1>8 DEF QuietNext

\* What the entries become.
LEMMA EntriesTyped ==
  ASSUME TypeInv, TimeoutInv, StackInv, [Next]_vars
  PROVE  subList' \in [Entries -> EntryRecords]
<1>1. CASE Request
  <2>1. PICK action \in app.actions, sticky \in app.sticky : Begin(action, sticky)
    BY <1>1 DEF Request
  <2>2. action \in Actions /\ sticky \in Persistence
    BY AppIs
  <2>3. CASE UNCHANGED subList
    BY <2>3 DEF TypeInv
  <2>4. CASE IncrementSubscriptionCnt(action, sticky)
    <3>1. ASSUME NEW i \in Entries PROVE [subList[i] EXCEPT !.count = @ + 1, !.sticky = sticky] \in EntryRecords
      <4>1. subList[i] \in EntryRecords /\ subList[i].count + 1 \in Nat
        BY DEF TypeInv, EntryRecords
      <4> DEFINE n == subList[i].count + 1
      <4>2. [subList[i] EXCEPT !.count = @ + 1, !.sticky = sticky] = [subList[i] EXCEPT !.count = n, !.sticky = sticky]
        OBVIOUS
      <4>3. n \in Nat
        BY <4>1
      <4> HIDE DEF n
      <4> QED
        BY <2>2, <4>1, <4>2, <4>3 DEF EntryRecords
    <3> QED
      BY <2>4, <3>1 DEF IncrementSubscriptionCnt, TypeInv
  <2>5. ASSUME NEW a, NEW b,
               subList' = [subList EXCEPT ![a].free = FALSE, ![a].topic = Topic(action, "accepted"), ![b].free = FALSE]
        PROVE  subList' \in [Entries -> EntryRecords]
    <3> DEFINE topic == Topic(action, "accepted")
               e == [subList[a] EXCEPT !.free = FALSE, !.topic = topic]
               s == [subList EXCEPT ![a] = e]
               f == [s[b] EXCEPT !.free = FALSE]
    <3>1. topic \in TopicNames
      BY <2>2, ActionIs DEF Verdicts
    <3>2. subList' = [s EXCEPT ![b] = f]
      BY <2>5 DEF TypeInv
    <3> HIDE DEF topic
    <3>3. a \in Entries => e \in EntryRecords
      BY <3>1 DEF TypeInv, EntryRecords
    <3> HIDE DEF e
    <3>4. s \in [Entries -> EntryRecords]
      BY <3>3 DEF TypeInv
    <3> HIDE DEF s
    <3>5. b \in Entries => f \in EntryRecords
      BY <3>4 DEF EntryRecords
    <3> HIDE DEF f
    <3> QED
      BY <3>2, <3>4, <3>5
  <2> QED
    BY <2>1, <2>3, <2>4, <2>5 DEF Begin
<1>2. CASE SubscribeAccepted \/ SubscribeRejected
  BY <1>2, SubscribeMove
<1>3. CASE Withdrawn
  BY <1>3, WithdrawnMove
<1>4. CASE LeaveTopic
  <2>1. ASSUME NEW verdict, NEW next, Leave(verdict, next) PROVE subList' \in [Entries -> EntryRecords]
    <3>1. CASE UNCHANGED subList
      BY <3>1 DEF TypeInv
    <3>2. ASSUME NEW i \in Entries, subList' = [subList EXCEPT ![i].count = IF @ > 1 THEN @ - 1 ELSE @]
          PROVE  subList' \in [Entries -> EntryRecords]
      <4> DEFINE n == IF subList[i].count > 1 THEN subList[i].count - 1 ELSE subList[i].count
                 e == [subList[i] EXCEPT !.count = n]
      <4>0. n \in Nat /\ subList[i] \in EntryRecords
        BY DEF TypeInv, EntryRecords
      <4>1. e \in EntryRecords
        <5> HIDE DEF n
        <5> QED
          BY <4>0 DEF EntryRecords
      <4>2. subList' = [subList EXCEPT ![i] = e]
        BY <3>2 DEF TypeInv
      <4> HIDE DEF e
      <4> QED
        BY <4>1, <4>2 DEF TypeInv
    <3> QED
      BY <2>1, <3>1, <3>2, EntryOfIs DEF Leave
  <2> QED
    BY <1>4, <2>1 DEF LeaveTopic
<1>5. CASE Unsubscribe
  <2>1. CASE subList' = [subList EXCEPT ![Top.entry].free = TRUE]
    <3> DEFINE e == [subList[Top.entry] EXCEPT !.free = TRUE]
    <3>1. Top.entry \in Entries => e \in EntryRecords
      BY DEF TypeInv, EntryRecords
    <3>2. subList' = [subList EXCEPT ![Top.entry] = e]
      BY <2>1 DEF TypeInv
    <3> HIDE DEF e
    <3> QED
      BY <3>1, <3>2 DEF TypeInv
  <2>2. CASE UNCHANGED subList
    BY <2>2 DEF TypeInv
  <2> QED
    BY <1>5, <2>1, <2>2 DEF Unsubscribe, Unsubscribed
<1>6. CASE ShadowInit
  <2>1. ASSUME NEW i \in Entries
        PROVE  [subList[i] EXCEPT !.free = TRUE, !.count = 0, !.sticky = FALSE] \in EntryRecords
    <3>1. FALSE \in Persistence
      BY AppIs
    <3> QED
      BY <3>1 DEF TypeInv, EntryRecords
  <2> QED
    BY <1>6, <2>1 DEF ShadowInit
<1>7. CASE UNCHANGED subList
  BY <1>7 DEF TypeInv
<1>8. RegisterDelta \/ Yield \/ AckStatusCallback \/ ShadowDeltaCallback \/ CloudDelta \/ NextKey \/ KeyHandled
      \/ DeltaHandled \/ SubscribeDelta \/ UNCHANGED vars => UNCHANGED subList
  BY DEF RegisterDelta, Yield, AckStatusCallback, ShadowDeltaCallback, CloudDelta, NextKey, KeyHandled, DeltaHandled,
         SubscribeDelta, vars, records
<1>9. Publish \/ AnswerHandled \/ Left \/ Tick => UNCHANGED subList
  BY DEF Publish, AnswerHandled, Left, Tick
<1> QED
  BY <1>1, <1>2, <1>3, <1>4, <1>5, <1>6, <1>7, <1>8, <1>9 DEF Next, Proceed

LEMMA RecordsTyped ==
  ASSUME TypeInv, TimeoutInv, StackInv, [Next]_vars
  PROVE  ackWaitList' \in [Slots -> AckRecords]
<1>1. ASSUME ackWaitList' = Freed(Top.slot) PROVE ackWaitList' \in [Slots -> AckRecords]
  <2> DEFINE e == [FreeAck EXCEPT !.action = ackWaitList[Top.slot].action]
  <2>1. Top.slot \in Slots => e \in AckRecords
    <3>1. Countdown(0, 0) \in TimerValues
      BY DEF TimerValues
    <3>2. Top.slot \in Slots => ackWaitList[Top.slot].action \in Actions \cup {"none"}
      BY DEF TypeInv, AckRecords
    <3> QED
      BY <3>1, <3>2, Zenon DEF FreeAck, AckRecords
  <2>2. ackWaitList' = [ackWaitList EXCEPT ![Top.slot] = e]
    BY <1>1 DEF Freed
  <2> HIDE DEF e
  <2> QED
    BY <2>1, <2>2 DEF TypeInv
<1>2. CASE Publish
  <2>1. CASE UNCHANGED ackWaitList
    BY <2>1 DEF TypeInv
  <2> DEFINE e == [free |-> FALSE, token |-> Top.token, action |-> Top.action, timer |-> StartTimer, req |-> Top.req, age |-> 0]
  <2>2. CASE ackWaitList' = [ackWaitList EXCEPT ![Top.slot] = e]
    <3>1. Top \in Calls
      BY <1>2, PublishMove
    <3>2. Top.token \in Nat /\ Top.action \in Actions \cup {"none"} /\ Top.req \in Nat /\ 0 \in Nat /\ FALSE \in BOOLEAN
      BY <3>1 DEF Calls
    <3>3. StartTimer \in TimerValues
      <4>1. now \in Nat /\ TimeoutMs \in Nat
        BY ShadowAssumption, TimerAssumption DEF TimeoutInv, TimedInv, Ticks
      <4> QED
        BY <4>1 DEF StartTimer, TimerValues
    <3>4. e \in AckRecords
      BY <3>2, <3>3, Zenon DEF AckRecords
    <3> HIDE DEF e
    <3> QED
      BY <2>2, <3>4 DEF TypeInv
  <2> QED
    BY <1>2, <2>1, <2>2 DEF Publish
<1>3. CASE ShadowInit
  <2>1. FreeAck \in AckRecords
    <3>1. Countdown(0, 0) \in TimerValues /\ 0 \in Nat /\ TRUE \in BOOLEAN /\ "none" \in Actions \cup {"none"}
      BY DEF TimerValues
    <3> QED
      BY <3>1, Zenon DEF FreeAck, AckRecords
  <2> QED
    BY <1>3, <2>1 DEF ShadowInit
<1>4. CASE Tick
  <2>1. ASSUME NEW i \in Slots
        PROVE  (IF ackWaitList[i].free THEN ackWaitList[i] ELSE [ackWaitList[i] EXCEPT !.age = @ + 1]) \in AckRecords
    <3> DEFINE n == ackWaitList[i].age + 1
    <3>1. ackWaitList[i] \in AckRecords /\ n \in Nat
      BY DEF TypeInv, AckRecords
    <3>2. [ackWaitList[i] EXCEPT !.age = @ + 1] = [ackWaitList[i] EXCEPT !.age = n]
      OBVIOUS
    <3> HIDE DEF n
    <3> QED
      BY <3>1, <3>2 DEF AckRecords
  <2> QED
    BY <1>4, <2>1 DEF Tick
<1>5. CASE AnswerHandled \/ Left
  BY <1>1, <1>5 DEF AnswerHandled, Left, TypeInv
<1>6. CASE UNCHANGED ackWaitList
  BY <1>6 DEF TypeInv
<1>7. QuietNext => UNCHANGED ackWaitList
  BY QuietNextMove
<1>8. Request \/ Yield \/ AckStatusCallback => UNCHANGED ackWaitList
  BY DEF Request, Yield, AckStatusCallback, records
<1> QED
  BY <1>2, <1>3, <1>4, <1>5, <1>6, <1>7, <1>8 DEF Next, Proceed, QuietNext

\* The stack of a step that is not quiet.
LEMMA StackTyped ==
  ASSUME TypeInv, TimeoutInv, StackInv, [Next]_vars
  PROVE  stack' \in Seq(Calls) /\ StackInv' /\ reentered' \in BOOLEAN /\ (reentered => reentered')
<1>0. stack \in Seq(Calls) /\ reentered \in BOOLEAN
  BY DEF TypeInv
<1>1. CASE UNCHANGED <<stack, reentered>>
  BY <1>0, <1>1 DEF StackInv
<1>2. CASE QuietNext
  <2>1. Quietly /\ UNCHANGED reentered
    BY <1>2, QuietNextMove
  <2>2. CASE UNCHANGED stack
    BY <1>0, <2>1, <2>2 DEF StackInv
  <2>3. ASSUME NEW c \in Calls, Entered(c), c.kind \in {"register", "delta"}, WellPlaced(c), ~Idle => Top.pc \in Waiting
        PROVE  stack' \in Seq(Calls) /\ StackInv'
    BY <2>1, <2>3, StackStep DEF Entered
  <2>4. ASSUME NEW c \in Calls, Resumed(c), c.kind = Top.kind, WellPlaced(c)
        PROVE  stack' \in Seq(Calls) /\ StackInv'
    BY <2>1, <2>4, StackStep DEF Resumed
  <2>5. ASSUME Ended PROVE stack' \in Seq(Calls) /\ StackInv'
    <3>1. reentered => reentered'
      BY <2>1, Zenon
    <3> QED
      BY <2>5, <3>1, StackEnds, Zenon
  <2> QED
    BY <1>0, <2>1, <2>2, <2>3, <2>4, <2>5 DEF Quietly, Same
<1>3. CASE Request
  <2>1. reentered' \in BOOLEAN /\ (reentered => reentered') /\ (~Idle => Top.pc = "callback")
        /\ (~reentered' => Idle \/ (Len(stack) = 1 /\ Top.kind \in {"answer", "delta"}))
        /\ (UNCHANGED stack \/ \E c : Begins(c) /\ Entered(c))
    BY <1>3, RequestMove
  <2>2. ASSUME NEW c, Begins(c), Entered(c) PROVE stack' \in Seq(Calls) /\ StackInv'
    <3>1. c.kind = "request" /\ WellPlaced(c)
      BY <2>2, BeginsIs
    <3> QED
      BY <2>1, <2>2, <3>1, StackStep DEF Entered
  <2>3. CASE UNCHANGED stack
    BY <2>1, <2>3, <1>0, StackStep
  <2> QED
    BY <2>1, <2>2, <2>3
<1>4. CASE Yield
  <2>1. Idle /\ UNCHANGED reentered
        /\ (UNCHANGED stack \/ \E i \in InUse : Entered(ExpireCall(i)))
    BY <1>4, YieldMove DEF Yield, ghosts
  <2>2. ASSUME NEW i \in InUse, Entered(ExpireCall(i)) PROVE stack' \in Seq(Calls) /\ StackInv'
    <3>1. ExpireCall(i).kind = "expire" /\ WellPlaced(ExpireCall(i))
      BY TellingCalls, SlotsAndEntries DEF InUse
    <3> QED
      BY <2>1, <2>2, <3>1, StackStep DEF Entered
  <2> QED
    BY <1>0, <1>1, <2>1, <2>2
<1>5. CASE Left
  <2>1. UNCHANGED reentered
        /\ (Ended \/ (Top.kind = "expire" /\ \E i \in InUse : Resumed(ExpireCall(i))))
    BY <1>5, LeftMove DEF Left, ghosts
  <2>2. ASSUME NEW i \in InUse, Resumed(ExpireCall(i)), Top.kind = "expire" PROVE stack' \in Seq(Calls) /\ StackInv'
    <3>1. ExpireCall(i).kind = "expire" /\ WellPlaced(ExpireCall(i))
      BY TellingCalls, SlotsAndEntries DEF InUse
    <3> QED
      BY <2>1, <2>2, <3>1, StackStep DEF Resumed
  <2>3. ASSUME Ended PROVE stack' \in Seq(Calls) /\ StackInv'
    <3>1. reentered => reentered'
      BY <2>1, Zenon
    <3> QED
      BY <2>3, <3>1, StackEnds, Zenon
  <2> QED
    BY <1>0, <2>1, <2>2, <2>3
<1>6. CASE AckStatusCallback
  <2>1. UNCHANGED reentered /\ (~Idle => Top.pc \in Waiting)
        /\ (UNCHANGED stack \/ \E i \in InUse : Entered(AnswerCall(i)))
    BY <1>6, AnswerMove DEF AckStatusCallback, ghosts
  <2>2. ASSUME NEW i \in InUse, Entered(AnswerCall(i)) PROVE stack' \in Seq(Calls) /\ StackInv'
    <3>1. AnswerCall(i).kind = "answer" /\ WellPlaced(AnswerCall(i))
      BY TellingCalls, SlotsAndEntries DEF InUse
    <3> QED
      BY <2>1, <2>2, <3>1, StackStep DEF Entered
  <2> QED
    BY <1>0, <1>1, <2>1, <2>2
<1>7. CASE Publish
  <2>1. Ended /\ UNCHANGED reentered
    BY <1>7, PublishMove DEF Publish, ghosts
  <2> QED
    BY <1>0, <2>1, StackEnds
<1>8. CASE AnswerHandled
  <2>1. UNCHANGED reentered
    BY <1>8 DEF AnswerHandled, ghosts
  <2>2. PICK c \in Calls : Resumed(c) /\ Same(c, Top) /\ WellPlaced(c)
    BY <1>8, HandlingMove
  <2> QED
    BY <1>0, <2>1, <2>2, StackStep DEF Resumed, Same
<1>9. ShadowInit \/ Tick => UNCHANGED <<stack, reentered>>
  BY DEF ShadowInit, Tick, ghosts
<1> QED
  BY <1>1, <1>2, <1>3, <1>4, <1>5, <1>6, <1>7, <1>8, <1>9 DEF Next, Proceed, QuietNext

LEMMA TypeInvStep ==
  ASSUME TypeInv, TimeoutInv, StackInv, [Next]_vars
  PROVE  TypeInv' /\ StackInv'
<1>1. stack' \in Seq(Calls) /\ StackInv' /\ reentered' \in BOOLEAN
  BY StackTyped
<1>2. ackWaitList' \in [Slots -> AckRecords] /\ subList' \in [Entries -> EntryRecords]
  BY RecordsTyped, EntriesTyped
<1>3. UNCHANGED app
  BY DEF Next, Proceed, Request, RegisterDelta, ShadowInit, Yield, AckStatusCallback, ShadowDeltaCallback, CloudDelta, Tick,
         SubscribeAccepted, SubscribeRejected, Withdrawn, Publish, AnswerHandled, LeaveTopic, Unsubscribe, Left,
         SubscribeDelta, NextKey, KeyHandled, DeltaHandled, vars
<1>4. \A m \in cloud' : m.req \in Nat /\ m.token \in Nat
  <2>1. CASE Publish
    <3>1. Top \in Calls
      BY <2>1, PublishMove
    <3>2. Top.req \in Nat /\ Top.token \in Nat
      BY <3>1 DEF Calls
    <3>3. \A m \in cloud' : m \in cloud \/ (m.req = Top.req /\ m.token = Top.token)
      BY <2>1 DEF Publish
    <3> QED
      BY <3>2, <3>3 DEF TypeInv
  <2>2. CASE cloud' \subseteq cloud
    BY <2>2 DEF TypeInv
  <2>3. QuietNext => UNCHANGED cloud
    BY QuietNextMove
  <2>4. Request \/ ShadowInit \/ Yield \/ AckStatusCallback \/ Tick \/ AnswerHandled \/ Left => cloud' \subseteq cloud
    BY DEF Request, ShadowInit, Yield, AckStatusCallback, Tick, AnswerHandled, Left, service
  <2> QED
    BY <2>1, <2>2, <2>3, <2>4 DEF Next, Proceed, QuietNext
<1>5. deltas' \subseteq Documents /\ cloudVersion' \in Nat
  <2>1. CASE CloudDelta
    <3>1. PICK keys \in SUBSET app.keys \ {{}} : deltas' = deltas \union {[version |-> cloudVersion + 1, keys |-> keys]}
      BY <2>1 DEF CloudDelta
    <3>2. [version |-> cloudVersion + 1, keys |-> keys] \in Documents
      <4>1. cloudVersion + 1 \in Nat /\ keys \in SUBSET Keys
        BY AppIs DEF TypeInv
      <4> QED
        BY <4>1 DEF Documents
    <3>3. cloudVersion' \in Nat
      BY <2>1 DEF CloudDelta, TypeInv
    <3> QED
      BY <3>1, <3>2, <3>3 DEF TypeInv
  <2>2. CASE deltas' \subseteq deltas /\ UNCHANGED cloudVersion
    BY <2>2 DEF TypeInv
  <2>3. ~CloudDelta => deltas' \subseteq deltas /\ UNCHANGED cloudVersion
    BY DEF Next, Proceed, Request, RegisterDelta, ShadowInit, Yield, AckStatusCallback, ShadowDeltaCallback, Tick,
         SubscribeAccepted, SubscribeRejected, Withdrawn, Publish, AnswerHandled, LeaveTopic, Unsubscribe, Left,
         SubscribeDelta, NextKey, KeyHandled, DeltaHandled, vars, service
  <2> QED
    BY <2>1, <2>2, <2>3
<1>6. tokenNum' \in Nat /\ inits' \in Nat
  <2>1. CASE Request
    BY <2>1 DEF Request, TypeInv
  <2>2. CASE ShadowInit
    <3>1. tokenNum' = 0 /\ inits' = inits + 1
      BY <2>2 DEF ShadowInit
    <3> QED
      BY <3>1 DEF TypeInv
  <2>3. ~Request /\ ~ShadowInit => UNCHANGED <<tokenNum, inits>>
    BY DEF Next, Proceed, RegisterDelta, Yield, AckStatusCallback, ShadowDeltaCallback, CloudDelta, Tick,
         SubscribeAccepted, SubscribeRejected, Withdrawn, Publish, AnswerHandled, LeaveTopic, Unsubscribe, Left,
         SubscribeDelta, NextKey, KeyHandled, DeltaHandled, vars, ghosts
  <2> QED
    BY <2>1, <2>2, <2>3 DEF TypeInv
<1>7. failures' \in Nat
  <2>1. failures' \in {failures, failures + 1}
    BY DEF Next, Proceed, Request, RegisterDelta, ShadowInit, Yield, AckStatusCallback, ShadowDeltaCallback, CloudDelta, Tick,
         SubscribeAccepted, SubscribeRejected, Withdrawn, Publish, AnswerHandled, LeaveTopic, Unsubscribe, Left,
         SubscribeDelta, NextKey, KeyHandled, DeltaHandled, vars, Fails, Succeeds
  <2> QED
    BY <2>1 DEF TypeInv
<1>8. full' \in BOOLEAN
  <2>1. CASE Request
    BY <2>1 DEF Request, Begin, TypeInv
  <2>2. ~Request => UNCHANGED full
    BY DEF Next, Proceed, RegisterDelta, ShadowInit, Yield, AckStatusCallback, ShadowDeltaCallback, CloudDelta, Tick,
         SubscribeAccepted, SubscribeRejected, Withdrawn, Publish, AnswerHandled, LeaveTopic, Unsubscribe, Left,
         SubscribeDelta, NextKey, KeyHandled, DeltaHandled, vars, ghosts
  <2> QED
    BY <2>1, <2>2 DEF TypeInv
<1> QED
  BY <1>1, <1>2, <1>3, <1>4, <1>5, <1>6, <1>7, <1>8 DEF TypeInv

LEMMA TypeInvInit == Init => TypeInv /\ StackInv
<1> SUFFICES ASSUME Init PROVE TypeInv /\ StackInv
  OBVIOUS
<1>1. FreeAck \in AckRecords
  <2>1. Countdown(0, 0) \in TimerValues /\ 0 \in Nat /\ TRUE \in BOOLEAN /\ "none" \in Actions \cup {"none"}
    BY DEF TimerValues
  <2> QED
    BY <2>1, Zenon DEF FreeAck, AckRecords
<1>2. FreeEntry \in EntryRecords
  <2>1. NoTopic \in TopicNames
    BY DEF NoTopic, Topic, TopicNames
  <2>2. FALSE \in Persistence
    <3>1. BOOLEAN \subseteq Persistence
      BY DEF Persistence
    <3> QED
      BY <3>1
  <2> QED
    BY <2>1, <2>2 DEF FreeEntry, EntryRecords
<1>3. stack \in Seq(Calls)
  BY DEF Init
<1>4. StackInv
  BY DEF Init, StackInv
<1> QED
  BY <1>1, <1>2, <1>3, <1>4 DEF Init, TypeInv

-----------------------------------------------------------------------------
(* What a request is told. *)

\* Nobody has answered request r, and nobody but the call that makes it knows of it.
Untold(r) ==
  /\ r \in DOMAIN requests /\ requests[r].answers = <<>>
  /\ \A m \in cloud : m.req # r
  /\ \A i \in InUse : ackWaitList[i].req # r
Asks(f) == f.kind = "request"
\* Each request has at most one call that makes it, one answer on its way, and one record.
AskInv ==
  /\ \A j \in 1..Len(stack) : Asks(stack[j]) =>
       Untold(stack[j].req) /\ \A k \in 1..Len(stack) : Asks(stack[k]) /\ stack[k].req = stack[j].req => k = j
  /\ \A m \in cloud :
       /\ m.req \in DOMAIN requests /\ m.topic.verdict = requests[m.req].truth
       /\ \A n \in cloud : n.req = m.req => n = m
  /\ \A i \in InUse :
       ackWaitList[i].req \in DOMAIN requests /\ \A k \in InUse : ackWaitList[k].req = ackWaitList[i].req => k = i
\* Until the client tokens start over, a token is the number of its request.
TokenInv ==
  inits = 0 =>
    /\ tokenNum = Len(requests)
    /\ \A j \in 1..Len(stack) : Asks(stack[j]) => stack[j].req = stack[j].token + 1
    /\ \A m \in cloud : m.req = m.token + 1
    /\ \A i \in InUse : ackWaitList[i].req = ackWaitList[i].token + 1
ToldInv ==
  inits = 0 => \A r \in DOMAIN requests : ToSet(requests[r].answers) \subseteq {requests[r].truth, "timeout"}

\* The record of f is in use although its request has been answered.
Tells(f) == f.kind = "answer" \/ (f.kind = "expire" /\ f.pc = "callback")
Answered(r) == requests[r].answers # <<>>
AtMostOnce == \A r \in DOMAIN requests : Len(requests[r].answers) <= 1
AskersHaveRoom == \A j \in 1..Len(stack) : Asks(stack[j]) => stack[j].slot \in Slots \ InUse
TellersHaveRecords ==
  \A j \in 1..Len(stack) : Tells(stack[j]) =>
    /\ stack[j].slot \in InUse /\ Answered(ackWaitList[stack[j].slot].req)
    /\ \A k \in 1..Len(stack) : Tells(stack[k]) /\ stack[k].slot = stack[j].slot => k = j
AnsweredHaveTellers ==
  \A i \in InUse : Answered(ackWaitList[i].req) => \E j \in 1..Len(stack) : Tells(stack[j]) /\ stack[j].slot = i
\* An answer that comes after the timeout finds its record only while the application is told of it.
LateOnlyInCallback ==
  \A m \in cloud : Answered(m.req) => \A i \in InUse : ackWaitList[i].req = m.req =>
    \E j \in 1..Len(stack) : stack[j].kind = "expire" /\ Tells(stack[j]) /\ stack[j].slot = i
Once == AtMostOnce /\ AskersHaveRoom /\ TellersHaveRecords /\ AnsweredHaveTellers /\ LateOnlyInCallback
OnceInv == inits = 0 /\ ~reentered => Once

\* As far as anyone is told, the call c is the call f.
Like(c, f) ==
  /\ c.kind = f.kind /\ c.slot = f.slot /\ c.req = f.req /\ c.token = f.token
  /\ Tells(c) <=> Tells(f)
Kin == {"request", "answer", "expire"}

LEMMA QuietStack ==
  ASSUME TypeInv, StackInv, Quietly
  PROVE  /\ \A j \in 1..Len(stack') : stack'[j].kind \in Kin => j \in 1..Len(stack) /\ Like(stack'[j], stack[j])
         /\ \A j \in 1..Len(stack) : Tells(stack[j]) => j \in 1..Len(stack') /\ Like(stack'[j], stack[j])
<1> DEFINE n == Len(stack)
<1>0. n \in Nat
  BY DEF TypeInv
<1>1. CASE UNCHANGED stack
  BY <1>1 DEF Like
<1>2. ASSUME NEW c \in Calls, Entered(c), c.kind \in {"register", "delta"}
      PROVE  /\ \A j \in 1..Len(stack') : stack'[j].kind \in Kin => j \in 1..n /\ Like(stack'[j], stack[j])
             /\ \A j \in 1..n : Tells(stack[j]) => j \in 1..Len(stack') /\ Like(stack'[j], stack[j])
  <2>1. Len(stack') = n + 1 /\ stack'[n + 1] = c /\ \A j \in 1..n : stack'[j] = stack[j]
    BY <1>2 DEF Entered
  <2>2. \A j \in 1..n + 1 : j \in 1..n \/ j = n + 1
    BY <1>0
  <2>3. \A j \in 1..n : j \in 1..n + 1
    BY <1>0
  <2> HIDE DEF n
  <2> QED
    BY <1>2, <2>1, <2>2, <2>3 DEF Kin, Like
<1>3. ASSUME NEW c \in Calls, Resumed(c), Same(c, Top), Top.kind = "expire" => "callback" \notin {Top.pc, c.pc}
      PROVE  /\ \A j \in 1..Len(stack') : stack'[j].kind \in Kin => j \in 1..n /\ Like(stack'[j], stack[j])
             /\ \A j \in 1..n : Tells(stack[j]) => j \in 1..Len(stack') /\ Like(stack'[j], stack[j])
  <2>1. Len(stack') = n /\ n # 0 /\ stack'[n] = c /\ \A j \in 1..n - 1 : stack'[j] = stack[j]
    BY <1>3 DEF Resumed
  <2>2. Top = stack[n]
    BY <2>1, TopKind DEF Idle
  <2>3. \A j \in 1..n : j \in 1..n - 1 \/ j = n
    BY <1>0
  <2>4. Like(c, Top)
    BY <1>3 DEF Like, Same, Tells
  <2> HIDE DEF n
  <2> QED
    BY <2>1, <2>2, <2>3, <2>4 DEF Like
<1>4. ASSUME NEW c \in Calls, Resumed(c), c.kind = "delta", Top.kind = "delta"
      PROVE  /\ \A j \in 1..Len(stack') : stack'[j].kind \in Kin => j \in 1..n /\ Like(stack'[j], stack[j])
             /\ \A j \in 1..n : Tells(stack[j]) => j \in 1..Len(stack') /\ Like(stack'[j], stack[j])
  <2>1. Len(stack') = n /\ n # 0 /\ stack'[n] = c /\ \A j \in 1..n - 1 : stack'[j] = stack[j]
    BY <1>4 DEF Resumed
  <2>2. Top = stack[n]
    BY <2>1, TopKind DEF Idle
  <2>3. \A j \in 1..n : j \in 1..n - 1 \/ j = n
    BY <1>0
  <2> HIDE DEF n
  <2> QED
    BY <1>4, <2>1, <2>2, <2>3 DEF Like, Kin, Tells
<1>5. ASSUME Ended, ~Idle, Top.kind \in {"request", "register", "delta"}
      PROVE  /\ \A j \in 1..Len(stack') : stack'[j].kind \in Kin => j \in 1..n /\ Like(stack'[j], stack[j])
             /\ \A j \in 1..n : Tells(stack[j]) => j \in 1..Len(stack') /\ Like(stack'[j], stack[j])
  <2>1. Len(stack') = n - 1 /\ \A j \in 1..n - 1 : stack'[j] = stack[j]
    BY <1>5 DEF Ended
  <2>2. Top = stack[n]
    BY <1>5, TopKind
  <2>3. (\A j \in 1..n : j \in 1..n - 1 \/ j = n) /\ (\A j \in 1..n - 1 : j \in 1..n)
    BY <1>0
  <2>4. ~Tells(Top)
    BY <1>5 DEF Tells
  <2> HIDE DEF n
  <2> QED
    BY <2>1, <2>2, <2>3, <2>4 DEF Like
<1> QED
  BY <1>1, <1>2, <1>3, <1>4, <1>5 DEF Quietly

LEMMA AnswerIs ==
  ASSUME TimeoutInv, NEW r \in DOMAIN requests, NEW verdict \in Told
  PROVE  /\ DOMAIN Answer(r, verdict) = DOMAIN requests /\ Len(Answer(r, verdict)) = Len(requests)
         /\ \A q \in DOMAIN requests : Answer(r, verdict)[q].truth = requests[q].truth
         /\ \A q \in DOMAIN requests : q # r => Answer(r, verdict)[q] = requests[q]
         /\ Answer(r, verdict)[r].answers = Append(requests[r].answers, verdict)
         /\ Len(Answer(r, verdict)[r].answers) = Len(requests[r].answers) + 1 /\ Answer(r, verdict)[r].answers # <<>>
         /\ ToSet(Answer(r, verdict)[r].answers) = ToSet(requests[r].answers) \cup {verdict}
<1> DEFINE a == requests[r].answers
           b == Append(a, verdict)
<1>1. requests \in Seq(RequestRecords) /\ requests[r] \in RequestRecords /\ a \in Seq(Told)
  <2>1. requests \in Seq(RequestRecords) /\ requests[r] \in RequestRecords
    BY DEF TimeoutInv, AnswersInv
  <2> QED
    BY <2>1 DEF RequestRecords
<1>2. Answer(r, verdict) = [requests EXCEPT ![r] = [requests[r] EXCEPT !.answers = b]]
  BY <1>1 DEF Answer
<1>3. Len(b) = Len(a) + 1 /\ b # <<>> /\ Len(a) \in Nat /\ DOMAIN a = 1..Len(a) /\ DOMAIN b = 1..Len(a) + 1
      /\ b[Len(a) + 1] = verdict /\ \A i \in 1..Len(a) : b[i] = a[i]
  BY <1>1
<1>4. ToSet(b) = ToSet(a) \cup {verdict}
  <2>1. \A i \in 1..Len(a) + 1 : i \in 1..Len(a) \/ i = Len(a) + 1
    BY <1>3
  <2>2. \A i \in 1..Len(a) : i \in 1..Len(a) + 1
    BY <1>3
  <2>3. Len(a) + 1 \in 1..Len(a) + 1
    BY <1>3
  <2> HIDE DEF a, b
  <2> QED
    BY <1>3, <2>1, <2>2, <2>3 DEF ToSet
<1> HIDE DEF b
<1>5. [requests[r] EXCEPT !.answers = b].answers = b /\ [requests[r] EXCEPT !.answers = b].truth = requests[r].truth
  BY <1>1 DEF RequestRecords
<1> DEFINE e == [requests[r] EXCEPT !.answers = b]
<1> HIDE DEF e
<1>6. /\ DOMAIN [requests EXCEPT ![r] = e] = DOMAIN requests /\ [requests EXCEPT ![r] = e][r] = e
      /\ \A q \in DOMAIN requests : q # r => [requests EXCEPT ![r] = e][q] = requests[q]
      /\ Len([requests EXCEPT ![r] = e]) = Len(requests)
  BY <1>1
<1> QED
  BY <1>2, <1>3, <1>4, <1>5, <1>6 DEF e, b

LEMMA FreedIs ==
  ASSUME TypeInv, NEW slot, ackWaitList' = Freed(slot)
  PROVE  InUse' = InUse \ {slot} /\ \A i \in InUse' : ackWaitList'[i] = ackWaitList[i]
<1> DEFINE e == [FreeAck EXCEPT !.action = ackWaitList[slot].action]
<1>1. e.free
  BY DEF FreeAck
<1> HIDE DEF e
<1>2. ackWaitList' = [ackWaitList EXCEPT ![slot] = e]
  BY DEF Freed, e
<1> QED
  BY <1>1, <1>2 DEF InUse, TypeInv

\* A step that begins no request and publishes none: who asks asked before, what is on its way was,
\* and only the request of a record in use is answered.
Settling ==
  /\ \A j \in 1..Len(stack') : Asks(stack'[j]) => j \in 1..Len(stack) /\ Like(stack'[j], stack[j])
  /\ cloud' \subseteq cloud
  /\ \A i \in InUse' : i \in InUse /\ ackWaitList'[i].req = ackWaitList[i].req /\ ackWaitList'[i].token = ackWaitList[i].token
  /\ DOMAIN requests' = DOMAIN requests /\ Len(requests') = Len(requests)
  /\ \A r \in DOMAIN requests : requests'[r].truth = requests[r].truth
  /\ \A r \in DOMAIN requests :
       requests'[r].answers = requests[r].answers \/ \E i \in InUse : ackWaitList[i].req = r

LEMMA SameRecords ==
  ASSUME UNCHANGED ackWaitList
  PROVE  InUse' = InUse /\ \A i \in InUse' : ackWaitList'[i] = ackWaitList[i]
BY DEF InUse

LEMMA LikeItself ==
  ASSUME \A j \in 1..Len(stack') : Asks(stack'[j]) => j \in 1..Len(stack) /\ stack'[j] = stack[j]
  PROVE  \A j \in 1..Len(stack') : Asks(stack'[j]) => j \in 1..Len(stack) /\ Like(stack'[j], stack[j])
BY DEF Like

\* What a call that is no request leaves of the calls that ask.
LEMMA AskersStay ==
  ASSUME TypeInv, StackInv, NEW c,
         UNCHANGED stack \/ Ended \/ (Entered(c) /\ ~Asks(c)) \/ (Resumed(c) /\ ~Asks(c))
  PROVE  \A j \in 1..Len(stack') : Asks(stack'[j]) => j \in 1..Len(stack) /\ Like(stack'[j], stack[j])
<1> DEFINE n == Len(stack)
<1>0. n \in Nat
  BY DEF TypeInv
<1>1. CASE UNCHANGED stack
  BY <1>1, LikeItself
<1>2. CASE Ended
  <2>1. Len(stack') = n - 1 /\ \A j \in 1..n - 1 : j \in 1..n /\ stack'[j] = stack[j]
    BY <1>0, <1>2 DEF Ended
  <2> HIDE DEF n
  <2> QED
    BY <2>1, LikeItself DEF n
<1>3. CASE Entered(c) /\ ~Asks(c)
  <2>1. Len(stack') = n + 1 /\ stack'[n + 1] = c /\ \A j \in 1..n : stack'[j] = stack[j]
    BY <1>3 DEF Entered
  <2>2. \A j \in 1..n + 1 : j \in 1..n \/ j = n + 1
    BY <1>0
  <2> HIDE DEF n
  <2> QED
    BY <1>3, <2>1, <2>2, LikeItself DEF n
<1>4. CASE Resumed(c) /\ ~Asks(c)
  <2>1. Len(stack') = n /\ stack'[n] = c /\ \A j \in 1..n - 1 : stack'[j] = stack[j]
    BY <1>4 DEF Resumed
  <2>2. \A j \in 1..n : j \in 1..n - 1 \/ j = n
    BY <1>0
  <2> HIDE DEF n
  <2> QED
    BY <1>4, <2>1, <2>2, LikeItself DEF n
<1> QED
  BY <1>1, <1>2, <1>3, <1>4

LEMMA AnswerSettles ==
  ASSUME AskInv, TimeoutInv, NEW i \in InUse, NEW verdict \in Told, requests' = Answer(ackWaitList[i].req, verdict)
  PROVE  /\ DOMAIN requests' = DOMAIN requests /\ Len(requests') = Len(requests)
         /\ \A r \in DOMAIN requests : requests'[r].truth = requests[r].truth
         /\ \A r \in DOMAIN requests :
              requests'[r].answers = requests[r].answers \/ \E k \in InUse : ackWaitList[k].req = r
<1>1. ackWaitList[i].req \in DOMAIN requests
  BY DEF AskInv
<1>2. \A q \in DOMAIN requests : q # ackWaitList[i].req => requests'[q] = requests[q]
  BY <1>1, AnswerIs
<1> QED
  BY <1>1, <1>2, AnswerIs

LEMMA SettlingStep ==
  ASSUME TypeInv, StackInv, TimeoutInv, AskInv, [Next]_vars, ~Request, ~Publish
  PROVE  Settling
<1>0. "timeout" \in Told /\ \A m \in cloud : m.topic.verdict \in Told
  BY DEF Told, TimeoutInv, AnswersInv
<1>1. CASE QuietNext
  <2>1. Quietly /\ UNCHANGED <<ackWaitList, cloud, requests>>
    BY <1>1, QuietNextMove
  <2>2. \A j \in 1..Len(stack') : Asks(stack'[j]) => j \in 1..Len(stack) /\ Like(stack'[j], stack[j])
    BY <2>1, QuietStack DEF Asks, Kin
  <2> QED
    BY <2>1, <2>2, SameRecords DEF Settling
<1>2. CASE ShadowInit
  <2>1. UNCHANGED <<stack, cloud, requests>> /\ ackWaitList' = [i \in Slots |-> FreeAck]
    BY <1>2 DEF ShadowInit, service
  <2>2. InUse' = {}
    BY <2>1 DEF InUse, FreeAck
  <2> QED
    BY <2>1, <2>2, AskersStay DEF Settling
<1>3. CASE Tick
  <2>1. UNCHANGED <<stack, cloud, requests>>
    BY <1>3 DEF Tick, service
  <2>2. \A i \in InUse' : i \in InUse /\ ackWaitList'[i].req = ackWaitList[i].req /\ ackWaitList'[i].token = ackWaitList[i].token
    <3>1. ASSUME NEW i \in Slots
          PROVE  ackWaitList'[i] = ackWaitList[i]
                 \/ (~ackWaitList[i].free /\ ackWaitList'[i] = [ackWaitList[i] EXCEPT !.age = @ + 1])
      BY <1>3 DEF Tick
    <3>2. \A i \in Slots : ackWaitList[i] \in AckRecords
      BY DEF TypeInv
    <3> QED
      BY <3>1, <3>2 DEF InUse, AckRecords
  <2> QED
    BY <2>1, <2>2, AskersStay DEF Settling
<1>4. CASE Yield
  <2>1. UNCHANGED <<ackWaitList, cloud>>
        /\ (UNCHANGED <<stack, requests>>
            \/ \E i \in InUse : Entered(ExpireCall(i)) /\ requests' = Answer(ackWaitList[i].req, "timeout"))
    BY <1>4, YieldMove DEF Yield, records, service
  <2>2. ASSUME NEW i \in InUse, Entered(ExpireCall(i)), requests' = Answer(ackWaitList[i].req, "timeout") PROVE Settling
    <3>1. ~Asks(ExpireCall(i))
      BY TellingCalls, SlotsAndEntries DEF InUse, Asks
    <3> QED
      BY <1>0, <2>1, <2>2, <3>1, AskersStay, AnswerSettles, SameRecords DEF Settling
  <2>3. CASE UNCHANGED <<stack, requests>>
    BY <2>1, <2>3, AskersStay, SameRecords DEF Settling
  <2> QED
    BY <2>1, <2>2, <2>3
<1>5. CASE Left
  <2>1. UNCHANGED cloud
    BY <1>5 DEF Left, service
  <2>2. CASE Ended /\ UNCHANGED requests /\ ackWaitList' = Freed(Top.slot)
    BY <2>1, <2>2, AskersStay, FreedIs DEF Settling
  <2>3. CASE Ended /\ UNCHANGED <<requests, ackWaitList>>
    BY <2>1, <2>3, AskersStay, SameRecords DEF Settling
  <2>4. ASSUME UNCHANGED ackWaitList, NEW i \in InUse, Resumed(ExpireCall(i)), requests' = Answer(ackWaitList[i].req, "timeout")
        PROVE  Settling
    <3>1. ~Asks(ExpireCall(i))
      BY TellingCalls, SlotsAndEntries DEF InUse, Asks
    <3> QED
      BY <1>0, <2>1, <2>4, <3>1, AskersStay, AnswerSettles, SameRecords DEF Settling
  <2> QED
    BY <1>5, <2>2, <2>3, <2>4, LeftMove
<1>6. CASE AckStatusCallback
  <2>1. PICK m \in cloud :
          /\ cloud' = cloud \ {m}
          /\ \/ UNCHANGED <<stack, requests>>
             \/ \E i \in InUse : Entered(AnswerCall(i)) /\ requests' = Answer(ackWaitList[i].req, m.topic.verdict)
    BY <1>6, AnswerMove
  <2>2. UNCHANGED ackWaitList
    BY <1>6, AnswerMove
  <2>3. ASSUME NEW i \in InUse, Entered(AnswerCall(i)), requests' = Answer(ackWaitList[i].req, m.topic.verdict) PROVE Settling
    <3>1. ~Asks(AnswerCall(i))
      BY TellingCalls, SlotsAndEntries DEF InUse, Asks
    <3> QED
      BY <1>0, <2>1, <2>2, <2>3, <3>1, AskersStay, AnswerSettles, SameRecords DEF Settling
  <2>4. CASE UNCHANGED <<stack, requests>>
    BY <2>1, <2>2, <2>4, AskersStay, SameRecords DEF Settling
  <2> QED
    BY <2>1, <2>3, <2>4
<1>7. CASE AnswerHandled
  <2>1. UNCHANGED <<cloud, requests>> /\ (UNCHANGED ackWaitList \/ ackWaitList' = Freed(Top.slot))
    BY <1>7 DEF AnswerHandled, service
  <2>2. PICK c \in Calls : Resumed(c) /\ Same(c, Top) /\ Top.kind \in {"answer", "expire"}
    BY <1>7, HandlingMove
  <2>3. ~Asks(c)
    BY <2>2 DEF Same, Asks
  <2>4. \A i \in InUse' : i \in InUse /\ ackWaitList'[i] = ackWaitList[i]
    BY <2>1, FreedIs, SameRecords
  <2> QED
    BY <2>1, <2>2, <2>3, <2>4, AskersStay DEF Settling
<1> QED
  BY <1>1, <1>2, <1>3, <1>4, <1>5, <1>6, <1>7 DEF Next, Proceed, QuietNext

\* A new request: it has the next number, and the others are as they were.
LEMMA RequestAppends ==
  ASSUME TimeoutInv, Request
  PROVE  /\ Len(requests) \in Nat /\ Len(requests') = Len(requests) + 1
         /\ DOMAIN requests = 1..Len(requests) /\ DOMAIN requests' = 1..Len(requests) + 1
         /\ \A r \in DOMAIN requests : r \in DOMAIN requests' /\ requests'[r] = requests[r] /\ r # Len(requests) + 1
         /\ \A r \in DOMAIN requests' : r \in DOMAIN requests \/ r = Len(requests) + 1
         /\ Len(requests) + 1 \in DOMAIN requests' /\ requests'[Len(requests) + 1].answers = <<>>
         /\ UNCHANGED <<ackWaitList, cloud, inits>> /\ tokenNum' = tokenNum + 1
<1> DEFINE new == [answers |-> <<>>, truth |-> "none", sent |-> FALSE]
           n == Len(requests)
<1>1. requests' = Append(requests, new) /\ UNCHANGED <<ackWaitList, cloud, inits>> /\ tokenNum' = tokenNum + 1
  BY DEF Request, Begin, service
<1>2. new.answers = <<>> /\ requests \in Seq(RequestRecords) /\ n \in Nat /\ DOMAIN requests = 1..n
  BY DEF TimeoutInv, AnswersInv
<1> HIDE DEF new
<1>3. /\ Len(requests') = n + 1 /\ DOMAIN requests' = 1..n + 1 /\ requests'[n + 1] = new
      /\ \A r \in 1..n : requests'[r] = requests[r]
  BY <1>1, <1>2
<1>4. /\ \A r \in 1..n : r \in 1..n + 1 /\ r # n + 1
      /\ \A r \in 1..n + 1 : r \in 1..n \/ r = n + 1
      /\ n + 1 \in 1..n + 1
  BY <1>2
<1> QED
  BY <1>1, <1>2, <1>3, <1>4

\* The calls that ask after a request began: those that asked before, and its own.
LEMMA RequestAsks ==
  ASSUME TypeInv, StackInv, TimeoutInv, Request
  PROVE  /\ \A j \in 1..Len(stack') :
              \/ j \in 1..Len(stack) /\ stack'[j] = stack[j]
              \/ /\ j = Len(stack) + 1 /\ Asks(stack'[j]) /\ stack'[j].req = Len(requests) + 1
                 /\ stack'[j].token = tokenNum /\ stack'[j].slot \in Slots \ InUse
         /\ \A j \in 1..Len(stack) : j \in 1..Len(stack') /\ stack'[j] = stack[j] /\ j # Len(stack) + 1
<1> DEFINE n == Len(stack)
<1>0. n \in Nat /\ \A j \in 1..n : j \in 1..n + 1 /\ j # n + 1
  <2>1. n \in Nat
    BY DEF TypeInv
  <2> HIDE DEF n
  <2> QED
    BY <2>1
<1>1. CASE UNCHANGED stack
  BY <1>0, <1>1
<1>2. ASSUME NEW c, Begins(c), Entered(c), FreeSlot # 0
      PROVE  /\ \A j \in 1..Len(stack') :
                  \/ j \in 1..n /\ stack'[j] = stack[j]
                  \/ /\ j = n + 1 /\ Asks(stack'[j]) /\ stack'[j].req = Len(requests) + 1
                     /\ stack'[j].token = tokenNum /\ stack'[j].slot \in Slots \ InUse
             /\ \A j \in 1..n : j \in 1..Len(stack') /\ stack'[j] = stack[j]
  <2>1. Len(stack') = n + 1 /\ stack'[n + 1] = c /\ \A j \in 1..n : stack'[j] = stack[j]
    BY <1>2 DEF Entered
  <2>2. \A j \in 1..n + 1 : j \in 1..n \/ j = n + 1
    BY <1>0
  <2>3. Asks(c) /\ c.req = Len(requests) + 1 /\ c.token = tokenNum /\ c.slot \in Slots \ InUse
    BY <1>2, BeginsIs, FreeSlotIs DEF Asks
  <2> HIDE DEF n
  <2> QED
    BY <1>0, <2>1, <2>2, <2>3
<1> QED
  BY <1>0, <1>1, <1>2, RequestMove

\* Untold, of the next state.
StaysUntold(r) ==
  /\ r \in DOMAIN requests' /\ requests'[r].answers = <<>>
  /\ \A m \in cloud' : m.req # r
  /\ \A i \in InUse' : ackWaitList'[i].req # r

LEMMA RequestAskInv ==
  ASSUME TypeInv, StackInv, TimeoutInv, AskInv, Request
  PROVE  AskInv'
<1> DEFINE new == Len(requests) + 1
<1>1. new \notin DOMAIN requests /\ new \in DOMAIN requests' /\ requests'[new].answers = <<>>
  BY RequestAppends
<1>2. InUse' = InUse /\ UNCHANGED <<ackWaitList, cloud>>
  BY RequestAppends DEF InUse
<1>3. \A r \in DOMAIN requests : r \in DOMAIN requests' /\ requests'[r] = requests[r]
  BY RequestAppends
<1> HIDE DEF new
<1>4. StaysUntold(new)
  BY <1>1, <1>2 DEF StaysUntold, AskInv
<1>5. ASSUME NEW r, Untold(r) PROVE StaysUntold(r) /\ r # new
  BY <1>1, <1>2, <1>3, <1>5 DEF Untold, StaysUntold
<1>6. \A j \in 1..Len(stack') :
        \/ j \in 1..Len(stack) /\ stack'[j] = stack[j]
        \/ j = Len(stack) + 1 /\ Asks(stack'[j]) /\ stack'[j].req = new
  BY RequestAsks DEF new
<1>7. ASSUME NEW j \in 1..Len(stack'), Asks(stack'[j])
      PROVE  StaysUntold(stack'[j].req) /\ \A k \in 1..Len(stack') : Asks(stack'[k]) /\ stack'[k].req = stack'[j].req => k = j
  <2>1. StaysUntold(stack'[j].req)
    BY <1>4, <1>5, <1>6, <1>7 DEF AskInv
  <2>2. ASSUME NEW k \in 1..Len(stack'), Asks(stack'[k]), stack'[k].req = stack'[j].req PROVE k = j
    <3>1. ASSUME NEW i \in 1..Len(stack), Asks(stack[i]) PROVE stack[i].req # new
      BY <1>5, <3>1 DEF AskInv
    <3> QED
      BY <1>6, <1>7, <2>2, <3>1 DEF AskInv
  <2> QED
    BY <2>1, <2>2
<1> QED
  BY <1>2, <1>3, <1>7 DEF AskInv, Untold, StaysUntold

\* What a successful publish does.
Sends(verdict) ==
  /\ cloud' = cloud \union {[req |-> Top.req, token |-> Top.token, topic |-> Topic(Top.action, verdict), version |-> cloudVersion]}
  /\ requests' = [requests EXCEPT ![Top.req].truth = verdict, ![Top.req].sent = TRUE]
  /\ ackWaitList' = [ackWaitList EXCEPT ![Top.slot] =
       [free |-> FALSE, token |-> Top.token, action |-> Top.action, timer |-> StartTimer, req |-> Top.req, age |-> 0]]

LEMMA SendsIs ==
  ASSUME TypeInv, TimeoutInv, NEW verdict \in Verdicts, Sends(verdict)
  PROVE  /\ \A m \in cloud' : m \in cloud \/ (m.req = Top.req /\ m.token = Top.token /\ m.topic.verdict = verdict)
         /\ \E new : cloud' = cloud \cup {new} /\ new.req = Top.req
         /\ cloud \subseteq cloud'
         /\ DOMAIN requests' = DOMAIN requests /\ Len(requests') = Len(requests)
         /\ Top.req \in DOMAIN requests => requests'[Top.req].truth = verdict /\ requests'[Top.req].answers = requests[Top.req].answers
         /\ \A r \in DOMAIN requests : r # Top.req => requests'[r] = requests[r]
         /\ \A i \in InUse' : \/ i \in InUse /\ i # Top.slot /\ ackWaitList'[i] = ackWaitList[i]
                              \/ i = Top.slot /\ ackWaitList'[i].req = Top.req /\ ackWaitList'[i].token = Top.token
                                 /\ ackWaitList'[i].action = Top.action
         /\ \A i \in InUse : i \in InUse'
<1>1. /\ \A m \in cloud' : m \in cloud \/ (m.req = Top.req /\ m.token = Top.token /\ m.topic.verdict = verdict)
      /\ \E new : cloud' = cloud \cup {new} /\ new.req = Top.req
      /\ cloud \subseteq cloud'
  <2> DEFINE new == [req |-> Top.req, token |-> Top.token, topic |-> Topic(Top.action, verdict), version |-> cloudVersion]
  <2>1. new.req = Top.req /\ new.token = Top.token /\ new.topic.verdict = verdict
    BY DEF Topic
  <2>2. cloud' = cloud \cup {new}
    BY DEF Sends
  <2> HIDE DEF new
  <2> QED
    BY <2>1, <2>2
<1>2. /\ DOMAIN requests' = DOMAIN requests /\ Len(requests') = Len(requests)
      /\ (Top.req \in DOMAIN requests => requests'[Top.req].truth = verdict /\ requests'[Top.req].answers = requests[Top.req].answers)
      /\ \A r \in DOMAIN requests : r # Top.req => requests'[r] = requests[r]
  <2> DEFINE e == [requests[Top.req] EXCEPT !.truth = verdict, !.sent = TRUE]
  <2>1. requests' = [requests EXCEPT ![Top.req] = e] /\ requests \in Seq(RequestRecords)
    BY DEF Sends, TimeoutInv, AnswersInv
  <2>2. ASSUME Top.req \in DOMAIN requests PROVE e.truth = verdict /\ e.answers = requests[Top.req].answers
    <3>1. requests[Top.req] \in RequestRecords
      BY <2>1, <2>2
    <3> QED
      BY <3>1 DEF RequestRecords
  <2> HIDE DEF e
  <2> QED
    BY <2>1, <2>2
<1>3. /\ \A i \in InUse' : \/ i \in InUse /\ i # Top.slot /\ ackWaitList'[i] = ackWaitList[i]
                           \/ i = Top.slot /\ ackWaitList'[i].req = Top.req /\ ackWaitList'[i].token = Top.token
                              /\ ackWaitList'[i].action = Top.action
      /\ \A i \in InUse : i \in InUse'
  <2> DEFINE e == [free |-> FALSE, token |-> Top.token, action |-> Top.action, timer |-> StartTimer, req |-> Top.req, age |-> 0]
  <2>1. ~e.free /\ e.req = Top.req /\ e.token = Top.token /\ e.action = Top.action
    OBVIOUS
  <2>2. ackWaitList' = [ackWaitList EXCEPT ![Top.slot] = e]
    BY DEF Sends
  <2> HIDE DEF e
  <2> QED
    BY <2>1, <2>2 DEF InUse, TypeInv
<1> QED
  BY <1>1, <1>2, <1>3

LEMMA PublishIs ==
  ASSUME TypeInv, StackInv, Publish
  PROVE  /\ ~Idle /\ Top.kind = "request" /\ Top = stack[Len(stack)] /\ Len(stack) \in 1..Len(stack)
         /\ \A j \in 1..Len(stack') : j \in 1..Len(stack) /\ j # Len(stack) /\ stack'[j] = stack[j]
         /\ \A j \in 1..Len(stack) : j # Len(stack) => j \in 1..Len(stack')
         /\ UNCHANGED <<tokenNum, inits, reentered>>
         /\ UNCHANGED <<ackWaitList, cloud, requests>> \/ \E verdict \in Verdicts : Sends(verdict)
<1> DEFINE n == Len(stack)
<1>1. ~Idle /\ Top.kind = "request" /\ Ended
  BY PublishMove
<1>2. n \in Nat \ {0} /\ n \in 1..n /\ Top = stack[n]
  BY <1>1, TopKind
<1>3. Len(stack') = n - 1 /\ \A j \in 1..n - 1 : stack'[j] = stack[j]
  BY <1>1 DEF Ended
<1>4. (\A j \in 1..n - 1 : j \in 1..n /\ j # n) /\ (\A j \in 1..n : j # n => j \in 1..n - 1)
  BY <1>2
<1>5. /\ UNCHANGED <<tokenNum, inits, reentered>>
      /\ UNCHANGED <<ackWaitList, cloud, requests>> \/ \E verdict \in Verdicts : Sends(verdict)
  BY DEF Publish, Sends, Verdicts, ghosts
<1> QED
  BY <1>1, <1>2, <1>3, <1>4, <1>5

LEMMA PublishAskInv ==
  ASSUME TypeInv, StackInv, TimeoutInv, AskInv, Publish
  PROVE  AskInv'
<1>0. Untold(Top.req) /\ \A k \in 1..Len(stack) : Asks(stack[k]) /\ k # Len(stack) => stack[k].req # Top.req
  <2>1. Asks(stack[Len(stack)]) /\ Len(stack) \in 1..Len(stack) /\ Top = stack[Len(stack)]
    BY PublishIs DEF Asks
  <2> QED
    BY <2>1 DEF AskInv
<1>1. CASE UNCHANGED <<ackWaitList, cloud, requests>>
  <2>1. InUse' = InUse
    BY <1>1 DEF InUse
  <2>2. \A r : Untold(r) => StaysUntold(r)
    BY <1>1, <2>1 DEF Untold, StaysUntold
  <2>3. ASSUME NEW j \in 1..Len(stack'), Asks(stack'[j])
        PROVE  StaysUntold(stack'[j].req) /\ \A k \in 1..Len(stack') : Asks(stack'[k]) /\ stack'[k].req = stack'[j].req => k = j
    BY <2>2, <2>3, PublishIs DEF AskInv
  <2> QED
    BY <1>1, <2>1, <2>3 DEF AskInv, Untold, StaysUntold
<1>2. ASSUME NEW verdict \in Verdicts, Sends(verdict) PROVE AskInv'
  <2>1. ASSUME NEW r, Untold(r), r # Top.req PROVE StaysUntold(r)
    <3>1. r \in DOMAIN requests' /\ requests'[r].answers = <<>>
      BY <1>2, <2>1, SendsIs DEF Untold
    <3>2. \A m \in cloud' : m.req # r
      BY <1>2, <2>1, SendsIs DEF Untold
    <3>3. \A i \in InUse' : ackWaitList'[i].req # r
      BY <1>2, <2>1, SendsIs DEF Untold
    <3> QED
      BY <3>1, <3>2, <3>3 DEF StaysUntold
  <2>2. ASSUME NEW j \in 1..Len(stack'), Asks(stack'[j])
        PROVE  StaysUntold(stack'[j].req) /\ \A k \in 1..Len(stack') : Asks(stack'[k]) /\ stack'[k].req = stack'[j].req => k = j
    <3>1. j \in 1..Len(stack) /\ j # Len(stack) /\ stack'[j] = stack[j]
      BY PublishIs
    <3>2. Untold(stack[j].req) /\ stack[j].req # Top.req
      BY <1>0, <2>2, <3>1 DEF AskInv
    <3>3. StaysUntold(stack'[j].req)
      BY <2>1, <3>1, <3>2
    <3> QED
      BY <2>2, <3>1, <3>3, PublishIs DEF AskInv
  <2>3. ASSUME NEW m \in cloud'
        PROVE  /\ m.req \in DOMAIN requests' /\ m.topic.verdict = requests'[m.req].truth
               /\ \A k \in cloud' : k.req = m.req => k = m
    <3>1. PICK new : cloud' = cloud \cup {new} /\ new.req = Top.req
      BY <1>2, SendsIs
    <3>2. \A k \in cloud : k.req # Top.req
      BY <1>0 DEF Untold
    <3>3. Top.req \in DOMAIN requests
      BY <1>0 DEF Untold
    <3>4. CASE m \in cloud
      <4>1. m.req # Top.req /\ m.req \in DOMAIN requests /\ m.topic.verdict = requests[m.req].truth
            /\ \A k \in cloud : k.req = m.req => k = m
        BY <3>2, <3>4 DEF AskInv
      <4> QED
        BY <1>2, <3>1, <4>1, SendsIs
    <3>5. CASE m \notin cloud
      <4>1. m = new /\ m.req = Top.req /\ m.topic.verdict = verdict
        BY <1>2, <3>1, <3>5, SendsIs
      <4> QED
        BY <1>2, <3>1, <3>2, <3>3, <4>1, SendsIs
    <3> QED
      BY <3>4, <3>5
  <2>4. ASSUME NEW i \in InUse'
        PROVE  ackWaitList'[i].req \in DOMAIN requests'
               /\ \A k \in InUse' : ackWaitList'[k].req = ackWaitList'[i].req => k = i
    <3>1. \A k \in InUse : ackWaitList[k].req # Top.req
      BY <1>0 DEF Untold
    <3>2. Top.req \in DOMAIN requests /\ DOMAIN requests' = DOMAIN requests
      BY <1>0, <1>2, SendsIs DEF Untold
    <3>3. \A k \in InUse' : \/ k \in InUse /\ k # Top.slot /\ ackWaitList'[k].req = ackWaitList[k].req
                            \/ k = Top.slot /\ ackWaitList'[k].req = Top.req
      BY <1>2, SendsIs
    <3> QED
      BY <3>1, <3>2, <3>3 DEF AskInv
  <2> QED
    BY <2>2, <2>3, <2>4 DEF AskInv, Untold, StaysUntold
<1> QED
  BY <1>1, <1>2, PublishIs

LEMMA AskInvStep ==
  ASSUME TypeInv, StackInv, TimeoutInv, AskInv, [Next]_vars
  PROVE  AskInv'
<1>1. CASE Settling
  <2>1. ASSUME NEW r, Untold(r) PROVE StaysUntold(r)
    <3>1. r \in DOMAIN requests' /\ requests'[r].answers = <<>>
      BY <1>1, <2>1 DEF Settling, Untold
    <3> QED
      BY <1>1, <2>1, <3>1 DEF Settling, Untold, StaysUntold
  <2>2. ASSUME NEW j \in 1..Len(stack'), Asks(stack'[j])
        PROVE  StaysUntold(stack'[j].req) /\ \A k \in 1..Len(stack') : Asks(stack'[k]) /\ stack'[k].req = stack'[j].req => k = j
    <3>1. \A k \in 1..Len(stack') : Asks(stack'[k]) => k \in 1..Len(stack) /\ Asks(stack[k]) /\ stack'[k].req = stack[k].req
      BY <1>1 DEF Settling, Like, Asks
    <3> QED
      BY <2>1, <2>2, <3>1 DEF AskInv
  <2>3. \A m \in cloud' : /\ m.req \in DOMAIN requests' /\ m.topic.verdict = requests'[m.req].truth
                          /\ \A k \in cloud' : k.req = m.req => k = m
    BY <1>1 DEF Settling, AskInv
  <2>4. \A i \in InUse' : /\ ackWaitList'[i].req \in DOMAIN requests'
                          /\ \A k \in InUse' : ackWaitList'[k].req = ackWaitList'[i].req => k = i
    BY <1>1 DEF Settling, AskInv
  <2> QED
    BY <2>2, <2>3, <2>4 DEF AskInv, Untold, StaysUntold
<1> QED
  BY <1>1, SettlingStep, RequestAskInv, PublishAskInv

LEMMA TokenInvStep ==
  ASSUME TypeInv, StackInv, TimeoutInv, AskInv, TokenInv, [Next]_vars
  PROVE  TokenInv'
<1> SUFFICES ASSUME inits' = 0
             PROVE  /\ tokenNum' = Len(requests')
                    /\ \A j \in 1..Len(stack') : Asks(stack'[j]) => stack'[j].req = stack'[j].token + 1
                    /\ \A m \in cloud' : m.req = m.token + 1
                    /\ \A i \in InUse' : ackWaitList'[i].req = ackWaitList'[i].token + 1
  BY DEF TokenInv
<1>1. ~ShadowInit
  <2>1. ShadowInit => inits' = inits + 1 /\ inits \in Nat
    BY DEF ShadowInit, TypeInv
  <2> QED
    BY <2>1
<1>2. UNCHANGED inits
  BY <1>1 DEF Next, Proceed, Request, RegisterDelta, Yield, AckStatusCallback, ShadowDeltaCallback, CloudDelta, Tick,
         SubscribeAccepted, SubscribeRejected, Withdrawn, Publish, AnswerHandled, LeaveTopic, Unsubscribe, Left,
         SubscribeDelta, NextKey, KeyHandled, DeltaHandled, vars, ghosts
<1>3. /\ tokenNum = Len(requests)
      /\ \A j \in 1..Len(stack) : Asks(stack[j]) => stack[j].req = stack[j].token + 1
      /\ \A m \in cloud : m.req = m.token + 1
      /\ \A i \in InUse : ackWaitList[i].req = ackWaitList[i].token + 1
  BY <1>2 DEF TokenInv
<1>4. CASE Request
  <2>1. InUse' = InUse /\ UNCHANGED <<ackWaitList, cloud>> /\ tokenNum' = Len(requests')
    BY <1>3, <1>4, RequestAppends DEF InUse
  <2> QED
    BY <1>3, <1>4, <2>1, RequestAsks
<1>5. CASE Publish
  <2>1. Asks(stack[Len(stack)]) /\ Len(stack) \in 1..Len(stack) /\ Top = stack[Len(stack)]
    BY <1>5, PublishIs DEF Asks
  <2>2. Top.req = Top.token + 1
    BY <1>3, <2>1
  <2>3. /\ UNCHANGED tokenNum
        /\ \A j \in 1..Len(stack') : Asks(stack'[j]) => stack'[j].req = stack'[j].token + 1
    BY <1>3, <1>5, PublishIs
  <2>4. CASE UNCHANGED <<ackWaitList, cloud, requests>>
    BY <1>3, <2>3, <2>4 DEF InUse
  <2>5. ASSUME NEW verdict \in Verdicts, Sends(verdict)
        PROVE  /\ Len(requests') = Len(requests) /\ \A m \in cloud' : m.req = m.token + 1
               /\ \A i \in InUse' : ackWaitList'[i].req = ackWaitList'[i].token + 1
    BY <1>3, <2>2, <2>5, SendsIs
  <2> QED
    BY <1>3, <1>5, <2>3, <2>4, <2>5, PublishIs
<1>6. CASE ~Request /\ ~Publish
  <2>1. Settling
    BY <1>6, SettlingStep
  <2>2. UNCHANGED tokenNum
    BY <1>1, <1>6 DEF Next, Proceed, RegisterDelta, Yield, AckStatusCallback, ShadowDeltaCallback, CloudDelta, Tick,
         SubscribeAccepted, SubscribeRejected, Withdrawn, AnswerHandled, LeaveTopic, Unsubscribe, Left,
         SubscribeDelta, NextKey, KeyHandled, DeltaHandled, vars
  <2>3. \A j \in 1..Len(stack') : Asks(stack'[j]) => stack'[j].req = stack'[j].token + 1
    BY <1>3, <2>1 DEF Settling, Like, Asks
  <2> QED
    BY <1>3, <2>1, <2>2, <2>3 DEF Settling
<1> QED
  BY <1>4, <1>5, <1>6

LEMMA TokensStay ==
  ASSUME TypeInv, [Next]_vars, inits' = 0
  PROVE  inits = 0 /\ ~ShadowInit
<1>1. ~ShadowInit
  <2>1. ShadowInit => inits' = inits + 1 /\ inits \in Nat
    BY DEF ShadowInit, TypeInv
  <2> QED
    BY <2>1
<1>2. UNCHANGED inits
  BY <1>1 DEF Next, Proceed, Request, RegisterDelta, Yield, AckStatusCallback, ShadowDeltaCallback, CloudDelta, Tick,
         SubscribeAccepted, SubscribeRejected, Withdrawn, Publish, AnswerHandled, LeaveTopic, Unsubscribe, Left,
         SubscribeDelta, NextKey, KeyHandled, DeltaHandled, vars, ghosts
<1> QED
  BY <1>1, <1>2

\* What is told: a timeout, or an answer with the token of a record in use.
LEMMA WhatIsTold ==
  ASSUME TypeInv, StackInv, TimeoutInv, [Next]_vars, ~Request, ~Publish
  PROVE  \/ UNCHANGED requests
         \/ \E i \in InUse : requests' = Answer(ackWaitList[i].req, "timeout")
         \/ \E i \in InUse, m \in cloud :
              m.token = ackWaitList[i].token /\ requests' = Answer(ackWaitList[i].req, m.topic.verdict)
<1>1. CASE QuietNext
  BY <1>1, QuietNextMove
<1>2. CASE AnswerHandled \/ ShadowInit \/ Tick
  BY <1>2 DEF AnswerHandled, ShadowInit, Tick
<1>3. CASE Yield
  BY <1>3, YieldMove
<1>4. CASE Left
  BY <1>4, LeftMove
<1>5. CASE AckStatusCallback
  BY <1>5, AnswerMove
<1> QED
  BY <1>1, <1>2, <1>3, <1>4, <1>5 DEF Next, Proceed, QuietNext

LEMMA ToldInvStep ==
  ASSUME TypeInv, StackInv, TimeoutInv, AskInv, TokenInv, ToldInv, [Next]_vars
  PROVE  ToldInv'
<1> SUFFICES ASSUME inits' = 0, NEW r \in DOMAIN requests'
             PROVE  ToSet(requests'[r].answers) \subseteq {requests'[r].truth, "timeout"}
  BY DEF ToldInv
<1>0. inits = 0
  BY TokensStay
<1>1. \A q \in DOMAIN requests : ToSet(requests[q].answers) \subseteq {requests[q].truth, "timeout"}
  BY <1>0 DEF ToldInv
<1>2. ToSet(<<>>) = {}
  BY DEF ToSet
<1>3. CASE Request
  BY <1>1, <1>2, <1>3, RequestAppends
<1>4. CASE Publish
  <2>1. CASE UNCHANGED requests
    BY <1>1, <2>1
  <2>2. ASSUME NEW verdict \in Verdicts, Sends(verdict)
        PROVE  ToSet(requests'[r].answers) \subseteq {requests'[r].truth, "timeout"}
    <3>1. Untold(Top.req)
      BY <1>4, PublishIs DEF AskInv, Asks
    <3>2. r \in DOMAIN requests
      BY <2>2, SendsIs
    <3>3. CASE r = Top.req
      BY <1>2, <2>2, <3>1, <3>2, <3>3, SendsIs DEF Untold
    <3>4. CASE r # Top.req
      BY <1>1, <2>2, <3>2, <3>4, SendsIs
    <3> QED
      BY <3>3, <3>4
  <2> QED
    BY <1>4, <2>1, <2>2, PublishIs
<1>5. ASSUME NEW i \in InUse, NEW told \in Told, requests' = Answer(ackWaitList[i].req, told),
             told \in {requests[ackWaitList[i].req].truth, "timeout"}
      PROVE  ToSet(requests'[r].answers) \subseteq {requests'[r].truth, "timeout"}
  <2> DEFINE q == ackWaitList[i].req
  <2>1. q \in DOMAIN requests
    BY DEF AskInv
  <2> HIDE DEF q
  <2>2. DOMAIN requests' = DOMAIN requests /\ requests'[r].truth = requests[r].truth
        /\ (r # q => requests'[r] = requests[r])
        /\ ToSet(requests'[q].answers) = ToSet(requests[q].answers) \cup {told}
    BY <1>5, <2>1, AnswerIs DEF q
  <2>3. r \in DOMAIN requests
    BY <2>2
  <2>4. CASE r = q
    BY <1>1, <1>5, <2>2, <2>3, <2>4 DEF q
  <2>5. CASE r # q
    BY <1>1, <2>2, <2>3, <2>5
  <2> QED
    BY <2>4, <2>5
<1>6. CASE ~Request /\ ~Publish
  <2>1. CASE UNCHANGED requests
    BY <1>1, <2>1
  <2>2. ASSUME NEW i \in InUse, requests' = Answer(ackWaitList[i].req, "timeout")
        PROVE  ToSet(requests'[r].answers) \subseteq {requests'[r].truth, "timeout"}
    BY <1>5, <2>2 DEF Told
  <2>3. ASSUME NEW i \in InUse, NEW m \in cloud, m.token = ackWaitList[i].token,
               requests' = Answer(ackWaitList[i].req, m.topic.verdict)
        PROVE  ToSet(requests'[r].answers) \subseteq {requests'[r].truth, "timeout"}
    <3>1. ackWaitList[i].req = m.req
      BY <1>0, <2>3 DEF TokenInv
    <3>2. m.topic.verdict = requests[m.req].truth /\ m.topic.verdict \in Told
      BY DEF AskInv, TimeoutInv, AnswersInv, Told
    <3> QED
      BY <1>5, <2>3, <3>1, <3>2
  <2> QED
    BY <1>6, <2>1, <2>2, <2>3, WhatIsTold
<1> QED
  BY <1>3, <1>4, <1>6

-----------------------------------------------------------------------------
(* Nobody is told twice. *)

\* While nothing is made inside another call, at most one request is being made, and the application is
\* told of a timeout in the only call under way.
LEMMA OneAsker ==
  ASSUME TypeInv, StackInv, ~reentered, NEW j \in 1..Len(stack), NEW k \in 1..Len(stack), Asks(stack[j]), Asks(stack[k])
  PROVE  j = k
<1>1. (j = 1 \/ (j = 2 /\ stack[1].kind \in {"answer", "delta"})) /\ (k = 1 \/ (k = 2 /\ stack[1].kind \in {"answer", "delta"}))
  BY DEF StackInv, Asks
<1> QED
  BY <1>1 DEF Asks

LEMMA ExpireAlone ==
  ASSUME TypeInv, StackInv, ~reentered, NEW j \in 1..Len(stack), stack[j].kind = "expire", Tells(stack[j])
  PROVE  j = 1 /\ Len(stack) = 1 /\ ~Idle /\ Top = stack[1] /\ Top.pc = "callback"
<1>1. stack[j].pc = "callback" /\ j = 1 /\ Len(stack) \in Nat /\ 1 <= Len(stack)
  BY DEF Tells, StackInv, CallOK, TypeInv
<1>2. ~(1 < Len(stack))
  <2>1. SUFFICES ASSUME 1 < Len(stack) PROVE FALSE
    OBVIOUS
  <2>2. 2 \in 1..Len(stack) /\ CallOK(stack, 1) /\ 1 + 1 = 2
    BY <1>1, <2>1 DEF StackInv
  <2>3. stack[2].kind = "request"
    BY <1>1, <2>1, <2>2, WaitingPcs DEF CallOK
  <2>4. stack[1].kind \in {"answer", "delta"}
    BY <2>2, <2>3 DEF StackInv
  <2> QED
    BY <1>1, <2>4
<1>3. Len(stack) = 1
  BY <1>1, <1>2
<1>4. ~Idle
  BY <1>3 DEF Idle
<1> QED
  BY <1>1, <1>3, <1>4, TopKind

LEMMA WaitingTellsNoTimeout ==
  ASSUME TypeInv, StackInv, ~reentered, ~Idle => Top.pc \in Waiting
  PROVE  \A j \in 1..Len(stack) : ~(stack[j].kind = "expire" /\ Tells(stack[j]))
BY ExpireAlone, WaitingPcs

\* A step that tells nobody anything, and uses and frees no record.
Undisturbed ==
  /\ \A j \in 1..Len(stack') : stack'[j].kind \in Kin => j \in 1..Len(stack) /\ Like(stack'[j], stack[j])
  /\ \A j \in 1..Len(stack) : Tells(stack[j]) => j \in 1..Len(stack') /\ Like(stack'[j], stack[j])
  /\ InUse' = InUse /\ \A i \in InUse : ackWaitList'[i].req = ackWaitList[i].req
  /\ cloud' \subseteq cloud /\ UNCHANGED requests

LEMMA TellersAreKin == \A c : (Tells(c) => c.kind \in Kin) /\ (Asks(c) => c.kind \in Kin)
BY DEF Tells, Asks, Kin

LEMMA UndisturbedOnce ==
  ASSUME Once, Undisturbed
  PROVE  Once'
<1>1. AtMostOnce'
  BY DEF Once, AtMostOnce, Undisturbed
<1>2. AskersHaveRoom'
  BY TellersAreKin DEF Once, AskersHaveRoom, Undisturbed, Like, Asks
<1>3. TellersHaveRecords'
  <2>1. ASSUME NEW j \in 1..Len(stack'), Tells(stack'[j])
        PROVE  /\ stack'[j].slot \in InUse' /\ requests'[ackWaitList'[stack'[j].slot].req].answers # <<>>
               /\ \A k \in 1..Len(stack') : Tells(stack'[k]) /\ stack'[k].slot = stack'[j].slot => k = j
    <3>1. \A k \in 1..Len(stack') : Tells(stack'[k]) => k \in 1..Len(stack) /\ Tells(stack[k]) /\ stack'[k].slot = stack[k].slot
      BY TellersAreKin DEF Undisturbed, Like
    <3> QED
      BY <2>1, <3>1 DEF Once, TellersHaveRecords, Answered, Undisturbed
  <2> QED
    BY <2>1 DEF TellersHaveRecords, Answered
<1>4. AnsweredHaveTellers'
  BY DEF Once, AnsweredHaveTellers, Undisturbed, Like, Answered
<1>5. LateOnlyInCallback'
  BY DEF Once, LateOnlyInCallback, Undisturbed, Like, Answered
<1> QED
  BY <1>1, <1>2, <1>3, <1>4, <1>5 DEF Once

LEMMA RequestOnce ==
  ASSUME TypeInv, StackInv, TimeoutInv, AskInv, Once, Request
  PROVE  Once'
<1> DEFINE n == Len(stack)
<1>1. /\ \A j \in 1..Len(stack') :
           \/ j \in 1..n /\ stack'[j] = stack[j]
           \/ Asks(stack'[j]) /\ stack'[j].slot \in Slots \ InUse
      /\ \A j \in 1..n : j \in 1..Len(stack') /\ stack'[j] = stack[j]
  BY RequestAsks
<1>2. UNCHANGED <<ackWaitList, cloud>> /\ InUse' = InUse
  BY RequestAppends DEF InUse
<1>3. \A r \in DOMAIN requests : r \in DOMAIN requests' /\ requests'[r] = requests[r]
  BY RequestAppends
<1>4. \A j \in 1..Len(stack') : Tells(stack'[j]) => j \in 1..n /\ stack'[j] = stack[j]
  BY <1>1 DEF Tells, Asks
<1>5. (\A m \in cloud : m.req \in DOMAIN requests) /\ \A i \in InUse : ackWaitList[i].req \in DOMAIN requests
  BY DEF AskInv
<1> HIDE DEF n
<1>6. AtMostOnce'
  <2>1. ASSUME NEW r \in DOMAIN requests' PROVE Len(requests'[r].answers) <= 1
    <3>1. CASE r \in DOMAIN requests
      BY <1>3, <3>1 DEF Once, AtMostOnce
    <3>2. CASE r \notin DOMAIN requests
      <4>1. requests'[r].answers = <<>>
        BY <3>2, RequestAppends
      <4> QED
        BY <4>1
    <3> QED
      BY <3>1, <3>2
  <2> QED
    BY <2>1 DEF AtMostOnce
<1>7. AskersHaveRoom'
  BY <1>1, <1>2 DEF Once, AskersHaveRoom, n
<1>8. TellersHaveRecords'
  <2>1. ASSUME NEW j \in 1..Len(stack'), Tells(stack'[j])
        PROVE  /\ stack'[j].slot \in InUse' /\ requests'[ackWaitList'[stack'[j].slot].req].answers # <<>>
               /\ \A k \in 1..Len(stack') : Tells(stack'[k]) /\ stack'[k].slot = stack'[j].slot => k = j
    BY <1>2, <1>3, <1>4, <1>5, <2>1 DEF Once, TellersHaveRecords, Answered, n
  <2> QED
    BY <2>1 DEF TellersHaveRecords, Answered
<1>9. AnsweredHaveTellers'
  BY <1>1, <1>2, <1>3, <1>5 DEF Once, AnsweredHaveTellers, Answered, n
<1>10. LateOnlyInCallback'
  BY <1>1, <1>2, <1>3, <1>5 DEF Once, LateOnlyInCallback, Answered, n
<1> QED
  BY <1>6, <1>7, <1>8, <1>9, <1>10 DEF Once

LEMMA PublishOnce ==
  ASSUME TypeInv, StackInv, TimeoutInv, AskInv, Once, ~reentered, Publish
  PROVE  Once'
<1> DEFINE n == Len(stack)
<1>0. n \in 1..n /\ Asks(stack[n]) /\ Top = stack[n] /\ ~Tells(stack[n])
  BY PublishIs DEF Asks, Tells
<1>1. /\ \A j \in 1..Len(stack') : j \in 1..n /\ j # n /\ stack'[j] = stack[j]
      /\ \A j \in 1..n : j # n => j \in 1..Len(stack')
  BY PublishIs
<1>2. Untold(Top.req) /\ Top.slot \in Slots \ InUse
  BY <1>0 DEF AskInv, Once, AskersHaveRoom
<1>3. \A j \in 1..Len(stack') : ~Asks(stack'[j])
  BY <1>0, <1>1, OneAsker
<1> HIDE DEF n
<1>4. AskersHaveRoom'
  BY <1>3 DEF AskersHaveRoom
<1>5. CASE UNCHANGED <<ackWaitList, cloud, requests>>
  <2>1. InUse' = InUse
    BY <1>5 DEF InUse
  <2>2. \A j \in 1..Len(stack') : stack'[j].kind \in Kin => j \in 1..Len(stack) /\ Like(stack'[j], stack[j])
    BY <1>1 DEF Like, n
  <2>3. \A j \in 1..Len(stack) : Tells(stack[j]) => j \in 1..Len(stack') /\ Like(stack'[j], stack[j])
    BY <1>0, <1>1 DEF Like, n
  <2> QED
    BY <1>5, <2>1, <2>2, <2>3, UndisturbedOnce DEF Undisturbed
<1>6. ASSUME NEW verdict \in Verdicts, Sends(verdict) PROVE Once'
  <2>1. \A i \in InUse' : \/ i \in InUse /\ i # Top.slot /\ ackWaitList'[i] = ackWaitList[i] /\ ackWaitList[i].req # Top.req
                          \/ i = Top.slot /\ ackWaitList'[i].req = Top.req
    BY <1>2, <1>6, SendsIs DEF Untold
  <2>2. \A i \in InUse : i \in InUse' /\ i # Top.slot
    BY <1>2, <1>6, SendsIs
  <2>3. \A m \in cloud' : (m \in cloud /\ m.req # Top.req) \/ m.req = Top.req
    BY <1>6, SendsIs
  <2>4. requests[Top.req].answers = <<>> /\ requests'[Top.req].answers = <<>> /\ Top.req \in DOMAIN requests
    BY <1>2, <1>6, SendsIs DEF Untold
  <2>5. DOMAIN requests' = DOMAIN requests /\ \A r \in DOMAIN requests : requests'[r].answers = requests[r].answers
    BY <1>6, <2>4, SendsIs
  <2>6. (\A m \in cloud : m.req \in DOMAIN requests) /\ \A i \in InUse : ackWaitList[i].req \in DOMAIN requests
    BY DEF AskInv
  <2>7. AtMostOnce'
    BY <2>5 DEF Once, AtMostOnce
  <2>8. TellersHaveRecords'
    <3>1. ASSUME NEW j \in 1..Len(stack'), Tells(stack'[j])
          PROVE  /\ stack'[j].slot \in InUse' /\ requests'[ackWaitList'[stack'[j].slot].req].answers # <<>>
                 /\ \A k \in 1..Len(stack') : Tells(stack'[k]) /\ stack'[k].slot = stack'[j].slot => k = j
      <4> DEFINE i == stack'[j].slot
      <4>1. i \in InUse /\ Answered(ackWaitList[i].req)
        BY <1>1, <3>1 DEF Once, TellersHaveRecords, n
      <4> HIDE DEF i
      <4>2. i \in InUse' /\ ackWaitList'[i] = ackWaitList[i] /\ ackWaitList[i].req \in DOMAIN requests
        BY <2>1, <2>2, <2>6, <4>1
      <4>3. requests'[ackWaitList'[i].req].answers # <<>>
        BY <2>5, <4>1, <4>2 DEF Answered
      <4>4. \A k \in 1..Len(stack') : Tells(stack'[k]) /\ stack'[k].slot = i => k = j
        BY <1>1, <3>1 DEF Once, TellersHaveRecords, n, i
      <4> QED
        BY <4>2, <4>3, <4>4 DEF i
    <3> QED
      BY <3>1 DEF TellersHaveRecords, Answered
  <2>9. AnsweredHaveTellers'
    <3>1. ASSUME NEW i \in InUse', requests'[ackWaitList'[i].req].answers # <<>>
          PROVE  \E j \in 1..Len(stack') : Tells(stack'[j]) /\ stack'[j].slot = i
      <4>1. i \in InUse /\ ackWaitList'[i] = ackWaitList[i]
        BY <2>1, <2>4, <3>1
      <4>2. Answered(ackWaitList[i].req)
        BY <2>5, <2>6, <3>1, <4>1 DEF Answered
      <4>3. PICK j \in 1..Len(stack) : Tells(stack[j]) /\ stack[j].slot = i
        BY <4>1, <4>2 DEF Once, AnsweredHaveTellers
      <4>4. j # n
        BY <1>0, <4>3
      <4> QED
        BY <1>1, <4>3, <4>4 DEF n
    <3> QED
      BY <3>1 DEF AnsweredHaveTellers, Answered
  <2>10. LateOnlyInCallback'
    <3>1. ASSUME NEW m \in cloud', requests'[m.req].answers # <<>>, NEW i \in InUse', ackWaitList'[i].req = m.req
          PROVE  \E j \in 1..Len(stack') : stack'[j].kind = "expire" /\ Tells(stack'[j]) /\ stack'[j].slot = i
      <4>1. m \in cloud /\ m.req # Top.req
        BY <2>3, <2>4, <3>1
      <4>2. i \in InUse /\ ackWaitList'[i] = ackWaitList[i]
        BY <2>1, <3>1, <4>1
      <4>3. Answered(m.req)
        BY <2>5, <2>6, <3>1, <4>1 DEF Answered
      <4>4. PICK j \in 1..Len(stack) : stack[j].kind = "expire" /\ Tells(stack[j]) /\ stack[j].slot = i
        BY <3>1, <4>1, <4>2, <4>3 DEF Once, LateOnlyInCallback
      <4>5. j # n
        BY <1>0, <4>4
      <4> QED
        BY <1>1, <4>4, <4>5 DEF n
    <3> QED
      BY <3>1 DEF LateOnlyInCallback, Answered
  <2> QED
    BY <1>4, <2>7, <2>8, <2>9, <2>10 DEF Once
<1> QED
  BY <1>5, <1>6, PublishIs

\* The next timeout is told when nobody is being told anything.
LEMMA ExpireOnce ==
  ASSUME TimeoutInv, AskInv, Once, NEW i \in InUse, requests' = Answer(ackWaitList[i].req, "timeout"),
         \A j \in 1..Len(stack) : ~Tells(stack[j]), Len(stack') = 1, stack'[1] = ExpireCall(i),
         UNCHANGED <<ackWaitList, cloud>>
  PROVE  Once'
<1> DEFINE r == ackWaitList[i].req
<1>1. InUse' = InUse /\ "timeout" \in Told
  BY DEF InUse, Told
<1>2. \A k \in InUse : ~Answered(ackWaitList[k].req)
  BY DEF Once, AnsweredHaveTellers
<1>3. r \in DOMAIN requests /\ (\A m \in cloud : m.req \in DOMAIN requests)
      /\ \A k \in InUse : ackWaitList[k].req \in DOMAIN requests /\ (ackWaitList[k].req = r => k = i)
  BY DEF AskInv
<1>4. /\ stack'[1].kind = "expire" /\ stack'[1].slot = i /\ Tells(stack'[1]) /\ ~Asks(stack'[1])
  BY TellingCalls, SlotsAndEntries DEF InUse, Tells, Asks
<1>5. (\A j \in 1..Len(stack') : j = 1) /\ 1 \in 1..Len(stack')
  OBVIOUS
<1>6. requests[r].answers = <<>>
  BY <1>2 DEF Answered
<1> HIDE DEF r
<1>7. /\ DOMAIN requests' = DOMAIN requests
      /\ \A q \in DOMAIN requests : q # r => requests'[q] = requests[q]
      /\ Len(requests'[r].answers) = Len(requests[r].answers) + 1 /\ requests'[r].answers # <<>>
  BY <1>1, <1>3, AnswerIs DEF r
<1>8. AtMostOnce'
  <2>1. Len(requests[r].answers) = 0
    BY <1>6
  <2>2. Len(requests'[r].answers) <= 1
    <3>1. Len(requests'[r].answers) = 0 + 1
      BY <1>7, <2>1, Zenon
    <3>2. 0 + 1 <= 1
      OBVIOUS
    <3> QED
      BY <3>1, <3>2, Zenon
  <2> QED
    BY <1>7, <2>2 DEF Once, AtMostOnce
<1>9. AskersHaveRoom'
  BY <1>4, <1>5 DEF AskersHaveRoom
<1>10. TellersHaveRecords'
  <2>1. ASSUME NEW j \in 1..Len(stack'), Tells(stack'[j])
        PROVE  /\ stack'[j].slot \in InUse' /\ requests'[ackWaitList'[stack'[j].slot].req].answers # <<>>
               /\ \A k \in 1..Len(stack') : Tells(stack'[k]) /\ stack'[k].slot = stack'[j].slot => k = j
    BY <1>1, <1>4, <1>5, <1>7 DEF r
  <2> QED
    BY <2>1 DEF TellersHaveRecords, Answered
<1>11. \A k \in InUse : requests'[ackWaitList[k].req].answers # <<>> => k = i
  BY <1>2, <1>3, <1>7 DEF Answered
<1>12. AnsweredHaveTellers'
  BY <1>1, <1>4, <1>5, <1>11 DEF AnsweredHaveTellers, Answered
<1>13. LateOnlyInCallback'
  BY <1>1, <1>4, <1>5, <1>11 DEF LateOnlyInCallback, Answered
<1> QED
  BY <1>8, <1>9, <1>10, <1>12, <1>13 DEF Once

\* An answer is read: its request has not been told anything.
LEMMA AnswerOnce ==
  ASSUME TypeInv, StackInv, TimeoutInv, AskInv, Once, ~reentered, ~Idle => Top.pc \in Waiting,
         NEW m \in cloud, NEW i \in InUse, ackWaitList[i].req = m.req, Entered(AnswerCall(i)),
         requests' = Answer(ackWaitList[i].req, m.topic.verdict), cloud' = cloud \ {m}, UNCHANGED ackWaitList
  PROVE  Once'
<1> DEFINE n == Len(stack)
<1>1. InUse' = InUse /\ m.topic.verdict \in Told
  BY DEF InUse, Told, TimeoutInv, AnswersInv
<1>2. ~Answered(m.req)
  BY WaitingTellsNoTimeout DEF Once, LateOnlyInCallback
<1>3. m.req \in DOMAIN requests /\ (\A k \in cloud : k.req \in DOMAIN requests /\ (k.req = m.req => k = m))
      /\ \A k \in InUse : ackWaitList[k].req \in DOMAIN requests /\ (ackWaitList[k].req = m.req => k = i)
  BY DEF AskInv
<1>4. AnswerCall(i).slot = i /\ Tells(AnswerCall(i)) /\ ~Asks(AnswerCall(i))
  BY TellingCalls, SlotsAndEntries DEF InUse, Tells, Asks
<1>5. /\ n \in Nat /\ Len(stack') = n + 1 /\ stack'[n + 1] = AnswerCall(i)
      /\ \A j \in 1..n : stack'[j] = stack[j]
  BY DEF Entered
<1>6. (\A j \in 1..n + 1 : j \in 1..n \/ j = n + 1) /\ n + 1 \in 1..n + 1 /\ \A j \in 1..n : j \in 1..n + 1
  BY <1>5
<1>7. /\ DOMAIN requests' = DOMAIN requests
      /\ \A q \in DOMAIN requests : q # m.req => requests'[q] = requests[q]
      /\ Len(requests'[m.req].answers) = Len(requests[m.req].answers) + 1 /\ requests'[m.req].answers # <<>>
  BY <1>1, <1>3, AnswerIs
<1> HIDE DEF n
<1>8. AtMostOnce'
  <2>1. Len(requests'[m.req].answers) <= 1
    BY <1>2, <1>7 DEF Answered
  <2> QED
    BY <1>7, <2>1 DEF Once, AtMostOnce
<1>9. AskersHaveRoom'
  BY <1>1, <1>4, <1>5, <1>6 DEF Once, AskersHaveRoom, n
<1>10. \A j \in 1..n : Tells(stack[j]) => stack[j].slot \in InUse /\ stack[j].slot # i
  BY <1>2 DEF Once, TellersHaveRecords, n
<1>11. TellersHaveRecords'
  <2>1. ASSUME NEW j \in 1..n + 1, Tells(stack'[j])
        PROVE  /\ stack'[j].slot \in InUse /\ requests'[ackWaitList[stack'[j].slot].req].answers # <<>>
               /\ \A k \in 1..n + 1 : Tells(stack'[k]) /\ stack'[k].slot = stack'[j].slot => k = j
    <3>1. CASE j = n + 1
      BY <1>4, <1>5, <1>6, <1>7, <1>10, <3>1
    <3>2. CASE j \in 1..n
      <4> DEFINE k == stack[j].slot
      <4>1. k \in InUse /\ k # i /\ Answered(ackWaitList[k].req) /\ stack'[j] = stack[j]
        BY <1>5, <1>10, <2>1, <3>2 DEF Once, TellersHaveRecords, n
      <4>2. requests'[ackWaitList[k].req].answers # <<>>
        <5> HIDE DEF k
        <5> QED
          BY <1>3, <1>7, <4>1 DEF Answered
      <4>3. \A l \in 1..n + 1 : Tells(stack'[l]) /\ stack'[l].slot = stack'[j].slot => l = j
        BY <1>4, <1>5, <1>6, <2>1, <3>2, <4>1 DEF Once, TellersHaveRecords, n
      <4> QED
        BY <4>1, <4>2, <4>3
    <3> QED
      BY <1>6, <3>1, <3>2
  <2> QED
    BY <1>1, <1>5, <2>1 DEF TellersHaveRecords, Answered
<1>12. AnsweredHaveTellers'
  <2>1. ASSUME NEW k \in InUse, requests'[ackWaitList[k].req].answers # <<>>
        PROVE  \E j \in 1..n + 1 : Tells(stack'[j]) /\ stack'[j].slot = k
    <3>1. CASE k = i
      BY <1>4, <1>5, <1>6, <3>1
    <3>2. CASE k # i
      <4>1. Answered(ackWaitList[k].req)
        BY <1>3, <1>7, <2>1, <3>2 DEF Answered
      <4> QED
        BY <1>5, <1>6, <4>1 DEF Once, AnsweredHaveTellers, n
    <3> QED
      BY <3>1, <3>2
  <2> QED
    BY <1>1, <1>5, <2>1 DEF AnsweredHaveTellers, Answered
<1>13. LateOnlyInCallback'
  <2>1. ASSUME NEW k \in cloud', requests'[k.req].answers # <<>>, NEW l \in InUse, ackWaitList[l].req = k.req
        PROVE  FALSE
    <3>1. k \in cloud /\ k.req # m.req
      BY <1>3
    <3>2. Answered(k.req)
      BY <1>3, <1>7, <2>1, <3>1 DEF Answered
    <3> QED
      BY <2>1, <3>1, <3>2, WaitingTellsNoTimeout DEF Once, LateOnlyInCallback
  <2> QED
    BY <1>1, <2>1 DEF LateOnlyInCallback, Answered
<1> QED
  BY <1>8, <1>9, <1>11, <1>12, <1>13 DEF Once

\* A record is freed when the last who tells of it is done.
LEMMA FreedOnce ==
  ASSUME TypeInv, Once, UNCHANGED <<requests, cloud>>,
         NEW n \in 1..Len(stack), Tells(stack[n]), ackWaitList' = Freed(stack[n].slot),
         \A j \in 1..Len(stack') : stack'[j].kind \in Kin => \/ j \in 1..Len(stack) /\ j # n /\ stack'[j] = stack[j]
                                                             \/ ~Asks(stack'[j]) /\ ~Tells(stack'[j]),
         \A j \in 1..Len(stack) : j # n => j \in 1..Len(stack') /\ stack'[j] = stack[j]
  PROVE  Once'
<1> DEFINE s == stack[n].slot
<1>1. InUse' = InUse \ {s} /\ \A i \in InUse' : ackWaitList'[i] = ackWaitList[i]
  BY FreedIs
<1>2. \A j \in 1..Len(stack) : Tells(stack[j]) /\ j # n => stack[j].slot # s
  BY DEF Once, TellersHaveRecords
<1>3. \A j \in 1..Len(stack') : Asks(stack'[j]) \/ Tells(stack'[j]) => j \in 1..Len(stack) /\ j # n /\ stack'[j] = stack[j]
  BY TellersAreKin
<1> HIDE DEF s
<1>4. AtMostOnce'
  BY DEF Once, AtMostOnce
<1>5. AskersHaveRoom'
  BY <1>1, <1>3 DEF Once, AskersHaveRoom
<1>6. TellersHaveRecords'
  <2>1. ASSUME NEW j \in 1..Len(stack'), Tells(stack'[j])
        PROVE  /\ stack'[j].slot \in InUse' /\ requests'[ackWaitList'[stack'[j].slot].req].answers # <<>>
               /\ \A k \in 1..Len(stack') : Tells(stack'[k]) /\ stack'[k].slot = stack'[j].slot => k = j
    BY <1>1, <1>2, <1>3, <2>1 DEF Once, TellersHaveRecords, Answered
  <2> QED
    BY <2>1 DEF TellersHaveRecords, Answered
<1>7. AnsweredHaveTellers'
  BY <1>1 DEF Once, AnsweredHaveTellers, Answered, s
<1>8. LateOnlyInCallback'
  BY <1>1 DEF Once, LateOnlyInCallback, Answered, s
<1> QED
  BY <1>4, <1>5, <1>6, <1>7, <1>8 DEF Once

LEMMA NobodyTells ==
  ASSUME Len(stack) = 0 \/ (Len(stack) = 1 /\ ~Tells(stack[1]))
  PROVE  \A j \in 1..Len(stack) : ~Tells(stack[j])
<1>1. CASE Len(stack) = 0
  BY <1>1
<1>2. CASE Len(stack) = 1 /\ ~Tells(stack[1])
  BY <1>2
<1> QED
  BY <1>1, <1>2

LEMMA OnceInvStep ==
  ASSUME TypeInv, StackInv, TimeoutInv, AskInv, TokenInv, OnceInv, [Next]_vars
  PROVE  OnceInv'
<1> SUFFICES ASSUME inits' = 0, ~reentered' PROVE Once'
  BY DEF OnceInv
<1>0. inits = 0 /\ ~ShadowInit
  BY TokensStay
<1>1. ~reentered
  <2>1. reentered => reentered'
    BY StackTyped
  <2> QED
    BY <2>1, Zenon
<1>2. Once
  BY <1>0, <1>1 DEF OnceInv
<1>3. CASE Request
  BY <1>2, <1>3, RequestOnce
<1>4. CASE Publish
  BY <1>1, <1>2, <1>4, PublishOnce
<1>5. ASSUME Quietly, UNCHANGED <<ackWaitList, cloud, requests>> PROVE Once'
  BY <1>2, <1>5, QuietStack, SameRecords, UndisturbedOnce DEF Undisturbed
<1>6. CASE QuietNext
  BY <1>5, <1>6, QuietNextMove
<1>7. CASE Tick
  <2>1. UNCHANGED <<stack, cloud, requests>>
    BY <1>7 DEF Tick, service
  <2>2. InUse' = InUse /\ \A i \in InUse : ackWaitList'[i].req = ackWaitList[i].req
    <3>1. ASSUME NEW i \in Slots
          PROVE  ackWaitList'[i] = ackWaitList[i]
                 \/ (~ackWaitList[i].free /\ ackWaitList'[i] = [ackWaitList[i] EXCEPT !.age = @ + 1])
      BY <1>7 DEF Tick
    <3>2. \A i \in Slots : ackWaitList[i] \in AckRecords
      BY DEF TypeInv
    <3> QED
      BY <3>1, <3>2 DEF InUse, AckRecords
  <2> QED
    BY <1>2, <2>1, <2>2, UndisturbedOnce DEF Undisturbed, Like
<1>8. CASE Yield
  <2>1. Idle /\ UNCHANGED <<ackWaitList, cloud>>
    BY <1>8 DEF Yield, records, service
  <2>2. CASE UNCHANGED <<stack, requests>>
    BY <1>5, <2>1, <2>2 DEF Quietly
  <2>3. ASSUME NEW i \in InUse, Entered(ExpireCall(i)), requests' = Answer(ackWaitList[i].req, "timeout") PROVE Once'
    <3>1. Len(stack) = 0 /\ Len(stack') = 1 /\ stack'[1] = ExpireCall(i)
      BY <2>1, <2>3 DEF Idle, Entered
    <3>2. \A j \in 1..Len(stack) : ~Tells(stack[j])
      BY <3>1, NobodyTells
    <3> QED
      BY <1>2, <2>1, <2>3, <3>1, <3>2, ExpireOnce
  <2> QED
    BY <1>8, <2>2, <2>3, YieldMove
<1>9. CASE AckStatusCallback
  <2>1. (~Idle => Top.pc \in Waiting) /\ UNCHANGED ackWaitList
    BY <1>9, AnswerMove
  <2>2. PICK m \in cloud :
          /\ cloud' = cloud \ {m}
          /\ \/ UNCHANGED <<stack, requests>>
             \/ \E i \in InUse : /\ ackWaitList[i].token = m.token /\ Entered(AnswerCall(i))
                                 /\ requests' = Answer(ackWaitList[i].req, m.topic.verdict)
    BY <1>9, AnswerMove
  <2>3. CASE UNCHANGED <<stack, requests>>
    BY <1>2, <2>1, <2>2, <2>3, SameRecords, UndisturbedOnce DEF Undisturbed, Like
  <2>4. ASSUME NEW i \in InUse, ackWaitList[i].token = m.token, Entered(AnswerCall(i)),
               requests' = Answer(ackWaitList[i].req, m.topic.verdict)
        PROVE  Once'
    <3>1. ackWaitList[i].req = m.req
      BY <1>0, <2>4 DEF TokenInv
    <3> QED
      BY <1>1, <1>2, <2>1, <2>2, <2>4, <3>1, AnswerOnce
  <2> QED
    BY <2>2, <2>3, <2>4
<1>10. CASE AnswerHandled
  <2>1. /\ ~Idle /\ Top.pc = "callback" /\ UNCHANGED <<cloud, requests>>
        /\ ackWaitList' = IF Top.kind = "answer" THEN ackWaitList ELSE Freed(Top.slot)
    BY <1>10 DEF AnswerHandled, At, service
  <2>2. PICK c \in Calls : Resumed(c) /\ Same(c, Top) /\ WellPlaced(c) /\ c.pc \in Handling \ {"callback"}
    BY <1>10, HandlingMove
  <2>3. CASE Top.kind = "answer"
    BY <1>5, <2>1, <2>2, <2>3 DEF Quietly
  <2>4. CASE Top.kind = "expire"
    <3>1. Len(stack) = 1 /\ Top = stack[1] /\ Tells(stack[1]) /\ 1 \in 1..Len(stack)
      BY <2>1, <2>4, TopKind DEF Tells
    <3>2. Len(stack') = 1 /\ stack'[1] = c /\ ~Asks(c) /\ ~Tells(c)
      BY <2>2, <2>4, <3>1 DEF Resumed, Same, Asks, Tells
    <3>3. \A j \in 1..Len(stack') : j = 1
      BY <3>2
    <3>4. \A j \in 1..Len(stack) : j = 1
      BY <3>1
    <3>5. ackWaitList' = Freed(stack[1].slot)
      BY <2>1, <2>4, <3>1
    <3>6. 1 \in 1..Len(stack)
      BY <3>1
    <3> QED
      BY <1>2, <2>1, <3>1, <3>2, <3>3, <3>4, <3>5, <3>6, FreedOnce
  <2> QED
    BY <1>10, <2>3, <2>4, HandlingMove
<1>11. CASE Left
  <2>1. ~Idle /\ Top.kind \in {"answer", "expire"} /\ Top.pc = "left" /\ UNCHANGED cloud
    BY <1>11, LeftMove DEF Left, service
  <2>2. Len(stack) \in Nat \ {0} /\ Top = stack[Len(stack)] /\ Len(stack) \in 1..Len(stack)
        /\ (Top.kind = "expire" => Len(stack) = 1)
    BY <2>1, TopKind
  <2>3. ASSUME Ended PROVE /\ \A j \in 1..Len(stack') : j \in 1..Len(stack) /\ j # Len(stack) /\ stack'[j] = stack[j]
                           /\ \A j \in 1..Len(stack) : j # Len(stack) => j \in 1..Len(stack') /\ stack'[j] = stack[j]
    <3>1. Len(stack') = Len(stack) - 1 /\ \A j \in 1..Len(stack) - 1 : stack'[j] = stack[j]
      BY <2>3 DEF Ended
    <3>2. /\ \A j \in 1..Len(stack) - 1 : j \in 1..Len(stack) /\ j # Len(stack)
          /\ \A j \in 1..Len(stack) : j # Len(stack) => j \in 1..Len(stack) - 1
      BY <2>2
    <3> QED
      BY <3>1, <3>2
  <2>4. CASE Top.kind = "answer" /\ Ended /\ UNCHANGED requests /\ ackWaitList' = Freed(Top.slot)
    <3>1. Tells(stack[Len(stack)]) /\ ackWaitList' = Freed(stack[Len(stack)].slot)
      BY <2>2, <2>4 DEF Tells
    <3> QED
      BY <1>2, <2>1, <2>2, <2>3, <2>4, <3>1, FreedOnce
  <2>5. ASSUME Top.kind = "expire" PROVE Len(stack) = 1 /\ \A j \in 1..Len(stack) : ~Tells(stack[j])
    <3>1. Len(stack) = 1 /\ ~Tells(stack[1])
      BY <2>1, <2>2, <2>5 DEF Tells
    <3> QED
      BY <3>1, NobodyTells
  <2>6. CASE Top.kind = "expire" /\ Ended /\ UNCHANGED <<requests, ackWaitList>>
    BY <1>2, <2>1, <2>3, <2>5, <2>6, SameRecords, UndisturbedOnce DEF Undisturbed, Like
  <2>7. ASSUME Top.kind = "expire", UNCHANGED ackWaitList, NEW i \in InUse, Resumed(ExpireCall(i)),
               requests' = Answer(ackWaitList[i].req, "timeout")
        PROVE  Once'
    <3>1. Len(stack') = 1 /\ stack'[1] = ExpireCall(i)
      BY <2>5, <2>7 DEF Resumed
    <3> QED
      BY <1>2, <2>1, <2>5, <2>7, <3>1, ExpireOnce
  <2> QED
    BY <1>11, <2>4, <2>6, <2>7, LeftMove
<1> QED
  BY <1>0, <1>3, <1>4, <1>6, <1>7, <1>8, <1>9, <1>10, <1>11 DEF Next, Proceed, QuietNext

\* The inductive invariant: the stack of calls is well formed, every record in use and every answer on
\* its way is some request's own, and who has been told anything is no longer waiting.
AnswerInv == TypeInv /\ StackInv /\ TimeoutInv /\ AskInv /\ TokenInv /\ ToldInv /\ OnceInv

LEMMA AnswerInvInit == Init => AnswerInv
<1> SUFFICES ASSUME Init PROVE AnswerInv
  OBVIOUS
<1>1. InUse = {}
  BY DEF Init, InUse, FreeAck
<1>2. stack = <<>> /\ cloud = {} /\ requests = <<>> /\ tokenNum = 0
  BY DEF Init
<1>3. Len(stack) = 0 /\ Len(requests) = 0 /\ DOMAIN requests = {}
  BY <1>2
<1>4. AskInv /\ TokenInv /\ ToldInv
  BY <1>1, <1>2, <1>3 DEF AskInv, TokenInv, ToldInv
<1>5. OnceInv
  BY <1>1, <1>2, <1>3 DEF OnceInv, Once, AtMostOnce, AskersHaveRoom, TellersHaveRecords, AnsweredHaveTellers, LateOnlyInCallback
<1> QED
  BY <1>4, <1>5, TypeInvInit, TimeoutInvInit DEF AnswerInv

\* Every record in use and every answer on its way belongs to a request of its own, however calls nest
\* and fail; as long as the client tokens do not start over, it has that request's token.
THEOREM AnswerInvAlways == Spec => []AnswerInv
<1>1. Init => AnswerInv
  BY AnswerInvInit
<1>2. AnswerInv /\ [Next]_vars => AnswerInv'
  <2> SUFFICES ASSUME AnswerInv, [Next]_vars PROVE AnswerInv'
    OBVIOUS
  <2>1. TypeInv /\ StackInv /\ TimeoutInv /\ AskInv /\ TokenInv /\ ToldInv /\ OnceInv
    BY DEF AnswerInv
  <2> QED
    BY <2>1, TypeInvStep, TimeoutInvStep, AskInvStep, TokenInvStep, ToldInvStep, OnceInvStep DEF AnswerInv
<1> QED
  BY <1>1, <1>2, PTL DEF Spec

\* What a request is told is the service's own answer to it, or a timeout when its time is over; and it
\* is told once, unless the client tokens started over or a callback made a request inside another call.
THEOREM TruthfulAlways == Spec => []TruthfulAnswers
<1>1. AnswerInv /\ NeverEarly => TruthfulAnswers
  BY DEF AnswerInv, ToldInv, OnceInv, Once, AtMostOnce, TruthfulAnswers
<1> QED
  BY <1>1, AnswerInvAlways, TimeoutsDue, PTL

-----------------------------------------------------------------------------
(* The topics that are held.  As long as every MQTT call succeeds, there   *)
(* is room, nothing is made inside another call and nobody is told twice,  *)
(* the entries of SubscriptionList count the records that need their       *)
(* topics.                                                                 *)

Calm == ~reentered /\ ~full /\ failures = 0 /\ ToldOnce
\* The calls that have a record: that make a request, or tell of its answer or of a timeout.
Busy == {f \in {stack[j] : j \in 1..Len(stack)} : f.kind \in Kin}
\* Each has a record of its own, which is in use exactly as long as the application is told of its request.
ApartInv ==
  \A j, k \in 1..Len(stack) :
    stack[j].kind \in Kin /\ stack[k].kind \in Kin /\ stack[j].slot = stack[k].slot => j = k
HasRecord(f) ==
  /\ f.slot \in Slots /\ f.pc # "withdraw"
  /\ IF Tells(f) THEN f.slot \in InUse /\ Answered(ackWaitList[f.slot].req) ELSE f.slot \notin InUse
RecordInv == \A f \in Busy : HasRecord(f)
SlotInv == ApartInv /\ RecordInv

\* The calls that tell of an answer or a timeout and give the topics up.
Handles(f) == f.kind \in {"answer", "expire"}
ActionNames == Actions \cup {"none", "update"}
TopicAt(e) == subList[e].topic
ActionOf(f) == IF Asks(f) THEN f.action ELSE ackWaitList[f.slot].action
\* A call has both topics still to subscribe to, or the second one; or holds both, or only the second.
FirstAhead(f) == f.pc = "subscribe accepted"
SecondAhead(f) == f.pc = "subscribe rejected"
HoldsBoth(f) == f.pc \in {"publish", "callback", "leave accepted"} \/ (f.pc = "unsubscribe" /\ f.topic.verdict = "accepted")
HoldsSecond(f) == f.pc = "leave rejected" \/ (f.pc = "unsubscribe" /\ f.topic.verdict # "accepted")
VerdictsOf(f) ==
  IF HoldsBoth(f) THEN Verdicts ELSE IF SecondAhead(f) THEN {"accepted"} ELSE IF HoldsSecond(f) THEN {"rejected"} ELSE {}
Holds(i, action, verdict) ==
  \/ \E f \in Busy : f.slot = i /\ ActionOf(f) = action /\ verdict \in VerdictsOf(f)
  \/ i \in InUse /\ ackWaitList[i].action = action /\ \A f \in Busy : f.slot # i
Holders(action, verdict) == {i \in Slots : Holds(i, action, verdict)}

\* The calls in the middle of subscribing, and the entries they have taken.
Subscribing == {f \in Busy : FirstAhead(f) \/ SecondAhead(f)}
ClaimedBy(f) == IF FirstAhead(f) THEN {f.entry, f.rejected} ELSE {f.rejected}
Claims(f) ==
  IF FirstAhead(f) THEN {<<f.entry, Topic(f.action, "accepted")>>, <<f.rejected, Topic(f.action, "rejected")>>}
  ELSE {<<f.rejected, Topic(f.action, "rejected")>>}
Live == {e \in Entries : ~subList[e].free /\ \A f \in Subscribing : e \notin ClaimedBy(f)}
Unsubscribing == {f \in Busy : f.pc = "unsubscribe"}
\* The actions one of whose topics has been given up, or not yet been subscribed to.
Halved == {ActionOf(f) : f \in {g \in Busy : Handles(g) /\ HoldsSecond(g)}}
Half == Halved \cup {f.action : f \in Subscribing}

\* The live entries are for different topics, those the client is subscribed to; no other entry for such
\* a topic comes before.
ListInv ==
  /\ \A e, f \in Live : TopicAt(e) = TopicAt(f) => e = f
  /\ \A f \in Live, e \in Entries \ Live : e < f => TopicAt(e) # TopicAt(f)
  /\ \A e \in Live : TopicAt(e).verdict \in Verdicts /\ TopicAt(e) \in subscribed /\ subList[e].count >= 1
  /\ \A t \in subscribed : t = DeltaTopic \/ \E e \in Live : TopicAt(e) = t
\* A subscription under way has two entries for topics nobody is subscribed to, or one when it has the other.
ClaimInv ==
  \A f \in Subscribing :
    /\ \A claim \in Claims(f) :
         /\ ~subList[claim[1]].free
         /\ \A e \in Live : TopicAt(e) # claim[2]
         /\ \A e \in Entries \ Live : e < claim[1] => TopicAt(e) # claim[2]
    /\ IF FirstAhead(f) THEN TopicAt(f.entry) = Topic(f.action, "accepted")
       ELSE /\ TopicAt(f.rejected) = Topic(f.action, "rejected")
            /\ \E e \in Live : TopicAt(e) = Topic(f.action, "accepted") /\ subList[e].count = 1 /\ subList[e].sticky = f.sticky
    /\ f.sticky \in app.sticky
\* Every topic that is held has an entry, which counts those who hold it.
HoldInv ==
  \A action \in ActionNames, verdict \in Verdicts :
    /\ Holders(action, verdict) # {} => \E e \in Live : TopicAt(e) = Topic(action, verdict)
    /\ \A e \in Live : TopicAt(e) = Topic(action, verdict) =>
         /\ Cardinality(Holders(action, verdict)) <= subList[e].count
         /\ app.sticky = {FALSE} => Cardinality(Holders(action, verdict)) = subList[e].count /\ ~subList[e].sticky
\* The two topics of an action are counted alike, except between the two steps.
Paired(e) ==
  \E r \in Live : /\ TopicAt(r).action = TopicAt(e).action /\ TopicAt(r).verdict # TopicAt(e).verdict
                  /\ subList[r].count = subList[e].count /\ subList[r].sticky = subList[e].sticky
\* The first topic has been given up: its entry has counted down, or is gone.
Parted(action) ==
  \A r \in Live : TopicAt(r) = Topic(action, "rejected") =>
    IF subList[r].count > 1 \/ subList[r].sticky
    THEN \E e \in Live : /\ TopicAt(e) = Topic(action, "accepted") /\ subList[e].sticky = subList[r].sticky
                         /\ subList[e].count = IF subList[r].count > 1 THEN subList[r].count - 1 ELSE subList[r].count
    ELSE \A e \in Live : TopicAt(e) # Topic(action, "accepted")
PairInv ==
  /\ \A e \in Live : TopicAt(e).action \notin Half => Paired(e)
  /\ \A action \in Halved : Parted(action)
\* Who unsubscribes is the last one who holds the topic.
Last1(f) ==
  /\ f.entry \in Live /\ TopicAt(f.entry) = f.topic
  /\ f.topic.verdict \in Verdicts /\ f.topic.action = ActionOf(f)
  /\ subList[f.entry].count = 1 /\ ~subList[f.entry].sticky
UnsubInv == \A f \in Unsubscribing : Last1(f)
TopicInv == ListInv /\ ClaimInv /\ HoldInv /\ PairInv /\ UnsubInv
CalmInv == Calm => SlotInv /\ TopicInv

-----------------------------------------------------------------------------
(* What was not calm stays so. *)

LEMMA FullAndFailures ==
  ASSUME TypeInv, [Next]_vars
  PROVE  /\ full => full'
         /\ failures' = failures \/ failures' = failures + 1
<1>1. CASE Request
  <2>1. full => full'
    <3>1. full' = TRUE \/ UNCHANGED full
      BY <1>1, Zenon DEF Request, Begin
    <3> QED
      BY <3>1, Zenon
  <2>2. failures' = failures
    BY <1>1 DEF Request
  <2> QED
    BY <2>1, <2>2
<1>2. CASE RegisterDelta \/ CloudDelta \/ ShadowDeltaCallback \/ AckStatusCallback \/ Yield \/ Tick \/ ShadowInit \/ UNCHANGED vars
  <2>1. UNCHANGED full /\ failures' = failures
    BY <1>2 DEF RegisterDelta, CloudDelta, ShadowDeltaCallback, AckStatusCallback, Yield, Tick, ShadowInit, vars, ghosts
  <2> QED
    BY <2>1, Zenon
<1>3. CASE SubscribeAccepted \/ SubscribeRejected \/ Withdrawn \/ Publish \/ Unsubscribe \/ SubscribeDelta
  <2>1. UNCHANGED full /\ (failures' = failures \/ failures' = failures + 1)
    BY <1>3 DEF SubscribeAccepted, SubscribeRejected, Withdrawn, Publish, Unsubscribe, SubscribeDelta, ghosts, Succeeds, Fails
  <2> QED
    BY <2>1, Zenon
<1>4. CASE AnswerHandled \/ LeaveTopic \/ Left \/ NextKey \/ KeyHandled \/ DeltaHandled
  <2>1. UNCHANGED full /\ failures' = failures
    BY <1>4 DEF AnswerHandled, LeaveTopic, Left, NextKey, KeyHandled, DeltaHandled, ghosts
  <2> QED
    BY <2>1, Zenon
<1> QED
  BY <1>1, <1>2, <1>3, <1>4 DEF Next, Proceed

\* Nobody's answers get fewer.
LEMMA AnswersStay ==
  ASSUME TypeInv, StackInv, TimeoutInv, AskInv, [Next]_vars
  PROVE  \A r \in DOMAIN requests :
           /\ r \in DOMAIN requests' /\ Len(requests[r].answers) \in Nat /\ Len(requests'[r].answers) \in Nat
           /\ \/ requests'[r].answers = requests[r].answers
              \/ Len(requests'[r].answers) = Len(requests[r].answers) + 1 /\ requests'[r].answers # <<>>
<1> SUFFICES ASSUME NEW r \in DOMAIN requests
             PROVE  /\ r \in DOMAIN requests' /\ Len(requests[r].answers) \in Nat /\ Len(requests'[r].answers) \in Nat
                    /\ \/ requests'[r].answers = requests[r].answers
                       \/ Len(requests'[r].answers) = Len(requests[r].answers) + 1 /\ requests'[r].answers # <<>>
  OBVIOUS
<1>1. requests[r] \in RequestRecords
  BY DEF TimeoutInv, AnswersInv
<1>2. requests[r].answers \in Seq(Told)
  BY <1>1 DEF RequestRecords
<1>3. Len(requests[r].answers) \in Nat
  BY <1>2
<1>4. CASE UNCHANGED requests
  BY <1>3, <1>4
<1>5. CASE Request
  BY <1>3, <1>5, RequestAppends
<1>6. CASE Publish
  <2>1. CASE UNCHANGED requests
    BY <1>3, <2>1
  <2>2. CASE \E verdict \in Verdicts : Sends(verdict)
    <3>1. DOMAIN requests' = DOMAIN requests /\ requests'[r].answers = requests[r].answers
      BY <2>2, SendsIs
    <3> QED
      BY <1>3, <3>1
  <2> QED
    BY <1>6, <2>1, <2>2, PublishIs
<1>7. ASSUME NEW i \in InUse, NEW verdict \in Told, requests' = Answer(ackWaitList[i].req, verdict)
      PROVE  /\ r \in DOMAIN requests' /\ Len(requests'[r].answers) \in Nat
             /\ \/ requests'[r].answers = requests[r].answers
                \/ Len(requests'[r].answers) = Len(requests[r].answers) + 1 /\ requests'[r].answers # <<>>
  <2> DEFINE q == ackWaitList[i].req
  <2>1. q \in DOMAIN requests
    BY DEF AskInv
  <2> HIDE DEF q
  <2>2. requests' = Answer(q, verdict)
    BY <1>7 DEF q
  <2>3. /\ DOMAIN requests' = DOMAIN requests
        /\ r # q => requests'[r] = requests[r]
        /\ r = q => Len(requests'[r].answers) = Len(requests[r].answers) + 1 /\ requests'[r].answers # <<>>
    BY <2>1, <2>2, AnswerIs
  <2> QED
    BY <1>3, <2>3
<1>8. ASSUME ~Request, ~Publish
      PROVE  UNCHANGED requests \/ \E i \in InUse, verdict \in Told : requests' = Answer(ackWaitList[i].req, verdict)
  <2>1. \/ UNCHANGED requests
        \/ \E i \in InUse : requests' = Answer(ackWaitList[i].req, "timeout")
        \/ \E i \in InUse, m \in cloud :
             m.token = ackWaitList[i].token /\ requests' = Answer(ackWaitList[i].req, m.topic.verdict)
    BY <1>8, WhatIsTold
  <2>2. \A m \in cloud : m.topic.verdict \in Told
    BY DEF TimeoutInv, AnswersInv, Told
  <2> QED
    BY <2>1, <2>2 DEF Told
<1> QED
  BY <1>3, <1>4, <1>5, <1>6, <1>7, <1>8

LEMMA CalmBefore ==
  ASSUME TypeInv, StackInv, TimeoutInv, AskInv, [Next]_vars, Calm'
  PROVE  Calm /\ UNCHANGED failures
<1>1. ~reentered
  <2>1. ~reentered' /\ (reentered => reentered')
    BY StackTyped, Zenon DEF Calm
  <2> QED
    BY <2>1, Zenon
<1>2. ~full
  <2>1. ~full' /\ (full => full')
    BY FullAndFailures, Zenon DEF Calm
  <2> QED
    BY <2>1, Zenon
<1>3. failures = 0 /\ UNCHANGED failures
  <2>1. failures' = 0 /\ failures \in Nat
    BY DEF Calm, TypeInv
  <2>2. failures' = failures \/ failures' = failures + 1
    BY FullAndFailures
  <2> QED
    BY <2>1, <2>2
<1>4. ToldOnce
  <2> SUFFICES ASSUME NEW r \in DOMAIN requests PROVE Len(requests[r].answers) <= 1
    BY DEF ToldOnce
  <2>1. /\ r \in DOMAIN requests' /\ Len(requests[r].answers) \in Nat /\ Len(requests'[r].answers) \in Nat
        /\ \/ requests'[r].answers = requests[r].answers
           \/ Len(requests'[r].answers) = Len(requests[r].answers) + 1
    BY AnswersStay
  <2>2. Len(requests'[r].answers) <= 1
    BY <2>1 DEF Calm, ToldOnce
  <2> QED
    BY <2>1, <2>2
<1> QED
  BY <1>1, <1>2, <1>3, <1>4, Zenon DEF Calm

-----------------------------------------------------------------------------
(* The calls that have a record. *)

LEMMA BusyEnters ==
  ASSUME TypeInv, NEW c, Entered(c)
  PROVE  /\ c.kind \notin Kin => Busy' = Busy
         /\ c.kind \in Kin => Busy' = Busy \cup {c}
         /\ ApartInv /\ (c.kind \in Kin => \A f \in Busy : f.slot # c.slot) => ApartInv'
<1> DEFINE n == Len(stack)
<1>1. n \in Nat /\ Len(stack') = n + 1 /\ stack'[n + 1] = c /\ \A j \in 1..n : stack'[j] = stack[j] /\ j \in 1..Len(stack')
  BY DEF Entered
<1>2. \A j \in 1..Len(stack') : j \in 1..n \/ j = n + 1
  BY <1>1
<1>3. n + 1 \in 1..Len(stack')
  BY <1>1
<1>4. \A j \in 1..n : stack[j].kind \in Kin => stack[j] \in Busy
  BY DEF Busy
<1>5. \A f : f \in Busy <=> f.kind \in Kin /\ \E j \in 1..n : stack[j] = f
  BY DEF Busy
<1>6. \A f : f \in Busy' <=> f.kind \in Kin /\ \E j \in 1..Len(stack') : stack'[j] = f
  BY DEF Busy
<1>7. \A f : f \in Busy' <=> f \in Busy \/ (f = c /\ f.kind \in Kin)
  BY <1>1, <1>2, <1>3, <1>5, <1>6
<1>8. ASSUME ApartInv, c.kind \in Kin => \A f \in Busy : f.slot # c.slot PROVE ApartInv'
  BY <1>1, <1>2, <1>4, <1>8 DEF ApartInv
<1> QED
  BY <1>7, <1>8

LEMMA TopBusy ==
  ASSUME TypeInv, StackInv, ApartInv, ~Idle
  PROVE  /\ Top.kind \in Kin => Top \in Busy
         /\ \A j \in 1..Len(stack) : stack[j].kind \in Kin /\ stack[j] = Top => j = Len(stack)
         /\ Len(stack) \in Nat \ {0} /\ Top = stack[Len(stack)] /\ Len(stack) \in 1..Len(stack)
<1>1. Len(stack) \in Nat \ {0} /\ Top = stack[Len(stack)] /\ Len(stack) \in 1..Len(stack)
  BY TopKind
<1> QED
  BY <1>1 DEF Busy, ApartInv

\* Every other busy call has another record.
LEMMA OthersApart ==
  ASSUME ApartInv
  PROVE  \A f, g \in Busy : f.slot = g.slot => f = g
BY DEF ApartInv, Busy

LEMMA BusyEnds ==
  ASSUME TypeInv, StackInv, ApartInv, ~Idle, Ended
  PROVE  Busy' = Busy \ {Top} /\ ApartInv'
<1> DEFINE n == Len(stack)
<1>1. /\ n \in Nat \ {0} /\ Len(stack') = n - 1 /\ n \in 1..n /\ Top = stack[n]
      /\ \A j \in 1..n - 1 : stack'[j] = stack[j] /\ j \in 1..n /\ j # n /\ j \in 1..Len(stack')
  BY TopBusy DEF Ended
<1>2. \A j \in 1..n : j \in 1..n - 1 \/ j = n
  BY <1>1
<1>3. \A j \in 1..Len(stack') : j \in 1..n - 1
  BY <1>1
<1>4. \A j \in 1..n : stack[j].kind \in Kin /\ stack[j] = Top => j = n
  BY TopBusy
<1>5. \A f : f \in Busy <=> f.kind \in Kin /\ \E j \in 1..n : stack[j] = f
  BY DEF Busy
<1>6. \A f : f \in Busy' <=> f.kind \in Kin /\ \E j \in 1..Len(stack') : stack'[j] = f
  BY DEF Busy
<1> HIDE DEF n
<1>7. \A f : f \in Busy' <=> f \in Busy /\ f # Top
  BY <1>1, <1>2, <1>3, <1>4, <1>5, <1>6
<1>8. ApartInv'
  BY <1>1, <1>3 DEF ApartInv, n
<1> QED
  BY <1>7, <1>8

LEMMA BusyResumes ==
  ASSUME TypeInv, StackInv, ApartInv, ~Idle, Top.kind \in Kin, NEW c, Resumed(c), c.kind = Top.kind, c.slot = Top.slot
  PROVE  Busy' = (Busy \ {Top}) \cup {c} /\ ApartInv' /\ \A f \in Busy \ {Top} : f.slot # c.slot
<1> DEFINE n == Len(stack)
<1>1. /\ n \in Nat \ {0} /\ Len(stack') = n /\ n \in 1..n /\ Top = stack[n] /\ stack'[n] = c
      /\ \A j \in 1..n - 1 : stack'[j] = stack[j] /\ j \in 1..n /\ j # n /\ j \in 1..Len(stack')
  BY TopBusy DEF Resumed
<1>2. \A j \in 1..n : j \in 1..n - 1 \/ j = n
  BY <1>1
<1>4. \A j \in 1..n : stack[j].kind \in Kin /\ stack[j] = Top => j = n
  BY TopBusy
<1>5. \A f : f \in Busy <=> f.kind \in Kin /\ \E j \in 1..n : stack[j] = f
  BY DEF Busy
<1>6. \A f : f \in Busy' <=> f.kind \in Kin /\ \E j \in 1..Len(stack') : stack'[j] = f
  BY DEF Busy
<1>7. \A j, k \in 1..n :
        stack[j].kind \in Kin /\ stack[k].kind \in Kin /\ stack[j].slot = stack[k].slot => j = k
  BY DEF ApartInv
<1> HIDE DEF n
<1>8. \A f : f \in Busy' <=> (f \in Busy /\ f # Top) \/ f = c
  BY <1>1, <1>2, <1>4, <1>5, <1>6
<1>9. ApartInv'
  <2> SUFFICES ASSUME NEW j \in 1..n, NEW k \in 1..n, stack'[j].kind \in Kin, stack'[k].kind \in Kin,
                      stack'[j].slot = stack'[k].slot
               PROVE  j = k
    BY <1>1 DEF ApartInv
  <2>1. \A i \in 1..n : stack'[i].kind = stack[i].kind /\ stack'[i].slot = stack[i].slot
    BY <1>1, <1>2
  <2> QED
    BY <1>7, <2>1
<1>10. \A f \in Busy \ {Top} : f.slot # c.slot
  BY <1>1, <1>5, <1>7
<1> QED
  BY <1>8, <1>9, <1>10

\* The calls that have a record are where they were.
KinStay ==
  /\ \A j \in 1..Len(stack') : stack'[j].kind \in Kin => j \in 1..Len(stack) /\ stack'[j] = stack[j]
  /\ \A j \in 1..Len(stack) : stack[j].kind \in Kin => j \in 1..Len(stack') /\ stack'[j] = stack[j]

LEMMA BusyStays ==
  ASSUME KinStay
  PROVE  Busy' = Busy /\ (ApartInv => ApartInv')
<1>1. \A f : f \in Busy <=> f.kind \in Kin /\ \E j \in 1..Len(stack) : stack[j] = f
  BY DEF Busy
<1>2. \A f : f \in Busy' <=> f.kind \in Kin /\ \E j \in 1..Len(stack') : stack'[j] = f
  BY DEF Busy
<1>3. \A f : f \in Busy' <=> f \in Busy
  BY <1>1, <1>2 DEF KinStay
<1> QED
  BY <1>3 DEF KinStay, ApartInv

\* What a step leaves alone of a call's record: whether it is in use, and the request it is of.
SameUse(i) == (i \in InUse' <=> i \in InUse) /\ (i \in InUse => ackWaitList'[i].req = ackWaitList[i].req)
\* The invariants the records rest on.
AskedInv == TypeInv /\ StackInv /\ TimeoutInv /\ AskInv

LEMMA AnsweredStays ==
  ASSUME AskedInv, [Next]_vars, NEW i \in InUse, Answered(ackWaitList[i].req)
  PROVE  Answered(ackWaitList[i].req)'  \/ ackWaitList'[i].req # ackWaitList[i].req
<1>1. ackWaitList[i].req \in DOMAIN requests
  BY DEF AskedInv, AskInv
<1>2. \A r \in DOMAIN requests : requests'[r].answers = requests[r].answers \/ requests'[r].answers # <<>>
  BY AnswersStay DEF AskedInv
<1> QED
  BY <1>1, <1>2 DEF Answered

LEMMA RecordStays ==
  ASSUME AskedInv, [Next]_vars, NEW f, HasRecord(f), SameUse(f.slot),
         NEW c, c.slot = f.slot, Tells(c) <=> Tells(f), c.pc # "withdraw"
  PROVE  HasRecord(c)'
<1>1. CASE Tells(f)
  <2>1. f.slot \in Slots /\ f.slot \in InUse /\ Answered(ackWaitList[f.slot].req) /\ Tells(c)
    BY <1>1 DEF HasRecord
  <2>2. ackWaitList'[f.slot].req = ackWaitList[f.slot].req /\ f.slot \in InUse'
    BY <2>1 DEF SameUse
  <2>3. Answered(ackWaitList[f.slot].req)'
    BY <2>1, <2>2, AnsweredStays
  <2> QED
    BY <2>1, <2>2, <2>3 DEF HasRecord
<1>2. CASE ~Tells(f)
  BY <1>2 DEF HasRecord, SameUse
<1> QED
  BY <1>1, <1>2

LEMMA ReleasedIs ==
  ASSUME TypeInv, NEW slot, UNCHANGED ackWaitList \/ ackWaitList' = Freed(slot)
  PROVE  \A i : i # slot => SameUse(i)
<1>1. CASE UNCHANGED ackWaitList
  BY <1>1, SameRecords DEF SameUse
<1>2. CASE ackWaitList' = Freed(slot)
  BY <1>2, FreedIs DEF SameUse
<1> QED
  BY <1>1, <1>2

LEMMA ResumedSlot ==
  ASSUME AskedInv, SlotInv, [Next]_vars, ~Idle, Top.kind \in Kin,
         NEW c, Resumed(c), c.kind = Top.kind, c.slot = Top.slot, c.pc # "withdraw",
         \/ UNCHANGED ackWaitList /\ (Tells(c) <=> Tells(Top))
         \/ ackWaitList' = Freed(Top.slot) /\ ~Tells(c)
  PROVE  SlotInv'
<1>1. /\ Busy' = (Busy \ {Top}) \cup {c} /\ ApartInv' /\ Top \in Busy
      /\ \A f \in Busy \ {Top} : f.slot # Top.slot
  BY BusyResumes, TopBusy DEF AskedInv, SlotInv
<1>2. \A f \in Busy : HasRecord(f)
  BY DEF SlotInv, RecordInv
<1>3. ASSUME NEW f \in Busy \ {Top} PROVE HasRecord(f)'
  <2>1. HasRecord(f) /\ SameUse(f.slot) /\ f.pc # "withdraw"
    BY <1>1, <1>2, ReleasedIs DEF AskedInv, HasRecord
  <2> QED
    BY <2>1, RecordStays
<1>4. HasRecord(c)'
  <2>1. CASE UNCHANGED ackWaitList /\ (Tells(c) <=> Tells(Top))
    <3>1. SameUse(Top.slot) /\ HasRecord(Top)
      BY <1>1, <1>2, <2>1, SameRecords DEF SameUse
    <3> QED
      BY <2>1, <3>1, RecordStays
  <2>2. CASE ackWaitList' = Freed(Top.slot) /\ ~Tells(c)
    <3>1. Top.slot \notin InUse' /\ Top.slot \in Slots
      BY <1>1, <1>2, <2>2, FreedIs DEF AskedInv, HasRecord
    <3> QED
      BY <2>2, <3>1 DEF HasRecord
  <2> QED
    BY <2>1, <2>2
<1>5. RecordInv'
  BY <1>1, <1>3, <1>4 DEF RecordInv
<1> QED
  BY <1>1, <1>5 DEF SlotInv

LEMMA EndedSlot ==
  ASSUME AskedInv, SlotInv, [Next]_vars, ~Idle, Top.kind \in Kin, Ended, \A i : i # Top.slot => SameUse(i)
  PROVE  SlotInv'
<1>1. Busy' = Busy \ {Top} /\ ApartInv' /\ Top \in Busy /\ \A f \in Busy \ {Top} : f.slot # Top.slot
  BY BusyEnds, TopBusy, OthersApart DEF AskedInv, SlotInv
<1>2. ASSUME NEW f \in Busy \ {Top} PROVE HasRecord(f)'
  <2>1. HasRecord(f) /\ SameUse(f.slot) /\ f.pc # "withdraw"
    BY <1>1 DEF SlotInv, RecordInv, HasRecord
  <2> QED
    BY <2>1, RecordStays
<1> QED
  BY <1>1, <1>2 DEF SlotInv, RecordInv

LEMMA EnteredSlot ==
  ASSUME AskedInv, SlotInv, [Next]_vars, UNCHANGED ackWaitList, NEW c, Entered(c), c.kind \in Kin,
         \A f \in Busy : f.slot # c.slot, HasRecord(c)'
  PROVE  SlotInv' /\ Busy' = Busy \cup {c}
<1>1. Busy' = Busy \cup {c} /\ ApartInv'
  BY BusyEnters DEF AskedInv, SlotInv
<1>2. ASSUME NEW f \in Busy PROVE HasRecord(f)'
  <2>1. HasRecord(f) /\ SameUse(f.slot) /\ f.pc # "withdraw"
    BY SameRecords DEF SlotInv, RecordInv, HasRecord, SameUse
  <2> QED
    BY <2>1, RecordStays
<1> QED
  BY <1>1, <1>2 DEF SlotInv, RecordInv

LEMMA StayedSlot ==
  ASSUME AskedInv, SlotInv, [Next]_vars, KinStay, \A i : SameUse(i)
  PROVE  SlotInv' /\ Busy' = Busy
<1>1. Busy' = Busy /\ ApartInv'
  BY BusyStays DEF SlotInv
<1>2. ASSUME NEW f \in Busy PROVE HasRecord(f)'
  <2>1. HasRecord(f) /\ SameUse(f.slot) /\ f.pc # "withdraw"
    BY DEF SlotInv, RecordInv, HasRecord
  <2> QED
    BY <2>1, RecordStays
<1> QED
  BY <1>1, <1>2 DEF SlotInv, RecordInv

-----------------------------------------------------------------------------
(* What the steps do while it is calm. *)

\* A step of the deltas, of the service, or none.
DeltaSteps ==
  \/ RegisterDelta \/ CloudDelta \/ ShadowDeltaCallback \/ SubscribeDelta \/ NextKey \/ KeyHandled \/ DeltaHandled
  \/ UNCHANGED vars

LEMMA KinStays ==
  ASSUME TypeInv, StackInv,
         \/ UNCHANGED stack
         \/ \E c : Entered(c) /\ c.kind \notin Kin
         \/ ~Idle /\ Top.kind \notin Kin /\ \E c : Resumed(c) /\ c.kind \notin Kin
         \/ ~Idle /\ Top.kind \notin Kin /\ Ended
  PROVE  KinStay
<1>1. CASE UNCHANGED stack
  BY <1>1 DEF KinStay
<1>2. ASSUME NEW c, Entered(c), c.kind \notin Kin PROVE KinStay
  <2>1. \A j \in 1..Len(stack') : j \in 1..Len(stack) \/ j = Len(stack) + 1
    BY <1>2 DEF Entered
  <2>2. \A j \in 1..Len(stack) : j \in 1..Len(stack')
    BY <1>2 DEF Entered
  <2> QED
    BY <1>2, <2>1, <2>2 DEF Entered, KinStay
<1>3. ASSUME ~Idle, Top.kind \notin Kin, NEW c, Resumed(c), c.kind \notin Kin PROVE KinStay
  <2>1. Len(stack) \in Nat \ {0} /\ Top = stack[Len(stack)]
    BY <1>3, TopKind
  <2>2. \A j \in 1..Len(stack) : j \in 1..Len(stack) - 1 \/ j = Len(stack)
    BY <2>1
  <2> QED
    BY <1>3, <2>1, <2>2 DEF Resumed, KinStay
<1>4. ASSUME ~Idle, Top.kind \notin Kin, Ended PROVE KinStay
  <2>1. Len(stack) \in Nat \ {0} /\ Top = stack[Len(stack)]
    BY <1>4, TopKind
  <2>2. \A j \in 1..Len(stack) : j \in 1..Len(stack) - 1 \/ j = Len(stack)
    BY <2>1
  <2>3. \A j \in 1..Len(stack') : j \in 1..Len(stack) /\ j \in 1..Len(stack) - 1
    BY <1>4, <2>1 DEF Ended
  <2>4. \A j \in 1..Len(stack) - 1 : j \in 1..Len(stack')
    BY <1>4, <2>1 DEF Ended
  <2> QED
    BY <1>4, <2>1, <2>2, <2>3, <2>4 DEF Ended, KinStay
<1> QED
  BY <1>1, <1>2, <1>3, <1>4

LEMMA DeltaKin ==
  ASSUME TypeInv, StackInv, DeltaSteps
  PROVE  KinStay
<1>0. Len(stack) \in Nat
  BY DEF TypeInv
<1>1. CASE CloudDelta \/ UNCHANGED vars
  BY <1>1, KinStays DEF CloudDelta, vars
<1>2. CASE RegisterDelta
  <2>1. Quietly /\ Idle
    BY <1>2, RegisterMove DEF RegisterDelta
  <2>2. UNCHANGED stack \/ \E c : Entered(c) /\ c.kind \in {"register", "delta"}
    BY <2>1 DEF Quietly, Resumed, Idle
  <2> QED
    BY <2>2, KinStays DEF Kin
<1>3. CASE ShadowDeltaCallback
  <2>1. Quietly
    BY <1>3, DeltaReadMove
  <2>2. UNCHANGED stack \/ Len(stack') = Len(stack) + 1
    <3>1. ASSUME NEW c, Push(c) PROVE Len(stack') = Len(stack) + 1
      BY <3>1 DEF Push, TypeInv
    <3> QED
      BY <1>3, <3>1 DEF ShadowDeltaCallback
  <2>3. UNCHANGED stack \/ \E c : Entered(c) /\ c.kind \in {"register", "delta"}
    BY <1>0, <2>1, <2>2 DEF Quietly, Resumed, Ended
  <2> QED
    BY <2>3, KinStays DEF Kin
<1>4. CASE SubscribeDelta \/ DeltaHandled \/ NextKey \/ KeyHandled
  <2>1. Quietly
    BY <1>4, KeyMove, DeltaDoneMove
  <2>2. ~Idle /\ Top.kind \in {"register", "delta"}
    <3>1. ~Idle /\ (Top.pc \in {"subscribe delta", "next key"} \/ Top.kind = "delta")
      BY <1>4 DEF SubscribeDelta, DeltaHandled, NextKey, KeyHandled, At
    <3> QED
      BY <3>1, TopKind, PcOfKind
  <2>3. \/ UNCHANGED stack
        \/ \E c : Entered(c) /\ c.kind \notin Kin
        \/ \E c : Resumed(c) /\ c.kind \notin Kin
        \/ Ended
    BY <2>1, <2>2 DEF Quietly, Same, Kin
  <2> QED
    BY <2>2, <2>3, KinStays DEF Kin
<1> QED
  BY <1>1, <1>2, <1>3, <1>4 DEF DeltaSteps

LEMMA DeltaLists ==
  ASSUME DeltaSteps
  PROVE  /\ UNCHANGED <<app, ackWaitList, subList, requests, full, reentered>>
         /\ UNCHANGED subscribed \/ subscribed' = subscribed \cup {DeltaTopic}
BY DEF DeltaSteps, RegisterDelta, CloudDelta, ShadowDeltaCallback, SubscribeDelta, NextKey, KeyHandled, DeltaHandled,
       vars, records, ghosts

\* A subscription that is under way: the first topic is subscribed to, or the second.
LEMMA SubscribesCalmly ==
  ASSUME TypeInv, StackInv, UNCHANGED failures, SubscribeAccepted \/ SubscribeRejected
  PROVE  /\ ~Idle /\ Top.kind = "request" /\ Top \in Calls /\ Top.entry \in Entries /\ Top.rejected \in Entries \ {Top.entry}
         /\ SubscribeAccepted => Top.pc = "subscribe accepted" /\ GoOn(NextPc("subscribe rejected"))
              /\ subscribed' = subscribed \cup {Topic(Top.action, "accepted")}
              /\ subList' = [subList EXCEPT ![Top.entry].count = 1, ![Top.entry].sticky = Top.sticky,
                                            ![Top.rejected].topic = Topic(Top.action, "rejected")]
         /\ ~SubscribeAccepted => Top.pc = "subscribe rejected" /\ GoOn(NextPc("publish"))
              /\ subscribed' = subscribed \cup {Topic(Top.action, "rejected")}
              /\ subList' = [subList EXCEPT ![Top.rejected].count = 1, ![Top.rejected].sticky = Top.sticky]
         /\ UNCHANGED <<app, ackWaitList, requests>>
<1>1. ~Idle /\ Top.pc \in {"subscribe accepted", "subscribe rejected"}
  BY DEF SubscribeAccepted, SubscribeRejected, At
<1>2. Top.kind = "request" /\ Top \in Calls
  BY <1>1, TopKind, PcOfKind
<1>3. Top.entry \in Entries /\ Top.rejected \in Entries \ {Top.entry}
  BY <1>1, TopKind DEF WellPlaced
<1>4. ~Fails
  <2>1. failures' = failures /\ failures \in Nat
    BY DEF TypeInv
  <2> QED
    BY <2>1 DEF Fails
<1> QED
  BY <1>1, <1>2, <1>3, <1>4 DEF SubscribeAccepted, SubscribeRejected, At, NextPc

\* Whoever gives up a topic: it does so, or unsubscribes first.
LEMMA UnsubscribesCalmly ==
  ASSUME TypeInv, StackInv, UNCHANGED failures, Unsubscribe
  PROVE  /\ ~Idle /\ Top.kind \in {"answer", "expire"} /\ Top.pc = "unsubscribe"
         /\ GoOn(NextPc(IF Top.topic.verdict = "accepted" THEN "leave rejected" ELSE "left"))
         /\ subscribed' = subscribed \ {Top.topic} /\ subList' = [subList EXCEPT ![Top.entry].free = TRUE]
         /\ UNCHANGED <<app, ackWaitList, requests>>
<1>1. ~Idle /\ Top.pc = "unsubscribe"
  BY DEF Unsubscribe, At
<1>2. Top.kind \in {"answer", "expire"}
  BY HandlingMove
<1>3. ~Fails
  <2>1. failures' = failures /\ failures \in Nat
    BY DEF TypeInv
  <2> QED
    BY <2>1 DEF Fails
<1> QED
  BY <1>1, <1>2, <1>3 DEF Unsubscribe, Unsubscribed, NextPc

\* Tick changes the age of the records only.
LEMMA TickIs ==
  ASSUME TypeInv, Tick
  PROVE  /\ UNCHANGED <<app, stack, subList, subscribed, requests>>
         /\ InUse' = InUse
         /\ \A i \in Slots : ackWaitList'[i].action = ackWaitList[i].action /\ ackWaitList'[i].req = ackWaitList[i].req
<1>1. UNCHANGED <<app, stack, subList, subscribed, requests>>
  BY DEF Tick
<1>2. ackWaitList' = [i \in Slots |-> IF ackWaitList[i].free THEN ackWaitList[i] ELSE [ackWaitList[i] EXCEPT !.age = @ + 1]]
  BY DEF Tick
<1>3. ASSUME NEW i \in Slots
      PROVE  /\ ackWaitList'[i].action = ackWaitList[i].action /\ ackWaitList'[i].req = ackWaitList[i].req
             /\ ackWaitList'[i].free <=> ackWaitList[i].free
  <2>1. ackWaitList[i] \in AckRecords
    BY DEF TypeInv
  <2> DEFINE n == ackWaitList[i].age + 1
  <2>2. ackWaitList'[i] = ackWaitList[i] \/ ackWaitList'[i] = [ackWaitList[i] EXCEPT !.age = n]
    BY <1>2
  <2> HIDE DEF n
  <2> QED
    BY <2>1, <2>2 DEF AckRecords
<1> QED
  BY <1>1, <1>3 DEF InUse

LEMMA SmallestIs ==
  ASSUME NEW set, set \subseteq Nat \ {0}
  PROVE  /\ Smallest(set) \in Nat
         /\ Smallest(set) # 0 => Smallest(set) \in set
         /\ \A y \in set : Smallest(set) # 0 /\ Smallest(set) <= y
<1>1. CASE set = {}
  BY <1>1 DEF Smallest
<1>2. CASE set # {}
  <2>1. PICK x \in set : \A y \in set : ~(<<y, x>> \in OpToRel(<, Nat))
    BY <1>2, NatLessThanWellFounded, WFMin
  <2>2. ASSUME NEW y \in set PROVE x <= y
    <3>1. x \in Nat /\ y \in Nat /\ <<y, x>> \in Nat \X Nat
      OBVIOUS
    <3>2. ~(y < x)
      BY <2>1, <3>1 DEF OpToRel
    <3> QED
      BY <3>1, <3>2
  <2>3. Min(set) \in set /\ \A y \in set : Min(set) <= y
    BY <2>2 DEF Min
  <2> QED
    BY <1>2, <2>3 DEF Smallest
<1> QED
  BY <1>1, <1>2

\* The call of a request that has to subscribe.
SubscribeCall(action, sticky, accepted, rejected) ==
  [AskCall(action, sticky) EXCEPT !.pc = "subscribe accepted", !.entry = accepted, !.rejected = rejected]

LEMMA SubscribeCallIs ==
  ASSUME TypeInv, TimeoutInv, NEW action \in app.actions, NEW sticky \in app.sticky,
         NEW accepted \in Entries, NEW rejected \in Entries, NEW c, c = SubscribeCall(action, sticky, accepted, rejected)
  PROVE  /\ c \in Calls /\ c.kind = "request" /\ c.pc = "subscribe accepted" /\ c.pc # "withdraw" /\ c.slot = FreeSlot
         /\ c.action = action /\ c.sticky = sticky /\ c.entry = accepted /\ c.rejected = rejected
<1>1. /\ AskCall(action, sticky) \in Calls /\ AskCall(action, sticky).kind = "request"
      /\ AskCall(action, sticky).slot = FreeSlot /\ AskCall(action, sticky).action = action
      /\ AskCall(action, sticky).sticky = sticky
  BY AskCallIs
<1>2. "subscribe accepted" \in Pcs /\ accepted \in Nat /\ rejected \in Nat
  BY PcOfKind, RequestPcs, SlotsAndEntries DEF Kinds
<1> QED
  BY <1>1, <1>2 DEF SubscribeCall, Calls

LEMMA SubscribeCallSlot ==
  ASSUME TypeInv, TimeoutInv, NEW action \in app.actions, NEW sticky \in app.sticky,
         NEW accepted \in Entries, NEW rejected \in Entries
  PROVE  /\ SubscribeCall(action, sticky, accepted, rejected).kind = "request"
         /\ SubscribeCall(action, sticky, accepted, rejected).slot = FreeSlot
         /\ SubscribeCall(action, sticky, accepted, rejected).pc # "withdraw"
<1>1. AskCall(action, sticky) \in Calls /\ AskCall(action, sticky).kind = "request" /\ AskCall(action, sticky).slot = FreeSlot
  BY AskCallIs
<1>2. "subscribe accepted" # "withdraw"
  OBVIOUS
<1> QED
  BY <1>1, <1>2, Zenon DEF SubscribeCall, Calls

\* A request while there is room: the topics have entries, which count it, or two free ones are taken.
LEMMA RequestCalmly ==
  ASSUME TypeInv, TimeoutInv, StackInv, Request, ~full'
  PROVE  /\ UNCHANGED <<app, ackWaitList, subscribed>>
         /\ \E action \in app.actions, sticky \in app.sticky :
              \/ UNCHANGED <<stack, subList>>
              \/ /\ FreeSlot # 0 /\ IsSubscriptionPresent(action) /\ Entered(AskCall(action, sticky))
                 /\ IncrementSubscriptionCnt(action, sticky)
              \/ /\ FreeSlot # 0 /\ ~IsSubscriptionPresent(action)
                 /\ \E accepted \in FreeEntries, rejected \in FreeEntries :
                      /\ accepted # rejected
                      /\ \A e \in FreeEntries : accepted <= e /\ (e # accepted => rejected <= e)
                      /\ Entered(SubscribeCall(action, sticky, accepted, rejected))
                      /\ subList' = [subList EXCEPT ![accepted].free = FALSE, ![accepted].topic = Topic(action, "accepted"),
                                                    ![rejected].free = FALSE]
<1>1. PICK action \in app.actions, sticky \in app.sticky : Begin(action, sticky)
  BY DEF Request
<1>2. full' # TRUE
  OBVIOUS
<1> DEFINE accepted == Smallest(FreeEntries)
           rejected == Smallest(FreeEntries \ {accepted})
<1>3. \/ UNCHANGED <<stack, subList>>
      \/ /\ FreeSlot # 0 /\ IsSubscriptionPresent(action) /\ Push(AskCall(action, sticky))
         /\ IncrementSubscriptionCnt(action, sticky)
      \/ /\ FreeSlot # 0 /\ ~IsSubscriptionPresent(action) /\ rejected # 0
         /\ Push(SubscribeCall(action, sticky, accepted, rejected))
         /\ subList' = [subList EXCEPT ![accepted].free = FALSE, ![accepted].topic = Topic(action, "accepted"),
                                       ![rejected].free = FALSE]
  BY <1>1, <1>2 DEF Begin, AskCall, SubscribeCall
<1>4. FreeEntries \subseteq Nat \ {0} /\ FreeEntries \subseteq Entries
  BY SlotsAndEntries DEF FreeEntries
<1>5. rejected # 0 => rejected \in FreeEntries \ {accepted}
  BY <1>4, SmallestIs
<1>6. rejected # 0 => accepted \in FreeEntries
  BY <1>4, <1>5, SmallestIs
<1>7. \A e \in FreeEntries : accepted <= e
  BY <1>4, SmallestIs
<1>8. \A e \in FreeEntries \ {accepted} : rejected <= e
  BY <1>4, SmallestIs
<1> HIDE DEF accepted, rejected
<1>9. ASSUME NEW c \in Calls, Push(c) PROVE Entered(c)
  BY <1>9, PushEnters DEF TypeInv
<1>10. AskCall(action, sticky) \in Calls
  BY AskCallIs
<1>11. rejected # 0 => SubscribeCall(action, sticky, accepted, rejected) \in Calls
  BY <1>4, <1>5, <1>6, SubscribeCallIs
<1>12. UNCHANGED <<app, ackWaitList, subscribed>>
  BY DEF Request
<1>13. CASE Push(AskCall(action, sticky)) /\ FreeSlot # 0 /\ IsSubscriptionPresent(action)
            /\ IncrementSubscriptionCnt(action, sticky)
  BY <1>9, <1>10, <1>12, <1>13
<1>14. CASE /\ FreeSlot # 0 /\ ~IsSubscriptionPresent(action) /\ rejected # 0
            /\ Push(SubscribeCall(action, sticky, accepted, rejected))
            /\ subList' = [subList EXCEPT ![accepted].free = FALSE, ![accepted].topic = Topic(action, "accepted"),
                                          ![rejected].free = FALSE]
  <2>1. accepted \in FreeEntries /\ rejected \in FreeEntries /\ accepted # rejected
    BY <1>5, <1>6, <1>14
  <2>2. Entered(SubscribeCall(action, sticky, accepted, rejected))
    BY <1>9, <1>11, <1>14
  <2>3. \A e \in FreeEntries : accepted <= e /\ (e # accepted => rejected <= e)
    BY <1>7, <1>8
  <2> QED
    BY <1>12, <1>14, <2>1, <2>2, <2>3
<1> QED
  BY <1>3, <1>12, <1>13, <1>14

\* While nothing is made inside another call, whoever is busy when a request is made is an answer's callback.
LEMMA RequestAmong ==
  ASSUME TypeInv, TimeoutInv, StackInv, Request, ~reentered'
  PROVE  \A f \in Busy : f.kind = "answer" /\ f.pc = "callback"
<1>1. Idle \/ (Len(stack) = 1 /\ Top.kind \in {"answer", "delta"} /\ Top.pc = "callback")
  BY RequestMove
<1>2. CASE Idle
  BY <1>2 DEF Busy, Idle
<1>3. CASE ~Idle /\ Len(stack) = 1 /\ Top.kind \in {"answer", "delta"} /\ Top.pc = "callback"
  <2>1. Top = stack[1]
    BY <1>3, TopKind
  <2>2. \A j \in 1..Len(stack) : stack[j] = Top
    BY <1>3, <2>1
  <2> QED
    BY <1>3, <2>2 DEF Busy, Kin
<1> QED
  BY <1>1, <1>2, <1>3

LEMMA RequestSlot ==
  ASSUME AskedInv, SlotInv, [Next]_vars, Request, Calm'
  PROVE  SlotInv'
<1>1. \A f \in Busy : f.kind = "answer" /\ f.slot \in InUse
  <2>1. \A f \in Busy : f.kind = "answer"
    BY RequestAmong DEF AskedInv, Calm
  <2> QED
    BY <2>1 DEF SlotInv, RecordInv, HasRecord, Tells
<1>2. UNCHANGED ackWaitList
  BY DEF Request
<1>3. ASSUME NEW c, Entered(c), FreeSlot # 0, c.kind = "request", c.slot = FreeSlot, c.pc # "withdraw" PROVE SlotInv'
  <2>1. FreeSlot \in Slots \ InUse
    BY <1>3, FreeSlotIs
  <2>2. FreeSlot \notin InUse'
    BY <1>2, <2>1, SameRecords
  <2>3. HasRecord(c)'
    BY <1>3, <2>1, <2>2 DEF HasRecord, Tells
  <2>4. \A f \in Busy : f.slot # c.slot
    BY <1>1, <1>3, <2>1
  <2> QED
    BY <1>2, <1>3, <2>3, <2>4, EnteredSlot DEF Kin
<1>4. CASE UNCHANGED stack
  <2>1. KinStay /\ \A i : SameUse(i)
    BY <1>2, <1>4, SameRecords DEF KinStay, SameUse
  <2> QED
    BY <2>1, StayedSlot
<1>5. \/ UNCHANGED stack
      \/ /\ FreeSlot # 0
         /\ \E action \in app.actions, sticky \in app.sticky :
              \/ Entered(AskCall(action, sticky))
              \/ \E accepted \in FreeEntries, rejected \in FreeEntries :
                   Entered(SubscribeCall(action, sticky, accepted, rejected))
  <2>1. ~full'
    BY DEF Calm
  <2> QED
    BY <2>1, RequestCalmly DEF AskedInv
<1>6. ASSUME NEW action \in app.actions, NEW sticky \in app.sticky, NEW c,
             \/ c = AskCall(action, sticky)
             \/ \E accepted \in FreeEntries, rejected \in FreeEntries : c = SubscribeCall(action, sticky, accepted, rejected)
      PROVE  c.kind = "request" /\ c.slot = FreeSlot /\ c.pc # "withdraw"
  <2>1. CASE c = AskCall(action, sticky)
    BY <2>1, AskCallIs DEF AskedInv
  <2>2. ASSUME NEW accepted \in FreeEntries, NEW rejected \in FreeEntries,
               c = SubscribeCall(action, sticky, accepted, rejected)
        PROVE  c.kind = "request" /\ c.slot = FreeSlot /\ c.pc # "withdraw"
    <3>1. accepted \in Entries /\ rejected \in Entries
      BY DEF FreeEntries
    <3>2. TypeInv /\ TimeoutInv
      BY DEF AskedInv
    <3> QED
      BY <2>2, <3>1, <3>2, SubscribeCallSlot
  <2> QED
    BY <1>6, <2>1, <2>2
<1> QED
  BY <1>3, <1>4, <1>5, <1>6

\* Somebody is told of the request of record i: nobody else is told of it already.
LEMMA TellingSlot ==
  ASSUME AskedInv, SlotInv, [Next]_vars, Calm', UNCHANGED ackWaitList,
         NEW i \in InUse, NEW verdict \in Told, requests' = Answer(ackWaitList[i].req, verdict)
  PROVE  /\ \A f \in Busy : f.slot # i
         /\ Answered(ackWaitList[i].req)' /\ i \in InUse' /\ i \in Slots
<1> DEFINE r == ackWaitList[i].req
<1>1. r \in DOMAIN requests
  BY DEF AskedInv, AskInv
<1>2. DOMAIN requests' = DOMAIN requests /\ Len(requests'[r].answers) = Len(requests[r].answers) + 1 /\ requests'[r].answers # <<>>
  BY <1>1, AnswerIs DEF AskedInv
<1>3. Len(requests'[r].answers) <= 1
  BY <1>1, <1>2 DEF Calm, ToldOnce
<1>4. requests[r].answers = <<>>
  <2>0. requests[r] \in RequestRecords
    BY <1>1 DEF AskedInv, TimeoutInv, AnswersInv
  <2>1. requests[r].answers \in Seq(Told)
    BY <2>0 DEF RequestRecords
  <2>2. Len(requests[r].answers) \in Nat
    BY <2>1
  <2>3. Len(requests[r].answers) = 0
    BY <1>2, <1>3, <2>2
  <2> QED
    BY <2>1, <2>3, EmptySeq
<1>5. \A f \in Busy : f.slot # i
  BY <1>4 DEF SlotInv, RecordInv, HasRecord, Answered
<1>6. i \in InUse' /\ i \in Slots /\ ackWaitList'[i].req = r
  BY SameRecords DEF InUse
<1> QED
  BY <1>2, <1>5, <1>6 DEF Answered

LEMMA PublishSlot ==
  ASSUME AskedInv, SlotInv, [Next]_vars, Publish
  PROVE  SlotInv'
<1>1. ~Idle /\ Top.kind = "request" /\ Ended
  BY PublishMove DEF AskedInv
<1>2. ASSUME NEW i, i # Top.slot PROVE SameUse(i)
  <2>1. CASE UNCHANGED ackWaitList
    BY <2>1, SameRecords DEF SameUse
  <2>2. ASSUME NEW verdict \in Verdicts, Sends(verdict) PROVE SameUse(i)
    BY <1>2, <2>2, SendsIs DEF SameUse, AskedInv
  <2> QED
    BY <2>1, <2>2, PublishIs DEF AskedInv
<1> QED
  BY <1>1, <1>2, EndedSlot DEF Kin

LEMMA LeftSlot ==
  ASSUME AskedInv, SlotInv, [Next]_vars, Calm', Left
  PROVE  SlotInv'
<1>1. ~Idle /\ Top.kind \in {"answer", "expire"} /\ Top.pc = "left"
  BY LeftMove DEF AskedInv
<1>2. CASE Ended /\ (ackWaitList' = Freed(Top.slot) \/ UNCHANGED ackWaitList)
  <2>1. \A i : i # Top.slot => SameUse(i)
    BY <1>2, ReleasedIs DEF AskedInv
  <2> QED
    BY <1>1, <1>2, <2>1, EndedSlot DEF Kin
<1>3. ASSUME Top.kind = "expire", UNCHANGED ackWaitList, NEW i \in InUse, Resumed(ExpireCall(i)),
             requests' = Answer(ackWaitList[i].req, "timeout")
      PROVE  SlotInv'
  <2>1. Answered(ackWaitList[i].req)' /\ i \in InUse' /\ i \in Slots
    BY <1>3, TellingSlot DEF Told
  <2>2. Len(stack) = 1
    BY <1>1, <1>3, TopKind DEF AskedInv
  <2>3. Len(stack') = 1 /\ stack'[1] = ExpireCall(i)
    BY <1>3, <2>2 DEF Resumed
  <2>4. i \in Nat
    BY <2>1, SlotsAndEntries
  <2>5. ExpireCall(i).kind = "expire" /\ ExpireCall(i).slot = i /\ ExpireCall(i).pc = "callback"
    BY <2>4, TellingCalls
  <2>6. \A j \in 1..Len(stack') : j = 1
    BY <2>3
  <2>7. ApartInv'
    BY <2>6 DEF ApartInv
  <2>8. \A f \in Busy' : f = ExpireCall(i)
    BY <2>3, <2>6 DEF Busy
  <2>9. HasRecord(ExpireCall(i))'
    BY <2>1, <2>5 DEF HasRecord, Tells
  <2> QED
    BY <2>7, <2>8, <2>9 DEF SlotInv, RecordInv
<1> QED
  BY <1>2, <1>3, LeftMove DEF AskedInv

\* A new call that tells of the request of record i.
LEMMA ToldSlot ==
  ASSUME AskedInv, SlotInv, [Next]_vars, Calm', UNCHANGED ackWaitList,
         NEW i \in InUse, NEW verdict \in Told, requests' = Answer(ackWaitList[i].req, verdict),
         NEW c, Entered(c), c.kind \in {"answer", "expire"}, c.pc = "callback", c.slot = i
  PROVE  SlotInv' /\ Busy' = Busy \cup {c}
<1>1. (\A f \in Busy : f.slot # i) /\ Answered(ackWaitList[i].req)' /\ i \in InUse' /\ i \in Slots
  BY TellingSlot
<1>2. HasRecord(c)'
  BY <1>1 DEF HasRecord, Tells
<1> QED
  BY <1>1, <1>2, EnteredSlot DEF Kin

LEMMA HandlingSlot ==
  ASSUME AskedInv, SlotInv, [Next]_vars, UNCHANGED failures, AnswerHandled \/ LeaveTopic \/ Unsubscribe
  PROVE  SlotInv'
<1>1. /\ ~Idle /\ Top.kind \in {"answer", "expire"}
      /\ \E c \in Calls : Resumed(c) /\ Same(c, Top) /\ WellPlaced(c) /\ c.pc \in Handling \ {"callback"}
      /\ LeaveTopic \/ Unsubscribe => Top.pc \in Handling \ {"callback"}
  BY HandlingMove DEF AskedInv
<1>2. PICK c \in Calls : Resumed(c) /\ Same(c, Top) /\ c.pc \in Handling \ {"callback"}
  BY <1>1
<1>3. c.kind = Top.kind /\ c.slot = Top.slot
  BY <1>2 DEF Same
<1>4. c.pc # "withdraw" /\ c.pc # "callback"
  BY <1>2 DEF Handling
<1>5. \/ UNCHANGED ackWaitList /\ (Tells(c) <=> Tells(Top))
      \/ ackWaitList' = Freed(Top.slot) /\ ~Tells(c)
  <2>1. CASE AnswerHandled
    BY <1>1, <1>3, <1>4, <2>1 DEF AnswerHandled, Tells
  <2>2. CASE LeaveTopic \/ Unsubscribe
    <3>1. UNCHANGED ackWaitList
      BY <2>2 DEF LeaveTopic, Unsubscribe
    <3>2. Top.pc # "callback"
      BY <1>1, <2>2
    <3> QED
      BY <1>3, <1>4, <3>1, <3>2 DEF Tells
  <2> QED
    BY <2>1, <2>2
<1> QED
  BY <1>1, <1>2, <1>3, <1>4, <1>5, ResumedSlot DEF Kin

LEMMA SubscribeSlot ==
  ASSUME AskedInv, SlotInv, [Next]_vars, UNCHANGED failures, SubscribeAccepted \/ SubscribeRejected
  PROVE  SlotInv'
<1>1. /\ ~Idle /\ Top.kind = "request" /\ UNCHANGED ackWaitList
      /\ GoOn(NextPc("subscribe rejected")) \/ GoOn(NextPc("publish"))
  BY SubscribesCalmly DEF AskedInv
<1>2. ASSUME NEW pc \in {"subscribe rejected", "publish"}, GoOn(NextPc(pc)) PROVE SlotInv'
  <2> DEFINE c == NextPc(pc)
  <2>1. pc \in PcsOf(Top.kind) /\ pc # "withdraw"
    BY <1>1, RequestPcs
  <2>2. c \in Calls /\ c.pc = pc /\ Same(c, Top) /\ Resumed(c)
    BY <1>1, <1>2, <2>1, GoesOn DEF AskedInv
  <2> HIDE DEF c
  <2>3. c.kind = Top.kind /\ c.slot = Top.slot /\ (Tells(c) <=> Tells(Top))
    BY <1>1, <2>2 DEF Same, Tells
  <2>4. Top.kind \in Kin /\ c.pc # "withdraw"
    BY <1>1, <2>1, <2>2 DEF Kin
  <2> QED
    BY <1>1, <2>2, <2>3, <2>4, ResumedSlot
<1> QED
  BY <1>1, <1>2

LEMMA SlotInvStep ==
  ASSUME AskedInv, SlotInv, [Next]_vars, Calm', UNCHANGED failures
  PROVE  SlotInv'
<1>1. CASE Request
  BY <1>1, RequestSlot
<1>2. CASE Publish
  BY <1>2, PublishSlot
<1>3. CASE Left
  BY <1>3, LeftSlot
<1>4. CASE AnswerHandled \/ LeaveTopic \/ Unsubscribe
  BY <1>4, HandlingSlot
<1>5. CASE SubscribeAccepted \/ SubscribeRejected
  BY <1>5, SubscribeSlot
<1>6. CASE Withdrawn
  <2>1. ~Idle /\ Top.pc = "withdraw" /\ Top.kind = "request"
    BY <1>6, WithdrawnMove DEF Withdrawn, At, AskedInv
  <2>2. Top \in Busy
    BY <2>1, TopBusy DEF AskedInv, SlotInv, Kin
  <2> QED
    BY <2>1, <2>2 DEF SlotInv, RecordInv, HasRecord
<1>7. CASE DeltaSteps
  <2>1. KinStay /\ \A i : SameUse(i)
    BY <1>7, DeltaKin, DeltaLists, SameRecords DEF AskedInv, SameUse
  <2> QED
    BY <2>1, StayedSlot
<1>8. CASE Tick
  <2>1. KinStay /\ \A i : SameUse(i)
    BY <1>8, TickIs DEF AskedInv, SameUse, KinStay, InUse
  <2> QED
    BY <2>1, StayedSlot
<1>9. CASE ShadowInit
  <2>1. stack = <<>> /\ stack' = <<>>
    BY <1>9 DEF ShadowInit, Idle
  <2> QED
    BY <2>1 DEF SlotInv, ApartInv, RecordInv, Busy
<1>10. CASE Yield
  <2>1. UNCHANGED ackWaitList
    BY <1>10 DEF Yield, records
  <2>2. CASE UNCHANGED stack
    BY <2>1, <2>2, StayedSlot, SameRecords DEF KinStay, SameUse
  <2>3. ASSUME NEW i \in InUse, Entered(ExpireCall(i)), requests' = Answer(ackWaitList[i].req, "timeout") PROVE SlotInv'
    <3>1. i \in Nat
      BY SlotsAndEntries DEF InUse
    <3>2. ExpireCall(i).kind = "expire" /\ ExpireCall(i).pc = "callback" /\ ExpireCall(i).slot = i
      BY <3>1, TellingCalls
    <3> QED
      BY <2>1, <2>3, <3>2, ToldSlot DEF Told
  <2> QED
    BY <1>10, <2>2, <2>3, YieldMove DEF AskedInv
<1>11. CASE AckStatusCallback
  <2>1. UNCHANGED ackWaitList
    BY <1>11, AnswerMove DEF AskedInv
  <2>2. CASE UNCHANGED stack
    BY <2>1, <2>2, StayedSlot, SameRecords DEF KinStay, SameUse
  <2>3. ASSUME NEW m \in cloud, NEW i \in InUse, Entered(AnswerCall(i)),
               requests' = Answer(ackWaitList[i].req, m.topic.verdict)
        PROVE  SlotInv'
    <3>1. i \in Nat
      BY SlotsAndEntries DEF InUse
    <3>2. AnswerCall(i).kind = "answer" /\ AnswerCall(i).pc = "callback" /\ AnswerCall(i).slot = i
      BY <3>1, TellingCalls
    <3>3. m.topic.verdict \in Told
      BY DEF AskedInv, TimeoutInv, AnswersInv, Told
    <3> QED
      BY <2>1, <2>3, <3>2, <3>3, ToldSlot
  <2> QED
    BY <1>11, <2>2, <2>3, AnswerMove DEF AskedInv
<1> QED
  BY <1>1, <1>2, <1>3, <1>4, <1>5, <1>6, <1>7, <1>8, <1>9, <1>10, <1>11 DEF Next, Proceed, DeltaSteps

-----------------------------------------------------------------------------
(* Who holds which topic. *)

\* A record is held for by its call, or, if it has none, by itself.
HeldInv ==
  /\ \A f \in Busy : \A action, verdict :
       Holds(f.slot, action, verdict) <=> ActionOf(f) = action /\ verdict \in VerdictsOf(f)
  /\ \A i : (\A f \in Busy : f.slot # i) => \A action, verdict :
       Holds(i, action, verdict) <=> i \in InUse /\ ackWaitList[i].action = action
  /\ \A f \in Busy : f.slot \in Slots
  /\ \A f, g \in Busy : f.slot = g.slot => f = g

LEMMA HeldIs == SlotInv => HeldInv
<1> SUFFICES ASSUME SlotInv PROVE HeldInv
  OBVIOUS
<1>1. \A f, g \in Busy : f.slot = g.slot => f = g
  BY OthersApart DEF SlotInv
<1>2. \A f \in Busy : f.slot \in Slots
  BY DEF SlotInv, RecordInv, HasRecord
<1>3. ASSUME NEW f \in Busy, NEW action, NEW verdict
      PROVE  Holds(f.slot, action, verdict) <=> ActionOf(f) = action /\ verdict \in VerdictsOf(f)
  BY <1>1, <1>3 DEF Holds
<1>4. ASSUME NEW i, \A f \in Busy : f.slot # i, NEW action, NEW verdict
      PROVE  Holds(i, action, verdict) <=> i \in InUse /\ ackWaitList[i].action = action
  BY <1>4 DEF Holds
<1> QED
  BY <1>1, <1>2, <1>3, <1>4 DEF HeldInv

\* A step changes the calls and records at the slots S only.
Elsewhere(S) ==
  /\ \A f : f.slot \notin S => (f \in Busy' <=> f \in Busy)
  /\ \A i \in Slots : i \notin S => (i \in InUse' <=> i \in InUse) /\ ackWaitList'[i].action = ackWaitList[i].action

LEMMA ActionElsewhere ==
  ASSUME SlotInv, NEW S, Elsewhere(S), NEW f \in Busy, f.slot \notin S
  PROVE  f \in Busy' /\ ActionOf(f)' = ActionOf(f)
<1>1. f.slot \in Slots
  BY HeldIs DEF HeldInv
<1> QED
  BY <1>1 DEF Elsewhere, ActionOf

LEMMA HoldsElsewhere ==
  ASSUME SlotInv, SlotInv', NEW S, Elsewhere(S)
  PROVE  \A i \in Slots : i \notin S => \A action, verdict : Holds(i, action, verdict)' <=> Holds(i, action, verdict)
<1>1. HeldInv /\ HeldInv'
  BY HeldIs, PTL
<1> SUFFICES ASSUME NEW i \in Slots, i \notin S, NEW action, NEW verdict
             PROVE  Holds(i, action, verdict)' <=> Holds(i, action, verdict)
  OBVIOUS
<1>2. CASE \E f \in Busy : f.slot = i
  <2>1. PICK f \in Busy : f.slot = i
    BY <1>2
  <2>2. f \in Busy' /\ ActionOf(f)' = ActionOf(f)
    BY <2>1, ActionElsewhere
  <2>3. Holds(i, action, verdict) <=> ActionOf(f) = action /\ verdict \in VerdictsOf(f)
    BY <1>1, <2>1 DEF HeldInv
  <2>4. Holds(i, action, verdict)' <=> ActionOf(f)' = action /\ verdict \in VerdictsOf(f)
    BY <1>1, <2>1, <2>2 DEF HeldInv
  <2> QED
    BY <2>2, <2>3, <2>4
<1>3. CASE \A f \in Busy : f.slot # i
  <2>1. \A f \in Busy' : f.slot # i
    BY <1>3 DEF Elsewhere
  <2>2. Holds(i, action, verdict) <=> i \in InUse /\ ackWaitList[i].action = action
    BY <1>1, <1>3 DEF HeldInv
  <2>3. Holds(i, action, verdict)' <=> i \in InUse' /\ ackWaitList'[i].action = action
    BY <1>1, <2>1 DEF HeldInv
  <2> QED
    BY <2>2, <2>3 DEF Elsewhere
<1> QED
  BY <1>2, <1>3

Halving(f) == Handles(f) /\ HoldsSecond(f)

LEMMA HalvedElsewhere ==
  ASSUME SlotInv, NEW S, Elsewhere(S),
         \A f \in Busy : f.slot \in S /\ Halving(f) => ActionOf(f) \in Halved',
         \A f \in Busy' : f.slot \in S /\ Halving(f) => ActionOf(f)' \in Halved
  PROVE  Halved' = Halved
<1>1. \A a : a \in Halved <=> \E f \in Busy : Halving(f) /\ ActionOf(f) = a
  BY DEF Halved, Halving
<1>2. \A a : a \in Halved' <=> \E f \in Busy' : Halving(f) /\ ActionOf(f)' = a
  BY DEF Halved, Halving
<1>3. ASSUME NEW f \in Busy, Halving(f) PROVE ActionOf(f) \in Halved'
  BY <1>2, <1>3, ActionElsewhere
<1>4. ASSUME NEW f \in Busy', Halving(f) PROVE ActionOf(f)' \in Halved
  <2>1. CASE f.slot \notin S
    <3>1. f \in Busy
      BY <2>1 DEF Elsewhere
    <3> QED
      BY <1>1, <1>4, <2>1, <3>1, ActionElsewhere
  <2> QED
    BY <1>4, <2>1
<1> QED
  BY <1>1, <1>2, <1>3, <1>4

\* A step that moves no topic and no count, and gives up nothing, keeps the invariant.
LEMMA TopicsKept ==
  ASSUME TopicInv, UNCHANGED <<app, subList>>, UNCHANGED subscribed \/ subscribed' = subscribed \cup {DeltaTopic},
         Subscribing' = Subscribing, Halved' = Halved,
         \A i \in Slots, action \in ActionNames, verdict \in Verdicts : Holds(i, action, verdict)' <=> Holds(i, action, verdict),
         \A f \in Unsubscribing' : Last1(f)'
  PROVE  TopicInv'
<1>1. Live' = Live /\ \A e : TopicAt(e)' = TopicAt(e)
  BY DEF Live, TopicAt
<1>2. ASSUME NEW action \in ActionNames, NEW verdict \in Verdicts PROVE Holders(action, verdict)' = Holders(action, verdict)
  BY DEF Holders
<1>3. Half' = Half
  BY DEF Half
<1>4. ListInv'
  BY <1>1 DEF TopicInv, ListInv
<1>5. ClaimInv'
  <2>1. ASSUME NEW f \in Subscribing
        PROVE  /\ \A claim \in Claims(f) :
                    /\ ~subList[claim[1]].free
                    /\ \A e \in Live : TopicAt(e) # claim[2]
                    /\ \A e \in Entries \ Live : e < claim[1] => TopicAt(e) # claim[2]
               /\ IF FirstAhead(f) THEN TopicAt(f.entry) = Topic(f.action, "accepted")
                  ELSE /\ TopicAt(f.rejected) = Topic(f.action, "rejected")
                       /\ \E e \in Live : TopicAt(e) = Topic(f.action, "accepted") /\ subList[e].count = 1 /\ subList[e].sticky = f.sticky
               /\ f.sticky \in app.sticky
    BY DEF TopicInv, ClaimInv
  <2> QED
    BY <1>1, <2>1 DEF ClaimInv
<1>6. HoldInv'
  <2> SUFFICES ASSUME NEW action \in ActionNames, NEW verdict \in Verdicts
               PROVE  /\ Holders(action, verdict)' # {} => \E e \in Live' : TopicAt(e)' = Topic(action, verdict)
                      /\ \A e \in Live' : TopicAt(e)' = Topic(action, verdict) =>
                           /\ Cardinality(Holders(action, verdict))' <= subList'[e].count
                           /\ app'.sticky = {FALSE} =>
                                Cardinality(Holders(action, verdict))' = subList'[e].count /\ ~subList'[e].sticky
    BY DEF HoldInv
  <2>1. /\ Holders(action, verdict) # {} => \E e \in Live : TopicAt(e) = Topic(action, verdict)
        /\ \A e \in Live : TopicAt(e) = Topic(action, verdict) =>
             /\ Cardinality(Holders(action, verdict)) <= subList[e].count
             /\ app.sticky = {FALSE} => Cardinality(Holders(action, verdict)) = subList[e].count /\ ~subList[e].sticky
    BY DEF TopicInv, HoldInv
  <2>2. Holders(action, verdict)' = Holders(action, verdict)
    BY <1>2
  <2> QED
    BY <1>1, <2>1, <2>2
<1>7. PairInv'
  <2>1. PairInv
    BY DEF TopicInv
  <2> QED
    BY <1>1, <1>3, <2>1 DEF PairInv, Paired, Parted
<1>8. UnsubInv'
  BY DEF UnsubInv
<1> QED
  BY <1>4, <1>5, <1>6, <1>7, <1>8 DEF TopicInv

LEMMA LastKept ==
  ASSUME UNCHANGED subList, Subscribing' = Subscribing, NEW f, Last1(f), ActionOf(f)' = ActionOf(f)
  PROVE  Last1(f)'
<1>1. Live' = Live /\ \A e : TopicAt(e)' = TopicAt(e)
  BY DEF Live, TopicAt
<1> QED
  BY <1>1 DEF Last1

\* What a call holds, by where it is.
LEMMA Grips ==
  ASSUME NEW f
  PROVE  /\ f.pc \in {"callback", "publish", "leave accepted"} =>
              /\ VerdictsOf(f) = Verdicts /\ HoldsBoth(f) /\ ~HoldsSecond(f) /\ ~FirstAhead(f) /\ ~SecondAhead(f)
              /\ f.pc # "unsubscribe"
         /\ f.pc = "left" => /\ VerdictsOf(f) = {} /\ ~HoldsSecond(f) /\ ~FirstAhead(f) /\ ~SecondAhead(f)
                             /\ f.pc # "unsubscribe"
         /\ f.pc = "leave rejected" => /\ VerdictsOf(f) = {"rejected"} /\ HoldsSecond(f) /\ ~FirstAhead(f) /\ ~SecondAhead(f)
                                       /\ f.pc # "unsubscribe"
         /\ f.pc = "unsubscribe" => /\ ~FirstAhead(f) /\ ~SecondAhead(f)
                                    /\ IF f.topic.verdict = "accepted" THEN VerdictsOf(f) = Verdicts /\ ~HoldsSecond(f)
                                       ELSE VerdictsOf(f) = {"rejected"} /\ HoldsSecond(f)
         /\ FirstAhead(f) => VerdictsOf(f) = {} /\ ~HoldsSecond(f) /\ ~SecondAhead(f) /\ f.pc # "unsubscribe"
         /\ SecondAhead(f) => VerdictsOf(f) = {"accepted"} /\ ~HoldsSecond(f) /\ ~FirstAhead(f) /\ f.pc # "unsubscribe"
BY DEF VerdictsOf, HoldsBoth, HoldsSecond, FirstAhead, SecondAhead

\* A step of the calls and records at the slots S, which give up nothing.
LEMMA SlotsKept ==
  ASSUME SlotInv, SlotInv', TopicInv, UNCHANGED <<app, subList>>,
         UNCHANGED subscribed \/ subscribed' = subscribed \cup {DeltaTopic},
         NEW S, Elsewhere(S),
         \A i \in S : \A action \in ActionNames, verdict \in Verdicts : Holds(i, action, verdict)' <=> Holds(i, action, verdict),
         \A f \in Busy \cup Busy' : f.slot \in S => ~FirstAhead(f) /\ ~SecondAhead(f),
         \A f \in Busy : f.slot \in S /\ Halving(f) => ActionOf(f) \in Halved',
         \A f \in Busy' : f.slot \in S /\ Halving(f) => ActionOf(f)' \in Halved,
         \A f \in Busy' : f.slot \in S /\ f.pc = "unsubscribe" => Last1(f)'
  PROVE  TopicInv'
<1>1. Subscribing' = Subscribing
  BY DEF Subscribing, Elsewhere
<1>2. Halved' = Halved
  BY HalvedElsewhere
<1>3. \A i \in Slots, action \in ActionNames, verdict \in Verdicts : Holds(i, action, verdict)' <=> Holds(i, action, verdict)
  BY HoldsElsewhere
<1>4. ASSUME NEW f \in Unsubscribing' PROVE Last1(f)'
  <2>1. f \in Busy' /\ f.pc = "unsubscribe"
    BY DEF Unsubscribing
  <2>2. CASE f.slot \notin S
    <3>1. f \in Busy
      BY <2>1, <2>2 DEF Elsewhere
    <3>2. Last1(f)
      BY <2>1, <3>1 DEF TopicInv, UnsubInv, Unsubscribing
    <3>3. ActionOf(f)' = ActionOf(f)
      BY <2>2, <3>1, ActionElsewhere
    <3> QED
      BY <1>1, <3>2, <3>3, LastKept
  <2> QED
    BY <2>1, <2>2
<1> QED
  BY <1>1, <1>2, <1>3, <1>4, TopicsKept

LEMMA NothingKept ==
  ASSUME SlotInv, SlotInv', TopicInv, UNCHANGED <<app, subList>>,
         UNCHANGED subscribed \/ subscribed' = subscribed \cup {DeltaTopic},
         Busy' = Busy, InUse' = InUse, \A i \in Slots : ackWaitList'[i].action = ackWaitList[i].action
  PROVE  TopicInv'
<1>1. Elsewhere({})
  BY DEF Elsewhere
<1> QED
  BY <1>1, SlotsKept

\* A new call takes over what its record holds.
LEMMA ToldKept ==
  ASSUME SlotInv, SlotInv', TopicInv, UNCHANGED <<app, subList, subscribed, ackWaitList>>,
         NEW c, Busy' = Busy \cup {c}, \A f \in Busy : f.slot # c.slot, c.slot \in InUse, c.kind \in {"answer", "expire"}, c.pc = "callback"
  PROVE  TopicInv'
<1>1. HeldInv /\ HeldInv'
  BY HeldIs, PTL
<1>2. InUse' = InUse
  BY SameRecords
<1>3. Elsewhere({c.slot})
  BY <1>2 DEF Elsewhere
<1>4. VerdictsOf(c) = Verdicts /\ ~HoldsSecond(c) /\ ~FirstAhead(c) /\ ~SecondAhead(c) /\ c.pc # "unsubscribe"
  BY Grips
<1>5. ActionOf(c)' = ackWaitList[c.slot].action
  BY DEF ActionOf, Asks
<1>6. \A action \in ActionNames, verdict \in Verdicts : Holds(c.slot, action, verdict)' <=> Holds(c.slot, action, verdict)
  <2> SUFFICES ASSUME NEW action \in ActionNames, NEW verdict \in Verdicts
               PROVE  Holds(c.slot, action, verdict)' <=> Holds(c.slot, action, verdict)
    OBVIOUS
  <2>1. Holds(c.slot, action, verdict) <=> ackWaitList[c.slot].action = action
    BY <1>1 DEF HeldInv
  <2>2. Holds(c.slot, action, verdict)' <=> ActionOf(c)' = action
    BY <1>1, <1>4 DEF HeldInv
  <2> QED
    BY <1>5, <2>1, <2>2
<1>7. \A f \in Busy \cup Busy' : f.slot = c.slot => f = c
  OBVIOUS
<1>8. \A f \in Busy \cup Busy' : f.slot \in {c.slot} => ~FirstAhead(f) /\ ~SecondAhead(f) /\ ~Halving(f) /\ f.pc # "unsubscribe"
  BY <1>4, <1>7 DEF Halving
<1> QED
  BY <1>3, <1>6, <1>8, SlotsKept

LEMMA FreedAction ==
  ASSUME TypeInv, NEW slot, UNCHANGED ackWaitList \/ ackWaitList' = Freed(slot)
  PROVE  \A i \in Slots : ackWaitList'[i].action = ackWaitList[i].action
<1>1. CASE UNCHANGED ackWaitList
  BY <1>1
<1>2. CASE ackWaitList' = Freed(slot)
  <2> DEFINE a == ackWaitList[slot].action
             e == [FreeAck EXCEPT !.action = a]
  <2>1. e.action = a
    BY DEF FreeAck
  <2>2. ackWaitList' = [ackWaitList EXCEPT ![slot] = e]
    BY <1>2 DEF Freed
  <2> HIDE DEF e
  <2>3. \A i \in Slots : i # slot => ackWaitList'[i] = ackWaitList[i]
    BY <2>2 DEF TypeInv
  <2>4. slot \in Slots => ackWaitList'[slot] = e
    BY <2>2 DEF TypeInv
  <2> QED
    BY <2>1, <2>3, <2>4
<1> QED
  BY <1>1, <1>2

LEMMA ActionNamed ==
  ASSUME TypeInv, SlotInv, NEW f \in Busy
  PROVE  ActionOf(f) \in ActionNames
<1>1. f \in Calls
  BY DEF Busy, TypeInv
<1>2. f.slot \in Slots
  BY HeldIs DEF HeldInv
<1>3. ackWaitList[f.slot] \in AckRecords
  BY <1>2 DEF TypeInv
<1> QED
  BY <1>1, <1>3 DEF ActionOf, ActionNames, Calls, AckRecords

\* The innermost call goes on, and its record is kept or freed.
GoneOn(c) ==
  /\ ~Idle /\ Top.kind \in Kin /\ Resumed(c) /\ c.kind = Top.kind /\ c.slot = Top.slot
  /\ UNCHANGED ackWaitList \/ ackWaitList' = Freed(Top.slot)

LEMMA GoneOnIs ==
  ASSUME TypeInv, StackInv, SlotInv, SlotInv', NEW c, GoneOn(c)
  PROVE  /\ Busy' = (Busy \ {Top}) \cup {c} /\ Top \in Busy /\ c.slot = Top.slot /\ c.slot \in Slots /\ Elsewhere({c.slot})
         /\ \A f \in Busy : f.slot = c.slot => f = Top
         /\ \A f \in Busy' : f.slot = c.slot => f = c
         /\ \A action, verdict : Holds(c.slot, action, verdict) <=> ActionOf(Top) = action /\ verdict \in VerdictsOf(Top)
         /\ \A action, verdict : Holds(c.slot, action, verdict)' <=> ActionOf(c)' = action /\ verdict \in VerdictsOf(c)
         /\ \A i \in Slots : ackWaitList'[i].action = ackWaitList[i].action
<1>1. HeldInv /\ HeldInv'
  BY HeldIs, PTL
<1>2. Busy' = (Busy \ {Top}) \cup {c} /\ Top \in Busy /\ \A f \in Busy \ {Top} : f.slot # c.slot
  BY BusyResumes, TopBusy DEF SlotInv, GoneOn
<1>3. c.slot = Top.slot /\ Top.slot \in Slots
  BY <1>1, <1>2 DEF HeldInv, GoneOn
<1>4. \A i \in Slots : ackWaitList'[i].action = ackWaitList[i].action
  BY FreedAction DEF GoneOn
<1>5. \A i \in Slots : i # Top.slot => (i \in InUse' <=> i \in InUse)
  BY SameRecords, FreedIs DEF GoneOn
<1>6. Elsewhere({c.slot})
  BY <1>2, <1>3, <1>4, <1>5 DEF Elsewhere
<1>7. \A action, verdict : Holds(c.slot, action, verdict) <=> ActionOf(Top) = action /\ verdict \in VerdictsOf(Top)
  BY <1>1, <1>2, <1>3 DEF HeldInv
<1>8. \A action, verdict : Holds(c.slot, action, verdict)' <=> ActionOf(c)' = action /\ verdict \in VerdictsOf(c)
  BY <1>1, <1>2 DEF HeldInv
<1>9. /\ \A f \in Busy : f.slot = c.slot => f = Top
      /\ \A f \in Busy' : f.slot = c.slot => f = c
  BY <1>2
<1> QED
  BY <1>2, <1>3, <1>4, <1>6, <1>7, <1>8, <1>9

LEMMA GoneOnKept ==
  ASSUME TypeInv, StackInv, SlotInv, SlotInv', TopicInv, NEW c, GoneOn(c), Handles(Top), UNCHANGED <<app, subList, subscribed>>,
         VerdictsOf(c) = VerdictsOf(Top), HoldsSecond(c) <=> HoldsSecond(Top),
         \A f \in {c, Top} : ~FirstAhead(f) /\ ~SecondAhead(f), c.pc = "unsubscribe" => Last1(c)'
  PROVE  TopicInv'
<1>1. /\ Busy' = (Busy \ {Top}) \cup {c} /\ Top \in Busy /\ c.slot = Top.slot /\ c.slot \in Slots /\ Elsewhere({c.slot})
      /\ \A f \in Busy : f.slot = c.slot => f = Top
      /\ \A f \in Busy' : f.slot = c.slot => f = c
      /\ \A action, verdict : Holds(c.slot, action, verdict) <=> ActionOf(Top) = action /\ verdict \in VerdictsOf(Top)
      /\ \A action, verdict : Holds(c.slot, action, verdict)' <=> ActionOf(c)' = action /\ verdict \in VerdictsOf(c)
      /\ \A i \in Slots : ackWaitList'[i].action = ackWaitList[i].action
  BY GoneOnIs
<1>2. ActionOf(c)' = ActionOf(Top) /\ Handles(c)
  BY <1>1 DEF ActionOf, Asks, Handles, GoneOn
<1>3. HoldsSecond(Top) => ActionOf(Top) \in Halved'
  <2>1. c \in Busy'
    BY <1>1
  <2>2. HoldsSecond(c) => ActionOf(c)' \in Halved'
    BY <1>2, <2>1 DEF Halved
  <2> QED
    BY <1>2, <2>2
<1>4. HoldsSecond(c) => ActionOf(c)' \in Halved
  BY <1>1, <1>2 DEF Halved
<1>5. \A action \in ActionNames, verdict \in Verdicts : Holds(c.slot, action, verdict)' <=> Holds(c.slot, action, verdict)
  BY <1>1, <1>2
<1>6. \A f \in Busy \cup Busy' : f.slot = c.slot => ~FirstAhead(f) /\ ~SecondAhead(f)
  BY <1>1
<1>7. \A f \in Busy : f.slot = c.slot /\ Halving(f) => ActionOf(f) \in Halved'
  BY <1>1, <1>3 DEF Halving
<1>8. \A f \in Busy' : f.slot = c.slot /\ Halving(f) => ActionOf(f)' \in Halved
  BY <1>1, <1>4 DEF Halving
<1>9. \A f \in Busy' : f.slot = c.slot /\ f.pc = "unsubscribe" => Last1(f)'
  BY <1>1
<1> DEFINE S == {c.slot}
<1>10. \A i : i \in S <=> i = c.slot
  OBVIOUS
<1>11. Elsewhere(S)
  BY <1>1
<1> HIDE DEF S
<1> QED
  BY <1>5, <1>6, <1>7, <1>8, <1>9, <1>10, <1>11, SlotsKept

\* A live entry is the one that is found for its topic.
LEMMA EntryFound ==
  ASSUME ListInv, NEW e \in Live
  PROVE  EntryOf(TopicAt(e)) = e
<1> DEFINE set == {i \in Entries : ~subList[i].free /\ subList[i].topic = TopicAt(e)}
           i == EntryOf(TopicAt(e))
<1>1. set \subseteq Nat \ {0} /\ e \in set /\ i = Smallest(set) /\ e \in Nat
  BY SlotsAndEntries DEF EntryOf, Live, TopicAt
<1>2. i \in set /\ i <= e /\ i \in Nat
  BY <1>1, SmallestIs
<1>3. i \in Entries /\ TopicAt(i) = TopicAt(e)
  BY <1>2 DEF TopicAt
<1> HIDE DEF i
<1>4. i \in Live
  <2> SUFFICES ASSUME i \notin Live, i < e PROVE FALSE
    BY <1>1, <1>2
  <2> QED
    BY <1>3 DEF ListInv
<1>5. i = e
  BY <1>3, <1>4 DEF ListInv
<1> QED
  BY <1>5 DEF i

LEMMA HolderEntry ==
  ASSUME TypeInv, SlotInv, TopicInv, NEW f \in Busy, NEW verdict \in Verdicts, verdict \in VerdictsOf(f)
  PROVE  /\ f.slot \in Holders(ActionOf(f), verdict)
         /\ \E e \in Live : TopicAt(e) = Topic(ActionOf(f), verdict)
<1>1. HeldInv
  BY HeldIs
<1>2. f.slot \in Slots /\ Holds(f.slot, ActionOf(f), verdict)
  BY <1>1 DEF HeldInv
<1>3. f.slot \in Holders(ActionOf(f), verdict)
  BY <1>2 DEF Holders
<1>4. ActionOf(f) \in ActionNames
  BY ActionNamed
<1> QED
  BY <1>3, <1>4 DEF TopicInv, HoldInv

\* The next topic is given up: another call still holds it and it only counts down, or it is unsubscribed from.
LEMMA LeavesCalmly ==
  ASSUME TypeInv, StackInv, SlotInv, TopicInv, LeaveTopic
  PROVE  /\ ~Idle /\ Top.kind \in {"answer", "expire"} /\ Top \in Busy
         /\ UNCHANGED <<app, ackWaitList, subscribed, requests>>
         /\ \E verdict \in Verdicts, e \in Live, next \in {"leave rejected", "left"} :
              /\ IF verdict = "accepted" THEN Top.pc = "leave accepted" /\ next = "leave rejected"
                 ELSE Top.pc = "leave rejected" /\ next = "left"
              /\ verdict \in VerdictsOf(Top)
              /\ TopicAt(e) = Topic(ActionOf(Top), verdict)
              /\ \/ LastWaiter(e) /\ GoOn(Leaving("unsubscribe", e, Topic(ActionOf(Top), verdict))) /\ UNCHANGED subList
                 \/ ~LastWaiter(e) /\ GoOn(NextPc(next)) /\ subList' = [subList EXCEPT ![e].count = IF @ > 1 THEN @ - 1 ELSE @]
<1>1. ~Idle /\ Top.kind \in {"answer", "expire"}
  BY HandlingMove
<1>2. Top \in Busy
  BY <1>1, TopBusy DEF SlotInv, Kin
<1>3. ActionOf(Top) = ackWaitList[Top.slot].action
  BY <1>1 DEF ActionOf, Asks
<1>4. PICK verdict \in Verdicts, next \in {"leave rejected", "left"} :
        /\ IF verdict = "accepted" THEN Top.pc = "leave accepted" /\ next = "leave rejected"
           ELSE Top.pc = "leave rejected" /\ next = "left"
        /\ Leave(verdict, next)
  BY DEF LeaveTopic, At, Verdicts
<1>5. verdict \in VerdictsOf(Top)
  BY <1>4, Grips DEF Verdicts
<1>6. PICK e \in Live : TopicAt(e) = Topic(ActionOf(Top), verdict)
  BY <1>2, <1>5, HolderEntry
<1>7. EntryOf(Topic(ActionOf(Top), verdict)) = e
  BY <1>6, EntryFound DEF TopicInv
<1>8. e # 0
  BY SlotsAndEntries DEF Live
<1>9. \/ LastWaiter(e) /\ GoOn(Leaving("unsubscribe", e, Topic(ActionOf(Top), verdict))) /\ UNCHANGED subList
      \/ ~LastWaiter(e) /\ GoOn(NextPc(next)) /\ subList' = [subList EXCEPT ![e].count = IF @ > 1 THEN @ - 1 ELSE @]
  BY <1>3, <1>4, <1>7, <1>8 DEF Leave, Leaving, NextPc
<1>10. UNCHANGED <<app, ackWaitList, subscribed, requests>>
  BY DEF LeaveTopic
<1> QED
  BY <1>1, <1>2, <1>4, <1>5, <1>6, <1>9, <1>10

-----------------------------------------------------------------------------
(* The steps that give up nothing. *)

LEMMA AnswerHandledKept ==
  ASSUME AskedInv, SlotInv, SlotInv', TopicInv, AnswerHandled
  PROVE  TopicInv'
<1>1. /\ ~Idle /\ Top.kind \in {"answer", "expire"} /\ Top.pc = "callback" /\ GoOn(NextPc("leave accepted"))
      /\ UNCHANGED ackWaitList \/ ackWaitList' = Freed(Top.slot)
      /\ UNCHANGED <<app, subList, subscribed>>
  BY DEF AnswerHandled, At, NextPc
<1> DEFINE c == NextPc("leave accepted")
<1>2. "leave accepted" \in PcsOf(Top.kind)
  BY <1>1, RequestPcs DEF Handling
<1>3. c.pc = "leave accepted" /\ Same(c, Top) /\ Resumed(c)
  BY <1>1, <1>2, GoesOn DEF AskedInv
<1> HIDE DEF c
<1>4. GoneOn(c) /\ Handles(Top)
  BY <1>1, <1>3 DEF GoneOn, Same, Kin, Handles
<1>5. VerdictsOf(c) = Verdicts /\ ~HoldsSecond(c) /\ ~FirstAhead(c) /\ ~SecondAhead(c) /\ c.pc # "unsubscribe"
  BY <1>3, Grips
<1>6. VerdictsOf(Top) = Verdicts /\ ~HoldsSecond(Top) /\ ~FirstAhead(Top) /\ ~SecondAhead(Top)
  BY <1>1, Grips
<1> QED
  BY <1>1, <1>4, <1>5, <1>6, GoneOnKept DEF AskedInv

LEMMA LeaveWaitsKept ==
  ASSUME AskedInv, SlotInv, SlotInv', TopicInv, ~Idle, Top.kind \in {"answer", "expire"},
         UNCHANGED <<app, ackWaitList, subList, subscribed>>,
         NEW verdict \in Verdicts, NEW e \in Live,
         IF verdict = "accepted" THEN Top.pc = "leave accepted" ELSE Top.pc = "leave rejected",
         TopicAt(e) = Topic(ActionOf(Top), verdict), LastWaiter(e),
         GoOn(Leaving("unsubscribe", e, Topic(ActionOf(Top), verdict)))
  PROVE  TopicInv'
<1>1. PICK topic : topic = Topic(ActionOf(Top), verdict)
  OBVIOUS
<1>2. PICK c : c = Leaving("unsubscribe", e, topic)
  OBVIOUS
<1>3. topic \in TopicNames /\ topic.verdict = verdict /\ topic.action = ActionOf(Top) /\ e \in Entries /\ e \in Nat
  <2>1. e \in Entries /\ e \in Nat
    BY SlotsAndEntries DEF Live
  <2>2. TopicAt(e) \in TopicNames
    BY <2>1 DEF TopicAt, AskedInv, TypeInv, EntryRecords
  <2> QED
    BY <1>1, <2>1, <2>2 DEF Topic
<1>4. "unsubscribe" \in PcsOf(Top.kind)
  BY RequestPcs DEF Handling
<1>5. c.entry = e /\ c.topic = topic
  <2>1. Top \in Calls
    BY TopKind DEF AskedInv
  <2> QED
    BY <1>2, <2>1 DEF Leaving, Calls
<1>6. c.pc = "unsubscribe" /\ Same(c, Top) /\ Resumed(c)
  BY <1>1, <1>2, <1>3, <1>4, Leaves DEF AskedInv
<1>7. GoneOn(c) /\ Handles(Top) /\ c.kind = Top.kind /\ c.slot = Top.slot
  BY <1>6 DEF GoneOn, Same, Kin, Handles
<1>8. VerdictsOf(c) = VerdictsOf(Top) /\ (HoldsSecond(c) <=> HoldsSecond(Top))
      /\ \A f \in {c, Top} : ~FirstAhead(f) /\ ~SecondAhead(f)
  <2>1. CASE verdict = "accepted"
    BY <1>3, <1>5, <1>6, <2>1, Grips
  <2>2. CASE verdict # "accepted"
    BY <1>3, <1>5, <1>6, <2>2, Grips
  <2> QED
    BY <2>1, <2>2
<1>9. Last1(c)
  <2>1. ActionOf(c) = ActionOf(Top)
    BY <1>7 DEF ActionOf, Asks
  <2>2. subList[e].count = 1 /\ ~subList[e].sticky
    BY DEF LastWaiter
  <2> QED
    BY <1>1, <1>3, <1>5, <2>1, <2>2 DEF Last1
<1>10. Last1(c)'
  <2>1. Subscribing' = Subscribing
    BY <1>7, <1>8, GoneOnIs DEF Subscribing, AskedInv
  <2>2. ActionOf(c)' = ActionOf(c)
    BY DEF ActionOf
  <2> QED
    BY <1>9, <2>1, <2>2, LastKept
<1> QED
  BY <1>7, <1>8, <1>10, GoneOnKept DEF AskedInv

LEMMA LeftKept ==
  ASSUME AskedInv, SlotInv, SlotInv', TopicInv, Left
  PROVE  TopicInv'
<1>1. ~Idle /\ Top.kind \in {"answer", "expire"} /\ Top.pc = "left" /\ UNCHANGED <<app, subList, subscribed>>
  BY LeftMove DEF AskedInv, Left
<1>2. HeldInv /\ HeldInv'
  BY HeldIs, PTL
<1>3. Top \in Busy /\ HeldInv /\ HeldInv'
  BY <1>1, <1>2, TopBusy DEF AskedInv, SlotInv, Kin
<1>4. PICK s : s = Top.slot
  OBVIOUS
<1>5. s \in Slots /\ \A f \in Busy : f.slot = s => f = Top
  BY <1>4, <1>3 DEF HeldInv
<1>6. VerdictsOf(Top) = {} /\ ~HoldsSecond(Top) /\ ~FirstAhead(Top) /\ ~SecondAhead(Top) /\ Top.pc # "unsubscribe"
  BY <1>1, Grips
<1>7. ASSUME NEW action, NEW verdict PROVE ~Holds(s, action, verdict)
  BY <1>4, <1>3, <1>6 DEF HeldInv
<1>8. Top.kind = "expire" => s \notin InUse
  BY <1>4, <1>1, <1>3 DEF SlotInv, RecordInv, HasRecord, Tells
<1>9. CASE Ended /\ (UNCHANGED ackWaitList \/ ackWaitList' = Freed(s)) /\ (Top.kind = "answer" => ackWaitList' = Freed(s))
  <2>1. Busy' = Busy \ {Top}
    BY <1>1, <1>9, BusyEnds DEF AskedInv, SlotInv
  <2>2. \A f \in Busy' : f.slot # s
    BY <1>5, <2>1
  <2>3. s \notin InUse'
    BY <1>1, <1>8, <1>9, FreedIs, SameRecords DEF AskedInv
  <2>4. \A i \in Slots : ackWaitList'[i].action = ackWaitList[i].action
    BY <1>9, FreedAction DEF AskedInv
  <2>5. \A i \in Slots : i # s => (i \in InUse' <=> i \in InUse)
    BY <1>9, SameRecords, FreedIs DEF AskedInv
  <2>6. Elsewhere({s})
    BY <1>4, <2>1, <2>4, <2>5 DEF Elsewhere
  <2>7. ASSUME NEW action, NEW verdict PROVE ~Holds(s, action, verdict)'
    BY <1>3, <2>2, <2>3 DEF HeldInv
  <2>8. \A f \in Busy \cup Busy' : f.slot = s => ~FirstAhead(f) /\ ~SecondAhead(f) /\ ~Halving(f) /\ f.pc # "unsubscribe"
    BY <1>5, <1>6, <2>2 DEF Halving
  <2> DEFINE S == {s}
  <2>9. Elsewhere(S) /\ \A i : i \in S <=> i = s
    BY <2>6
  <2> HIDE DEF S
  <2> QED
    BY <1>1, <1>7, <2>7, <2>8, <2>9, SlotsKept
<1>10. ASSUME Top.kind = "expire", UNCHANGED ackWaitList, NEW i \in InUse, Resumed(ExpireCall(i))
      PROVE  TopicInv'
  <2>1. PICK c : c = ExpireCall(i)
    OBVIOUS
  <2>2. c.kind = "expire" /\ c.slot = i /\ c.pc = "callback" /\ i \in Slots /\ i # s
    BY <2>1, <1>8, <1>10, TellingCalls, SlotsAndEntries DEF InUse
  <2>3. Len(stack) = 1 /\ Top = stack[1]
    BY <1>1, <1>10, TopKind DEF AskedInv
  <2>4. Len(stack') = 1 /\ stack'[1] = c
    BY <2>1, <1>10, <2>3 DEF Resumed
  <2>5. \A j \in 1..Len(stack) : stack[j] = Top
    BY <2>3
  <2>6. \A j \in 1..Len(stack') : stack'[j] = c
    BY <2>4
  <2>7. 1 \in 1..Len(stack')
    BY <2>4
  <2>8. (\A f : f \in Busy => f = Top) /\ (\A f : f \in Busy' <=> f = c)
    BY <2>2, <2>5, <2>6, <2>7 DEF Busy, Kin
  <2>9. VerdictsOf(c) = Verdicts /\ ~HoldsSecond(c) /\ ~FirstAhead(c) /\ ~SecondAhead(c) /\ c.pc # "unsubscribe"
    BY <2>2, Grips
  <2>10. InUse' = InUse
    BY <1>10, SameRecords
  <2>11. Elsewhere({s, i})
    BY <1>4, <1>3, <1>10, <2>2, <2>8, <2>10 DEF Elsewhere
  <2>12. ASSUME NEW action, NEW verdict PROVE ~Holds(s, action, verdict)'
    BY <1>3, <1>8, <1>10, <2>2, <2>8, <2>10 DEF HeldInv
  <2>13. \A f \in Busy : f.slot # i
    BY <1>4, <2>2, <2>8
  <2>14. ActionOf(c)' = ackWaitList[i].action
    BY <1>10, <2>2 DEF ActionOf, Asks
  <2>15. \A action \in ActionNames, verdict \in Verdicts : Holds(i, action, verdict)' <=> Holds(i, action, verdict)
    <3> SUFFICES ASSUME NEW action \in ActionNames, NEW verdict \in Verdicts
                 PROVE  Holds(i, action, verdict)' <=> Holds(i, action, verdict)
      OBVIOUS
    <3>1. Holds(i, action, verdict) <=> ackWaitList[i].action = action
      BY <1>3, <1>10, <2>13 DEF HeldInv
    <3>2. Holds(i, action, verdict)' <=> ActionOf(c)' = action
      BY <1>3, <2>2, <2>8, <2>9 DEF HeldInv
    <3> QED
      BY <2>14, <3>1, <3>2
  <2>16. \A f \in Busy \cup Busy' : ~FirstAhead(f) /\ ~SecondAhead(f) /\ ~Halving(f) /\ f.pc # "unsubscribe"
    BY <1>6, <2>8, <2>9 DEF Halving
  <2> DEFINE S == {s, i}
  <2>17. Elsewhere(S) /\ \A k : k \in S <=> k = s \/ k = i
    BY <2>11
  <2> HIDE DEF S
  <2> QED
    BY <1>1, <1>7, <2>12, <2>15, <2>16, <2>17, SlotsKept
<1> QED
  BY <1>4, <1>9, <1>10, LeftMove DEF AskedInv

LEMMA PublishKept ==
  ASSUME AskedInv, SlotInv, SlotInv', TopicInv, Publish, UNCHANGED failures
  PROVE  TopicInv'
<1>1. ~Idle /\ Top.kind = "request" /\ Top.pc = "publish" /\ Ended /\ UNCHANGED <<app, subList, subscribed>>
  BY PublishMove DEF AskedInv, Publish, At
<1>2. HeldInv /\ HeldInv'
  BY HeldIs, PTL
<1>3. Top \in Busy /\ HeldInv /\ HeldInv'
  BY <1>1, <1>2, TopBusy DEF AskedInv, SlotInv, Kin
<1>4. PICK s : s = Top.slot
  OBVIOUS
<1>5. s \in Slots /\ \A f \in Busy : f.slot = s => f = Top
  BY <1>4, <1>3 DEF HeldInv
<1>6. VerdictsOf(Top) = Verdicts /\ ~HoldsSecond(Top) /\ ~FirstAhead(Top) /\ ~SecondAhead(Top) /\ Top.pc # "unsubscribe"
  BY <1>1, Grips
<1>7. Busy' = Busy \ {Top}
  BY <1>1, BusyEnds DEF AskedInv, SlotInv
<1>8. \A f \in Busy' : f.slot # s
  BY <1>5, <1>7
<1>9. \E verdict \in Verdicts : Sends(verdict)
  <2>1. ~Fails
    <3>1. failures' = failures /\ failures \in Nat
      BY DEF AskedInv, TypeInv
    <3> QED
      BY <3>1 DEF Fails
  <2> QED
    BY <2>1 DEF Publish, Sends, Verdicts
<1>10. /\ \A i \in Slots : i # s => ackWaitList'[i] = ackWaitList[i]
      /\ ~ackWaitList'[s].free /\ ackWaitList'[s].action = Top.action
  <2> DEFINE e == [free |-> FALSE, token |-> Top.token, action |-> Top.action, timer |-> StartTimer, req |-> Top.req, age |-> 0]
  <2>1. ~e.free /\ e.action = Top.action
    OBVIOUS
  <2>2. ackWaitList' = [ackWaitList EXCEPT ![s] = e]
    BY <1>4, <1>9 DEF Sends
  <2> HIDE DEF e
  <2> QED
    BY <1>5, <2>1, <2>2 DEF AskedInv, TypeInv
<1>11. s \in InUse' /\ \A i \in Slots : i # s => (i \in InUse' <=> i \in InUse)
  BY <1>5, <1>10 DEF InUse
<1>12. ActionOf(Top) = Top.action
  BY <1>1 DEF ActionOf, Asks
<1>13. \A action \in ActionNames, verdict \in Verdicts : Holds(s, action, verdict)' <=> Holds(s, action, verdict)
  <2> SUFFICES ASSUME NEW action \in ActionNames, NEW verdict \in Verdicts
               PROVE  Holds(s, action, verdict)' <=> Holds(s, action, verdict)
    OBVIOUS
  <2>1. Holds(s, action, verdict) <=> Top.action = action
    BY <1>4, <1>3, <1>6, <1>12 DEF HeldInv
  <2>2. Holds(s, action, verdict)' <=> Top.action = action
    BY <1>3, <1>8, <1>10, <1>11 DEF HeldInv
  <2> QED
    BY <2>1, <2>2
<1>14. Elsewhere({s})
  BY <1>4, <1>7, <1>10, <1>11 DEF Elsewhere
<1>15. \A f \in Busy \cup Busy' : f.slot = s => ~FirstAhead(f) /\ ~SecondAhead(f) /\ ~Halving(f) /\ f.pc # "unsubscribe"
  BY <1>5, <1>6, <1>8 DEF Halving
<1> DEFINE S == {s}
<1>16. Elsewhere(S) /\ \A i : i \in S <=> i = s
  BY <1>14
<1> HIDE DEF S
<1> QED
  BY <1>1, <1>13, <1>15, <1>16, SlotsKept

\* The steps of deltas, timers, callbacks and publishes.
LEMMA QuietKept ==
  ASSUME AskedInv, SlotInv, SlotInv', TopicInv, [Next]_vars, Calm', UNCHANGED failures,
         DeltaSteps \/ Tick \/ Yield \/ AckStatusCallback \/ AnswerHandled \/ Left \/ Publish
  PROVE  TopicInv'
<1>1. CASE DeltaSteps
  <2>1. Busy' = Busy
    BY <1>1, DeltaKin, BusyStays DEF AskedInv
  <2>2. InUse' = InUse
    BY <1>1, DeltaLists, SameRecords
  <2> QED
    BY <1>1, <2>1, <2>2, DeltaLists, NothingKept
<1>2. CASE Tick
  <2>1. Busy' = Busy
    BY <1>2, TickIs DEF Busy, AskedInv
  <2> QED
    BY <1>2, <2>1, TickIs, NothingKept DEF AskedInv
<1>3. ASSUME UNCHANGED <<app, subList, subscribed, ackWaitList, stack>> PROVE TopicInv'
  <2>1. Busy' = Busy
    BY <1>3 DEF Busy
  <2>2. InUse' = InUse
    BY <1>3, SameRecords
  <2> QED
    BY <1>3, <2>1, <2>2, NothingKept
<1>4. ASSUME UNCHANGED <<app, subList, subscribed, ackWaitList>>,
             NEW i \in InUse, NEW verdict \in Told, requests' = Answer(ackWaitList[i].req, verdict),
             NEW c, Entered(c), c.kind \in {"answer", "expire"}, c.pc = "callback", c.slot = i
      PROVE  TopicInv'
  <2>1. Busy' = Busy \cup {c} /\ \A f \in Busy : f.slot # i
    BY <1>4, ToldSlot, TellingSlot
  <2> QED
    BY <1>4, <2>1, ToldKept
<1>5. CASE Yield
  <2>1. UNCHANGED <<app, subList, subscribed, ackWaitList>>
    BY <1>5 DEF Yield, records
  <2>2. ASSUME NEW i \in InUse, Entered(ExpireCall(i)), requests' = Answer(ackWaitList[i].req, "timeout") PROVE TopicInv'
    <3>1. i \in Nat
      BY SlotsAndEntries DEF InUse
    <3>2. ExpireCall(i).kind = "expire" /\ ExpireCall(i).pc = "callback" /\ ExpireCall(i).slot = i
      BY <3>1, TellingCalls
    <3> QED
      BY <1>4, <2>1, <2>2, <3>2 DEF Told
  <2> QED
    BY <1>3, <1>5, <2>1, <2>2, YieldMove DEF AskedInv
<1>6. CASE AckStatusCallback
  <2>1. UNCHANGED <<app, subList, subscribed, ackWaitList>>
    BY <1>6 DEF AckStatusCallback, records
  <2>2. ASSUME NEW m \in cloud, NEW i \in InUse, Entered(AnswerCall(i)),
               requests' = Answer(ackWaitList[i].req, m.topic.verdict)
        PROVE  TopicInv'
    <3>1. i \in Nat
      BY SlotsAndEntries DEF InUse
    <3>2. AnswerCall(i).kind = "answer" /\ AnswerCall(i).pc = "callback" /\ AnswerCall(i).slot = i
      BY <3>1, TellingCalls
    <3>3. m.topic.verdict \in Told
      BY DEF AskedInv, TimeoutInv, AnswersInv, Told
    <3> QED
      BY <1>4, <2>1, <2>2, <3>2, <3>3
  <2> QED
    BY <1>3, <1>6, <2>1, <2>2, AnswerMove DEF AskedInv
<1> QED
  BY <1>1, <1>2, <1>5, <1>6, AnswerHandledKept, LeftKept, PublishKept

-----------------------------------------------------------------------------
(* How many hold a topic. *)

LEMMA HoldersFinite ==
  ASSUME NEW action, NEW verdict
  PROVE  IsFiniteSet(Holders(action, verdict)) /\ Cardinality(Holders(action, verdict)) \in Nat
<1>1. IsFiniteSet(Slots)
  BY ShadowAssumption, FS_Interval DEF Slots
<1>2. IsFiniteSet(Holders(action, verdict))
  BY <1>1, FS_Subset DEF Holders
<1> QED
  BY <1>2, FS_CardinalityType

LEMMA HoldersSame ==
  ASSUME NEW action, NEW verdict, \A i \in Slots : Holds(i, action, verdict)' <=> Holds(i, action, verdict)
  PROVE  Holders(action, verdict)' = Holders(action, verdict)
BY DEF Holders

LEMMA OneMoreHolder ==
  ASSUME NEW action, NEW verdict, NEW s \in Slots, ~Holds(s, action, verdict), Holds(s, action, verdict)',
         \A i \in Slots : i # s => (Holds(i, action, verdict)' <=> Holds(i, action, verdict))
  PROVE  Cardinality(Holders(action, verdict))' = Cardinality(Holders(action, verdict)) + 1
<1>1. Holders(action, verdict)' = Holders(action, verdict) \cup {s} /\ s \notin Holders(action, verdict)
  BY DEF Holders
<1> QED
  BY <1>1, HoldersFinite, FS_AddElement

LEMMA OneHolderLess ==
  ASSUME NEW action, NEW verdict, NEW s \in Slots, Holds(s, action, verdict), ~Holds(s, action, verdict)',
         \A i \in Slots : i # s => (Holds(i, action, verdict)' <=> Holds(i, action, verdict))
  PROVE  /\ Holders(action, verdict)' = Holders(action, verdict) \ {s} /\ s \in Holders(action, verdict)
         /\ Cardinality(Holders(action, verdict))' = Cardinality(Holders(action, verdict)) - 1
<1>1. Holders(action, verdict)' = Holders(action, verdict) \ {s} /\ s \in Holders(action, verdict)
  BY DEF Holders
<1> QED
  BY <1>1, HoldersFinite, FS_RemoveElement

\* A count of one leaves no room for a second holder.
LEMMA OnlyHolder ==
  ASSUME NEW action, NEW verdict, NEW i \in Holders(action, verdict), NEW k \in Holders(action, verdict),
         Cardinality(Holders(action, verdict)) <= 1
  PROVE  i = k
<1> SUFFICES ASSUME i # k PROVE FALSE
  OBVIOUS
<1> DEFINE H == Holders(action, verdict)
           R == H \ {i}
<1>1. IsFiniteSet(H) /\ Cardinality(H) \in Nat
  BY HoldersFinite
<1>2. IsFiniteSet(R) /\ Cardinality(R) = Cardinality(H) - 1
  BY <1>1, FS_RemoveElement
<1>3. R # {}
  OBVIOUS
<1>4. Cardinality(R) \in Nat
  BY <1>2, FS_CardinalityType
<1>5. Cardinality(R) # 0
  BY <1>2, <1>3, FS_EmptySet
<1> QED
  BY <1>1, <1>2, <1>4, <1>5

-----------------------------------------------------------------------------
(* Giving up a topic. *)

\* Only the innermost call is not waiting, or in a callback that waits for another call.
LEMMA BelowWaits ==
  ASSUME TypeInv, StackInv, SlotInv, ~Idle, Top.kind \in Kin, NEW f \in Busy, f # Top
  PROVE  f.pc \in Waiting \cup {"callback"}
<1>1. PICK j \in 1..Len(stack) : stack[j] = f
  BY DEF Busy
<1>2. Len(stack) \in Nat \ {0} /\ Top = stack[Len(stack)]
  BY TopBusy DEF SlotInv
<1>3. j \in Nat /\ j < Len(stack)
  BY <1>1, <1>2
<1>4. CallOK(stack, j)
  BY <1>1 DEF StackInv
<1> QED
  BY <1>1, <1>3, <1>4 DEF CallOK

\* A call that unsubscribes is the only one that holds its topic.
LEMMA LastAlone ==
  ASSUME TypeInv, SlotInv, TopicInv, NEW g \in Unsubscribing, NEW action, action = ActionOf(g), NEW i \in Holders(action, g.topic.verdict)
  PROVE  i = g.slot
<1>1. g \in Busy /\ g.topic.verdict \in VerdictsOf(g) /\ Last1(g)
  BY Grips DEF Unsubscribing, TopicInv, UnsubInv, Last1, Verdicts
<1> PICK verdict : verdict = g.topic.verdict
  OBVIOUS
<1>2. verdict \in Verdicts /\ action \in ActionNames
  BY <1>1, ActionNamed DEF Last1
<1>3. g.slot \in Holders(action, verdict)
  BY <1>1, <1>2, HolderEntry
<1>4. g.entry \in Live /\ subList[g.entry].count = 1 /\ TopicAt(g.entry) = Topic(action, verdict)
  <2>1. g.entry \in Entries /\ g.entry \in Live
    BY <1>1 DEF Last1, Live
  <2>2. TopicAt(g.entry) \in TopicNames
    BY <2>1 DEF TopicAt, TypeInv, EntryRecords
  <2> QED
    BY <1>1, <2>1, <2>2 DEF Last1, Topic, TopicNames
<1>5. Cardinality(Holders(action, verdict)) <= 1
  BY <1>2, <1>4 DEF TopicInv, HoldInv
<1> QED
  BY <1>3, <1>5, OnlyHolder

LEMMA LastCall ==
  ASSUME TypeInv, SlotInv, TopicInv, NEW g \in Unsubscribing, NEW f \in Busy, ActionOf(f) = ActionOf(g), g.topic.verdict \in VerdictsOf(f)
  PROVE  f = g
<1>1. g \in Busy /\ g.topic.verdict \in Verdicts
  BY DEF Unsubscribing, TopicInv, UnsubInv, Last1
<1>2. f.slot \in Holders(ActionOf(g), g.topic.verdict)
  BY <1>1, HolderEntry
<1>3. f.slot = g.slot
  BY <1>2, LastAlone
<1> QED
  BY <1>1, <1>3, OthersApart DEF SlotInv

\* What the innermost call's going on leaves alone.
LEMMA GoneOnFrame ==
  ASSUME TypeInv, StackInv, SlotInv, SlotInv', NEW c, GoneOn(c), UNCHANGED ackWaitList, c.action = Top.action
  PROVE  /\ Top \in Busy /\ c.slot = Top.slot /\ c.slot \in Slots
         /\ ActionOf(c)' = ActionOf(Top)
         /\ \A f : f \in Busy' <=> f = c \/ (f \in Busy /\ f # Top)
         /\ \A f \in Busy \ {Top} : ActionOf(f)' = ActionOf(f) /\ f.slot # c.slot
         /\ \A i \in Slots : i # c.slot => \A action, verdict : Holds(i, action, verdict)' <=> Holds(i, action, verdict)
         /\ \A action, verdict : Holds(c.slot, action, verdict) <=> ActionOf(Top) = action /\ verdict \in VerdictsOf(Top)
         /\ \A action, verdict : Holds(c.slot, action, verdict)' <=> ActionOf(Top) = action /\ verdict \in VerdictsOf(c)
<1>1. /\ Busy' = (Busy \ {Top}) \cup {c} /\ Top \in Busy /\ c.slot = Top.slot /\ c.slot \in Slots /\ Elsewhere({c.slot})
      /\ \A f \in Busy : f.slot = c.slot => f = Top
      /\ \A action, verdict : Holds(c.slot, action, verdict) <=> ActionOf(Top) = action /\ verdict \in VerdictsOf(Top)
      /\ \A action, verdict : Holds(c.slot, action, verdict)' <=> ActionOf(c)' = action /\ verdict \in VerdictsOf(c)
  BY GoneOnIs
<1>2. c.kind = Top.kind
  BY DEF GoneOn
<1>3. ActionOf(c)' = ActionOf(Top)
  BY <1>1, <1>2 DEF ActionOf, Asks
<1>4. \A f \in Busy \ {Top} : ActionOf(f)' = ActionOf(f) /\ f.slot # c.slot
  BY <1>1 DEF ActionOf
<1>5. \A i \in Slots : i # c.slot => \A action, verdict : Holds(i, action, verdict)' <=> Holds(i, action, verdict)
  <2> DEFINE S == {c.slot}
  <2>1. Elsewhere(S) /\ \A i : i \in S <=> i = c.slot
    BY <1>1
  <2> HIDE DEF S
  <2> QED
    BY <2>1, HoldsElsewhere
<1>6. \A f : f \in Busy' <=> f = c \/ (f \in Busy /\ f # Top)
  BY <1>1
<1> QED
  BY <1>1, <1>3, <1>4, <1>5, <1>6

\* An asker has not got what somebody holds.
LEMMA AskerApart ==
  ASSUME TypeInv, SlotInv, TopicInv, NEW f \in Subscribing, NEW g \in Busy, "rejected" \in VerdictsOf(g)
  PROVE  f.action # ActionOf(g)
<1> SUFFICES ASSUME f.action = ActionOf(g) PROVE FALSE
  OBVIOUS
<1>1. PICK e \in Live : TopicAt(e) = Topic(f.action, "rejected")
  BY HolderEntry DEF Verdicts
<1>2. <<f.rejected, Topic(f.action, "rejected")>> \in Claims(f)
  BY DEF Claims
<1>3. TopicAt(e) # Topic(f.action, "rejected")
  BY <1>2 DEF TopicInv, ClaimInv
<1> QED
  BY <1>1, <1>3

\* The call c is the innermost one, after it gave up a topic.
GivenUp(c, action, verdict) ==
  /\ GoneOn(c) /\ Handles(Top) /\ UNCHANGED ackWaitList /\ c.action = Top.action
  /\ action = ActionOf(Top) /\ verdict \in VerdictsOf(Top) /\ verdict \in Verdicts
  /\ VerdictsOf(c) = VerdictsOf(Top) \ {verdict}
  /\ \A f \in {c, Top} : ~FirstAhead(f) /\ ~SecondAhead(f)
  /\ HoldsSecond(c) <=> verdict = "accepted"
  /\ HoldsSecond(Top) <=> verdict = "rejected"
  /\ c.pc # "unsubscribe" /\ "rejected" \in VerdictsOf(Top)

LEMMA GivenUpIs ==
  ASSUME TypeInv, StackInv, SlotInv, SlotInv', TopicInv, NEW c, NEW action, NEW verdict, GivenUp(c, action, verdict)
  PROVE  /\ Subscribing' = Subscribing
         /\ \A f \in Subscribing : f.action # action
         /\ verdict = "accepted" => action \notin Halved /\ Halved' = Halved \cup {action}
         /\ verdict = "rejected" => action \in Halved /\ Halved' = Halved \ {action}
         /\ \A f \in Unsubscribing' : f \in Unsubscribing /\ f # Top /\ ActionOf(f)' = ActionOf(f)
         /\ \A f \in Unsubscribing : f # Top => ~(f.topic.verdict = verdict /\ ActionOf(f) = action)
         /\ \A b, w : b # action \/ w # verdict => Holders(b, w)' = Holders(b, w)
         /\ Holders(action, verdict)' = Holders(action, verdict) \ {c.slot} /\ c.slot \in Holders(action, verdict)
         /\ Cardinality(Holders(action, verdict))' = Cardinality(Holders(action, verdict)) - 1
         /\ action \in ActionNames
<1>1. /\ Top \in Busy /\ c.slot = Top.slot /\ c.slot \in Slots
      /\ ActionOf(c)' = ActionOf(Top)
      /\ \A f : f \in Busy' <=> f = c \/ (f \in Busy /\ f # Top)
      /\ \A f \in Busy \ {Top} : ActionOf(f)' = ActionOf(f) /\ f.slot # c.slot
      /\ \A i \in Slots : i # c.slot => \A b, w : Holds(i, b, w)' <=> Holds(i, b, w)
      /\ \A b, w : Holds(c.slot, b, w) <=> ActionOf(Top) = b /\ w \in VerdictsOf(Top)
      /\ \A b, w : Holds(c.slot, b, w)' <=> ActionOf(Top) = b /\ w \in VerdictsOf(c)
  BY GoneOnFrame DEF GivenUp
<1>2. Subscribing' = Subscribing
  BY <1>1 DEF Subscribing, GivenUp
<1>3. \A f \in Subscribing : f.action # action
  BY <1>1, AskerApart DEF GivenUp
<1>4. \A f \in Unsubscribing' : f \in Unsubscribing /\ f # Top /\ ActionOf(f)' = ActionOf(f)
  BY <1>1 DEF Unsubscribing, GivenUp
<1>5. \A f \in Unsubscribing : f # Top => ~(f.topic.verdict = verdict /\ ActionOf(f) = action)
  BY <1>1, LastCall DEF GivenUp
<1>6. ASSUME NEW f \in Busy, f # Top, Halving(f) PROVE ActionOf(f) # action
  <2>1. f.pc \in Waiting \cup {"callback"}
    BY <1>6, BelowWaits DEF GivenUp, GoneOn
  <2>2. f.pc = "unsubscribe"
    BY <1>6, <2>1 DEF Halving, HoldsSecond, Waiting
  <2>3. f \in Unsubscribing /\ f.topic.verdict \in Verdicts
    BY <2>2 DEF Unsubscribing, TopicInv, UnsubInv, Last1
  <2>4. f.topic.verdict = "rejected"
    BY <1>6, <2>2, <2>3 DEF Halving, HoldsSecond, Verdicts
  <2> QED
    BY <1>1, <1>6, <2>3, <2>4, LastCall DEF GivenUp
<1>7. /\ \A a : a \in Halved <=> \E f \in Busy : Halving(f) /\ ActionOf(f) = a
      /\ \A a : a \in Halved' <=> \E f \in Busy' : Halving(f) /\ ActionOf(f)' = a
  BY DEF Halved, Halving
<1>8. /\ Halving(c) <=> verdict = "accepted"
      /\ Halving(Top) <=> verdict = "rejected"
  BY DEF GivenUp, GoneOn, Handles, Halving
<1>9. ASSUME verdict = "accepted" PROVE action \notin Halved /\ Halved' = Halved \cup {action}
  <2>1. action \notin Halved
    BY <1>6, <1>7, <1>8, <1>9
  <2>2. \A a : a \in Halved' <=> a = action \/ a \in Halved
    BY <1>1, <1>7, <1>8, <1>9 DEF GivenUp
  <2> QED
    BY <2>1, <2>2
<1>10. ASSUME verdict = "rejected" PROVE action \in Halved /\ Halved' = Halved \ {action}
  <2>1. action \in Halved
    BY <1>1, <1>7, <1>8, <1>10 DEF GivenUp
  <2>2. \A a : a \in Halved' <=> a # action /\ a \in Halved
    BY <1>1, <1>6, <1>7, <1>8, <1>10 DEF GivenUp
  <2> QED
    BY <2>1, <2>2
<1>11. ASSUME NEW b, NEW w, b # action \/ w # verdict PROVE Holders(b, w)' = Holders(b, w)
  BY <1>1, <1>11, HoldersSame DEF GivenUp
<1>12. /\ Holders(action, verdict)' = Holders(action, verdict) \ {c.slot} /\ c.slot \in Holders(action, verdict)
       /\ Cardinality(Holders(action, verdict))' = Cardinality(Holders(action, verdict)) - 1
  BY <1>1, OneHolderLess DEF GivenUp
<1>13. action \in ActionNames
  BY <1>1, ActionNamed DEF GivenUp
<1> QED
  BY <1>2, <1>3, <1>4, <1>5, <1>9, <1>10, <1>11, <1>12, <1>13

LEMMA ClaimsIn ==
  ASSUME StackInv, NEW f \in Subscribing
  PROVE  /\ f.entry \in Entries /\ f.rejected \in Entries \ {f.entry}
         /\ \A claim \in Claims(f) : claim[1] \in ClaimedBy(f) /\ claim[1] \in Entries
         /\ ClaimedBy(f) \subseteq Entries \ Live
<1>1. PICK j \in 1..Len(stack) : stack[j] = f
  BY DEF Subscribing, Busy
<1>2. FirstAhead(f) \/ SecondAhead(f)
  BY DEF Subscribing
<1>3. f.entry \in Entries /\ f.rejected \in Entries \ {f.entry}
  BY <1>1, <1>2 DEF StackInv, CallOK, WellPlaced, FirstAhead, SecondAhead
<1>4. \A claim \in Claims(f) : claim[1] \in ClaimedBy(f)
  BY DEF Claims, ClaimedBy
<1>5. ClaimedBy(f) \subseteq Entries
  BY <1>3 DEF ClaimedBy
<1> QED
  BY <1>3, <1>4, <1>5 DEF Live

\* A step that changes one live entry leaves the subscriptions of other actions what they need.
LEMMA ClaimsKept ==
  ASSUME StackInv, ClaimInv, Subscribing' = Subscribing, UNCHANGED app, \A i \in Entries : TopicAt(i)' = TopicAt(i),
         NEW action, NEW verdict, NEW e \in Live, TopicAt(e) = Topic(action, verdict), \A f \in Subscribing : f.action # action,
         Live' \subseteq Live, \A i \in Live : i # e => i \in Live',
         \A i \in Entries : i # e => subList'[i] = subList[i]
  PROVE  ClaimInv'
<1>1. Live \subseteq Entries
  BY DEF Live
<1> SUFFICES ASSUME NEW f \in Subscribing
             PROVE  /\ \A claim \in Claims(f) :
                         /\ ~subList'[claim[1]].free
                         /\ \A i \in Live' : TopicAt(i)' # claim[2]
                         /\ \A i \in Entries \ Live' : i < claim[1] => TopicAt(i)' # claim[2]
                    /\ IF FirstAhead(f) THEN TopicAt(f.entry)' = Topic(f.action, "accepted")
                       ELSE /\ TopicAt(f.rejected)' = Topic(f.action, "rejected")
                            /\ \E i \in Live' : /\ TopicAt(i)' = Topic(f.action, "accepted")
                                                 /\ subList'[i].count = 1 /\ subList'[i].sticky = f.sticky
                    /\ f.sticky \in app.sticky
  BY DEF ClaimInv
<1>2. /\ f.entry \in Entries /\ f.rejected \in Entries
      /\ \A claim \in Claims(f) : claim[1] \in Entries /\ claim[1] \notin Live
  BY ClaimsIn
<1>3. /\ \A claim \in Claims(f) :
           /\ ~subList[claim[1]].free
           /\ \A i \in Live : TopicAt(i) # claim[2]
           /\ \A i \in Entries \ Live : i < claim[1] => TopicAt(i) # claim[2]
      /\ IF FirstAhead(f) THEN TopicAt(f.entry) = Topic(f.action, "accepted")
         ELSE /\ TopicAt(f.rejected) = Topic(f.action, "rejected")
              /\ \E i \in Live : TopicAt(i) = Topic(f.action, "accepted") /\ subList[i].count = 1 /\ subList[i].sticky = f.sticky
      /\ f.sticky \in app.sticky
  BY DEF ClaimInv
<1>4. ASSUME NEW claim \in Claims(f)
      PROVE  /\ ~subList'[claim[1]].free
             /\ \A i \in Live' : TopicAt(i)' # claim[2]
             /\ \A i \in Entries \ Live' : i < claim[1] => TopicAt(i)' # claim[2]
  BY <1>1, <1>2, <1>3
<1>5. TopicAt(e) # Topic(f.action, "accepted")
  BY DEF Topic
<1>6. ASSUME ~FirstAhead(f)
      PROVE  \E i \in Live' : TopicAt(i)' = Topic(f.action, "accepted") /\ subList'[i].count = 1 /\ subList'[i].sticky = f.sticky
  <2>1. PICK i \in Live : TopicAt(i) = Topic(f.action, "accepted") /\ subList[i].count = 1 /\ subList[i].sticky = f.sticky
    BY <1>3, <1>6
  <2>2. i # e
    BY <1>5, <2>1
  <2> QED
    BY <1>1, <2>1, <2>2
<1> QED
  BY <1>2, <1>3, <1>4, <1>6

\* A step that changes one live entry leaves the topics of other actions paired.
LEMMA PairsKept ==
  ASSUME PairInv, NEW action, Half' \ {action} = Half \ {action}, Halved' \ {action} = Halved \ {action},
         NEW e \in Live, TopicAt(e).action = action, \A i \in Entries : TopicAt(i)' = TopicAt(i),
         Live' \subseteq Live, \A i \in Live : i # e => i \in Live',
         \A i \in Entries : i # e => subList'[i] = subList[i],
         action \notin Half' => \A i \in Live' : TopicAt(i).action = action => Paired(i)',
         action \in Halved' => Parted(action)'
  PROVE  PairInv'
<1>1. Live \subseteq Entries
  BY DEF Live
<1>2. ASSUME NEW i \in Live', TopicAt(i).action \notin Half', TopicAt(i).action # action PROVE Paired(i)'
  <2>1. TopicAt(i).action \notin Half /\ i \in Live /\ i # e
    BY <1>2
  <2>2. PICK r \in Live : /\ TopicAt(r).action = TopicAt(i).action /\ TopicAt(r).verdict # TopicAt(i).verdict
                          /\ subList[r].count = subList[i].count /\ subList[r].sticky = subList[i].sticky
    BY <2>1 DEF PairInv, Paired
  <2>3. r # e
    BY <1>2, <2>2
  <2> QED
    BY <1>1, <2>1, <2>2, <2>3 DEF Paired
<1>3. ASSUME NEW b \in Halved', b # action PROVE Parted(b)'
  <2>1. b \in Halved /\ Parted(b)
    BY <1>3 DEF PairInv
  <2>2. \A verdict : TopicAt(e) # Topic(b, verdict)
    BY <1>3 DEF Topic
  <2> SUFFICES ASSUME NEW r \in Live', TopicAt(r)' = Topic(b, "rejected")
               PROVE  IF subList'[r].count > 1 \/ subList'[r].sticky
                      THEN \E i \in Live' : /\ TopicAt(i)' = Topic(b, "accepted") /\ subList'[i].sticky = subList'[r].sticky
                                           /\ subList'[i].count = IF subList'[r].count > 1 THEN subList'[r].count - 1 ELSE subList'[r].count
                      ELSE \A i \in Live' : TopicAt(i)' # Topic(b, "accepted")
    BY DEF Parted
  <2>3. r \in Live /\ r \in Entries /\ TopicAt(r) = Topic(b, "rejected") /\ r # e /\ subList'[r] = subList[r]
    BY <1>1, <2>2
  <2>4. \A i \in Live' : i \in Live /\ TopicAt(i)' = TopicAt(i)
    BY <1>1
  <2>5. CASE subList[r].count > 1 \/ subList[r].sticky
    <3>1. PICK i \in Live : /\ TopicAt(i) = Topic(b, "accepted") /\ subList[i].sticky = subList[r].sticky
                            /\ subList[i].count = IF subList[r].count > 1 THEN subList[r].count - 1 ELSE subList[r].count
      BY <2>1, <2>3, <2>5 DEF Parted
    <3>2. i # e
      BY <2>2, <3>1
    <3>3. i \in Live' /\ TopicAt(i)' = Topic(b, "accepted") /\ subList'[i] = subList[i]
      BY <1>1, <3>1, <3>2
    <3> QED
      BY <2>3, <2>5, <3>1, <3>3
  <2>6. CASE ~(subList[r].count > 1 \/ subList[r].sticky)
    <3>1. \A i \in Live : TopicAt(i) # Topic(b, "accepted")
      BY <2>1, <2>3, <2>6 DEF Parted
    <3> QED
      BY <2>3, <2>4, <2>6, <3>1
  <2> QED
    BY <2>5, <2>6
<1>4. ASSUME NEW i \in Live', TopicAt(i).action \notin Half' PROVE Paired(i)'
  BY <1>2, <1>4
<1>5. \A i \in Live' : TopicAt(i)' = TopicAt(i)
  BY <1>1
<1> QED
  BY <1>3, <1>4, <1>5 DEF PairInv

\* The entry's count goes down, unless it is one and stays there.
LEMMA CountedDown ==
  ASSUME TypeInv, NEW e \in Live, ListInv, ~LastWaiter(e), subList' = [subList EXCEPT ![e].count = IF @ > 1 THEN @ - 1 ELSE @]
  PROVE  /\ \A i \in Entries : TopicAt(i)' = TopicAt(i)
         /\ \A i \in Entries : subList'[i].free = subList[i].free /\ subList'[i].sticky = subList[i].sticky
                               /\ subList[i].count \in Nat
         /\ \A i \in Entries : i # e => subList'[i] = subList[i]
         /\ subList[e].count \in Nat /\ subList[e].count >= 1 /\ subList'[e].count >= 1
         /\ subList'[e].count = IF subList[e].count > 1 THEN subList[e].count - 1 ELSE subList[e].count
         /\ ~subList[e].sticky => subList[e].count > 1
<1>1. e \in Entries /\ subList[e].count >= 1
  BY DEF Live, ListInv
<1>2. subList \in [Entries -> EntryRecords] /\ \A i \in Entries : subList[i].count \in Nat
  BY DEF TypeInv, EntryRecords
<1> DEFINE n == IF subList[e].count > 1 THEN subList[e].count - 1 ELSE subList[e].count
<1>3. subList' = [subList EXCEPT ![e].count = n]
  OBVIOUS
<1>4. n \in Nat /\ n >= 1
  BY <1>1, <1>2
<1>5. n = IF subList[e].count > 1 THEN subList[e].count - 1 ELSE subList[e].count
  OBVIOUS
<1> HIDE DEF n
<1>6. /\ \A i \in Entries : /\ subList'[i].free = subList[i].free /\ subList'[i].sticky = subList[i].sticky
                            /\ subList'[i].topic = subList[i].topic
                            /\ subList'[i].count = IF i = e THEN n ELSE subList[i].count
  BY <1>1, <1>2, <1>3 DEF EntryRecords
<1>7. ASSUME NEW i \in Entries PROVE TopicAt(i)' = TopicAt(i)
  BY <1>6 DEF TopicAt
<1>8. \A i \in Entries : i # e => subList'[i] = subList[i]
  BY <1>1, <1>2, <1>3
<1>9. ~subList[e].sticky => subList[e].count > 1
  BY <1>1, <1>2 DEF LastWaiter
<1> QED
  BY <1>1, <1>2, <1>4, <1>6, <1>7, <1>8, <1>9, <1>5

LEMMA CountedDownKept ==
  ASSUME TypeInv, StackInv, SlotInv, SlotInv', TopicInv, NEW c, NEW action, NEW verdict, GivenUp(c, action, verdict),
         UNCHANGED <<app, subscribed>>, NEW e \in Live, TopicAt(e) = Topic(action, verdict), ~LastWaiter(e),
         subList' = [subList EXCEPT ![e].count = IF @ > 1 THEN @ - 1 ELSE @]
  PROVE  TopicInv'
<1>1. /\ Subscribing' = Subscribing
      /\ \A f \in Subscribing : f.action # action
      /\ verdict = "accepted" => action \notin Halved /\ Halved' = Halved \cup {action}
      /\ verdict = "rejected" => action \in Halved /\ Halved' = Halved \ {action}
      /\ \A f \in Unsubscribing' : f \in Unsubscribing /\ f # Top /\ ActionOf(f)' = ActionOf(f)
      /\ \A b, w : b # action \/ w # verdict => Holders(b, w)' = Holders(b, w)
      /\ Holders(action, verdict)' = Holders(action, verdict) \ {c.slot} /\ c.slot \in Holders(action, verdict)
      /\ Cardinality(Holders(action, verdict))' = Cardinality(Holders(action, verdict)) - 1
      /\ action \in ActionNames
  BY GivenUpIs
<1>2. /\ \A i \in Entries : TopicAt(i)' = TopicAt(i)
      /\ \A i \in Entries : subList'[i].free = subList[i].free /\ subList'[i].sticky = subList[i].sticky
                            /\ subList[i].count \in Nat
      /\ \A i \in Entries : i # e => subList'[i] = subList[i]
      /\ subList[e].count \in Nat /\ subList[e].count >= 1 /\ subList'[e].count >= 1
      /\ subList'[e].count = IF subList[e].count > 1 THEN subList[e].count - 1 ELSE subList[e].count
      /\ ~subList[e].sticky => subList[e].count > 1
  BY CountedDown DEF TopicInv
<1>3. ListInv /\ ClaimInv /\ HoldInv /\ PairInv /\ UnsubInv /\ verdict \in {"accepted", "rejected"}
  BY DEF TopicInv, GivenUp, Verdicts
<1>4. Live' = Live /\ Live \subseteq Entries
  BY <1>1, <1>2 DEF Live
<1>5. \A i \in Live : TopicAt(i).verdict \in {"accepted", "rejected"} /\ TopicAt(i)' = TopicAt(i)
                     /\ (TopicAt(i) = TopicAt(e) => i = e)
  BY <1>2, <1>3, <1>4 DEF ListInv, Verdicts
<1>6. ListInv'
  BY <1>2, <1>3, <1>4 DEF ListInv
<1>7. ClaimInv'
  BY <1>1, <1>2, <1>3, <1>4, ClaimsKept
<1>8. HoldInv'
  <2> SUFFICES ASSUME NEW b \in ActionNames, NEW w \in Verdicts
               PROVE  /\ Holders(b, w)' # {} => \E i \in Live : TopicAt(i) = Topic(b, w)
                      /\ \A i \in Live : TopicAt(i) = Topic(b, w) =>
                           /\ Cardinality(Holders(b, w))' <= subList'[i].count
                           /\ app.sticky = {FALSE} => Cardinality(Holders(b, w))' = subList'[i].count /\ ~subList'[i].sticky
    BY <1>4, <1>5, ZenonT(30) DEF HoldInv
  <2>1. /\ Holders(b, w) # {} => \E i \in Live : TopicAt(i) = Topic(b, w)
        /\ \A i \in Live : TopicAt(i) = Topic(b, w) =>
             /\ Cardinality(Holders(b, w)) <= subList[i].count
             /\ app.sticky = {FALSE} => Cardinality(Holders(b, w)) = subList[i].count /\ ~subList[i].sticky
    BY <1>3 DEF HoldInv
  <2>2. CASE b = action /\ w = verdict
    <3>1. \A i \in Live : TopicAt(i) = Topic(b, w) => i = e
      BY <1>5, <2>2
    <3>2. Cardinality(Holders(b, w)) \in Nat
      BY HoldersFinite
    <3>3. Cardinality(Holders(b, w)) <= subList[e].count
          /\ (app.sticky = {FALSE} => Cardinality(Holders(b, w)) = subList[e].count /\ ~subList[e].sticky)
      BY <2>1, <2>2
    <3>4. Cardinality(Holders(b, w))' = Cardinality(Holders(b, w)) - 1
      BY <1>1, <2>2
    <3>5. e \in Entries
      BY <1>4
    <3>6. Cardinality(Holders(b, w))' <= subList'[e].count
      BY <1>2, <3>2, <3>3, <3>4
    <3>7. ASSUME app.sticky = {FALSE} PROVE Cardinality(Holders(b, w))' = subList'[e].count /\ ~subList'[e].sticky
      BY <1>2, <3>2, <3>3, <3>4, <3>5, <3>7
    <3> QED
      BY <2>2, <3>1, <3>6, <3>7
  <2>3. CASE b # action \/ w # verdict
    <3>1. Holders(b, w)' = Holders(b, w)
      BY <1>1, <2>3
    <3>2. Topic(b, w) # Topic(action, verdict)
      BY <2>3 DEF Topic
    <3>3. \A i \in Live : TopicAt(i) = Topic(b, w) => subList'[i].count = subList[i].count /\ subList'[i].sticky = subList[i].sticky
      BY <1>2, <1>4, <3>2
    <3> QED
      BY <2>1, <3>1, <3>3
  <2> QED
    BY <2>2, <2>3
<1>9. PairInv'
  <2>1. \A i \in Live : TopicAt(i) \in TopicNames /\ i \in Entries
    BY <1>4 DEF TopicAt, TypeInv, EntryRecords
  <2>2. \A i \in Live : TopicAt(i).action = action => TopicAt(i) \in {Topic(action, "accepted"), Topic(action, "rejected")}
    BY <1>5, <2>1 DEF Topic, TopicNames
  <2>3. Half' \ {action} = Half \ {action} /\ Halved' \ {action} = Halved \ {action} /\ (action \in Half' => action \in Halved')
    BY <1>1, <1>3 DEF Half
  <2>4. TopicAt(e).action = action /\ e \in Entries
    BY <1>4 DEF Topic
  <2>5. ASSUME verdict = "accepted" PROVE Parted(action)'
    <3>1. action \notin Half
      BY <1>1, <2>5 DEF Half
    <3>2. PICK p \in Live : /\ TopicAt(p).action = action /\ TopicAt(p).verdict # TopicAt(e).verdict
                            /\ subList[p].count = subList[e].count /\ subList[p].sticky = subList[e].sticky
      BY <1>3, <2>4, <3>1 DEF PairInv, Paired
    <3>3. TopicAt(p) = Topic(action, "rejected") /\ p # e /\ subList'[p] = subList[p]
      BY <1>2, <1>4, <2>2, <2>5, <3>2 DEF Topic
    <3>4. \A r \in Live : TopicAt(r) = Topic(action, "rejected") => r = p
      BY <1>3, <3>3 DEF ListInv
    <3>5. subList[p].count > 1 \/ subList[p].sticky
      BY <1>2, <3>2
    <3>6. subList'[e].sticky = subList'[p].sticky
      BY <1>2, <2>4, <3>2, <3>3
    <3>7. subList'[e].count = IF subList'[p].count > 1 THEN subList'[p].count - 1 ELSE subList'[p].count
      BY <1>2, <3>2, <3>3
    <3>8. subList'[p].count > 1 \/ subList'[p].sticky
      BY <3>3, <3>5
    <3>9. TopicAt(e)' = Topic(action, "accepted")
      BY <1>2, <2>4, <2>5
    <3>10. \A r \in Live : TopicAt(r)' = TopicAt(r)
      BY <1>2, <1>4
    <3> QED
      BY <1>4, <3>4, <3>6, <3>7, <3>8, <3>9, <3>10 DEF Parted
  <2>6. ASSUME verdict = "rejected", NEW i \in Live, TopicAt(i).action = action PROVE Paired(i)'
    <3>1. Parted(action)
      BY <1>1, <1>3, <2>6 DEF PairInv
    <3>2. subList[e].count > 1 \/ subList[e].sticky
      BY <1>2
    <3>3. PICK p \in Live : /\ TopicAt(p) = Topic(action, "accepted") /\ subList[p].sticky = subList[e].sticky
                            /\ subList[p].count = IF subList[e].count > 1 THEN subList[e].count - 1 ELSE subList[e].count
      BY <2>6, <3>1, <3>2 DEF Parted
    <3>4. p # e /\ subList'[p] = subList[p]
      BY <1>2, <1>4, <2>6, <3>3 DEF Topic
    <3>5. i = e \/ i = p
      BY <1>3, <2>2, <2>6, <3>3 DEF ListInv
    <3>6. subList'[p].count = subList'[e].count
      BY <1>2, <3>3, <3>4
    <3>7. subList'[p].sticky = subList'[e].sticky
      BY <1>2, <2>4, <3>3, <3>4
    <3>8. TopicAt(p)' = Topic(action, "accepted") /\ TopicAt(e)' = Topic(action, "rejected")
      BY <1>2, <1>4, <2>6, <3>3
    <3>9. TopicAt(p)'.action = TopicAt(e)'.action /\ TopicAt(p)'.verdict # TopicAt(e)'.verdict
      BY <3>8 DEF Topic
    <3> QED
      BY <1>4, <3>5, <3>6, <3>7, <3>9 DEF Paired
  <2>7. action \in Halved' => verdict = "accepted"
    BY <1>1, <1>3
  <2>8. action \notin Half' => verdict = "rejected"
    BY <1>1, <1>3 DEF Half
  <2>9. action \in Halved' => Parted(action)'
    BY <2>5, <2>7
  <2>10. action \notin Half' => \A i \in Live' : TopicAt(i).action = action => Paired(i)'
    BY <1>4, <2>6, <2>8
  <2> QED
    BY <1>2, <1>3, <1>4, <2>3, <2>4, <2>9, <2>10, PairsKept
<1>10. UnsubInv'
  <2> SUFFICES ASSUME NEW f \in Unsubscribing' PROVE Last1(f)'
    BY DEF UnsubInv
  <2>1. f \in Unsubscribing /\ ActionOf(f)' = ActionOf(f)
    BY <1>1
  <2>2. Last1(f)
    BY <1>3, <2>1 DEF UnsubInv
  <2>3. f.entry # e
    BY <1>2, <2>2 DEF Last1
  <2> QED
    BY <1>2, <1>4, <2>1, <2>2, <2>3 DEF Last1
<1> QED
  BY <1>6, <1>7, <1>8, <1>9, <1>10 DEF TopicInv

\* The entry of a topic that is given up for good is freed.
LEMMA FreedEntryKept ==
  ASSUME TypeInv, StackInv, SlotInv, SlotInv', TopicInv, NEW c, NEW action, NEW verdict, GivenUp(c, action, verdict),
         UNCHANGED app, NEW e \in Live, TopicAt(e) = Topic(action, verdict), subList[e].count = 1, ~subList[e].sticky,
         subList' = [subList EXCEPT ![e].free = TRUE], subscribed' = subscribed \ {Topic(action, verdict)}
  PROVE  TopicInv'
<1>1. /\ Subscribing' = Subscribing
      /\ \A f \in Subscribing : f.action # action
      /\ verdict = "accepted" => action \notin Halved /\ Halved' = Halved \cup {action}
      /\ verdict = "rejected" => action \in Halved /\ Halved' = Halved \ {action}
      /\ \A f \in Unsubscribing' : f \in Unsubscribing /\ f # Top /\ ActionOf(f)' = ActionOf(f)
      /\ \A f \in Unsubscribing : f # Top => ~(f.topic.verdict = verdict /\ ActionOf(f) = action)
      /\ \A b, w : b # action \/ w # verdict => Holders(b, w)' = Holders(b, w)
      /\ Holders(action, verdict)' = Holders(action, verdict) \ {c.slot} /\ c.slot \in Holders(action, verdict)
      /\ action \in ActionNames
  BY GivenUpIs
<1>2. ListInv /\ ClaimInv /\ HoldInv /\ PairInv /\ UnsubInv /\ verdict \in {"accepted", "rejected"}
  BY DEF TopicInv, GivenUp, Verdicts
<1>3. Live \subseteq Entries
  BY DEF Live
<1>4. /\ \A i \in Entries : i # e => subList'[i] = subList[i]
      /\ \A i \in Entries : subList'[i].topic = subList[i].topic
      /\ subList'[e].free
  BY <1>3 DEF TypeInv, EntryRecords
<1>5. \A i \in Entries : TopicAt(i)' = TopicAt(i)
  BY <1>4 DEF TopicAt
<1>6. \A i : i \in Live' <=> i \in Live /\ i # e
  BY <1>1, <1>3, <1>4 DEF Live
<1>7. \A i \in Live : TopicAt(i).verdict \in {"accepted", "rejected"} /\ TopicAt(i)' = TopicAt(i)
                     /\ (TopicAt(i) = TopicAt(e) => i = e)
  BY <1>2, <1>3, <1>5 DEF ListInv, Verdicts
<1>8. ListInv'
  <2>1. \A i, k \in Live' : TopicAt(i)' = TopicAt(k)' => i = k
    BY <1>2, <1>6, <1>7 DEF ListInv
  <2>2. \A i \in Live', k \in Entries \ Live' : k < i => TopicAt(k)' # TopicAt(i)'
    BY <1>2, <1>5, <1>6, <1>7 DEF ListInv
  <2>3. \A i \in Live' : TopicAt(i)'.verdict \in Verdicts /\ TopicAt(i)' \in subscribed' /\ subList'[i].count >= 1
    BY <1>2, <1>3, <1>4, <1>6, <1>7 DEF ListInv
  <2>4. \A t \in subscribed' : t = DeltaTopic \/ \E i \in Live' : TopicAt(i)' = t
    BY <1>2, <1>6, <1>7 DEF ListInv
  <2> QED
    BY <2>1, <2>2, <2>3, <2>4 DEF ListInv
<1>9. ClaimInv'
  BY <1>1, <1>2, <1>4, <1>5, <1>6, ClaimsKept
<1>10. Holders(action, verdict)' = {}
  <2>1. Cardinality(Holders(action, verdict)) <= 1
    BY <1>1, <1>2 DEF HoldInv, Verdicts
  <2>2. \A i \in Holders(action, verdict) : i = c.slot
    BY <1>1, <2>1, OnlyHolder
  <2> QED
    BY <1>1, <2>2
<1>11. HoldInv'
  <2> SUFFICES ASSUME NEW b \in ActionNames, NEW w \in Verdicts
               PROVE  /\ Holders(b, w)' # {} => \E i \in Live' : TopicAt(i)' = Topic(b, w)
                      /\ \A i \in Live' : TopicAt(i)' = Topic(b, w) =>
                           /\ Cardinality(Holders(b, w))' <= subList'[i].count
                           /\ app.sticky = {FALSE} => Cardinality(Holders(b, w))' = subList'[i].count /\ ~subList'[i].sticky
    BY DEF HoldInv
  <2>1. /\ Holders(b, w) # {} => \E i \in Live : TopicAt(i) = Topic(b, w)
        /\ \A i \in Live : TopicAt(i) = Topic(b, w) =>
             /\ Cardinality(Holders(b, w)) <= subList[i].count
             /\ app.sticky = {FALSE} => Cardinality(Holders(b, w)) = subList[i].count /\ ~subList[i].sticky
    BY <1>2 DEF HoldInv
  <2>2. \A i \in Live' : i \in Live /\ i # e /\ TopicAt(i)' = TopicAt(i) /\ TopicAt(i) # TopicAt(e) /\ subList'[i] = subList[i]
    BY <1>3, <1>4, <1>6, <1>7
  <2>3. CASE b = action /\ w = verdict
    BY <1>10, <2>2, <2>3
  <2>4. CASE b # action \/ w # verdict
    <3>1. Holders(b, w)' = Holders(b, w)
      BY <1>1, <2>4
    <3>2. Topic(b, w) # TopicAt(e)
      BY <2>4 DEF Topic
    <3>3. Holders(b, w)' # {} => \E i \in Live' : TopicAt(i)' = Topic(b, w)
      BY <1>6, <1>7, <2>1, <3>1, <3>2
    <3>4. ASSUME NEW i \in Live', TopicAt(i)' = Topic(b, w)
          PROVE  /\ Cardinality(Holders(b, w))' <= subList'[i].count
                 /\ app.sticky = {FALSE} => Cardinality(Holders(b, w))' = subList'[i].count /\ ~subList'[i].sticky
      <4>1. i \in Live /\ TopicAt(i) = Topic(b, w) /\ subList'[i] = subList[i]
        BY <2>2, <3>4
      <4> QED
        BY <2>1, <3>1, <4>1
    <3> QED
      BY <3>3, <3>4
  <2> QED
    BY <2>3, <2>4
<1>12. PairInv'
  <2>1. \A i \in Live : TopicAt(i) \in TopicNames /\ i \in Entries
    BY <1>3 DEF TopicAt, TypeInv, EntryRecords
  <2>2. \A i \in Live : TopicAt(i).action = action => TopicAt(i) \in {Topic(action, "accepted"), Topic(action, "rejected")}
    BY <1>7, <2>1 DEF Topic, TopicNames
  <2>3. Half' \ {action} = Half \ {action} /\ Halved' \ {action} = Halved \ {action} /\ (action \in Half' => action \in Halved')
    BY <1>1, <1>2 DEF Half
  <2>4. TopicAt(e).action = action
    BY DEF Topic
  <2>5. ASSUME verdict = "accepted" PROVE Parted(action)'
    <3>1. action \notin Half
      BY <1>1, <2>5 DEF Half
    <3>2. PICK p \in Live : /\ TopicAt(p).action = action /\ TopicAt(p).verdict # TopicAt(e).verdict
                            /\ subList[p].count = subList[e].count /\ subList[p].sticky = subList[e].sticky
      BY <1>2, <2>4, <3>1 DEF PairInv, Paired
    <3>3. TopicAt(p) = Topic(action, "rejected") /\ p # e /\ subList'[p] = subList[p]
      BY <1>3, <1>4, <2>2, <2>5, <3>2 DEF Topic
    <3>4. ~subList'[p].sticky /\ subList'[p].count = 1
      <4>1. ~subList[p].sticky
        BY <3>2
      <4> QED
        BY <3>2, <3>3, <4>1
    <3>5. \A r \in Live : TopicAt(r) = Topic(action, "rejected") => r = p
      BY <1>2, <3>3 DEF ListInv
    <3>6. \A r \in Live' : TopicAt(r)' # Topic(action, "accepted")
      BY <1>6, <1>7, <2>5
    <3>7. \A r \in Live' : TopicAt(r)' = Topic(action, "rejected") => r = p
      BY <1>6, <1>7, <3>5
    <3> SUFFICES ASSUME NEW r \in Live', TopicAt(r)' = Topic(action, "rejected")
                 PROVE  ~(subList'[r].count > 1 \/ subList'[r].sticky)
      BY <3>6 DEF Parted
    <3>8. r = p
      BY <3>7
    <3>9. ~(subList'[r].count > 1)
      BY <3>4, <3>8
    <3> QED
      BY <3>4, <3>8, <3>9
  <2>6. ASSUME verdict = "rejected", NEW i \in Live', TopicAt(i).action = action PROVE FALSE
    <3>1. Parted(action)
      BY <1>1, <1>2, <2>6 DEF PairInv
    <3>2. ~(subList[e].count > 1)
      OBVIOUS
    <3>3. \A p \in Live : TopicAt(p) # Topic(action, "accepted")
      BY <2>6, <3>1, <3>2 DEF Parted
    <3> QED
      BY <1>6, <1>7, <2>2, <2>6, <3>3
  <2>7. action \in Halved' => verdict = "accepted"
    BY <1>1, <1>2
  <2>8. action \notin Half' => verdict = "rejected"
    BY <1>1, <1>2 DEF Half
  <2>9. action \in Halved' => Parted(action)'
    BY <2>5, <2>7
  <2>10. action \notin Half' => \A i \in Live' : TopicAt(i).action = action => Paired(i)'
    BY <2>6, <2>8
  <2>11. Live' \subseteq Live /\ \A i \in Live : i # e => i \in Live'
    BY <1>6
  <2> QED
    BY <1>2, <1>4, <1>5, <2>3, <2>4, <2>9, <2>10, <2>11, PairsKept
<1>13. UnsubInv'
  <2> SUFFICES ASSUME NEW f \in Unsubscribing' PROVE Last1(f)'
    BY DEF UnsubInv
  <2>1. f \in Unsubscribing /\ f # Top /\ ActionOf(f)' = ActionOf(f)
    BY <1>1
  <2>2. Last1(f)
    BY <1>2, <2>1 DEF UnsubInv
  <2>3. f.entry # e
    <3>1. f.entry = e => f.topic = Topic(action, verdict) /\ f.topic.action = ActionOf(f)
      BY <2>2 DEF Last1
    <3> QED
      BY <1>1, <2>1, <3>1 DEF Topic
  <2>4. f.entry \in Live' /\ subList'[f.entry] = subList[f.entry] /\ TopicAt(f.entry)' = TopicAt(f.entry)
    BY <1>3, <1>4, <1>6, <1>7, <2>2, <2>3 DEF Last1
  <2> QED
    BY <2>1, <2>2, <2>4 DEF Last1
<1> QED
  BY <1>8, <1>9, <1>11, <1>12, <1>13 DEF TopicInv

\* A topic is given up, or has to be unsubscribed from.
LEMMA LeaveKept ==
  ASSUME AskedInv, SlotInv, SlotInv', TopicInv, LeaveTopic
  PROVE  TopicInv'
<1>1. ~Idle /\ Top.kind \in {"answer", "expire"} /\ Top \in Busy /\ UNCHANGED <<app, ackWaitList, subscribed>>
  BY LeavesCalmly DEF AskedInv
<1>2. PICK verdict \in Verdicts, e \in Live, next \in {"leave rejected", "left"} :
        /\ IF verdict = "accepted" THEN Top.pc = "leave accepted" /\ next = "leave rejected"
           ELSE Top.pc = "leave rejected" /\ next = "left"
        /\ verdict \in VerdictsOf(Top)
        /\ TopicAt(e) = Topic(ActionOf(Top), verdict)
        /\ \/ LastWaiter(e) /\ GoOn(Leaving("unsubscribe", e, Topic(ActionOf(Top), verdict))) /\ UNCHANGED subList
           \/ ~LastWaiter(e) /\ GoOn(NextPc(next)) /\ subList' = [subList EXCEPT ![e].count = IF @ > 1 THEN @ - 1 ELSE @]
  BY LeavesCalmly DEF AskedInv
<1>3. CASE LastWaiter(e) /\ GoOn(Leaving("unsubscribe", e, Topic(ActionOf(Top), verdict))) /\ UNCHANGED subList
  BY <1>1, <1>2, <1>3, LeaveWaitsKept
<1>4. CASE ~LastWaiter(e) /\ GoOn(NextPc(next)) /\ subList' = [subList EXCEPT ![e].count = IF @ > 1 THEN @ - 1 ELSE @]
  <2>1. PICK c : c = NextPc(next)
    OBVIOUS
  <2>2. PICK action : action = ActionOf(Top)
    OBVIOUS
  <2>3. next \in PcsOf(Top.kind)
    BY <1>1, RequestPcs DEF Handling
  <2>4. c.pc = next /\ Same(c, Top) /\ Resumed(c)
    BY <1>1, <1>4, <2>1, <2>3, GoesOn DEF AskedInv
  <2>5. GoneOn(c) /\ Handles(Top) /\ c.action = Top.action
    BY <1>1, <2>4 DEF GoneOn, Same, Kin, Handles
  <2>6. /\ VerdictsOf(c) = VerdictsOf(Top) \ {verdict}
        /\ \A f \in {c, Top} : ~FirstAhead(f) /\ ~SecondAhead(f)
        /\ HoldsSecond(c) <=> verdict = "accepted"
        /\ HoldsSecond(Top) <=> verdict = "rejected"
        /\ c.pc # "unsubscribe" /\ "rejected" \in VerdictsOf(Top)
    <3>1. CASE verdict = "accepted"
      <4>1. VerdictsOf(c) = {"rejected"} /\ HoldsSecond(c) /\ ~FirstAhead(c) /\ ~SecondAhead(c) /\ c.pc # "unsubscribe"
        BY <1>2, <2>4, <3>1, Grips
      <4>2. VerdictsOf(Top) = Verdicts /\ ~HoldsSecond(Top) /\ ~FirstAhead(Top) /\ ~SecondAhead(Top)
        BY <1>2, <3>1, Grips
      <4> QED
        BY <3>1, <4>1, <4>2 DEF Verdicts
    <3>2. CASE verdict # "accepted"
      <4>0. verdict = "rejected"
        BY <3>2 DEF Verdicts
      <4>1. VerdictsOf(c) = {} /\ ~HoldsSecond(c) /\ ~FirstAhead(c) /\ ~SecondAhead(c) /\ c.pc # "unsubscribe"
        BY <1>2, <2>4, <3>2, Grips
      <4>2. VerdictsOf(Top) = {"rejected"} /\ HoldsSecond(Top) /\ ~FirstAhead(Top) /\ ~SecondAhead(Top)
        BY <1>2, <3>2, Grips
      <4> QED
        BY <4>0, <4>1, <4>2
    <3> QED
      BY <3>1, <3>2
  <2>7. GivenUp(c, action, verdict)
    BY <1>1, <1>2, <2>2, <2>5, <2>6 DEF GivenUp
  <2>8. TopicAt(e) = Topic(action, verdict) /\ ~LastWaiter(e) /\ UNCHANGED <<app, subscribed>>
        /\ subList' = [subList EXCEPT ![e].count = IF @ > 1 THEN @ - 1 ELSE @]
    BY <1>1, <1>2, <1>4, <2>2
  <2> QED
    BY <2>7, <2>8, CountedDownKept DEF AskedInv
<1> QED
  BY <1>2, <1>3, <1>4

LEMMA UnsubscribeKept ==
  ASSUME AskedInv, SlotInv, SlotInv', TopicInv, Unsubscribe, UNCHANGED failures
  PROVE  TopicInv'
<1>1. /\ ~Idle /\ Top.kind \in {"answer", "expire"} /\ Top.pc = "unsubscribe"
      /\ GoOn(NextPc(IF Top.topic.verdict = "accepted" THEN "leave rejected" ELSE "left"))
      /\ subscribed' = subscribed \ {Top.topic} /\ subList' = [subList EXCEPT ![Top.entry].free = TRUE]
      /\ UNCHANGED <<app, ackWaitList, requests>>
  BY UnsubscribesCalmly DEF AskedInv
<1>2. PICK verdict, action, e, next :
        /\ verdict = Top.topic.verdict /\ action = ActionOf(Top) /\ e = Top.entry
        /\ next = IF Top.topic.verdict = "accepted" THEN "leave rejected" ELSE "left"
  OBVIOUS
<1>3. PICK c : c = NextPc(next)
  OBVIOUS
<1>4. Top \in Busy /\ Top \in Unsubscribing
  BY <1>1, TopBusy DEF AskedInv, SlotInv, Kin, Unsubscribing
<1>5. Last1(Top)
  BY <1>4 DEF TopicInv, UnsubInv
<1>6. /\ verdict \in Verdicts /\ e \in Live /\ TopicAt(e) = Top.topic
      /\ subList[e].count = 1 /\ ~subList[e].sticky
  BY <1>2, <1>5 DEF Last1
<1>7. Top.topic = Topic(action, verdict)
  <2>1. e \in Entries
    BY <1>6 DEF Live
  <2>2. TopicAt(e) \in TopicNames
    BY <2>1 DEF TopicAt, AskedInv, TypeInv, EntryRecords
  <2>3. Top.topic.action = action /\ Top.topic.verdict = verdict
    BY <1>2, <1>5 DEF Last1
  <2> QED
    BY <1>6, <2>2, <2>3 DEF Topic, TopicNames
<1>8. next \in PcsOf(Top.kind) /\ next \in {"leave rejected", "left"}
  BY <1>1, <1>2, RequestPcs DEF Handling
<1>9. c.pc = next /\ Same(c, Top) /\ Resumed(c)
  BY <1>1, <1>2, <1>3, <1>8, GoesOn DEF AskedInv
<1>10. GoneOn(c) /\ Handles(Top) /\ c.action = Top.action
  BY <1>1, <1>9 DEF GoneOn, Same, Kin, Handles
<1>11. /\ VerdictsOf(c) = VerdictsOf(Top) \ {verdict} /\ verdict \in VerdictsOf(Top)
       /\ \A f \in {c, Top} : ~FirstAhead(f) /\ ~SecondAhead(f)
       /\ HoldsSecond(c) <=> verdict = "accepted"
       /\ HoldsSecond(Top) <=> verdict = "rejected"
       /\ c.pc # "unsubscribe" /\ "rejected" \in VerdictsOf(Top)
  <2>1. CASE verdict = "accepted"
    <3>1. VerdictsOf(c) = {"rejected"} /\ HoldsSecond(c) /\ ~FirstAhead(c) /\ ~SecondAhead(c) /\ c.pc # "unsubscribe"
      BY <1>2, <1>9, <2>1, Grips
    <3>2. VerdictsOf(Top) = Verdicts /\ ~HoldsSecond(Top) /\ ~FirstAhead(Top) /\ ~SecondAhead(Top)
      BY <1>1, <1>2, <2>1, Grips
    <3> QED
      BY <2>1, <3>1, <3>2 DEF Verdicts
  <2>2. CASE verdict # "accepted"
    <3>0. verdict = "rejected"
      BY <1>6, <2>2 DEF Verdicts
    <3>1. VerdictsOf(c) = {} /\ ~HoldsSecond(c) /\ ~FirstAhead(c) /\ ~SecondAhead(c) /\ c.pc # "unsubscribe"
      BY <1>2, <1>9, <2>2, Grips
    <3>2. VerdictsOf(Top) = {"rejected"} /\ HoldsSecond(Top) /\ ~FirstAhead(Top) /\ ~SecondAhead(Top)
      BY <1>1, <1>2, <2>2, Grips
    <3> QED
      BY <3>0, <3>1, <3>2
  <2> QED
    BY <2>1, <2>2
<1>12. GivenUp(c, action, verdict)
  BY <1>1, <1>2, <1>6, <1>10, <1>11 DEF GivenUp
<1>13. /\ TopicAt(e) = Topic(action, verdict) /\ UNCHANGED app
       /\ subList' = [subList EXCEPT ![e].free = TRUE] /\ subscribed' = subscribed \ {Topic(action, verdict)}
  BY <1>1, <1>2, <1>6, <1>7
<1> QED
  BY <1>6, <1>12, <1>13, FreedEntryKept DEF AskedInv

-----------------------------------------------------------------------------
(* Getting a topic. *)

\* While nothing is made inside another call, only one call subscribes.
LEMMA OneSubscriber ==
  ASSUME TypeInv, StackInv, SlotInv, ~reentered, ~Idle, Asks(Top)
  PROVE  \A f \in Subscribing : f = Top
<1> SUFFICES ASSUME NEW f \in Subscribing PROVE f = Top
  OBVIOUS
<1>1. PICK j \in 1..Len(stack) : stack[j] = f
  BY DEF Subscribing, Busy
<1>2. Top = stack[Len(stack)] /\ Len(stack) \in 1..Len(stack)
  BY TopBusy DEF SlotInv
<1>3. WellPlaced(stack[j]) /\ (FirstAhead(f) \/ SecondAhead(f))
  BY DEF StackInv, CallOK, Subscribing
<1>4. stack[j] \in Calls
  BY DEF TypeInv
<1>5. Asks(stack[j])
  <2>1. f.pc \in PcsOf(f.kind) /\ f.kind \in Kinds
    BY <1>1, <1>3, <1>4 DEF WellPlaced, Calls
  <2>2. f.pc \in {"publish", "subscribe accepted", "subscribe rejected", "withdraw"}
    BY <1>3 DEF FirstAhead, SecondAhead
  <2>3. f.kind = "request"
    BY <2>1, <2>2, PcOfKind
  <2> QED
    BY <1>1, <2>3 DEF Asks
<1>6. j = Len(stack)
  BY <1>2, <1>5, OneAsker
<1> QED
  BY <1>1, <1>2, <1>6

\* The call c is the innermost one, after it subscribed to a topic.
Gained(c, action, verdict) ==
  /\ GoneOn(c) /\ Asks(Top) /\ UNCHANGED ackWaitList /\ c.action = Top.action
  /\ action = Top.action /\ verdict \notin VerdictsOf(Top) /\ verdict \in Verdicts
  /\ VerdictsOf(c) = VerdictsOf(Top) \cup {verdict}
  /\ \A f \in Subscribing : f = Top
  /\ \A f \in {c, Top} : f.pc # "unsubscribe"

LEMMA GainedIs ==
  ASSUME TypeInv, StackInv, SlotInv, SlotInv', NEW c, NEW action, NEW verdict, Gained(c, action, verdict)
  PROVE  /\ \A f : f \in Subscribing' <=> f = c /\ (FirstAhead(c) \/ SecondAhead(c))
         /\ Halved' = Halved
         /\ \A f \in Unsubscribing' : f \in Unsubscribing /\ ActionOf(f)' = ActionOf(f)
         /\ \A b, w : b # action \/ w # verdict => Holders(b, w)' = Holders(b, w)
         /\ Cardinality(Holders(action, verdict))' = Cardinality(Holders(action, verdict)) + 1
         /\ action \in ActionNames
<1>1. /\ Top \in Busy /\ c.slot = Top.slot /\ c.slot \in Slots
      /\ ActionOf(c)' = ActionOf(Top)
      /\ \A f : f \in Busy' <=> f = c \/ (f \in Busy /\ f # Top)
      /\ \A f \in Busy \ {Top} : ActionOf(f)' = ActionOf(f) /\ f.slot # c.slot
      /\ \A i \in Slots : i # c.slot => \A b, w : Holds(i, b, w)' <=> Holds(i, b, w)
      /\ \A b, w : Holds(c.slot, b, w) <=> ActionOf(Top) = b /\ w \in VerdictsOf(Top)
      /\ \A b, w : Holds(c.slot, b, w)' <=> ActionOf(Top) = b /\ w \in VerdictsOf(c)
  BY GoneOnFrame DEF Gained
<1>2. ActionOf(Top) = action
  BY DEF Gained, ActionOf
<1>3. \A f : f \in Subscribing' <=> f = c /\ (FirstAhead(c) \/ SecondAhead(c))
  BY <1>1 DEF Subscribing, Gained
<1>4. \A f \in Unsubscribing' : f \in Unsubscribing /\ ActionOf(f)' = ActionOf(f)
  BY <1>1 DEF Unsubscribing, Gained
<1>5. ~Halving(c) /\ ~Halving(Top)
  BY DEF Gained, GoneOn, Halving, Handles, Asks
<1>6. Halved' = Halved
  <2>1. /\ \A a : a \in Halved <=> \E f \in Busy : Halving(f) /\ ActionOf(f) = a
        /\ \A a : a \in Halved' <=> \E f \in Busy' : Halving(f) /\ ActionOf(f)' = a
    BY DEF Halved, Halving
  <2>2. \A a : a \in Halved' <=> a \in Halved
    BY <1>1, <1>5, <2>1
  <2> QED
    BY <2>2
<1>7. ASSUME NEW b, NEW w, b # action \/ w # verdict PROVE Holders(b, w)' = Holders(b, w)
  BY <1>1, <1>2, <1>7, HoldersSame DEF Gained
<1>8. Cardinality(Holders(action, verdict))' = Cardinality(Holders(action, verdict)) + 1
  BY <1>1, <1>2, OneMoreHolder DEF Gained
<1>9. action \in ActionNames
  BY <1>1, <1>2, ActionNamed
<1> QED
  BY <1>3, <1>4, <1>6, <1>7, <1>8, <1>9

\* An entry becomes live for a topic nobody held.
NowLive(e, action, verdict, sticky) ==
  /\ e \in Entries \ Live /\ sticky \in app.sticky
  /\ \A i : i \in Live' <=> i \in Live \/ i = e
  /\ TopicAt(e)' = Topic(action, verdict) /\ \A i \in Live : TopicAt(i) # Topic(action, verdict)
  /\ \A i \in Live : subList'[i] = subList[i] /\ TopicAt(i)' = TopicAt(i)
  /\ \A i \in Entries \ Live' : /\ i < e => TopicAt(i)' # Topic(action, verdict)
                               /\ \A k \in Live : i < k => TopicAt(i)' # TopicAt(k)
  /\ subList'[e].count = 1 /\ subList'[e].sticky = sticky

LEMMA EntryGained ==
  ASSUME TypeInv, StackInv, SlotInv, SlotInv', TopicInv, NEW c, NEW action, NEW verdict, Gained(c, action, verdict), UNCHANGED app,
         NEW e, NEW sticky, NowLive(e, action, verdict, sticky), subscribed' = subscribed \cup {Topic(action, verdict)}
  PROVE  ListInv' /\ HoldInv' /\ UnsubInv'
<1>0. /\ e \in Entries \ Live /\ sticky \in app.sticky
      /\ \A i : i \in Live' <=> i \in Live \/ i = e
      /\ TopicAt(e)' = Topic(action, verdict) /\ \A i \in Live : TopicAt(i) # Topic(action, verdict)
      /\ \A i \in Live : subList'[i] = subList[i] /\ TopicAt(i)' = TopicAt(i)
      /\ \A i \in Entries \ Live' : /\ i < e => TopicAt(i)' # Topic(action, verdict)
                                   /\ \A k \in Live : i < k => TopicAt(i)' # TopicAt(k)
      /\ subList'[e].count = 1 /\ subList'[e].sticky = sticky
  BY DEF NowLive
<1>1. /\ \A f \in Unsubscribing' : f \in Unsubscribing /\ ActionOf(f)' = ActionOf(f)
      /\ \A b, w : b # action \/ w # verdict => Holders(b, w)' = Holders(b, w)
      /\ Cardinality(Holders(action, verdict))' = Cardinality(Holders(action, verdict)) + 1
      /\ action \in ActionNames
  BY GainedIs
<1>2. ListInv /\ HoldInv /\ UnsubInv /\ verdict \in Verdicts
  BY DEF TopicInv, Gained
<1>3. ListInv'
  <2>1. \A i, k \in Live' : TopicAt(i)' = TopicAt(k)' => i = k
    BY <1>0, <1>2 DEF ListInv
  <2>2. \A i \in Live', k \in Entries \ Live' : k < i => TopicAt(k)' # TopicAt(i)'
    BY <1>0
  <2>3. \A i \in Live' : TopicAt(i)'.verdict \in Verdicts /\ TopicAt(i)' \in subscribed' /\ subList'[i].count >= 1
    <3> SUFFICES ASSUME NEW i \in Live'
                 PROVE  TopicAt(i)'.verdict \in Verdicts /\ TopicAt(i)' \in subscribed' /\ subList'[i].count >= 1
      BY <1>0
    <3>1. CASE i \in Live
      BY <1>0, <1>2, <3>1 DEF ListInv
    <3>2. CASE i = e
      BY <1>0, <1>2, <3>2 DEF Topic
    <3> QED
      BY <1>0, <3>1, <3>2
  <2>4. \A t \in subscribed' : t = DeltaTopic \/ \E i \in Live' : TopicAt(i)' = t
    BY <1>0, <1>2 DEF ListInv
  <2> QED
    BY <1>0, <2>1, <2>2, <2>3, <2>4 DEF ListInv
<1>4. HoldInv'
  <2> SUFFICES ASSUME NEW b \in ActionNames, NEW w \in Verdicts
               PROVE  /\ Holders(b, w)' # {} => \E i \in Live' : TopicAt(i)' = Topic(b, w)
                      /\ \A i \in Live' : TopicAt(i)' = Topic(b, w) =>
                           /\ Cardinality(Holders(b, w))' <= subList'[i].count
                           /\ app.sticky = {FALSE} => Cardinality(Holders(b, w))' = subList'[i].count /\ ~subList'[i].sticky
    BY DEF HoldInv
  <2>1. /\ Holders(b, w) # {} => \E i \in Live : TopicAt(i) = Topic(b, w)
        /\ \A i \in Live : TopicAt(i) = Topic(b, w) =>
             /\ Cardinality(Holders(b, w)) <= subList[i].count
             /\ app.sticky = {FALSE} => Cardinality(Holders(b, w)) = subList[i].count /\ ~subList[i].sticky
    BY <1>0, <1>2 DEF HoldInv
  <2>2. CASE b = action /\ w = verdict
    <3>1. Holders(b, w) = {}
      BY <1>0, <2>1, <2>2
    <3>2. Cardinality(Holders(b, w)) = 0
      BY <1>0, <3>1, FS_EmptySet
    <3>3. Cardinality(Holders(b, w))' = 1
      BY <1>0, <1>1, <2>2, <3>2
    <3>4. \A i \in Live' : TopicAt(i)' = Topic(b, w) => i = e
      BY <1>0, <2>2
    <3>5. app.sticky = {FALSE} => ~subList'[e].sticky
      BY <1>0
    <3>6. TopicAt(e)' = Topic(b, w) /\ e \in Live'
      BY <1>0, <2>2
    <3>7. Cardinality(Holders(b, w))' <= subList'[e].count /\ Cardinality(Holders(b, w))' = subList'[e].count
      BY <1>0, <3>3
    <3> QED
      BY <1>0, <3>4, <3>5, <3>6, <3>7
  <2>3. CASE b # action \/ w # verdict
    <3>1. Holders(b, w)' = Holders(b, w)
      BY <1>0, <1>1, <2>3
    <3>2. Topic(b, w) # Topic(action, verdict)
      BY <1>0, <2>3 DEF Topic
    <3>3. \A i \in Live' : TopicAt(i)' = Topic(b, w) => i \in Live /\ TopicAt(i) = Topic(b, w) /\ subList'[i] = subList[i]
      BY <1>0, <3>2
    <3>4. Holders(b, w)' # {} => \E i \in Live' : TopicAt(i)' = Topic(b, w)
      BY <1>0, <2>1, <3>1
    <3>5. ASSUME NEW i \in Live', TopicAt(i)' = Topic(b, w)
          PROVE  /\ Cardinality(Holders(b, w))' <= subList'[i].count
                 /\ app.sticky = {FALSE} => Cardinality(Holders(b, w))' = subList'[i].count /\ ~subList'[i].sticky
      <4>1. i \in Live /\ TopicAt(i) = Topic(b, w) /\ subList'[i] = subList[i]
        BY <1>0, <3>3, <3>5
      <4> QED
        BY <1>0, <2>1, <3>1, <4>1
    <3> QED
      BY <1>0, <3>4, <3>5
  <2> QED
    BY <1>0, <2>2, <2>3
<1>5. UnsubInv'
  <2> SUFFICES ASSUME NEW f \in Unsubscribing' PROVE Last1(f)'
    BY DEF UnsubInv
  <2>1. f \in Unsubscribing /\ ActionOf(f)' = ActionOf(f)
    BY <1>0, <1>1
  <2>2. Last1(f)
    BY <1>0, <1>2, <2>1 DEF UnsubInv
  <2>3. f.entry \in Live' /\ subList'[f.entry] = subList[f.entry] /\ TopicAt(f.entry)' = TopicAt(f.entry)
    BY <1>0, <2>2 DEF Last1
  <2> QED
    BY <1>0, <2>1, <2>2, <2>3 DEF Last1
<1> QED
  BY <1>3, <1>4, <1>5

LEMMA FirstGained ==
  ASSUME TypeInv, StackInv, SlotInv, SlotInv', TopicInv, UNCHANGED app,
         NEW c, NEW f \in Subscribing, NEW action, NEW sticky, NEW e \in Entries, NEW r \in Entries, e # r,
         Gained(c, action, "accepted"), \A g \in Subscribing : g = f, \A g : g \in Subscribing' <=> g = c, Halved' = Halved,
         FirstAhead(f), f.entry = e, f.rejected = r, f.action = action, f.sticky = sticky,
         ~FirstAhead(c), c.rejected = r, c.action = action, c.sticky = sticky,
         subList' = [subList EXCEPT ![e].count = 1, ![e].sticky = sticky, ![r].topic = Topic(action, "rejected")],
         subscribed' = subscribed \cup {Topic(action, "accepted")}
  PROVE  TopicInv'
<1>1. ListInv /\ ClaimInv /\ HoldInv /\ PairInv /\ UnsubInv
  BY DEF TopicInv
<1>2. ClaimedBy(f) = {e, r} /\ ClaimedBy(c) = {r} /\ Claims(c) = {<<r, Topic(action, "rejected")>>}
      /\ Claims(f) = {<<e, Topic(action, "accepted")>>, <<r, Topic(action, "rejected")>>}
  BY DEF ClaimedBy, Claims
<1>3. /\ ~subList[e].free /\ \A i \in Live : TopicAt(i) # Topic(action, "accepted")
      /\ \A i \in Entries \ Live : i < e => TopicAt(i) # Topic(action, "accepted")
      /\ ~subList[r].free /\ \A i \in Live : TopicAt(i) # Topic(action, "rejected")
      /\ \A i \in Entries \ Live : i < r => TopicAt(i) # Topic(action, "rejected")
      /\ TopicAt(e) = Topic(action, "accepted") /\ sticky \in app.sticky
  <2>1. <<e, Topic(action, "accepted")>> \in Claims(f) /\ <<r, Topic(action, "rejected")>> \in Claims(f)
    BY <1>2
  <2> QED
    BY <1>1, <2>1 DEF ClaimInv
<1>4. e \notin Live /\ r \notin Live /\ Live \subseteq Entries
  BY <1>2 DEF Live
<1>5. /\ \A i \in Entries : i # e /\ i # r => subList'[i] = subList[i]
      /\ subList'[e].count = 1 /\ subList'[e].sticky = sticky /\ subList'[e].topic = subList[e].topic
      /\ subList'[r].topic = Topic(action, "rejected")
      /\ \A i \in Entries : subList'[i].free = subList[i].free
  <2>1. subList \in [Entries -> EntryRecords]
    BY DEF TypeInv
  <2>2. \A i \in Entries : i # e /\ i # r => subList'[i] = subList[i]
    BY <2>1
  <2>3. /\ subList'[e].count = 1 /\ subList'[e].sticky = sticky /\ subList'[e].topic = subList[e].topic
        /\ subList'[e].free = subList[e].free
    BY <2>1 DEF EntryRecords
  <2>4. subList'[r].topic = Topic(action, "rejected") /\ subList'[r].free = subList[r].free
    BY <2>1 DEF EntryRecords
  <2> QED
    BY <2>2, <2>3, <2>4
<1>6. /\ \A i \in Entries : i # r => TopicAt(i)' = TopicAt(i)
      /\ TopicAt(r)' = Topic(action, "rejected")
  BY <1>5 DEF TopicAt
<1>7. \A i : i \in Live' <=> i \in Live \/ i = e
  <2>1. \A i : i \in Live <=> i \in Entries /\ ~subList[i].free /\ i # e /\ i # r
    BY <1>2 DEF Live
  <2>2. \A i : i \in Live' <=> i \in Entries /\ ~subList'[i].free /\ i # r
    BY <1>2 DEF Live
  <2> QED
    BY <1>3, <1>5, <2>1, <2>2
<1>8. \A i \in Live : subList'[i] = subList[i] /\ TopicAt(i)' = TopicAt(i) /\ i # e /\ i # r
  BY <1>4, <1>5, <1>6
<1>9. Topic(action, "accepted") # Topic(action, "rejected")
  BY DEF Topic
<1>10. \A i \in Entries \ Live' : /\ i < e => TopicAt(i)' # Topic(action, "accepted")
                                  /\ \A k \in Live : i < k => TopicAt(i)' # TopicAt(k)
  <2> SUFFICES ASSUME NEW i \in Entries \ Live'
               PROVE  /\ i < e => TopicAt(i)' # Topic(action, "accepted")
                      /\ \A k \in Live : i < k => TopicAt(i)' # TopicAt(k)
    OBVIOUS
  <2>1. CASE i = r
    BY <1>3, <1>6, <1>9, <2>1
  <2>2. CASE i # r
    <3>1. TopicAt(i)' = TopicAt(i) /\ i \in Entries \ Live
      BY <1>6, <1>7, <2>2
    <3> QED
      BY <1>1, <1>3, <3>1 DEF ListInv
  <2> QED
    BY <2>1, <2>2
<1>11. TopicAt(e)' = Topic(action, "accepted")
  BY <1>3, <1>6
<1>12. ListInv' /\ HoldInv' /\ UnsubInv'
  <2>1. e \in Entries \ Live /\ sticky \in app.sticky /\ \A i \in Live : TopicAt(i) # Topic(action, "accepted")
    BY <1>3, <1>4
  <2>2. \A i \in Live : subList'[i] = subList[i] /\ TopicAt(i)' = TopicAt(i)
    BY <1>8
  <2>3. subList'[e].count = 1 /\ subList'[e].sticky = sticky
    BY <1>5
  <2>4. NowLive(e, action, "accepted", sticky)
    BY <1>7, <1>10, <1>11, <2>1, <2>2, <2>3 DEF NowLive
  <2> QED
    BY <2>4, EntryGained
<1>13. ClaimInv'
  <2>1. \A i \in Live' : TopicAt(i)' # Topic(action, "rejected")
    BY <1>3, <1>7, <1>8, <1>9, <1>11
  <2>2. \A i \in Entries \ Live' : i < r => TopicAt(i)' # Topic(action, "rejected")
    <3> SUFFICES ASSUME NEW i \in Entries \ Live', i < r PROVE TopicAt(i)' # Topic(action, "rejected")
      OBVIOUS
    <3>1. i # r
      BY SlotsAndEntries
    <3>2. TopicAt(i)' = TopicAt(i) /\ i \in Entries \ Live
      BY <1>6, <1>7, <3>1
    <3> QED
      BY <1>3, <3>2
  <2>3. e \in Live' /\ ~subList'[r].free
    BY <1>3, <1>5, <1>7
  <2> SUFFICES ASSUME NEW g \in Subscribing'
               PROVE  /\ \A claim \in Claims(g) :
                           /\ ~subList'[claim[1]].free
                           /\ \A i \in Live' : TopicAt(i)' # claim[2]
                           /\ \A i \in Entries \ Live' : i < claim[1] => TopicAt(i)' # claim[2]
                      /\ IF FirstAhead(g) THEN TopicAt(g.entry)' = Topic(g.action, "accepted")
                         ELSE /\ TopicAt(g.rejected)' = Topic(g.action, "rejected")
                              /\ \E i \in Live' : /\ TopicAt(i)' = Topic(g.action, "accepted")
                                                   /\ subList'[i].count = 1 /\ subList'[i].sticky = g.sticky
                      /\ g.sticky \in app.sticky
    BY DEF ClaimInv
  <2>4. g = c
    OBVIOUS
  <2>5. ASSUME NEW claim \in Claims(g)
        PROVE  /\ ~subList'[claim[1]].free
               /\ \A i \in Live' : TopicAt(i)' # claim[2]
               /\ \A i \in Entries \ Live' : i < claim[1] => TopicAt(i)' # claim[2]
    BY <1>2, <2>1, <2>2, <2>3, <2>4
  <2>6. TopicAt(g.rejected)' = Topic(g.action, "rejected")
    <3>1. g.rejected = r /\ g.action = action
      BY <2>4
    <3> QED
      BY <1>6, <3>1
  <2>7. \E i \in Live' : TopicAt(i)' = Topic(g.action, "accepted") /\ subList'[i].count = 1 /\ subList'[i].sticky = g.sticky
    BY <1>5, <1>11, <2>3, <2>4
  <2> QED
    BY <1>3, <2>4, <2>5, <2>6, <2>7
<1>14. PairInv'
  <2>1. Half' = Half /\ action \in Half
    <3>1. {g.action : g \in Subscribing} = {action} /\ {g.action : g \in Subscribing'} = {action}
      OBVIOUS
    <3> QED
      BY <3>1 DEF Half
  <2>2. ASSUME NEW i \in Live', TopicAt(i)'.action \notin Half' PROVE Paired(i)'
    <3>1. i # e
      BY <1>11, <2>1, <2>2 DEF Topic
    <3>2. i \in Live
      BY <1>7, <3>1
    <3>3. TopicAt(i).action \notin Half
      BY <1>8, <2>1, <2>2, <3>2
    <3>4. PICK p \in Live : /\ TopicAt(p).action = TopicAt(i).action /\ TopicAt(p).verdict # TopicAt(i).verdict
                            /\ subList[p].count = subList[i].count /\ subList[p].sticky = subList[i].sticky
      BY <1>1, <3>2, <3>3 DEF PairInv, Paired
    <3> QED
      BY <1>7, <1>8, <3>2, <3>4 DEF Paired
  <2>3. ASSUME NEW b \in Halved PROVE Parted(b)'
    <3>1. Parted(b)
      BY <1>1 DEF PairInv
    <3> SUFFICES ASSUME NEW k \in Live', TopicAt(k)' = Topic(b, "rejected")
                 PROVE  IF subList'[k].count > 1 \/ subList'[k].sticky
                        THEN \E i \in Live' : /\ TopicAt(i)' = Topic(b, "accepted") /\ subList'[i].sticky = subList'[k].sticky
                                             /\ subList'[i].count = IF subList'[k].count > 1 THEN subList'[k].count - 1 ELSE subList'[k].count
                        ELSE \A i \in Live' : TopicAt(i)' # Topic(b, "accepted")
      BY DEF Parted
    <3>2. k # e
      BY <1>11 DEF Topic
    <3>3. k \in Live /\ TopicAt(k) = Topic(b, "rejected") /\ subList'[k] = subList[k]
      BY <1>7, <1>8, <3>2
    <3>4. b # action
      BY <1>3, <3>3
    <3>5. TopicAt(e)' # Topic(b, "accepted")
      BY <1>11, <3>4 DEF Topic
    <3>6. CASE subList[k].count > 1 \/ subList[k].sticky
      <4>1. PICK i \in Live : /\ TopicAt(i) = Topic(b, "accepted") /\ subList[i].sticky = subList[k].sticky
                              /\ subList[i].count = IF subList[k].count > 1 THEN subList[k].count - 1 ELSE subList[k].count
        BY <3>1, <3>3, <3>6 DEF Parted
      <4>2. i \in Live' /\ TopicAt(i)' = Topic(b, "accepted") /\ subList'[i] = subList[i]
        BY <1>7, <1>8, <4>1
      <4> QED
        BY <3>3, <3>6, <4>1, <4>2
    <3>7. CASE ~(subList[k].count > 1 \/ subList[k].sticky)
      <4>1. \A i \in Live : TopicAt(i) # Topic(b, "accepted")
        BY <3>1, <3>3, <3>7 DEF Parted
      <4>2. \A i \in Live' : TopicAt(i)' # Topic(b, "accepted")
        BY <1>7, <1>8, <3>5, <4>1
      <4>3. ~(subList'[k].count > 1 \/ subList'[k].sticky)
        BY <3>3, <3>7
      <4> QED
        BY <4>2, <4>3
    <3> QED
      BY <3>6, <3>7
  <2> QED
    BY <2>2, <2>3 DEF PairInv
<1> QED
  BY <1>12, <1>13, <1>14 DEF TopicInv

\* The first topic is subscribed to: its entry becomes live, and the other one is for the second topic.
LEMMA SubscribeAcceptedKept ==
  ASSUME AskedInv, SlotInv, SlotInv', TopicInv, SubscribeAccepted, UNCHANGED failures, ~reentered
  PROVE  TopicInv'
<1>1. /\ ~Idle /\ Top.kind = "request" /\ Top \in Calls /\ Top.entry \in Entries /\ Top.rejected \in Entries \ {Top.entry}
      /\ Top.pc = "subscribe accepted" /\ GoOn(NextPc("subscribe rejected"))
      /\ subscribed' = subscribed \cup {Topic(Top.action, "accepted")}
      /\ subList' = [subList EXCEPT ![Top.entry].count = 1, ![Top.entry].sticky = Top.sticky,
                                    ![Top.rejected].topic = Topic(Top.action, "rejected")]
      /\ UNCHANGED <<app, ackWaitList, requests>>
  BY SubscribesCalmly DEF AskedInv
<1>2. PICK f, action, sticky, e, r, c :
        /\ f = Top /\ action = Top.action /\ sticky = Top.sticky /\ e = Top.entry /\ r = Top.rejected
        /\ c = NextPc("subscribe rejected")
  OBVIOUS
<1>3. SecondAhead(c) /\ Same(c, Top) /\ Resumed(c)
  <2>1. "subscribe rejected" \in PcsOf(Top.kind)
    BY <1>1, RequestPcs
  <2> QED
    BY <1>1, <1>2, <2>1, GoesOn DEF AskedInv, SecondAhead
<1>4. FirstAhead(Top) /\ f \in Subscribing /\ Asks(Top)
  BY <1>1, <1>2, TopBusy DEF FirstAhead, Subscribing, AskedInv, SlotInv, Kin, Asks
<1>5. \A g \in Subscribing : g = Top
  BY <1>1, <1>4, OneSubscriber DEF AskedInv
<1>6. Gained(c, action, "accepted")
  <2>1. GoneOn(c) /\ c.action = Top.action
    BY <1>1, <1>3 DEF GoneOn, Same, Kin
  <2>2. VerdictsOf(Top) = {} /\ VerdictsOf(c) = {"accepted"} /\ c.pc # "unsubscribe" /\ Top.pc # "unsubscribe"
    BY <1>3, <1>4, Grips
  <2> QED
    BY <1>1, <1>2, <1>4, <1>5, <2>1, <2>2 DEF Gained, Verdicts
<1>7. /\ \A g : g \in Subscribing' <=> g = c
      /\ Halved' = Halved
  BY <1>3, <1>6, GainedIs DEF AskedInv
<1>8. c.rejected = r /\ c.action = action /\ c.sticky = sticky /\ ~FirstAhead(c)
  BY <1>2, <1>3, Grips DEF Same
<1>9. /\ e \in Entries /\ r \in Entries /\ e # r /\ f.entry = e /\ f.rejected = r /\ f.action = action /\ f.sticky = sticky
      /\ FirstAhead(f)
      /\ subList' = [subList EXCEPT ![e].count = 1, ![e].sticky = sticky, ![r].topic = Topic(action, "rejected")]
      /\ subscribed' = subscribed \cup {Topic(action, "accepted")}
      /\ \A g \in Subscribing : g = f
  BY <1>1, <1>2, <1>4, <1>5
<1>10. UNCHANGED app /\ TypeInv /\ StackInv
  BY <1>1 DEF AskedInv
<1> QED
  BY <1>4, <1>6, <1>7, <1>8, <1>9, <1>10, FirstGained

LEMMA SecondGained ==
  ASSUME TypeInv, StackInv, SlotInv, SlotInv', TopicInv, UNCHANGED app,
         NEW c, NEW f \in Subscribing, NEW action, NEW sticky, NEW r \in Entries,
         Gained(c, action, "rejected"), \A g \in Subscribing : g = f, Subscribing' = {}, Halved' = Halved,
         ~FirstAhead(f), f.rejected = r, f.action = action, f.sticky = sticky,
         subList' = [subList EXCEPT ![r].count = 1, ![r].sticky = sticky],
         subscribed' = subscribed \cup {Topic(action, "rejected")}
  PROVE  TopicInv'
<1>1. ListInv /\ ClaimInv /\ HoldInv /\ PairInv /\ UnsubInv
  BY DEF TopicInv
<1>2. ClaimedBy(f) = {r} /\ Claims(f) = {<<r, Topic(action, "rejected")>>}
  BY DEF ClaimedBy, Claims
<1>3. /\ ~subList[r].free /\ \A i \in Live : TopicAt(i) # Topic(action, "rejected")
      /\ \A i \in Entries \ Live : i < r => TopicAt(i) # Topic(action, "rejected")
      /\ TopicAt(r) = Topic(action, "rejected") /\ sticky \in app.sticky
      /\ \E i \in Live : TopicAt(i) = Topic(action, "accepted") /\ subList[i].count = 1 /\ subList[i].sticky = sticky
  <2>1. <<r, Topic(action, "rejected")>> \in Claims(f)
    BY <1>2
  <2> QED
    BY <1>1, <2>1 DEF ClaimInv
<1>4. r \notin Live /\ Live \subseteq Entries
  BY <1>2 DEF Live
<1>5. /\ \A i \in Entries : i # r => subList'[i] = subList[i]
      /\ subList'[r].count = 1 /\ subList'[r].sticky = sticky
      /\ \A i \in Entries : subList'[i].free = subList[i].free /\ subList'[i].topic = subList[i].topic
  BY DEF TypeInv, EntryRecords
<1>6. \A i \in Entries : TopicAt(i)' = TopicAt(i)
  BY <1>5 DEF TopicAt
<1>7. \A i : i \in Live' <=> i \in Live \/ i = r
  <2>1. \A i : i \in Live <=> i \in Entries /\ ~subList[i].free /\ i # r
    BY <1>2 DEF Live
  <2>2. \A i : i \in Live' <=> i \in Entries /\ ~subList'[i].free
    BY DEF Live
  <2> QED
    BY <1>3, <1>5, <2>1, <2>2
<1>8. \A i \in Live : subList'[i] = subList[i] /\ TopicAt(i)' = TopicAt(i)
  BY <1>4, <1>5, <1>6
<1>9. \A i \in Entries \ Live' : /\ i < r => TopicAt(i)' # Topic(action, "rejected")
                                 /\ \A k \in Live : i < k => TopicAt(i)' # TopicAt(k)
  <2> SUFFICES ASSUME NEW i \in Entries \ Live'
               PROVE  /\ i < r => TopicAt(i)' # Topic(action, "rejected")
                      /\ \A k \in Live : i < k => TopicAt(i)' # TopicAt(k)
    OBVIOUS
  <2>1. TopicAt(i)' = TopicAt(i) /\ i \in Entries \ Live
    BY <1>6, <1>7
  <2> QED
    BY <1>1, <1>3, <2>1 DEF ListInv
<1>10. TopicAt(r)' = Topic(action, "rejected")
  BY <1>3, <1>6
<1>11. ListInv' /\ HoldInv' /\ UnsubInv'
  <2>1. r \in Entries \ Live /\ sticky \in app.sticky /\ \A i \in Live : TopicAt(i) # Topic(action, "rejected")
    BY <1>3, <1>4
  <2>2. subList'[r].count = 1 /\ subList'[r].sticky = sticky
    BY <1>5
  <2>3. NowLive(r, action, "rejected", sticky)
    BY <1>7, <1>8, <1>9, <1>10, <2>1, <2>2 DEF NowLive
  <2> QED
    BY <2>3, EntryGained
<1>12. ClaimInv'
  BY DEF ClaimInv
<1>13. PairInv'
  <2>1. Half = Halved \cup {action} /\ Half' = Halved
    BY DEF Half
  <2>2. action \notin Halved
    <3> SUFFICES ASSUME NEW g \in Busy, Handles(g), HoldsSecond(g), ActionOf(g) = action PROVE FALSE
      BY DEF Halved
    <3>1. "rejected" \in VerdictsOf(g)
      BY Grips DEF VerdictsOf, HoldsSecond, HoldsBoth, SecondAhead, Verdicts
    <3>2. \E i \in Live : TopicAt(i) = Topic(action, "rejected")
      BY <3>1, HolderEntry DEF Verdicts
    <3> QED
      BY <1>3, <3>2
  <2>3. PICK p \in Live : TopicAt(p) = Topic(action, "accepted") /\ subList[p].count = 1 /\ subList[p].sticky = sticky
    BY <1>3
  <2>4. p # r /\ p \in Live' /\ r \in Live' /\ TopicAt(p)' = Topic(action, "accepted") /\ subList'[p] = subList[p]
    BY <1>4, <1>7, <1>8, <2>3
  <2>5. TopicAt(p)'.action = action /\ TopicAt(r)'.action = action /\ TopicAt(p)'.verdict # TopicAt(r)'.verdict
    BY <1>10, <2>4 DEF Topic
  <2>6. subList'[p].count = subList'[r].count /\ subList'[p].sticky = subList'[r].sticky
    BY <1>5, <2>3, <2>4
  <2>7. Paired(p)' /\ Paired(r)'
    BY <2>4, <2>5, <2>6 DEF Paired
  <2>8. ASSUME NEW i \in Live', TopicAt(i)'.action \notin Half' PROVE Paired(i)'
    <3>1. CASE i = r
      BY <2>7, <3>1
    <3>2. CASE i # r /\ TopicAt(i)'.action = action
      <4>1. i \in Live /\ TopicAt(i) \in TopicNames /\ TopicAt(i).action = action /\ TopicAt(i).verdict \in Verdicts
        BY <1>1, <1>4, <1>7, <1>8, <3>2 DEF TopicAt, TypeInv, EntryRecords, ListInv
      <4>2. TopicAt(i) = Topic(action, "accepted") \/ TopicAt(i) = Topic(action, "rejected")
        BY <4>1 DEF Topic, TopicNames, Verdicts
      <4>3. i = p
        BY <1>1, <1>3, <2>3, <4>1, <4>2 DEF ListInv
      <4> QED
        BY <2>7, <4>3
    <3>3. CASE i # r /\ TopicAt(i)'.action # action
      <4>1. i \in Live /\ TopicAt(i)' = TopicAt(i)
        BY <1>7, <1>8, <3>3
      <4>2. TopicAt(i).action \notin Half
        BY <2>1, <2>8, <3>3, <4>1
      <4>3. PICK k \in Live : /\ TopicAt(k).action = TopicAt(i).action /\ TopicAt(k).verdict # TopicAt(i).verdict
                              /\ subList[k].count = subList[i].count /\ subList[k].sticky = subList[i].sticky
        BY <1>1, <4>1, <4>2 DEF PairInv, Paired
      <4> QED
        BY <1>7, <1>8, <4>1, <4>3 DEF Paired
    <3> QED
      BY <3>1, <3>2, <3>3
  <2>9. ASSUME NEW b \in Halved PROVE Parted(b)'
    <3>1. Parted(b) /\ b # action
      BY <1>1, <2>2 DEF PairInv
    <3> SUFFICES ASSUME NEW k \in Live', TopicAt(k)' = Topic(b, "rejected")
                 PROVE  IF subList'[k].count > 1 \/ subList'[k].sticky
                        THEN \E i \in Live' : /\ TopicAt(i)' = Topic(b, "accepted") /\ subList'[i].sticky = subList'[k].sticky
                                             /\ subList'[i].count = IF subList'[k].count > 1 THEN subList'[k].count - 1 ELSE subList'[k].count
                        ELSE \A i \in Live' : TopicAt(i)' # Topic(b, "accepted")
      BY DEF Parted
    <3>2. k # r
      BY <1>10, <3>1 DEF Topic
    <3>3. k \in Live /\ TopicAt(k) = Topic(b, "rejected") /\ subList'[k] = subList[k]
      BY <1>7, <1>8, <3>2
    <3>5. TopicAt(r)' # Topic(b, "accepted")
      BY <1>10, <3>1 DEF Topic
    <3>6. CASE subList[k].count > 1 \/ subList[k].sticky
      <4>1. PICK i \in Live : /\ TopicAt(i) = Topic(b, "accepted") /\ subList[i].sticky = subList[k].sticky
                              /\ subList[i].count = IF subList[k].count > 1 THEN subList[k].count - 1 ELSE subList[k].count
        BY <3>1, <3>3, <3>6 DEF Parted
      <4>2. i \in Live' /\ TopicAt(i)' = Topic(b, "accepted") /\ subList'[i] = subList[i]
        BY <1>7, <1>8, <4>1
      <4> QED
        BY <3>3, <3>6, <4>1, <4>2
    <3>7. CASE ~(subList[k].count > 1 \/ subList[k].sticky)
      <4>1. \A i \in Live : TopicAt(i) # Topic(b, "accepted")
        BY <3>1, <3>3, <3>7 DEF Parted
      <4> QED
        BY <1>7, <1>8, <3>3, <3>5, <3>7, <4>1
    <3> QED
      BY <3>6, <3>7
  <2> QED
    BY <2>8, <2>9 DEF PairInv
<1> QED
  BY <1>11, <1>12, <1>13 DEF TopicInv

\* The second topic is subscribed to: its entry becomes live as well, and they make a pair.
LEMMA SubscribeRejectedKept ==
  ASSUME AskedInv, SlotInv, SlotInv', TopicInv, SubscribeRejected, UNCHANGED failures, ~reentered
  PROVE  TopicInv'
<1>0. ~SubscribeAccepted
  BY DEF SubscribeAccepted, SubscribeRejected, At
<1>1. /\ ~Idle /\ Top.kind = "request" /\ Top \in Calls /\ Top.rejected \in Entries
      /\ Top.pc = "subscribe rejected" /\ GoOn(NextPc("publish"))
      /\ subscribed' = subscribed \cup {Topic(Top.action, "rejected")}
      /\ subList' = [subList EXCEPT ![Top.rejected].count = 1, ![Top.rejected].sticky = Top.sticky]
      /\ UNCHANGED <<app, ackWaitList, requests>>
  BY <1>0, SubscribesCalmly DEF AskedInv
<1>2. PICK f, action, sticky, r, c :
        f = Top /\ action = Top.action /\ sticky = Top.sticky /\ r = Top.rejected /\ c = NextPc("publish")
  OBVIOUS
<1>3. c.pc = "publish" /\ Same(c, Top) /\ Resumed(c)
  <2>1. "publish" \in PcsOf(Top.kind)
    BY <1>1, RequestPcs
  <2> QED
    BY <1>1, <1>2, <2>1, GoesOn DEF AskedInv
<1>4. SecondAhead(Top) /\ f \in Subscribing /\ Asks(Top)
  BY <1>1, <1>2, TopBusy DEF SecondAhead, Subscribing, AskedInv, SlotInv, Kin, Asks
<1>5. \A g \in Subscribing : g = Top
  BY <1>1, <1>4, OneSubscriber DEF AskedInv
<1>6. Gained(c, action, "rejected")
  <2>1. GoneOn(c) /\ c.action = Top.action
    BY <1>1, <1>3 DEF GoneOn, Same, Kin
  <2>2. VerdictsOf(Top) = {"accepted"} /\ VerdictsOf(c) = Verdicts /\ c.pc # "unsubscribe" /\ Top.pc # "unsubscribe"
    BY <1>3, <1>4, Grips
  <2> QED
    BY <1>1, <1>2, <1>4, <1>5, <2>1, <2>2 DEF Gained, Verdicts
<1>7. Subscribing' = {} /\ Halved' = Halved
  BY <1>3, <1>6, GainedIs, Grips DEF AskedInv
<1>8. /\ r \in Entries /\ f.rejected = r /\ f.action = action /\ f.sticky = sticky /\ ~FirstAhead(f)
      /\ subList' = [subList EXCEPT ![r].count = 1, ![r].sticky = sticky]
      /\ subscribed' = subscribed \cup {Topic(action, "rejected")}
      /\ \A g \in Subscribing : g = f
  BY <1>1, <1>2, <1>4, <1>5, Grips
<1>9. UNCHANGED app /\ TypeInv /\ StackInv
  BY <1>1 DEF AskedInv
<1> QED
  BY <1>4, <1>6, <1>7, <1>8, <1>9, SecondGained

-----------------------------------------------------------------------------
(* A request begins. *)

LEMMA RequestFrame ==
  ASSUME TypeInv, SlotInv, SlotInv', UNCHANGED ackWaitList, \A f \in Busy : f.kind = "answer" /\ f.pc = "callback",
         NEW c, Busy' = Busy \cup {c}, c.kind = "request", c.slot \in Slots \ InUse, c.pc # "unsubscribe"
  PROVE  /\ Subscribing = {} /\ Halved = {} /\ Halved' = {} /\ Unsubscribing' = {}
         /\ \A f : f \in Subscribing' <=> f = c /\ (FirstAhead(c) \/ SecondAhead(c))
         /\ \A i \in Slots : i # c.slot => \A b, w : Holds(i, b, w)' <=> Holds(i, b, w)
         /\ \A b, w : ~Holds(c.slot, b, w)
         /\ \A b, w : Holds(c.slot, b, w)' <=> c.action = b /\ w \in VerdictsOf(c)
<1>1. HeldInv /\ HeldInv'
  BY HeldIs, PTL
<1>2. InUse' = InUse
  BY SameRecords
<1>3. \A f \in Busy : ~FirstAhead(f) /\ ~SecondAhead(f) /\ ~HoldsSecond(f) /\ f.pc # "unsubscribe"
  BY Grips
<1>4. \A f \in Busy : f.slot # c.slot
  BY DEF SlotInv, RecordInv, HasRecord, Tells
<1>5. Subscribing = {} /\ Halved = {} /\ Halved' = {} /\ Unsubscribing' = {}
  <2>1. Subscribing = {}
    BY <1>3 DEF Subscribing
  <2>2. Halved = {}
    BY <1>3 DEF Halved
  <2>3. Halved' = {}
    BY <1>3 DEF Halved, Handles
  <2>4. Unsubscribing' = {}
    BY <1>3 DEF Unsubscribing
  <2> QED
    BY <2>1, <2>2, <2>3, <2>4
<1>6. \A f : f \in Subscribing' <=> f = c /\ (FirstAhead(c) \/ SecondAhead(c))
  BY <1>3 DEF Subscribing
<1>7. \A i \in Slots : i # c.slot => \A b, w : Holds(i, b, w)' <=> Holds(i, b, w)
  <2> DEFINE S == {c.slot}
  <2>1. \A i : i \in S <=> i = c.slot
    OBVIOUS
  <2>2. Elsewhere(S)
    BY <1>2 DEF Elsewhere
  <2> HIDE DEF S
  <2> QED
    BY <2>1, <2>2, HoldsElsewhere
<1>8. \A b, w : ~Holds(c.slot, b, w)
  BY <1>1, <1>4 DEF HeldInv
<1>9. ActionOf(c)' = c.action
  BY DEF ActionOf, Asks
<1>10. \A b, w : Holds(c.slot, b, w)' <=> c.action = b /\ w \in VerdictsOf(c)
  BY <1>1, <1>9 DEF HeldInv
<1> QED
  BY <1>5, <1>6, <1>7, <1>8, <1>10

\* Both topics have entries, which count one more.
LEMMA CountedKept ==
  ASSUME TypeInv, SlotInv, SlotInv', TopicInv, UNCHANGED <<app, subscribed, ackWaitList>>,
         \A f \in Busy : f.kind = "answer" /\ f.pc = "callback",
         NEW c, Busy' = Busy \cup {c}, c.kind = "request", c.slot \in Slots \ InUse, c.pc = "publish",
         NEW action, NEW sticky \in app.sticky, action = c.action, IsSubscriptionPresent(action),
         IncrementSubscriptionCnt(action, sticky)
  PROVE  TopicInv'
<1>1. VerdictsOf(c) = Verdicts /\ ~FirstAhead(c) /\ ~SecondAhead(c) /\ c.pc # "unsubscribe"
  BY Grips
<1>2. /\ Subscribing = {} /\ Halved = {} /\ Halved' = {} /\ Unsubscribing' = {}
      /\ \A f : f \in Subscribing' <=> f = c /\ (FirstAhead(c) \/ SecondAhead(c))
      /\ \A i \in Slots : i # c.slot => \A b, w : Holds(i, b, w)' <=> Holds(i, b, w)
      /\ \A b, w : ~Holds(c.slot, b, w)
      /\ \A b, w : Holds(c.slot, b, w)' <=> c.action = b /\ w \in VerdictsOf(c)
  BY <1>1, RequestFrame
<1>3. Subscribing' = {} /\ Half = {} /\ Half' = {}
  BY <1>1, <1>2 DEF Half
<1>4. ListInv /\ HoldInv /\ PairInv
  BY DEF TopicInv
<1>5. /\ \A i : i \in Live <=> i \in Entries /\ ~subList[i].free
      /\ \A i : i \in Live' <=> i \in Entries /\ ~subList'[i].free
  BY <1>2, <1>3 DEF Live
<1>6. \A i \in Entries : TopicAt(i) \in TopicNames /\ subList[i].count \in Nat
  BY DEF TypeInv, TopicAt, EntryRecords
<1>7. \A i \in Entries : subList'[i] = IF ~subList[i].free /\ TopicAt(i) \in AckTopics(action)
                                        THEN [subList[i] EXCEPT !.count = @ + 1, !.sticky = sticky] ELSE subList[i]
  BY DEF IncrementSubscriptionCnt, TopicAt
<1>8. \A i \in Entries : TopicAt(i) \notin AckTopics(action) => subList'[i] = subList[i]
  BY <1>7
<1>9. ASSUME NEW i \in Live, TopicAt(i) \in AckTopics(action)
      PROVE  /\ subList'[i].count = subList[i].count + 1 /\ subList'[i].sticky = sticky
             /\ subList'[i].free = subList[i].free /\ subList'[i].topic = subList[i].topic
  <2> DEFINE n == subList[i].count + 1
  <2>1. i \in Entries /\ ~subList[i].free
    BY <1>5
  <2>2. subList'[i] = [subList[i] EXCEPT !.count = n, !.sticky = sticky]
    BY <1>7, <1>9, <2>1
  <2>3. subList[i] \in EntryRecords
    BY <2>1 DEF TypeInv
  <2> HIDE DEF n
  <2>4. subList'[i].count = n /\ subList'[i].sticky = sticky /\ subList'[i].free = subList[i].free /\ subList'[i].topic = subList[i].topic
    BY <2>2, <2>3 DEF EntryRecords
  <2> QED
    BY <2>4 DEF n
<1>10. \A i \in Entries : subList'[i].free = subList[i].free /\ TopicAt(i)' = TopicAt(i)
  <2> SUFFICES ASSUME NEW i \in Entries PROVE subList'[i].free = subList[i].free /\ TopicAt(i)' = TopicAt(i)
    OBVIOUS
  <2>1. CASE i \in Live /\ TopicAt(i) \in AckTopics(action)
    BY <1>9, <2>1 DEF TopicAt
  <2>2. CASE ~(i \in Live /\ TopicAt(i) \in AckTopics(action))
    BY <1>5, <1>7, <2>2 DEF TopicAt
  <2> QED
    BY <2>1, <2>2
<1>11. Live' = Live /\ Live \subseteq Entries
  BY <1>5, <1>10
<1>12. \A i \in Live : subList'[i].count >= subList[i].count
  BY <1>6, <1>8, <1>9, <1>11
<1>13. ListInv'
  <2>1. \A i \in Live : subList'[i].count >= 1
    <3> SUFFICES ASSUME NEW i \in Live PROVE subList'[i].count >= 1
      OBVIOUS
    <3>1. subList[i].count \in Nat /\ subList[i].count >= 1
      BY <1>4, <1>6, <1>11 DEF ListInv
    <3> QED
      BY <1>8, <1>9, <1>11, <3>1
  <2> QED
    BY <1>4, <1>10, <1>11, <2>1 DEF ListInv
<1>14. ClaimInv' /\ UnsubInv'
  BY <1>2, <1>3 DEF ClaimInv, UnsubInv
<1>15. HoldInv'
  <2> SUFFICES ASSUME NEW b \in ActionNames, NEW w \in Verdicts
               PROVE  /\ Holders(b, w)' # {} => \E i \in Live : TopicAt(i) = Topic(b, w)
                      /\ \A i \in Live : TopicAt(i) = Topic(b, w) =>
                           /\ Cardinality(Holders(b, w))' <= subList'[i].count
                           /\ app.sticky = {FALSE} => Cardinality(Holders(b, w))' = subList'[i].count /\ ~subList'[i].sticky
    BY <1>10, <1>11 DEF HoldInv
  <2>1. /\ Holders(b, w) # {} => \E i \in Live : TopicAt(i) = Topic(b, w)
        /\ \A i \in Live : TopicAt(i) = Topic(b, w) =>
             /\ Cardinality(Holders(b, w)) <= subList[i].count
             /\ app.sticky = {FALSE} => Cardinality(Holders(b, w)) = subList[i].count /\ ~subList[i].sticky
    BY <1>4 DEF HoldInv
  <2>2. CASE b = action
    <3>1. Topic(b, w) \in AckTopics(action)
      BY <2>2 DEF AckTopics, Verdicts
    <3>2. Cardinality(Holders(b, w))' = Cardinality(Holders(b, w)) + 1 /\ Cardinality(Holders(b, w)) \in Nat
      <4>1. Holds(c.slot, b, w)'
        BY <1>1, <1>2, <2>2
      <4> QED
        BY <1>2, <4>1, OneMoreHolder, HoldersFinite
    <3>3. EntryOf(Topic(b, w)) # 0
      BY <3>1 DEF IsSubscriptionPresent
    <3>4. \E i \in Live : TopicAt(i) = Topic(b, w)
      BY <1>5, <3>3, EntryOfIs DEF TopicAt
    <3>5. ASSUME NEW i \in Live, TopicAt(i) = Topic(b, w)
          PROVE  /\ Cardinality(Holders(b, w))' <= subList'[i].count
                 /\ app.sticky = {FALSE} => Cardinality(Holders(b, w))' = subList'[i].count /\ ~subList'[i].sticky
      <4>1. subList'[i].count = subList[i].count + 1 /\ subList'[i].sticky = sticky /\ subList[i].count \in Nat
        BY <1>6, <1>9, <1>11, <3>1, <3>5
      <4>2. app.sticky = {FALSE} => ~subList'[i].sticky
        BY <4>1
      <4>3. Cardinality(Holders(b, w))' <= subList'[i].count
        <5>1. Cardinality(Holders(b, w)) <= subList[i].count
          BY <2>1, <3>5
        <5> QED
          BY <3>2, <4>1, <5>1
      <4>4. app.sticky = {FALSE} => Cardinality(Holders(b, w))' = subList'[i].count
        BY <2>1, <3>2, <3>5, <4>1
      <4> QED
        BY <4>2, <4>3, <4>4
    <3> QED
      BY <3>4, <3>5
  <2>3. CASE b # action
    <3>1. Topic(b, w) \notin AckTopics(action)
      BY <2>3 DEF AckTopics, Topic
    <3>2. Holders(b, w)' = Holders(b, w)
      BY <1>2, <2>3, HoldersSame
    <3>3. \A i \in Live : TopicAt(i) = Topic(b, w) => subList'[i] = subList[i]
      BY <1>8, <1>11, <3>1
    <3> QED
      BY <2>1, <3>2, <3>3
  <2> QED
    BY <2>2, <2>3
<1>16. PairInv'
  <2>1. ASSUME NEW i \in Live PROVE Paired(i)'
    <3>1. PICK k \in Live : /\ TopicAt(k).action = TopicAt(i).action /\ TopicAt(k).verdict # TopicAt(i).verdict
                            /\ subList[k].count = subList[i].count /\ subList[k].sticky = subList[i].sticky
      BY <1>3, <1>4 DEF PairInv, Paired
    <3>2. \A n \in Live : TopicAt(n) \in AckTopics(action) <=> TopicAt(n).action = action
      <4> SUFFICES ASSUME NEW n \in Live PROVE TopicAt(n) \in AckTopics(action) <=> TopicAt(n).action = action
        OBVIOUS
      <4>1. TopicAt(n) \in TopicNames /\ TopicAt(n).verdict \in Verdicts
        BY <1>4, <1>6, <1>11 DEF ListInv
      <4> QED
        BY <4>1 DEF TopicNames, Topic, AckTopics, Verdicts
    <3>3. i \in Entries /\ k \in Entries /\ TopicAt(i)' = TopicAt(i) /\ TopicAt(k)' = TopicAt(k)
      BY <1>10, <1>11
    <3>4. CASE TopicAt(i).action = action
      <4>1. /\ subList'[i].count = subList[i].count + 1 /\ subList'[i].sticky = sticky
            /\ subList'[k].count = subList[k].count + 1 /\ subList'[k].sticky = sticky
        BY <1>9, <3>1, <3>2, <3>4
      <4> QED
        BY <1>11, <3>1, <3>3, <4>1 DEF Paired
    <3>5. CASE TopicAt(i).action # action
      <4>1. subList'[i] = subList[i] /\ subList'[k] = subList[k]
        BY <1>8, <3>1, <3>2, <3>3, <3>5
      <4> QED
        BY <1>11, <3>1, <3>3, <4>1 DEF Paired
    <3> QED
      BY <3>4, <3>5
  <2> QED
    BY <1>2, <1>11, <2>1 DEF PairInv
<1> QED
  BY <1>13, <1>14, <1>15, <1>16 DEF TopicInv

\* Two free entries are taken: the first two, so that no other one comes before them.
Taken(c, action, e, r) ==
  /\ c.kind = "request" /\ c.slot \in Slots \ InUse /\ FirstAhead(c)
  /\ c.action = action /\ c.sticky \in app.sticky /\ c.entry = e /\ c.rejected = r
  /\ ~IsSubscriptionPresent(action)
  /\ e \in FreeEntries /\ r \in FreeEntries /\ e # r
  /\ \A i \in FreeEntries : e <= i /\ (i # e => r <= i)
  /\ subList' = [subList EXCEPT ![e].free = FALSE, ![e].topic = Topic(action, "accepted"), ![r].free = FALSE]

LEMMA TakenKept ==
  ASSUME TypeInv, SlotInv, SlotInv', TopicInv, UNCHANGED <<app, subscribed, ackWaitList>>,
         \A f \in Busy : f.kind = "answer" /\ f.pc = "callback",
         NEW c, Busy' = Busy \cup {c}, NEW action, NEW e, NEW r, Taken(c, action, e, r)
  PROVE  TopicInv'
<1> SUFFICES
      ASSUME c.kind = "request", c.slot \in Slots \ InUse, FirstAhead(c),
             c.action = action, c.sticky \in app.sticky, c.entry = e, c.rejected = r, ~IsSubscriptionPresent(action),
             e \in FreeEntries, r \in FreeEntries, e # r, \A i \in FreeEntries : e <= i /\ (i # e => r <= i),
             subList' = [subList EXCEPT ![e].free = FALSE, ![e].topic = Topic(action, "accepted"), ![r].free = FALSE]
      PROVE  TopicInv'
  BY DEF Taken
<1>1. VerdictsOf(c) = {} /\ ~SecondAhead(c) /\ c.pc # "unsubscribe"
  BY Grips
<1>2. /\ Subscribing = {} /\ Halved = {} /\ Halved' = {} /\ Unsubscribing' = {}
      /\ \A f : f \in Subscribing' <=> f = c /\ (FirstAhead(c) \/ SecondAhead(c))
      /\ \A i \in Slots : i # c.slot => \A b, w : Holds(i, b, w)' <=> Holds(i, b, w)
      /\ \A b, w : ~Holds(c.slot, b, w)
      /\ \A b, w : Holds(c.slot, b, w)' <=> c.action = b /\ w \in VerdictsOf(c)
  BY <1>1, RequestFrame
<1>3. (\A f : f \in Subscribing' <=> f = c) /\ Half = {} /\ \A a : a \in Half' <=> a = action
  <2>1. \A f : f \in Subscribing' <=> f = c
    BY <1>2
  <2> QED
    BY <1>2, <2>1 DEF Half
<1>4. ListInv /\ HoldInv /\ PairInv
  BY DEF TopicInv
<1>5. ClaimedBy(c) = {e, r} /\ Claims(c) = {<<e, Topic(action, "accepted")>>, <<r, Topic(action, "rejected")>>}
  BY DEF ClaimedBy, Claims
<1>6. e \in Entries /\ r \in Entries /\ subList[e].free /\ subList[r].free
  BY DEF FreeEntries
<1>7. /\ \A i \in Entries : i # e /\ i # r => subList'[i] = subList[i]
      /\ \A i \in Entries : i # e => subList'[i].topic = subList[i].topic
      /\ ~subList'[e].free /\ subList'[e].topic = Topic(action, "accepted") /\ ~subList'[r].free
  BY <1>6 DEF TypeInv, EntryRecords
<1>8. (\A i \in Entries : i # e => TopicAt(i)' = TopicAt(i)) /\ TopicAt(e)' = Topic(action, "accepted")
  BY <1>7 DEF TopicAt
<1>9. Live' = Live /\ Live \subseteq Entries /\ e \notin Live /\ r \notin Live /\ Entries \ Live = FreeEntries
  <2>1. \A i : i \in Live <=> i \in Entries /\ ~subList[i].free
    BY <1>2 DEF Live
  <2>2. \A i : i \in Live' <=> i \in Entries /\ ~subList'[i].free /\ i # e /\ i # r
    BY <1>3, <1>5 DEF Live
  <2>3. e \notin Live /\ r \notin Live /\ Live \subseteq Entries /\ Entries \ Live = FreeEntries
    BY <1>6, <2>1 DEF FreeEntries
  <2>4. ASSUME NEW i PROVE i \in Live' <=> i \in Live
    <3>1. CASE i = e \/ i = r
      BY <2>2, <2>3, <3>1
    <3>2. CASE i # e /\ i # r
      BY <1>7, <2>1, <2>2, <3>2
    <3> QED
      BY <3>1, <3>2
  <2> QED
    BY <2>3, <2>4
<1>10. \A i \in Live : subList'[i] = subList[i] /\ TopicAt(i)' = TopicAt(i)
  BY <1>7, <1>8, <1>9
<1>11. \A i \in Live : TopicAt(i) # Topic(action, "accepted") /\ TopicAt(i) # Topic(action, "rejected")
  <2> SUFFICES ASSUME NEW i \in Live, TopicAt(i) \in AckTopics(action) PROVE FALSE
    BY DEF AckTopics
  <2>1. TopicAt(i).action = action
    BY DEF AckTopics, Topic
  <2>2. PICK k \in Live : TopicAt(k).action = TopicAt(i).action /\ TopicAt(k).verdict # TopicAt(i).verdict
    BY <1>3, <1>4 DEF PairInv, Paired
  <2>3. \A n \in Live : TopicAt(n) \in TopicNames /\ TopicAt(n).verdict \in Verdicts
    BY <1>4, <1>9 DEF ListInv, TypeInv, TopicAt, EntryRecords
  <2>4. TopicAt(k) \in AckTopics(action)
    BY <2>1, <2>2, <2>3 DEF TopicNames, Topic, AckTopics, Verdicts
  <2>5. AckTopics(action) = {TopicAt(i), TopicAt(k)}
    BY <2>2, <2>4 DEF AckTopics
  <2>6. EntryOf(TopicAt(i)) = i /\ EntryOf(TopicAt(k)) = k
    BY <1>4, EntryFound
  <2>7. i # 0 /\ k # 0
    BY <1>9, SlotsAndEntries
  <2> QED
    BY <2>5, <2>6, <2>7 DEF IsSubscriptionPresent
<1>12. ListInv'
  <2>1. \A i \in Live, k \in Entries \ Live : k < i => TopicAt(k)' # TopicAt(i)
    BY <1>4, <1>8, <1>11 DEF ListInv
  <2>2. \A i \in Live : TopicAt(i)'.verdict \in Verdicts /\ TopicAt(i)' \in subscribed /\ subList'[i].count >= 1
    BY <1>4, <1>10 DEF ListInv
  <2>3. \A i, k \in Live : TopicAt(i)' = TopicAt(k)' => i = k
    BY <1>4, <1>10 DEF ListInv
  <2>4. \A t \in subscribed : t = DeltaTopic \/ \E i \in Live : TopicAt(i)' = t
    BY <1>4, <1>10 DEF ListInv
  <2>5. \A i \in Live, k \in Entries \ Live : k < i => TopicAt(k)' # TopicAt(i)'
    BY <1>10, <2>1
  <2> QED
    BY <1>9, <2>2, <2>3, <2>4, <2>5 DEF ListInv
<1>13. ClaimInv'
  <2>1. \A i \in Entries \ Live : /\ i < e => TopicAt(i)' # Topic(action, "accepted")
                                  /\ i < r => TopicAt(i)' # Topic(action, "rejected")
    <3> SUFFICES ASSUME NEW i \in FreeEntries
                 PROVE  ~(i < e) /\ (i < r => TopicAt(i)' # Topic(action, "rejected"))
      BY <1>9
    <3>1. i \in Nat /\ e \in Nat /\ r \in Nat
      BY <1>6, SlotsAndEntries DEF FreeEntries
    <3>2. ~(i < e)
      BY <3>1
    <3>3. i < r => i = e
      BY <3>1
    <3> QED
      BY <1>8, <3>2, <3>3 DEF Topic
  <2> SUFFICES ASSUME NEW g \in Subscribing'
               PROVE  /\ \A claim \in Claims(g) :
                           /\ ~subList'[claim[1]].free
                           /\ \A i \in Live' : TopicAt(i)' # claim[2]
                           /\ \A i \in Entries \ Live' : i < claim[1] => TopicAt(i)' # claim[2]
                      /\ IF FirstAhead(g) THEN TopicAt(g.entry)' = Topic(g.action, "accepted")
                         ELSE /\ TopicAt(g.rejected)' = Topic(g.action, "rejected")
                              /\ \E i \in Live' : /\ TopicAt(i)' = Topic(g.action, "accepted")
                                                   /\ subList'[i].count = 1 /\ subList'[i].sticky = g.sticky
                      /\ g.sticky \in app.sticky
    BY DEF ClaimInv
  <2>2. g = c
    BY <1>3
  <2>3. ASSUME NEW claim \in Claims(g)
        PROVE  /\ ~subList'[claim[1]].free
               /\ \A i \in Live' : TopicAt(i)' # claim[2]
               /\ \A i \in Entries \ Live' : i < claim[1] => TopicAt(i)' # claim[2]
    <3>1. claim \in {<<e, Topic(action, "accepted")>>, <<r, Topic(action, "rejected")>>}
      BY <1>5, <2>2
    <3>2. \A i \in Live' : TopicAt(i)' # Topic(action, "accepted") /\ TopicAt(i)' # Topic(action, "rejected")
      BY <1>9, <1>10, <1>11
    <3>3. \A i \in Entries \ Live' : /\ i < e => TopicAt(i)' # Topic(action, "accepted")
                                     /\ i < r => TopicAt(i)' # Topic(action, "rejected")
      BY <1>9, <2>1
    <3>4. CASE claim[1] = e /\ claim[2] = Topic(action, "accepted")
      BY <1>7, <3>2, <3>3, <3>4
    <3>5. CASE claim[1] = r /\ claim[2] = Topic(action, "rejected")
      BY <1>7, <3>2, <3>3, <3>5
    <3> QED
      BY <3>1, <3>4, <3>5
  <2>4. TopicAt(g.entry)' = Topic(g.action, "accepted")
    <3>1. g.entry = e /\ g.action = action
      BY <2>2
    <3> QED
      BY <1>8, <3>1
  <2> QED
    BY <2>2, <2>3, <2>4
<1>14. HoldInv'
  <2> SUFFICES ASSUME NEW b \in ActionNames, NEW w \in Verdicts
               PROVE  /\ Holders(b, w)' # {} => \E i \in Live' : TopicAt(i)' = Topic(b, w)
                      /\ \A i \in Live' : TopicAt(i)' = Topic(b, w) =>
                           /\ Cardinality(Holders(b, w))' <= subList'[i].count
                           /\ app.sticky = {FALSE} => Cardinality(Holders(b, w))' = subList'[i].count /\ ~subList'[i].sticky
    BY DEF HoldInv
  <2>1. Holders(b, w)' = Holders(b, w)
    BY <1>1, <1>2, HoldersSame
  <2>2. /\ Holders(b, w) # {} => \E i \in Live : TopicAt(i) = Topic(b, w)
        /\ \A i \in Live : TopicAt(i) = Topic(b, w) =>
             /\ Cardinality(Holders(b, w)) <= subList[i].count
             /\ app.sticky = {FALSE} => Cardinality(Holders(b, w)) = subList[i].count /\ ~subList[i].sticky
    BY <1>4 DEF HoldInv
  <2> QED
    BY <1>9, <1>10, <2>1, <2>2
<1>15. PairInv'
  <2>1. ASSUME NEW i \in Live PROVE Paired(i)'
    <3>1. Paired(i)
      BY <1>3, <1>4 DEF PairInv
    <3> QED
      BY <1>9, <1>10, <3>1 DEF Paired
  <2> QED
    BY <1>2, <1>9, <2>1 DEF PairInv
<1>16. UnsubInv'
  BY <1>2 DEF UnsubInv
<1> QED
  BY <1>12, <1>13, <1>14, <1>15, <1>16 DEF TopicInv

LEMMA SubscribeCallAhead ==
  ASSUME TypeInv, TimeoutInv, NEW action \in app.actions, NEW sticky \in app.sticky,
         NEW accepted \in Entries, NEW rejected \in Entries, NEW c, c = SubscribeCall(action, sticky, accepted, rejected)
  PROVE  /\ c.kind = "request" /\ FirstAhead(c) /\ c.slot = FreeSlot
         /\ c.action = action /\ c.sticky = sticky /\ c.entry = accepted /\ c.rejected = rejected
<1>1. AskCall(action, sticky) \in Calls
  BY AskCallIs
<1>2. /\ AskCall(action, sticky).kind = "request" /\ AskCall(action, sticky).slot = FreeSlot
      /\ AskCall(action, sticky).action = action /\ AskCall(action, sticky).sticky = sticky
  BY AskCallIs
<1>3. PICK pc : pc = "subscribe accepted"
  OBVIOUS
<1>4. c = [AskCall(action, sticky) EXCEPT !.pc = pc, !.entry = accepted, !.rejected = rejected]
  BY <1>3 DEF SubscribeCall
<1>5. /\ c.kind = "request" /\ c.pc = pc /\ c.slot = FreeSlot
      /\ c.action = action /\ c.sticky = sticky /\ c.entry = accepted /\ c.rejected = rejected
  BY <1>1, <1>2, <1>4 DEF Calls
<1>6. c.pc = pc
  BY <1>5
<1> QED
  BY <1>3, <1>5, <1>6 DEF FirstAhead

LEMMA RequestKept ==
  ASSUME AskedInv, SlotInv, SlotInv', TopicInv, Request, Calm'
  PROVE  TopicInv'
<1>1. ~full' /\ ~reentered'
  BY DEF Calm
<1>2. UNCHANGED <<app, ackWaitList, subscribed>> /\ \A f \in Busy : f.kind = "answer" /\ f.pc = "callback"
  BY <1>1, RequestCalmly, RequestAmong DEF AskedInv
<1>3. PICK action \in app.actions, sticky \in app.sticky :
        \/ UNCHANGED <<stack, subList>>
        \/ /\ FreeSlot # 0 /\ IsSubscriptionPresent(action) /\ Entered(AskCall(action, sticky))
           /\ IncrementSubscriptionCnt(action, sticky)
        \/ /\ FreeSlot # 0 /\ ~IsSubscriptionPresent(action)
           /\ \E accepted \in FreeEntries, rejected \in FreeEntries :
                /\ accepted # rejected
                /\ \A e \in FreeEntries : accepted <= e /\ (e # accepted => rejected <= e)
                /\ Entered(SubscribeCall(action, sticky, accepted, rejected))
                /\ subList' = [subList EXCEPT ![accepted].free = FALSE, ![accepted].topic = Topic(action, "accepted"),
                                              ![rejected].free = FALSE]
  BY <1>1, RequestCalmly DEF AskedInv
<1>4. CASE UNCHANGED <<stack, subList>>
  <2>1. Busy' = Busy
    BY <1>4 DEF Busy
  <2>2. InUse' = InUse
    BY <1>2, SameRecords
  <2> QED
    BY <1>2, <1>4, <2>1, <2>2, NothingKept
<1>5. ASSUME FreeSlot # 0, IsSubscriptionPresent(action), Entered(AskCall(action, sticky)), IncrementSubscriptionCnt(action, sticky)
      PROVE  TopicInv'
  <2>1. PICK c : c = AskCall(action, sticky)
    OBVIOUS
  <2>2. c.kind = "request" /\ c.pc = "publish" /\ c.slot = FreeSlot /\ c.action = action
    BY <2>1, AskCallIs DEF AskedInv
  <2>3. c.slot \in Slots \ InUse
    BY <1>5, <2>2, FreeSlotIs
  <2>4. Busy' = Busy \cup {c}
    BY <1>5, <2>1, <2>2, BusyEnters DEF AskedInv, Kin
  <2> QED
    BY <1>2, <1>5, <2>2, <2>3, <2>4, CountedKept DEF AskedInv
<1>6. ASSUME FreeSlot # 0, ~IsSubscriptionPresent(action), NEW accepted \in FreeEntries, NEW rejected \in FreeEntries,
             accepted # rejected, \A e \in FreeEntries : accepted <= e /\ (e # accepted => rejected <= e),
             Entered(SubscribeCall(action, sticky, accepted, rejected)),
             subList' = [subList EXCEPT ![accepted].free = FALSE, ![accepted].topic = Topic(action, "accepted"),
                                        ![rejected].free = FALSE]
      PROVE  TopicInv'
  <2>1. PICK c : c = SubscribeCall(action, sticky, accepted, rejected)
    OBVIOUS
  <2>2. accepted \in Entries /\ rejected \in Entries
    BY DEF FreeEntries
  <2>3. TypeInv /\ TimeoutInv
    BY DEF AskedInv
  <2>4. /\ c.kind = "request" /\ FirstAhead(c) /\ c.slot = FreeSlot
        /\ c.action = action /\ c.sticky = sticky /\ c.entry = accepted /\ c.rejected = rejected
    BY <2>1, <2>2, <2>3, SubscribeCallAhead
  <2>5. c.slot \in Slots \ InUse
    BY <1>6, <2>4, FreeSlotIs
  <2>6. Busy' = Busy \cup {c}
    BY <1>6, <2>1, <2>4, BusyEnters DEF AskedInv, Kin
  <2>7. Taken(c, action, accepted, rejected)
    BY <1>6, <2>4, <2>5 DEF Taken
  <2> QED
    BY <1>2, <2>3, <2>6, <2>7, TakenKept
<1> QED
  BY <1>3, <1>4, <1>5, <1>6

\* No call is under way, and the lists are empty.
Cleared ==
  /\ stack = <<>> /\ subscribed = {}
  /\ \A i \in Slots : ackWaitList[i].free
  /\ \A i \in Entries : subList[i].free

LEMMA ClearedHolds == Cleared => SlotInv /\ TopicInv
<1> SUFFICES ASSUME Cleared PROVE SlotInv /\ TopicInv
  OBVIOUS
<1>1. Busy = {} /\ InUse = {} /\ subscribed = {}
  BY DEF Cleared, Busy, InUse
<1>2. Subscribing = {} /\ Halved = {} /\ Unsubscribing = {} /\ Live = {}
  BY <1>1 DEF Subscribing, Halved, Unsubscribing, Live, Cleared
<1>3. SlotInv
  BY <1>1 DEF SlotInv, ApartInv, RecordInv, Cleared
<1>4. ASSUME NEW action, NEW verdict PROVE Holders(action, verdict) = {}
  BY <1>1 DEF Holders, Holds
<1>5. ListInv /\ ClaimInv /\ PairInv /\ UnsubInv
  BY <1>1, <1>2 DEF ListInv, ClaimInv, PairInv, UnsubInv
<1>6. HoldInv
  BY <1>2, <1>4 DEF HoldInv
<1> QED
  BY <1>3, <1>5, <1>6 DEF TopicInv

LEMMA ShadowInitClears ==
  ASSUME TypeInv, ShadowInit
  PROVE  Cleared'
<1>1. stack' = <<>> /\ subscribed' = {}
  BY DEF ShadowInit, Idle
<1>2. \A i \in Slots : ackWaitList'[i].free
  BY DEF ShadowInit, FreeAck
<1>3. \A i \in Entries : subList'[i].free
  <2> SUFFICES ASSUME NEW i \in Entries PROVE subList'[i].free
    OBVIOUS
  <2>1. subList'[i] = [subList[i] EXCEPT !.free = TRUE, !.count = 0, !.sticky = FALSE]
    BY DEF ShadowInit
  <2> QED
    BY <2>1 DEF TypeInv, EntryRecords
<1> QED
  BY <1>1, <1>2, <1>3 DEF Cleared

LEMMA TopicInvStep ==
  ASSUME AskedInv, SlotInv, TopicInv, [Next]_vars, Calm', Calm, UNCHANGED failures
  PROVE  SlotInv' /\ TopicInv'
<1>1. SlotInv'
  BY SlotInvStep
<1>2. CASE Request
  BY <1>1, <1>2, RequestKept
<1>3. CASE ShadowInit
  <2>1. Cleared'
    BY <1>3, ShadowInitClears DEF AskedInv
  <2>2. Cleared' => TopicInv'
    BY ClearedHolds, PTL
  <2> QED
    BY <1>1, <2>1, <2>2
<1>4. CASE SubscribeAccepted \/ SubscribeRejected
  BY <1>1, <1>4, SubscribeAcceptedKept, SubscribeRejectedKept DEF Calm
<1>5. CASE Withdrawn
  <2>1. ~Idle /\ Top.pc = "withdraw" /\ Top.kind = "request"
    BY <1>5, WithdrawnMove DEF Withdrawn, At, AskedInv
  <2>2. Top \in Busy
    BY <2>1, TopBusy DEF AskedInv, SlotInv, Kin
  <2> QED
    BY <2>1, <2>2 DEF SlotInv, RecordInv, HasRecord
<1>6. CASE LeaveTopic
  BY <1>1, <1>6, LeaveKept
<1>7. CASE Unsubscribe
  BY <1>1, <1>7, UnsubscribeKept
<1>8. CASE DeltaSteps \/ Tick \/ Yield \/ AckStatusCallback \/ AnswerHandled \/ Left \/ Publish
  BY <1>1, <1>8, QuietKept
<1> QED
  BY <1>1, <1>2, <1>3, <1>4, <1>5, <1>6, <1>7, <1>8 DEF Next, Proceed, DeltaSteps

LEMMA CalmInvStep == AnswerInv /\ CalmInv /\ [Next]_vars => CalmInv'
<1> SUFFICES ASSUME AnswerInv, CalmInv, [Next]_vars, Calm' PROVE SlotInv' /\ TopicInv'
  BY DEF CalmInv
<1>1. AskedInv
  BY DEF AnswerInv, AskedInv
<1>2. Calm /\ UNCHANGED failures
  BY <1>1, CalmBefore DEF AskedInv
<1>3. SlotInv /\ TopicInv
  BY <1>2 DEF CalmInv
<1> QED
  BY <1>1, <1>2, <1>3, TopicInvStep

LEMMA CalmInvInit == Init => CalmInv
<1> SUFFICES ASSUME Init PROVE SlotInv /\ TopicInv
  BY DEF CalmInv
<1>1. Cleared
  BY DEF Init, Cleared, FreeAck, FreeEntry
<1> QED
  BY <1>1, ClearedHolds

\* While every MQTT call succeeds and there is room, each entry of SubscriptionList that is not being
\* taken is for a topic the client is subscribed to and counts at least those who hold it, the two
\* topics of an action are counted alike between calls, and only the last who holds one unsubscribes:
\* whatever the number of records and topics, and however often a request waits inside another.
THEOREM CalmInvAlways == Spec => []CalmInv
<1>1. Init => CalmInv
  BY CalmInvInit
<1>2. AnswerInv /\ CalmInv /\ [Next]_vars => CalmInv'
  BY CalmInvStep
<1>3. Spec => []AnswerInv
  BY AnswerInvAlways
<1> QED
  BY <1>1, <1>2, <1>3, PTL DEF Spec

LEMMA WaitersHold == AnswerInv /\ CalmInv => WaitersSubscribed
<1> SUFFICES ASSUME AnswerInv, CalmInv, Calm, NEW i \in Waiters PROVE AckTopics(ackWaitList[i].action) \subseteq subscribed
  BY DEF WaitersSubscribed, Calm
<1>1. TypeInv /\ SlotInv /\ TopicInv
  BY DEF AnswerInv, CalmInv
<1>2. i \in InUse /\ i \in Slots /\ ~Answered(ackWaitList[i].req)
  BY DEF Waiters, InUse, Answered
<1>3. \A f \in Busy : f.slot # i
  BY <1>1, <1>2 DEF SlotInv, RecordInv, HasRecord
<1>4. PICK action : action = ackWaitList[i].action
  OBVIOUS
<1>5. action \in ActionNames
  BY <1>1, <1>2, <1>4 DEF TypeInv, AckRecords, ActionNames
<1>6. ASSUME NEW verdict \in Verdicts PROVE Topic(action, verdict) \in subscribed
  <2>1. i \in Holders(action, verdict)
    BY <1>2, <1>3, <1>4 DEF Holders, Holds
  <2>2. PICK e \in Live : TopicAt(e) = Topic(action, verdict)
    BY <1>1, <1>5, <2>1 DEF TopicInv, HoldInv
  <2> QED
    BY <1>1, <2>2 DEF TopicInv, ListInv
<1> QED
  BY <1>4, <1>6 DEF AckTopics, Verdicts

\* As long as a request waits, the client is subscribed to the topics of its answer.
THEOREM WaitersAlways == Spec => []WaitersSubscribed
<1>1. AnswerInv /\ CalmInv => WaitersSubscribed
  BY WaitersHold
<1> QED
  BY <1>1, AnswerInvAlways, CalmInvAlways, PTL

LEMMA NothingHeld == AnswerInv /\ CalmInv => Released
<1> SUFFICES ASSUME AnswerInv, CalmInv, Calm, Idle, InUse = {}, app.sticky = {FALSE}
             PROVE  subscribed \subseteq {DeltaTopic} /\ \A i \in Entries : subList[i].free
  BY DEF Released, Calm
<1>1. TypeInv /\ SlotInv /\ TopicInv
  BY DEF AnswerInv, CalmInv
<1>2. Busy = {}
  BY DEF Idle, Busy
<1>3. Subscribing = {}
  BY <1>2 DEF Subscribing
<1>4. ASSUME NEW action, NEW verdict PROVE Holders(action, verdict) = {}
  BY <1>2 DEF Holders, Holds
<1>5. Live = {}
  <2> SUFFICES ASSUME NEW e \in Live PROVE FALSE
    OBVIOUS
  <2>1. e \in Entries /\ TopicAt(e) \in TopicNames /\ TopicAt(e).verdict \in Verdicts /\ subList[e].count >= 1
    BY <1>1 DEF TopicInv, ListInv, Live, TypeInv, TopicAt, EntryRecords
  <2>2. PICK action, verdict : action = TopicAt(e).action /\ verdict = TopicAt(e).verdict
    OBVIOUS
  <2>3. TopicAt(e) = Topic(action, verdict) /\ verdict \in Verdicts
    BY <2>1, <2>2 DEF Topic, TopicNames
  <2>4. Cardinality(Holders(action, verdict)) = subList[e].count
    <3>1. HoldInv /\ action \in ActionNames
      BY <1>1, <2>1, <2>2 DEF TopicInv, TopicNames, ActionNames
    <3> QED
      BY <2>3, <3>1 DEF HoldInv
  <2>5. Cardinality(Holders(action, verdict)) = 0
    BY <1>4, FS_EmptySet
  <2> QED
    BY <2>1, <2>4, <2>5
<1>6. \A i \in Entries : subList[i].free
  BY <1>3, <1>5 DEF Live
<1>7. subscribed \subseteq {DeltaTopic}
  BY <1>1, <1>5 DEF TopicInv, ListInv
<1> QED
  BY <1>6, <1>7

\* When nobody waits, nothing stays subscribed and every entry is free, if nothing was meant to stay.
THEOREM ReleasedAlways == Spec => []Released
<1>1. AnswerInv /\ CalmInv => Released
  BY NothingHeld
<1> QED
  BY <1>1, AnswerInvAlways, CalmInvAlways, PTL

=============================================================================

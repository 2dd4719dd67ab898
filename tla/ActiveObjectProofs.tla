-------------------------- MODULE ActiveObjectProofs --------------------------
(***************************************************************************)
(* What module ActiveObject guarantees for every number of requests,       *)
(* timers and callers and for every length of the two queues.              *)
(***************************************************************************)
EXTENDS ActiveObject, SequenceTheorems, TLAPS

USE SizesAssumption, DistinctAssumption

-----------------------------------------------------------------------------
(* Facts about the queues.                                                 *)

\* Sending to a queue adds one element at its end and changes no other.
LEMMA AppendFacts ==
    ASSUME NEW S, NEW q \in Seq(S), NEW x \in S
    PROVE  /\ Append(q, x) \in Seq(S)
           /\ Len(Append(q, x)) = Len(q) + 1
           /\ \A i \in 1..Len(q) : Append(q, x)[i] = q[i]
           /\ Append(q, x)[Len(q) + 1] = x
           /\ Range(Append(q, x)) = Range(q) \cup {x}
<1>1. /\ Append(q, x) \in Seq(S)
      /\ Len(Append(q, x)) = Len(q) + 1
      /\ \A i \in 1..Len(q) : Append(q, x)[i] = q[i]
      /\ Append(q, x)[Len(q) + 1] = x
  BY AppendProperties
<1>2. DOMAIN q = 1..Len(q) /\ DOMAIN Append(q, x) = 1..(Len(q) + 1) /\ Len(q) \in Nat
  BY <1>1, LenProperties
<1>3. Range(Append(q, x)) = Range(q) \cup {x}
  BY <1>1, <1>2, SMT DEF Range
<1>. QED  BY <1>1, <1>3

\* Receiving from a queue removes its first element and shifts the others.
LEMMA TailFacts ==
    ASSUME NEW S, NEW q \in Seq(S), q # <<>>
    PROVE  /\ Head(q) \in S
           /\ Head(q) = q[1]
           /\ Len(q) \in Nat \ {0}
           /\ Tail(q) \in Seq(S)
           /\ Len(Tail(q)) = Len(q) - 1
           /\ \A i \in 1..Len(Tail(q)) : Tail(q)[i] = q[i + 1]
           /\ Range(q) = Range(Tail(q)) \cup {Head(q)}
<1>1. /\ Head(q) \in S
      /\ Head(q) = q[1]
      /\ Len(q) \in Nat \ {0}
      /\ Tail(q) \in Seq(S)
      /\ Len(Tail(q)) = Len(q) - 1
      /\ \A i \in 1..Len(Tail(q)) : Tail(q)[i] = q[i + 1]
  BY HeadTailProperties, EmptySeq, LenProperties
<1>2. DOMAIN q = 1..Len(q) /\ DOMAIN Tail(q) = 1..(Len(q) - 1)
  BY <1>1, LenProperties
<1>3. ASSUME NEW i \in 1..Len(q), i # 1  PROVE q[i] \in Range(Tail(q))
  <2>1. i - 1 \in 1..(Len(q) - 1) /\ q[i] = Tail(q)[i - 1]
    BY <1>1, <1>3
  <2>. QED  BY <2>1, <1>2 DEF Range
<1>4. ASSUME NEW i \in 1..Len(Tail(q))  PROVE Tail(q)[i] \in Range(q)
  <2>1. i + 1 \in 1..Len(q) /\ Tail(q)[i] = q[i + 1]
    BY <1>1, <1>4
  <2>. QED  BY <2>1, <1>2 DEF Range
<1>5. Range(q) = Range(Tail(q)) \cup {Head(q)}
  BY <1>1, <1>2, <1>3, <1>4 DEF Range
<1>. QED  BY <1>1, <1>5

-----------------------------------------------------------------------------
(* Type correctness.                                                       *)

\* Every variable keeps its type and no queue exceeds its length.
THEOREM TypeCorrect == Spec => []TypeOK
<1>1. Init => TypeOK
  BY EmptySeq DEF Init, TypeOK, Commands, NoCommand, Ops
<1>2. TypeOK /\ [Next]_vars => TypeOK'
  <2> SUFFICES ASSUME TypeOK, [Next]_vars  PROVE TypeOK'
    OBVIOUS
  <2>. USE DEF TypeOK, callVars, taskVars, timerVars
  <2>1. ASSUME NEW r \in Requests, NEW who \in Callers \cup {NoCaller}, Enqueue(r, who)
        PROVE  /\ mrQueue' \in Seq(Requests \cup Timers)
               /\ Len(mrQueue') <= QueueSize
               /\ heap' \subseteq Requests
               /\ lost' \subseteq Requests
               /\ callerID' \in [Requests -> Callers \cup {NoCaller}]
    <3>1. /\ heap' \subseteq Requests
          /\ lost' \subseteq Requests
          /\ callerID' \in [Requests -> Callers \cup {NoCaller}]
      BY <2>1 DEF Enqueue
    <3>2. CASE HasRoom
      BY <2>1, <3>1, <3>2, AppendFacts, LenProperties DEF Enqueue, HasRoom
    <3>3. CASE ~HasRoom
      BY <2>1, <3>1, <3>3 DEF Enqueue
    <3>. QED  BY <3>2, <3>3
  <2>2. ASSUME NEW c \in Callers, NEW r \in Requests, ExecuteMethod(c, r)
        PROVE  TypeOK'
    BY <2>2, <2>1 DEF ExecuteMethod
  <2>3. ASSUME NEW c \in Callers, NEW r \in Requests, ExecuteMethodSynchronously(c, r)
        PROVE  TypeOK'
    BY <2>3, <2>1 DEF ExecuteMethodSynchronously
  <2>4. ASSUME NEW c \in Callers, SynchronousReturn(c)  PROVE TypeOK'
    BY <2>4 DEF SynchronousReturn
  <2>5. ASSUME NEW t \in Timers, CreateTimer(t)  PROVE TypeOK'
    <3>1. [op |-> "start", tmr |-> t] \in Commands
      BY DEF Commands, Ops
    <3>2. CASE cmds' = cmds
      BY <2>5, <3>2 DEF CreateTimer
    <3>3. CASE Len(cmds) < CmdQueueSize /\ cmds' = Append(cmds, [op |-> "start", tmr |-> t])
      BY <2>5, <3>1, <3>3, AppendFacts, LenProperties DEF CreateTimer
    <3>. QED  BY <2>5, <3>2, <3>3 DEF CreateTimer
  <2>6. ASSUME NEW r \in Requests, SelfCall(r)  PROVE TypeOK'
    BY <2>6, <2>1 DEF SelfCall
  <2>7. CASE Receive
    BY <2>7, TailFacts DEF Receive
  <2>8. CASE Finish
    BY <2>8 DEF Finish
  <2>9. ASSUME NEW cmd \in Commands, TimerCommand(cmd)  PROVE TypeOK'
    BY <2>9 DEF TimerCommand, Commands, NoCommand, Ops
  <2>10. CASE SendCommand
    BY <2>10, AppendFacts, LenProperties DEF SendCommand
  <2>11. CASE HandleCommand
    <3>1. Head(cmds) \in Commands /\ cmds' \in Seq(Commands) /\ Len(cmds') <= CmdQueueSize
      BY <2>11, TailFacts DEF HandleCommand
    <3>2. Head(cmds).tmr \in Timers
      BY <3>1 DEF Commands
    <3>3. active' \subseteq Timers
      BY <2>11, <3>2 DEF HandleCommand
    <3>. QED  BY <2>11, <3>1, <3>3 DEF HandleCommand
  <2>12. ASSUME NEW t \in Timers, Expire(t)  PROVE TypeOK'
    BY <2>12 DEF Expire
  <2>13. CASE TimerCallback
    <3>1. CASE HasRoom
      BY <2>13, <3>1, AppendFacts, LenProperties DEF TimerCallback, HasRoom
    <3>2. CASE ~HasRoom
      BY <2>13, <3>2 DEF TimerCallback
    <3>. QED  BY <3>1, <3>2
  <2>14. CASE UNCHANGED vars
    BY <2>14 DEF vars
  <2>. QED
    BY <2>2, <2>3, <2>4, <2>5, <2>6, <2>7, <2>8, <2>9, <2>10, <2>11, <2>12,
       <2>13, <2>14 DEF Next, Task, Daemon, Others
<1>. QED  BY <1>1, <1>2, PTL DEF Spec

-----------------------------------------------------------------------------
(* Ownership of the requests.                                              *)

\* Making a call keeps the ownership: the new request is in the queue or lost.
LEMMA EnqueueOwnership ==
    ASSUME TypeOK, Ownership, current' = current,
           NEW r \in Requests, NEW who \in Callers \cup {NoCaller}, Enqueue(r, who)
    PROVE  /\ Ownership'
           /\ Live' \subseteq Live \cup {r}
           /\ r \notin Live
           /\ \A q \in Live : callerID'[q] = callerID[q]
           /\ callerID'[r] = who
<1>. USE DEF Ownership, Live
<1>1. r \notin heap /\ r \notin lost /\ r \notin Live /\ r # current /\ r \notin Range(mrQueue)
  BY DEF Enqueue
<1>2. (\A q \in Live : callerID'[q] = callerID[q]) /\ callerID'[r] = who
  BY <1>1 DEF Enqueue, TypeOK
<1>3. CASE HasRoom
  <2>1. mrQueue' = Append(mrQueue, r) /\ lost' = lost /\ heap' = heap \cup {r}
    BY <1>3 DEF Enqueue
  <2>2. /\ mrQueue \in Seq(Requests \cup Timers)
        /\ Len(mrQueue) \in Nat
        /\ DOMAIN mrQueue = 1..Len(mrQueue)
    BY LenProperties DEF TypeOK
  <2>3. /\ Range(mrQueue') = Range(mrQueue) \cup {r}
        /\ Len(mrQueue') = Len(mrQueue) + 1
        /\ \A i \in 1..Len(mrQueue) : mrQueue'[i] = mrQueue[i]
        /\ mrQueue'[Len(mrQueue) + 1] = r
    BY <2>1, <2>2, AppendFacts
  <2>4. Live' = Live \cup {r} /\ Live' = heap' \ lost' /\ lost' \subseteq heap'
    BY <1>1, <2>1, <2>3
  <2>5. \A i \in 1..Len(mrQueue) : mrQueue[i] # r
    BY <1>1, <2>2 DEF Range
  <2>6. QueuedOnce'
    BY <1>1, <2>2, <2>3, <2>5 DEF QueuedOnce
  <2>. QED  BY <1>1, <1>2, <2>4, <2>6
<1>4. CASE ~HasRoom
  <2>1. mrQueue' = mrQueue /\ lost' = lost \cup {r} /\ heap' = heap \cup {r}
    BY <1>4 DEF Enqueue
  <2>2. QueuedOnce'
    BY <2>1 DEF QueuedOnce
  <2>. QED  BY <1>1, <1>2, <2>1, <2>2
<1>. QED  BY <1>3, <1>4

\* Receiving a request keeps the ownership: the request moves to the task.
LEMMA ReceiveOwnership ==
    ASSUME TypeOK, Ownership, Receive
    PROVE  /\ Ownership'
           /\ Live' = Live
           /\ current' # NoRequest => current' = Head(mrQueue)
<1>. USE DEF Ownership, Live
<1>1. /\ mrQueue # <<>>
      /\ mrQueue' = Tail(mrQueue)
      /\ current = NoRequest
      /\ UNCHANGED <<heap, lost>>
      /\ \/ Head(mrQueue) \in Timers /\ current' = current
         \/ current' = Head(mrQueue)
  BY DEF Receive, TypeOK, callVars
<1>2. /\ Head(mrQueue) = mrQueue[1]
      /\ Len(mrQueue) \in Nat \ {0}
      /\ Len(mrQueue') = Len(mrQueue) - 1
      /\ \A i \in 1..Len(mrQueue') : mrQueue'[i] = mrQueue[i + 1]
      /\ Range(mrQueue) = Range(mrQueue') \cup {Head(mrQueue)}
  BY <1>1, TailFacts DEF TypeOK
<1>3. Live' = Live
  BY <1>1, <1>2
<1>4. QueuedOnce'
  BY <1>1, <1>2 DEF QueuedOnce
<1>. QED  BY <1>1, <1>3, <1>4

\* Finishing a request keeps the ownership: the request is deleted, and the
\* queue holds no other pointer to it.
LEMMA FinishOwnership ==
    ASSUME TypeOK, Ownership, Finish
    PROVE  /\ Ownership'
           /\ Live' = Live \ {current}
<1>. USE DEF Ownership, Live
<1>1. /\ heap' = heap \ {current}
      /\ current' = NoRequest
      /\ UNCHANGED <<mrQueue, lost>>
  BY DEF Finish
<1>2. DOMAIN mrQueue = 1..Len(mrQueue)
  BY LenProperties DEF TypeOK
<1>3. current \in Requests => current \notin Range(mrQueue)
  BY <1>2 DEF QueuedOnce, Range
<1>4. Live' = Live \ {current} /\ Live' = heap' \ lost' /\ lost' \subseteq heap'
  BY <1>1, <1>3 DEF TypeOK
<1>5. QueuedOnce'
  BY <1>1 DEF QueuedOnce, TypeOK
<1>. QED  BY <1>4, <1>5

\* A timer expiry posts a persistent request, which nobody owns.
LEMMA CallbackOwnership ==
    ASSUME TypeOK, Ownership, TimerCallback
    PROVE  Ownership' /\ Live' = Live
<1>. USE DEF Ownership, Live
<1>1. UNCHANGED <<heap, lost, current>> /\ daemon \in Timers
  BY DEF TimerCallback, callVars, taskVars, TypeOK
<1>2. CASE HasRoom
  <2>1. /\ mrQueue' = Append(mrQueue, daemon)
        /\ mrQueue \in Seq(Requests \cup Timers)
        /\ Len(mrQueue) \in Nat
    BY <1>2, LenProperties DEF TimerCallback, TypeOK
  <2>2. /\ Range(mrQueue') = Range(mrQueue) \cup {daemon}
        /\ Len(mrQueue') = Len(mrQueue) + 1
        /\ \A i \in 1..Len(mrQueue) : mrQueue'[i] = mrQueue[i]
        /\ mrQueue'[Len(mrQueue) + 1] = daemon
    BY <1>1, <2>1, AppendFacts
  <2>3. Live' = Live
    BY <1>1, <2>2
  <2>4. QueuedOnce'
    BY <1>1, <2>1, <2>2 DEF QueuedOnce
  <2>. QED  BY <1>1, <2>3, <2>4
<1>3. CASE ~HasRoom
  BY <1>1, <1>3 DEF TimerCallback, QueuedOnce
<1>. QED  BY <1>2, <1>3

\* A step that leaves the queue, the task and the heap alone keeps the ownership.
LEMMA OwnershipUnchanged ==
    ASSUME Ownership, UNCHANGED <<mrQueue, current, heap, lost>>
    PROVE  Ownership' /\ Live' = Live
BY DEF Ownership, Live, QueuedOnce

\* The requests of the program: none is used after it was deleted, deleted
\* twice, queued twice or, unless its send had failed, leaked
\* (executeMethod, ActiveObjectTaskFunction).
THEOREM OwnershipCorrect == Spec => []Ownership
<1>1. Init => Ownership
  BY EmptySeq DEF Init, Ownership, Live, QueuedOnce, Range
<1>2. TypeOK /\ Ownership /\ [Next]_vars => Ownership'
  <2> SUFFICES ASSUME TypeOK, Ownership, [Next]_vars  PROVE Ownership'
    OBVIOUS
  <2>. USE DEF callVars, taskVars, timerVars
  <2>1. ASSUME NEW c \in Callers, NEW r \in Requests, ExecuteMethod(c, r)
        PROVE  Ownership'
    BY <2>1, EnqueueOwnership DEF ExecuteMethod
  <2>2. ASSUME NEW c \in Callers, NEW r \in Requests, ExecuteMethodSynchronously(c, r)
        PROVE  Ownership'
    BY <2>2, EnqueueOwnership DEF ExecuteMethodSynchronously
  <2>3. ASSUME NEW r \in Requests, SelfCall(r)  PROVE Ownership'
    BY <2>3, EnqueueOwnership DEF SelfCall
  <2>4. ASSUME NEW c \in Callers, SynchronousReturn(c)  PROVE Ownership'
    BY <2>4, OwnershipUnchanged DEF SynchronousReturn
  <2>5. ASSUME NEW t \in Timers, CreateTimer(t) \/ Expire(t)  PROVE Ownership'
    BY <2>5, OwnershipUnchanged DEF CreateTimer, Expire
  <2>6. ASSUME NEW cmd \in Commands, TimerCommand(cmd)  PROVE Ownership'
    BY <2>6, OwnershipUnchanged DEF TimerCommand
  <2>7. CASE Receive
    BY <2>7, ReceiveOwnership
  <2>8. CASE Finish
    BY <2>8, FinishOwnership
  <2>9. CASE SendCommand \/ HandleCommand
    BY <2>9, OwnershipUnchanged DEF SendCommand, HandleCommand
  <2>10. CASE TimerCallback
    BY <2>10, CallbackOwnership
  <2>11. CASE UNCHANGED vars
    BY <2>11, OwnershipUnchanged DEF vars
  <2>. QED
    BY <2>1, <2>2, <2>3, <2>4, <2>5, <2>6, <2>7, <2>8, <2>9, <2>10, <2>11
       DEF Next, Task, Daemon, Others
<1>. QED  BY <1>1, <1>2, TypeCorrect, PTL DEF Spec

-----------------------------------------------------------------------------
(* Synchronous calls.                                                      *)

\* A caller of executeMethodSynchronously is woken only after its function was
\* executed, and no task is woken for a call it did not make.
THEOREM SyncCallsCorrect == Spec => []SyncCallProtocol
<1>1. Init => SyncCallProtocol
  BY EmptySeq DEF Init, SyncCallProtocol, Live, Range
<1>2. TypeOK /\ Ownership /\ SyncCallProtocol /\ [Next]_vars => SyncCallProtocol'
  <2> SUFFICES ASSUME TypeOK, Ownership, SyncCallProtocol, [Next]_vars
               PROVE  SyncCallProtocol'
    OBVIOUS
  <2>. USE DEF callVars, taskVars, timerVars, SyncCallProtocol
  <2>1. ASSUME NEW r \in Requests, Enqueue(r, NoCaller),
               UNCHANGED <<waiting, notified, current>>
        PROVE  SyncCallProtocol'
    BY <2>1, EnqueueOwnership, DistinctAssumption
  <2>2. ASSUME NEW c \in Callers, NEW r \in Requests, ExecuteMethodSynchronously(c, r)
        PROVE  SyncCallProtocol'
    <3>1. /\ Live' \subseteq Live \cup {r}
          /\ r \notin Live
          /\ \A q \in Live : callerID'[q] = callerID[q]
          /\ callerID'[r] = c
      BY <2>2, EnqueueOwnership DEF ExecuteMethodSynchronously
    <3>2. \A q \in Live : callerID[q] # c
      BY <2>2 DEF ExecuteMethodSynchronously
    <3>. QED  BY <2>2, <3>1, <3>2 DEF ExecuteMethodSynchronously
  <2>3. ASSUME NEW c \in Callers, SynchronousReturn(c)  PROVE SyncCallProtocol'
    BY <2>3, OwnershipUnchanged DEF SynchronousReturn
  <2>4. CASE Finish
    <3>1. Live' = Live \ {current}
      BY <2>4, FinishOwnership
    <3>2. current \in Requests => current \in Live
      BY DEF Live
    <3>. QED  BY <2>4, <3>1, <3>2 DEF Finish
  <2>5. CASE Receive
    BY <2>5, ReceiveOwnership DEF Receive
  <2>6. CASE TimerCallback
    BY <2>6, CallbackOwnership DEF TimerCallback
  <2>7. ASSUME UNCHANGED <<mrQueue, current, callVars>>  PROVE SyncCallProtocol'
    BY <2>7, OwnershipUnchanged
  <2>8. ASSUME NEW t \in Timers, CreateTimer(t) \/ Expire(t)  PROVE SyncCallProtocol'
    BY <2>7, <2>8 DEF CreateTimer, Expire
  <2>9. ASSUME NEW cmd \in Commands, TimerCommand(cmd)  PROVE SyncCallProtocol'
    BY <2>7, <2>9 DEF TimerCommand
  <2>10. CASE SendCommand \/ HandleCommand \/ UNCHANGED vars
    BY <2>7, <2>10 DEF SendCommand, HandleCommand, vars
  <2>11. ASSUME NEW r \in Requests,
                SelfCall(r) \/ \E c \in Callers : ExecuteMethod(c, r)
         PROVE  SyncCallProtocol'
    BY <2>1, <2>11 DEF SelfCall, ExecuteMethod
  <2>. QED
    BY <2>2, <2>3, <2>4, <2>5, <2>6, <2>8, <2>9, <2>10, <2>11
       DEF Next, Task, Daemon, Others
<1>. QED  BY <1>1, <1>2, TypeCorrect, OwnershipCorrect, PTL DEF Spec

-----------------------------------------------------------------------------
(* Timer handles.                                                          *)

\* A timer request is posted only for a created timer, so the check for a
\* NULL handle in ActiveObjectTaskFunction never drops one.
THEOREM HandlesCorrect == Spec => []HandlesSet
<1>1. Init => HandlesSet
  BY EmptySeq DEF Init, HandlesSet
<1>2. TypeOK /\ HandlesSet /\ [Next]_vars => HandlesSet'
  <2> SUFFICES ASSUME TypeOK, HandlesSet, [Next]_vars  PROVE HandlesSet'
    OBVIOUS
  <2>. USE DEF callVars, taskVars, timerVars, HandlesSet
  <2>0. /\ mrQueue \in Seq(Requests \cup Timers) /\ Len(mrQueue) \in Nat
        /\ cmds \in Seq(Commands) /\ Len(cmds) \in Nat
    BY LenProperties DEF TypeOK
  <2>1. ASSUME NEW x \in Requests \cup Timers, x \in Timers => x \in created,
               mrQueue' = Append(mrQueue, x) \/ mrQueue' = mrQueue,
               UNCHANGED created
        PROVE  \A i \in 1..Len(mrQueue') : mrQueue'[i] \in Timers => mrQueue'[i] \in created'
    BY <2>0, <2>1, AppendFacts
  <2>2. ASSUME NEW cmd \in Commands, cmd.tmr \in created', created \subseteq created',
               cmds' = Append(cmds, cmd)
        PROVE  \A i \in 1..Len(cmds') : cmds'[i].tmr \in created'
    BY <2>0, <2>2, AppendFacts
  <2>3. ASSUME NEW r \in Requests, NEW who \in Callers \cup {NoCaller}, Enqueue(r, who),
               UNCHANGED <<taskVars, timerVars>>
        PROVE  HandlesSet'
    BY <2>1, <2>3, DistinctAssumption DEF Enqueue
  <2>4. ASSUME NEW c \in Callers, NEW r \in Requests,
               ExecuteMethod(c, r) \/ ExecuteMethodSynchronously(c, r)
        PROVE  HandlesSet'
    BY <2>3, <2>4 DEF ExecuteMethod, ExecuteMethodSynchronously
  <2>5. ASSUME NEW r \in Requests, SelfCall(r)  PROVE HandlesSet'
    BY <2>3, <2>5 DEF SelfCall
  <2>6. ASSUME NEW c \in Callers, SynchronousReturn(c)  PROVE HandlesSet'
    BY <2>6 DEF SynchronousReturn
  <2>7. ASSUME NEW t \in Timers, CreateTimer(t)  PROVE HandlesSet'
    <3>1. [op |-> "start", tmr |-> t] \in Commands
      BY DEF Commands, Ops
    <3>2. \A i \in 1..Len(cmds') : cmds'[i].tmr \in created'
      BY <2>2, <2>7, <3>1 DEF CreateTimer
    <3>. QED  BY <2>7, <3>2 DEF CreateTimer
  <2>8. ASSUME NEW t \in Timers, Expire(t)  PROVE HandlesSet'
    BY <2>8 DEF Expire
  <2>9. ASSUME NEW cmd \in Commands, TimerCommand(cmd)  PROVE HandlesSet'
    BY <2>9 DEF TimerCommand
  <2>10. CASE SendCommand
    <3>1. wanted \in Commands /\ wanted.tmr \in created
      BY <2>10 DEF SendCommand, TypeOK
    <3>2. \A i \in 1..Len(cmds') : cmds'[i].tmr \in created'
      BY <2>2, <2>10, <3>1 DEF SendCommand
    <3>. QED  BY <2>10, <3>2 DEF SendCommand
  <2>11. CASE HandleCommand
    <3>1. /\ Head(cmds).tmr \in created
          /\ \A i \in 1..Len(cmds') : cmds'[i].tmr \in created
      BY <2>0, <2>11, TailFacts DEF HandleCommand
    <3>. QED  BY <2>11, <3>1 DEF HandleCommand
  <2>12. CASE TimerCallback
    BY <2>1, <2>12 DEF TimerCallback, TypeOK
  <2>13. CASE Receive
    <3>1. \A i \in 1..Len(mrQueue') : mrQueue'[i] \in Timers => mrQueue'[i] \in created
      BY <2>0, <2>13, TailFacts DEF Receive
    <3>. QED  BY <2>13, <3>1 DEF Receive
  <2>14. CASE Finish \/ UNCHANGED vars
    BY <2>14 DEF Finish, vars
  <2>. QED
    BY <2>4, <2>5, <2>6, <2>7, <2>8, <2>9, <2>10, <2>11, <2>12, <2>13, <2>14
       DEF Next, Task, Daemon, Others
<1>. QED  BY <1>1, <1>2, TypeCorrect, PTL DEF Spec

-----------------------------------------------------------------------------
(* The abstract specification is implemented.                              *)

\* Every call an object accepts is executed exactly once, one at a time, and
\* every other call is refused when it is made (MethodCalls).
THEOREM PromiseKept == Spec => KeepsPromise
<1>. DEFINE status == [r \in Requests |-> statusOf(r)]
<1>1. Init => Calls!Init
  BY DEF Init, Calls!Init, statusOf
<1>2. TypeOK /\ Ownership /\ [Next]_vars => [Calls!Next]_status
  <2> SUFFICES ASSUME TypeOK, Ownership, [Next]_vars
               PROVE  Calls!Next \/ UNCHANGED status
    BY DEF statusOf
  <2>. USE DEF callVars, taskVars, timerVars
  <2>1. ASSUME UNCHANGED <<lost, current, heap>>  PROVE UNCHANGED status
    BY <2>1 DEF statusOf
  <2>2. ASSUME NEW r \in Requests, NEW who \in Callers \cup {NoCaller}, Enqueue(r, who),
               UNCHANGED current
        PROVE  Calls!Next
    <3>1. statusOf(r) = "none" /\ r # current
      BY <2>2 DEF Enqueue, statusOf, Ownership, Live
    <3>2. ASSUME HasRoom  PROVE Calls!Post(r)
      BY <2>2, <3>1, <3>2 DEF Enqueue, statusOf, Calls!Post, Calls!Move
    <3>3. ASSUME ~HasRoom  PROVE Calls!Refuse(r)
      BY <2>2, <3>1, <3>3 DEF Enqueue, statusOf, Calls!Refuse, Calls!Move
    <3>. QED  BY <3>2, <3>3 DEF Calls!Next
  <2>3. CASE Receive
    <3>1. UNCHANGED <<lost, heap>> /\ current = NoRequest
      BY <2>3 DEF Receive, TypeOK
    <3>2. CASE current' \in Requests
      <4>1. statusOf(current') = "pending"
        BY <2>3, <3>1, <3>2, ReceiveOwnership DEF statusOf, Ownership, Live
      <4>2. \A q \in Requests : statusOf(q) # "running"
        BY <3>1, DistinctAssumption DEF statusOf
      <4>3. Calls!Begin(current')
        BY <3>1, <3>2, <4>1, <4>2, DistinctAssumption
           DEF statusOf, Calls!Begin, Calls!Move
      <4>. QED  BY <3>2, <4>3 DEF Calls!Next
    <3>3. CASE current' \notin Requests
      BY <3>1, <3>3, DistinctAssumption DEF statusOf
    <3>. QED  BY <3>2, <3>3
  <2>4. CASE Finish
    <3>1. /\ heap' = heap \ {current}
          /\ current' = NoRequest
          /\ UNCHANGED lost
      BY <2>4 DEF Finish
    <3>2. CASE current \in Requests
      <4>1. statusOf(current) = "running"
        BY <3>2 DEF statusOf, Ownership, Live
      <4>2. Calls!End(current)
        BY <3>1, <3>2, <4>1, DistinctAssumption DEF statusOf, Calls!End, Calls!Move
      <4>. QED  BY <3>2, <4>2 DEF Calls!Next
    <3>3. CASE current \notin Requests
      BY <3>1, <3>3, DistinctAssumption DEF statusOf
    <3>. QED  BY <3>2, <3>3
  <2>5. ASSUME NEW c \in Callers, NEW r \in Requests,
               ExecuteMethod(c, r) \/ ExecuteMethodSynchronously(c, r)
        PROVE  Calls!Next
    BY <2>2, <2>5 DEF ExecuteMethod, ExecuteMethodSynchronously
  <2>6. ASSUME NEW c \in Callers, SynchronousReturn(c)  PROVE UNCHANGED status
    BY <2>1, <2>6 DEF SynchronousReturn
  <2>7. ASSUME NEW t \in Timers, CreateTimer(t) \/ Expire(t)  PROVE UNCHANGED status
    BY <2>1, <2>7 DEF CreateTimer, Expire
  <2>8. ASSUME NEW cmd \in Commands, TimerCommand(cmd)  PROVE UNCHANGED status
    BY <2>1, <2>8 DEF TimerCommand
  <2>9. CASE SendCommand \/ HandleCommand \/ TimerCallback \/ UNCHANGED vars
    BY <2>1, <2>9 DEF SendCommand, HandleCommand, TimerCallback, vars
  <2>10. ASSUME NEW r \in Requests, SelfCall(r)  PROVE Calls!Next
    BY <2>2, <2>10 DEF SelfCall
  <2>. QED
    BY <2>3, <2>4, <2>5, <2>6, <2>7, <2>8, <2>9, <2>10 DEF Next, Task, Daemon, Others
<1>. QED
  BY <1>1, <1>2, TypeCorrect, OwnershipCorrect, PTL DEF Spec, KeepsPromise, Calls!Spec
=============================================================================

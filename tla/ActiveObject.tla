----------------------------- MODULE ActiveObject -----------------------------
(***************************************************************************)
(* The active-object runtime of the device (main/ActiveObject.cpp and      *)
(* main/MethodRequest.h): one FreeRTOS task that executes the method       *)
(* requests of a bounded queue, the tasks that call the object, and the    *)
(* FreeRTOS timer daemon, which runs in a task of its own, takes the       *)
(* start/stop commands from a second bounded queue and posts the request   *)
(* of an expired timer to the object's queue.                              *)
(*                                                                         *)
(* A non-persistent MRequest is a heap object: an element of Requests is   *)
(* an address that operator new may return.  The persistent MRequest that  *)
(* createTimer makes for a timer is never deleted and is named by its      *)
(* timer.  The body of a method is any finite sequence of the calls a      *)
(* method can make on its own object.                                      *)
(***************************************************************************)
EXTENDS Naturals, Sequences, Functions

CONSTANTS
    Requests,       \* heap addresses of non-persistent MRequests (bound)
    Timers,         \* timers of the object (each with its persistent MRequest)
    Callers,        \* other tasks that call the object
    NoRequest,      \* no MRequest
    NoCaller,       \* callerID == NULL
    QueueSize,      \* length of mrQueue (20 in the code)
    CmdQueueSize    \* length of the daemon's command queue

ASSUME SizesAssumption ==
    QueueSize \in Nat \ {0} /\ CmdQueueSize \in Nat \ {0}

ASSUME DistinctAssumption ==
    /\ Requests \cap Timers = {}
    /\ NoRequest \notin Requests \cup Timers
    /\ NoCaller \notin Callers

VARIABLES
    mrQueue,        \* the object's queue of MRequest pointers
    heap,           \* non-persistent MRequests allocated and not deleted
    lost,           \* those of them whose xQueueSend failed: nobody holds them
    callerID,       \* the task to notify when the request was executed
    waiting,        \* callers blocked in ulTaskNotifyTake
    notified,       \* callers with a pending task notification
    pc,             \* the object's task: "receive", "execute" or "command"
    current,        \* the request the task is executing
    created,        \* timers whose handle is set
    wanted,         \* the command the task is blocked on in "command"
    cmds,           \* the timer daemon's command queue
    active,         \* timers that are running in the daemon
    daemon          \* the timer whose callback the daemon is executing

callVars  == <<heap, lost, callerID, waiting, notified>>
taskVars  == <<pc, current, wanted>>
timerVars == <<created, cmds, active, daemon>>
vars      == <<mrQueue, callVars, taskVars, timerVars>>

Ops      == {"start", "stop", "changePeriod"}
Commands == [op : Ops, tmr : Timers]

NoCommand == [op |-> "none", tmr |-> NoRequest]

Init ==
    /\ mrQueue  = <<>>
    /\ heap     = {}
    /\ lost     = {}
    /\ callerID = [r \in Requests |-> NoCaller]
    /\ waiting  = {}
    /\ notified = {}
    /\ pc       = "receive"
    /\ current  = NoRequest
    /\ created  = {}
    /\ wanted   = NoCommand
    /\ cmds     = <<>>
    /\ active   = {}
    /\ daemon   = NoRequest

-----------------------------------------------------------------------------
(* Calls.                                                                  *)

\* Mutant of HasRoom: off by one.
HasRoomOffByOne == Len(mrQueue) <= QueueSize

HasRoom == Len(mrQueue) < QueueSize

\* executeMethod and the common part of executeMethodSynchronously: allocate
\* the request and send its address with timeout 0, ignoring the result.
Enqueue(r, who) ==
    /\ r \in Requests \ heap
    /\ heap' = heap \cup {r}
    /\ callerID' = [callerID EXCEPT ![r] = who]
    /\ \/ /\ HasRoom
          /\ mrQueue' = Append(mrQueue, r)
          /\ lost' = lost
       \/ /\ ~HasRoom
          /\ lost' = lost \cup {r}
          /\ mrQueue' = mrQueue

\* Another task calls the object and goes on.
ExecuteMethod(c, r) ==
    /\ c \notin waiting
    /\ Enqueue(r, NoCaller)
    /\ UNCHANGED <<waiting, notified, taskVars, timerVars>>

\* A method of the object posts a further call to its own object.
SelfCall(r) ==
    /\ pc = "execute"
    /\ Enqueue(r, NoCaller)
    /\ UNCHANGED <<waiting, notified, taskVars, timerVars>>

\* Another task calls the object and blocks until it is notified.
ExecuteMethodSynchronously(c, r) ==
    /\ c \notin waiting
    /\ Enqueue(r, c)
    /\ waiting' = waiting \cup {c}
    /\ UNCHANGED <<notified, taskVars, timerVars>>

\* ulTaskNotifyTake(pdTRUE, portMAX_DELAY) returns and clears the notification.
SynchronousReturn(c) ==
    /\ c \in waiting \cap notified
    /\ waiting' = waiting \ {c}
    /\ notified' = notified \ {c}
    /\ UNCHANGED <<mrQueue, heap, lost, callerID, taskVars, timerVars>>

-----------------------------------------------------------------------------
(* The object's task.                                                      *)

\* Mutant of Receive: xQueuePeek, the request stays in the queue.
ReceivePeeks ==
    /\ pc = "receive"
    /\ mrQueue # <<>>
    /\ pc' = "execute"
    /\ current' = Head(mrQueue)
    /\ UNCHANGED <<mrQueue, wanted, callVars, timerVars>>

\* Mutant of Receive: the newest request first.
ReceiveNewest ==
    /\ pc = "receive"
    /\ mrQueue # <<>>
    /\ mrQueue' = SubSeq(mrQueue, 1, Len(mrQueue) - 1)
    /\ pc' = "execute"
    /\ current' = mrQueue[Len(mrQueue)]
    /\ UNCHANGED <<wanted, callVars, timerVars>>

\* Mutant of Receive: the caller is notified before the function runs.
ReceiveNotifies ==
    /\ pc = "receive"
    /\ mrQueue # <<>>
    /\ mrQueue' = Tail(mrQueue)
    /\ pc' = "execute"
    /\ current' = Head(mrQueue)
    /\ notified' = notified \cup
           {c \in Callers : current' \in Requests /\ callerID[current'] = c}
    /\ UNCHANGED <<wanted, heap, lost, callerID, waiting, timerVars>>

\* xQueueReceive, then the check for a cancelled timer: a timer request whose
\* handle variable is NULL is dropped, every other request is executed.
Receive ==
    /\ pc = "receive"
    /\ mrQueue # <<>>
    /\ mrQueue' = Tail(mrQueue)
    /\ IF Head(mrQueue) \in Timers \ created
       THEN UNCHANGED <<pc, current>>
       ELSE /\ pc' = "execute"
            /\ current' = Head(mrQueue)
    /\ UNCHANGED <<wanted, callVars, timerVars>>

\* Mutant of Finish: the request is not deleted.
FinishLeaks ==
    /\ pc = "execute"
    /\ notified' = notified \cup
           {c \in Callers : current \in Requests /\ callerID[current] = c}
    /\ pc' = "receive"
    /\ current' = NoRequest
    /\ UNCHANGED <<mrQueue, heap, lost, callerID, waiting, wanted, timerVars>>

\* mr->func() returned: notify a synchronous caller, delete the request
\* unless it is persistent.
Finish ==
    /\ pc = "execute"
    /\ notified' = notified \cup
           {c \in Callers : current \in Requests /\ callerID[current] = c}
    /\ heap' = heap \ {current}
    /\ pc' = "receive"
    /\ current' = NoRequest
    /\ UNCHANGED <<mrQueue, lost, callerID, waiting, wanted, timerVars>>

\* A method calls startTimer, stopTimer or changeTimerPeriod, which send a
\* command to the daemon and block while its queue is full (portMAX_DELAY).
TimerCommand(cmd) ==
    /\ pc = "execute"
    /\ cmd.tmr \in created
    /\ pc' = "command"
    /\ wanted' = cmd
    /\ UNCHANGED <<mrQueue, callVars, current, timerVars>>

SendCommand ==
    /\ pc = "command"
    /\ Len(cmds) < CmdQueueSize
    /\ cmds' = Append(cmds, wanted)
    /\ pc' = "execute"
    /\ wanted' = NoCommand
    /\ UNCHANGED <<mrQueue, callVars, current, created, active, daemon>>

-----------------------------------------------------------------------------
(* Timers.                                                                 *)

\* The constructor creates a timer, and may start it right away.
CreateTimer(t) ==
    /\ t \notin created
    /\ created' = created \cup {t}
    /\ \/ cmds' = cmds
       \/ /\ Len(cmds) < CmdQueueSize
          /\ cmds' = Append(cmds, [op |-> "start", tmr |-> t])
    /\ UNCHANGED <<mrQueue, callVars, taskVars, active, daemon>>

\* The daemon takes a command.  Changing the period also starts the timer.
HandleCommand ==
    /\ daemon = NoRequest
    /\ cmds # <<>>
    /\ cmds' = Tail(cmds)
    /\ active' = IF Head(cmds).op = "stop" THEN active \ {Head(cmds).tmr}
                                           ELSE active \cup {Head(cmds).tmr}
    /\ UNCHANGED <<mrQueue, callVars, taskVars, created, daemon>>

\* The period of an auto-reload timer is over; it keeps running.
Expire(t) ==
    /\ daemon = NoRequest
    /\ t \in active
    /\ daemon' = t
    /\ UNCHANGED <<mrQueue, callVars, taskVars, created, cmds, active>>

\* Mutant of TimerCallback: it waits for room in the object's queue.
TimerCallbackWaits ==
    /\ daemon # NoRequest
    /\ HasRoom
    /\ mrQueue' = Append(mrQueue, daemon)
    /\ daemon' = NoRequest
    /\ UNCHANGED <<callVars, taskVars, created, cmds, active>>

\* ActiveObjectTimerCallback: post the timer's request, without waiting; when
\* the queue is full this expiry is dropped.
TimerCallback ==
    /\ daemon # NoRequest
    /\ mrQueue' = IF HasRoom THEN Append(mrQueue, daemon) ELSE mrQueue
    /\ daemon' = NoRequest
    /\ UNCHANGED <<callVars, taskVars, created, cmds, active>>

-----------------------------------------------------------------------------
Task   == Receive \/ Finish \/ SendCommand \/ \E cmd \in Commands : TimerCommand(cmd)
                  \/ \E r \in Requests : SelfCall(r)

Daemon == HandleCommand \/ TimerCallback \/ \E t \in Timers : Expire(t)

Others == \/ \E c \in Callers, r \in Requests :
                 ExecuteMethod(c, r) \/ ExecuteMethodSynchronously(c, r)
          \/ \E c \in Callers : SynchronousReturn(c)
          \/ \E t \in Timers : CreateTimer(t)

Next == Task \/ Daemon \/ Others

Spec == Init /\ [][Next]_vars

(* The scheduler runs every ready task.  A method makes finitely many      *)
(* calls, so one that can return again and again does return; the daemon   *)
(* looks at its command queue between any two expiries.                    *)
Fairness ==
    /\ WF_vars(Receive)
    /\ SF_vars(Finish)
    /\ SF_vars(SendCommand)
    /\ SF_vars(HandleCommand)
    /\ WF_vars(TimerCallback)
    /\ \A c \in Callers : WF_vars(SynchronousReturn(c))

FairSpec == Spec /\ Fairness

-----------------------------------------------------------------------------
(* Properties.                                                             *)

TypeOK ==
    /\ mrQueue \in Seq(Requests \cup Timers)
    /\ Len(mrQueue) <= QueueSize
    /\ heap \subseteq Requests
    /\ lost \subseteq Requests
    /\ callerID \in [Requests -> Callers \cup {NoCaller}]
    /\ waiting \subseteq Callers
    /\ notified \subseteq Callers
    /\ pc \in {"receive", "execute", "command"}
    /\ current \in Requests \cup Timers \cup {NoRequest}
    /\ (current = NoRequest) <=> (pc = "receive")
    /\ created \subseteq Timers
    /\ wanted \in Commands \cup {NoCommand}
    /\ (wanted = NoCommand) <=> (pc # "command")
    /\ cmds \in Seq(Commands)
    /\ Len(cmds) <= CmdQueueSize
    /\ active \subseteq Timers
    /\ daemon \in Timers \cup {NoRequest}

\* The requests the task still has to execute, or is executing.
Live == (Range(mrQueue) \cup {current}) \cap Requests

\* A queued request is queued once and is not the one being executed.
QueuedOnce ==
    \A i \in 1..Len(mrQueue) : mrQueue[i] \in Requests =>
        /\ mrQueue[i] # current
        /\ \A j \in 1..Len(mrQueue) : mrQueue[j] = mrQueue[i] => i = j

\* Ownership of the MRequest objects (the new in executeMethod against the
\* delete in ActiveObjectTaskFunction): the queue and the task hold only
\* allocated requests, none of them twice, and every allocated request is held
\* by exactly one of the queue, the task, or nobody when its send had failed.
Ownership ==
    /\ lost \subseteq heap
    /\ Live = heap \ lost
    /\ QueuedOnce

\* A caller of executeMethodSynchronously is woken only after the function it
\* asked for has returned: while the task still holds a request of that caller,
\* the caller is blocked and has no notification, and there is one such request.
SyncCallProtocol ==
    /\ notified \subseteq waiting
    /\ \A r \in Live : callerID[r] \in Callers =>
           /\ callerID[r] \in waiting \ notified
           /\ \A q \in Live : callerID[q] = callerID[r] => q = r

\* A timer request never comes from a handle that is not set: the check of
\* ActiveObjectTaskFunction for a NULL handle never finds one, because
\* stopTimer leaves the handle alone.
HandlesSet ==
    /\ \A i \in 1..Len(mrQueue) : mrQueue[i] \in Timers => mrQueue[i] \in created
    /\ active \subseteq created
    /\ pc = "command" => wanted.tmr \in created
    /\ daemon \in Timers => daemon \in created
    /\ \A i \in 1..Len(cmds) : cmds[i].tmr \in created

-----------------------------------------------------------------------------
(* The promise of module MethodCalls, kept.                                *)

statusOf(r) == IF r \in lost THEN "refused"
               ELSE IF r = current THEN "running"
               ELSE IF r \in heap THEN "pending"
               ELSE "none"

Calls == INSTANCE MethodCalls WITH status <- [r \in Requests |-> statusOf(r)]

\* Every call is refused at once or executed exactly once, one at a time.
KeepsPromise == Calls!Spec

\* Every accepted call is eventually executed and released.
AcceptedCallsExecuted == Calls!Executed

\* The object's task and the timer daemon never wait for each other: a
\* startTimer, stopTimer or changeTimerPeriod of a method always returns,
\* although both queues are bounded and the task waits without a timeout.
TimerCommandsReturn == (pc = "command") ~> (pc = "execute")

=============================================================================

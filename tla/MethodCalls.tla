----------------------------- MODULE MethodCalls -----------------------------
(***************************************************************************)
(* What an active object promises to the tasks that call it.               *)
(*                                                                         *)
(* A call is one MRequest.  It is either refused when it is made, or it is *)
(* accepted, executed exactly once by the object's own task, one call at a *)
(* time, and then released.  Nothing is said about the queue, the timers   *)
(* or the memory: module ActiveObject shows how the code keeps the         *)
(* promise.                                                                *)
(***************************************************************************)
CONSTANT Requests      \* the calls (MRequest objects) that can exist

VARIABLE status        \* status[r]: how far call r has got

Statuses == {"none", "pending", "running", "refused"}

Init == status = [r \in Requests |-> "none"]

Move(r, from, to) ==
    /\ status[r] = from
    /\ status' = [status EXCEPT ![r] = to]

Post(r)   == Move(r, "none", "pending")

Refuse(r) == Move(r, "none", "refused")

Begin(r)  == /\ \A q \in Requests : status[q] # "running"
             /\ Move(r, "pending", "running")

End(r)    == Move(r, "running", "none")

Next == \E r \in Requests : Post(r) \/ Refuse(r) \/ Begin(r) \/ End(r)

Spec == Init /\ [][Next]_status

\* A call that was accepted is executed and released.
Executed == \A r \in Requests : status[r] = "pending" ~> status[r] = "none"
=============================================================================

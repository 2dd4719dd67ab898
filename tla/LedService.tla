------------------------------ MODULE LedService ------------------------------
(***************************************************************************)
(* The LED active object (main/LEDService.cpp), which shows the state of   *)
(* the connection by the rhythm of one LED.  Every change of rhythm makes  *)
(* a new auto-reload timer; the timers made before keep running and call   *)
(* the same tmrExpiry.                                                     *)
(*                                                                         *)
(* Time is discrete, and the object's task is done with its requests when  *)
(* a unit of time passes.  No caller limits the number of cadences         *)
(* (count = 0), so currentCadence has no effect and is left out.           *)
(***************************************************************************)
EXTENDS Naturals, Sequences, FiniteSets

CONSTANTS
    Cadence,        \* length of a cadence in each mode: 1 s, 1 s and 200 ms
    MaxTimers       \* timers created before the requests stop (bound)

Modes == {"disconnected", "connected", "wps"}

ASSUME CadenceAssumption == Cadence \in [Modes -> Nat \ {0}]
ASSUME TimersAssumption  == MaxTimers \in Nat \ {0}

VARIABLES
    queue,          \* requests for the object: a mode, or "tmrExpiry"
    mode,           \* mode of the last setCadenceDuty
    currentExpiry,  \* expiries since the LED was switched on
    level,          \* the output
    asked,          \* mode the other objects asked for last
    timers,         \* for every timer created: its period and the time left
    shown,          \* the output when the last unit of time passed (history)
    steady          \* units of time since the output or the mode changed (history)

vars == <<queue, mode, currentExpiry, level, asked, timers, shown, steady>>

\* In percent.
Duty == [disconnected |-> 50, connected |-> 100, wps |-> 20]

TmrValue(m)  == (Cadence[m] * Duty[m]) \div 100
MaxExpiry(m) == Cadence[m] \div TmrValue(m)

NewTimer(m) == [period |-> TmrValue(m), left |-> TmrValue(m)]

\* The constructor calls setCadenceDuty(1000, 0.5, 0).
Init ==
    /\ queue = <<>>
    /\ mode = "disconnected" /\ currentExpiry = 0 /\ level = 1
    /\ asked = "disconnected"
    /\ timers = <<NewTimer("disconnected")>>
    /\ shown = 1 /\ steady = 0

-----------------------------------------------------------------------------
\* A request for a new rhythm.  The WiFi object starts the WPS procedure right
\* after the boot, and there is no connection during that procedure; the WWC
\* object tells when the connection is made, when the time was received in it,
\* and when it ends.
Call(m) ==
    /\ Len(timers) + Len(queue) < MaxTimers
    /\ CASE m = "wps"          -> Len(timers) = 1 /\ asked = "disconnected" /\ steady = 0
         [] m = "connected"    -> asked # "wps"
         [] m = "disconnected" -> asked = "connected"
    /\ asked' = m
    /\ queue' = Append(queue, m)
    /\ UNCHANGED <<mode, currentExpiry, level, timers, shown, steady>>

Take(r) == queue # <<>> /\ Head(queue) = r /\ queue' = Tail(queue)

\* The timer that ledTmr named before goes on without a name.
SetCadenceDuty(m) ==
    /\ Take(m)
    /\ mode' = m
    /\ currentExpiry' = 0
    /\ level' = 1
    /\ timers' = Append(timers, NewTimer(m))
    /\ steady' = 0
    /\ UNCHANGED <<asked, shown>>

\* Mutant of TmrExpiry: one expiry too many.
TmrExpiryLate ==
    /\ Take("tmrExpiry")
    /\ \/ /\ currentExpiry + 1 > MaxExpiry(mode)
          /\ currentExpiry' = 0
          /\ level' = 1
       \/ /\ currentExpiry + 1 <= MaxExpiry(mode)
          /\ currentExpiry' = currentExpiry + 1
          /\ level' = 0
    /\ UNCHANGED <<mode, asked, timers, shown, steady>>

TmrExpiry ==
    /\ Take("tmrExpiry")
    /\ \/ /\ currentExpiry + 1 >= MaxExpiry(mode)
          /\ currentExpiry' = 0
          /\ level' = 1
       \/ /\ currentExpiry + 1 < MaxExpiry(mode)
          /\ currentExpiry' = currentExpiry + 1
          /\ level' = 0
    /\ UNCHANGED <<mode, asked, timers, shown, steady>>

\* A unit of time passes: every timer whose time is over posts a request.
Expired == {i \in 1..Len(timers) : timers[i].left = 1}

Tick ==
    /\ queue = <<>>
    /\ timers' = [i \in 1..Len(timers) |->
                     IF i \in Expired THEN [timers[i] EXCEPT !.left = timers[i].period]
                                      ELSE [timers[i] EXCEPT !.left = @ - 1]]
    /\ queue' = [i \in 1..Cardinality(Expired) |-> "tmrExpiry"]
    /\ shown' = level
    /\ steady' = IF level # shown THEN 1
                 ELSE IF steady > Cadence[mode] THEN steady ELSE steady + 1
    /\ UNCHANGED <<mode, currentExpiry, level, asked>>

Next == \/ \E m \in Modes : Call(m) \/ SetCadenceDuty(m)
        \/ TmrExpiry
        \/ Tick

Spec == Init /\ [][Next]_vars

-----------------------------------------------------------------------------
(* Properties.                                                             *)

TypeOK ==
    /\ queue \in Seq(Modes \cup {"tmrExpiry"})
    /\ mode \in Modes /\ asked \in Modes
    /\ currentExpiry \in 0..MaxExpiry(mode) - 1
    /\ level \in {0, 1} /\ shown \in {0, 1} /\ steady \in Nat
    /\ Len(timers) \in 1..MaxTimers
    /\ \A i \in 1..Len(timers) : timers[i].left \in 1..timers[i].period

\* A connected device shows a steady light, although the timers of former
\* rhythms go on calling tmrExpiry.
LitWhileConnected == mode = "connected" => level = 1

\* A steady light means connected ("Singals IoT gateway connectivity using
\* LED", README.md:9).
BlinksWhileDisconnected == mode = "disconnected" => steady <= Cadence["disconnected"]
=============================================================================

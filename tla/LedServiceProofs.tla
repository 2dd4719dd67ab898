--------------------------- MODULE LedServiceProofs ---------------------------
(***************************************************************************)
(* What module LedService guarantees for every length of the cadences and  *)
(* any number of timers left behind.                                       *)
(***************************************************************************)
EXTENDS LedService, TLAPS

\* The LED is lit during the first expiry of a cadence and dark until the next one; the cadence
\* of a connected device is one expiry long.
RhythmInv ==
    /\ mode \in Modes /\ currentExpiry \in Nat
    /\ level = (IF currentExpiry = 0 THEN 1 ELSE 0)
    /\ mode = "connected" => currentExpiry = 0

\* Where the duty is the whole cadence, every expiry of a timer of that cadence ends it.
LEMMA ConnectedExpiry == MaxExpiry("connected") = 1
<1>1. Cadence["connected"] \in Nat \ {0} /\ Duty["connected"] = 100
  BY CadenceAssumption DEF Modes, Duty
<1>2. \A c \in Nat \ {0} : (c * 100) \div 100 = c /\ c \div c = 1
  OBVIOUS
<1> QED
  BY <1>1, <1>2 DEF MaxExpiry, TmrValue

LEMMA RhythmStep == RhythmInv /\ [Next]_vars => RhythmInv'
<1> SUFFICES ASSUME RhythmInv, [Next]_vars PROVE RhythmInv'
  OBVIOUS
<1>1. CASE \E m \in Modes : Call(m)
  BY <1>1 DEF Call, RhythmInv
<1>2. CASE \E m \in Modes : SetCadenceDuty(m)
  BY <1>2 DEF SetCadenceDuty, RhythmInv
<1>3. CASE TmrExpiry
  <2>1. CASE currentExpiry + 1 >= MaxExpiry(mode) /\ currentExpiry' = 0 /\ level' = 1
    BY <1>3, <2>1 DEF TmrExpiry, RhythmInv
  \* Not in a connected device: its first expiry is the last one.
  <2>2. CASE currentExpiry + 1 < MaxExpiry(mode) /\ currentExpiry' = currentExpiry + 1 /\ level' = 0
    <3>1. mode # "connected"
      BY <2>2, ConnectedExpiry DEF RhythmInv
    <3> QED
      BY <1>3, <2>2, <3>1 DEF TmrExpiry, RhythmInv
  <2> QED
    BY <1>3, <2>1, <2>2 DEF TmrExpiry
<1>4. CASE Tick
  BY <1>4 DEF Tick, RhythmInv
<1>5. CASE UNCHANGED vars
  BY <1>5 DEF vars, RhythmInv
<1> QED
  BY <1>1, <1>2, <1>3, <1>4, <1>5 DEF Next

\* A connected device shows a steady light, however many timers of former rhythms go on calling
\* tmrExpiry and whatever requests for it are still queued when the rhythm changes.
THEOREM LitAlways == Spec => []LitWhileConnected
<1>1. Init => RhythmInv
  BY DEF Init, RhythmInv, Modes
<1>2. RhythmInv => LitWhileConnected
  BY DEF RhythmInv, LitWhileConnected
<1> QED
  BY <1>1, <1>2, RhythmStep, PTL DEF Spec
=============================================================================

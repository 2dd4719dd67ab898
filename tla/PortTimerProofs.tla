------------------------- MODULE PortTimerProofs -------------------------
(***************************************************************************)
(* What the countdown timers of port/timer.c do wherever the tick counter  *)
(* wraps, for every width of the counter and every length of a tick.       *)
(***************************************************************************)
EXTENDS PortTimer, TLAPS

\* has_timer_expired and left_ms subtract the two readings of the counter without looking
\* whether it wrapped in between: the difference is the time that passed, as long as less
\* than a whole turn did.
THEOREM ElapsedIsAge ==
  \A start, age \in Ticks : Elapsed(start, Later(start, age)) = age
<1> SUFFICES ASSUME NEW start \in Ticks, NEW age \in Ticks PROVE Elapsed(start, Later(start, age)) = age
  OBVIOUS
<1>1. CASE start + age < Wrap
  <2>1. Later(start, age) = start + age
    BY <1>1 DEF Later
  <2> QED
    BY <2>1, TimerAssumption DEF Elapsed, Ticks
<1>2. CASE ~(start + age < Wrap)
  <2>1. Later(start, age) = start + age - Wrap
    BY <1>2 DEF Later
  <2>2. Later(start, age) - start < 0
    BY <2>1, TimerAssumption DEF Ticks
  <2> QED
    BY <2>1, <2>2, TimerAssumption DEF Elapsed, Ticks
<1> QED
  BY <1>1, <1>2

LEMMA LaterIsTick == ASSUME NEW start \in Ticks, NEW age \in Ticks PROVE Later(start, age) \in Ticks
  BY TimerAssumption DEF Later, Ticks

\* A timer has expired exactly when its number of ticks has passed, and has time left exactly
\* until then: countdown_ms, has_timer_expired and left_ms agree over a wrap.
THEOREM TimerExact ==
  \A start, age \in Ticks, ms \in Nat :
    /\ HasExpired(Countdown(start, ms), Later(start, age)) <=> age >= ms \div TickPeriod
    /\ LeftMs(Countdown(start, ms), Later(start, age)) > 0 <=> ~HasExpired(Countdown(start, ms), Later(start, age))
<1> SUFFICES ASSUME NEW start \in Ticks, NEW age \in Ticks, NEW ms \in Nat
             PROVE /\ HasExpired(Countdown(start, ms), Later(start, age)) <=> age >= ms \div TickPeriod
                   /\ LeftMs(Countdown(start, ms), Later(start, age)) > 0 <=>
                        ~HasExpired(Countdown(start, ms), Later(start, age))
  OBVIOUS
<1> DEFINE timeout == ms \div TickPeriod
<1> DEFINE left == timeout - age
<1>1. timeout \in Nat
  BY TimerAssumption
<1>2. Countdown(start, ms).start = start /\ Countdown(start, ms).timeout = timeout
  BY DEF Countdown
<1>3. Elapsed(Countdown(start, ms).start, Later(start, age)) = age
  BY <1>2, ElapsedIsAge
<1>4. HasExpired(Countdown(start, ms), Later(start, age)) <=> age >= timeout
  BY <1>2, <1>3 DEF HasExpired
<1>5. age \in Nat
  BY TimerAssumption DEF Ticks
<1>6. LeftMs(Countdown(start, ms), Later(start, age)) = IF age < timeout THEN left * TickPeriod ELSE 0
  BY <1>2, <1>3 DEF LeftMs
<1> HIDE DEF timeout
<1>7. CASE age < timeout
  <2>1. left \in Nat \ {0}
    BY <1>1, <1>5, <1>7
  <2> HIDE DEF left
  <2>2. left * TickPeriod > 0
    BY <2>1, TimerAssumption
  <2>3. ~(age >= timeout)
    BY <1>1, <1>5, <1>7
  <2>4. LeftMs(Countdown(start, ms), Later(start, age)) > 0
    BY <1>6, <1>7, <2>2
  <2> QED
    BY <1>4, <2>3, <2>4 DEF timeout
<1>8. CASE ~(age < timeout)
  <2>1. age >= timeout
    BY <1>1, <1>5, <1>8
  <2>2. ~(LeftMs(Countdown(start, ms), Later(start, age)) > 0)
    BY <1>6, <1>8
  <2> QED
    BY <1>4, <2>1, <2>2 DEF timeout
<1> QED
  BY <1>7, <1>8
=============================================================================

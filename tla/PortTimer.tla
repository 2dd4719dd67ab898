----------------------------- MODULE PortTimer -----------------------------
(***************************************************************************)
(* The countdown timers of port/timer.c: a timer holds the tick it started *)
(* at and its length in ticks, and the tick counter wraps around at Wrap.  *)
(***************************************************************************)
EXTENDS Integers

CONSTANTS
  Wrap,          \* ticks until xTaskGetTickCount wraps: 2^32
  TickPeriod     \* portTICK_PERIOD_MS
ASSUME TimerAssumption == Wrap \in Nat \ {0} /\ TickPeriod \in Nat \ {0}

Ticks == 0..Wrap - 1
Timers == [start : Ticks, timeout : Nat]
\* The counter some ticks later.
Later(now, ticks) == IF now + ticks < Wrap THEN now + ticks ELSE now + ticks - Wrap
\* The unsigned difference of two readings of it.
\* Mutant of Elapsed: the difference as if the counter never wrapped.
ElapsedUnwrapped(start, now) == IF now - start < 0 THEN 0 ELSE now - start
Elapsed(start, now) == IF now - start < 0 THEN now - start + Wrap ELSE now - start
\* init_timer and countdown_ms; countdown_sec counts thousands of milliseconds.
Countdown(now, ms) == [start |-> now, timeout |-> ms \div TickPeriod]
HasExpired(timer, now) == Elapsed(timer.start, now) >= timer.timeout
LeftMs(timer, now) ==
  IF Elapsed(timer.start, now) < timer.timeout
  THEN (timer.timeout - Elapsed(timer.start, now)) * TickPeriod ELSE 0
=============================================================================

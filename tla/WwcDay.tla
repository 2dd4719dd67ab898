-------------------------------- MODULE WwcDay --------------------------------
(***************************************************************************)
(* The WWC object with a record of how long each pump ran since midnight.  *)
(***************************************************************************)
EXTENDS Wwc

VARIABLE day            \* running times since midnight; whole: a day in which
                        \* only the time went on, seen from its start

NewDay(whole) == [areation |-> 0, circulation |-> 0, whole |-> whole]

InitDay == Init /\ day = NewDay(FALSE)

\* A period passes with the outputs as they are.
TickDay(also) ==
    /\ Tick(also)
    /\ day' = IF TimeFromMidnight(now', params) = 0 THEN NewDay(TRUE)
              ELSE [day EXCEPT !.areation    = @ + Bool(pins.areation = 0),
                               !.circulation = @ + Bool(pins.circulation = 1)]

\* Other steps take no time; a new parameter, a new time or a restart spoils
\* the record.
Restarted == pins' = BootPins /\ ~areation'

Disturbed == now' # now \/ params' # params \/ clockSet' # clockSet \/ Restarted

OtherDay == /\ Task \/ Others
            /\ day' = IF Disturbed THEN NewDay(FALSE) ELSE day

NextDay == OtherDay \/ \E a \in Alarms : TickDay(a)

SpecDay == InitDay /\ [][NextDay]_<<vars, day>>

-----------------------------------------------------------------------------
Least2(a, b) == IF a <= b THEN a ELSE b

\* The end of a whole day, and how long each pump ran in it.
WholeDay == day.whole /\ queue = <<>> /\ TimeFromMidnight(now, params) = Day - 1

RanCirculation == day.circulation + Bool(pins.circulation = 1)
RanAreation    == day.areation + Bool(pins.areation = 0)

\* In a whole day the circulation pump never runs longer than circulationPeriod,
\* which "Defines how long circulation pump operates during day" (wwc.h:35), and
\* exactly that long if the period is not longer than normalPeriod and the day.
\* (A longer one is cut off at the end of the first normalPeriod, wwc.cpp:176,
\* against that comment: nothing is said of it here.)  The aeration pump runs for
\* its share, rounded up, of every period, and the period cut off by midnight
\* starts like the others.
CirculationOfDay ==
    /\ RanCirculation <= params.circulationPeriod
    /\ params.circulationPeriod <= Least2(params.normalPeriod, Day) =>
          RanCirculation = params.circulationPeriod
AreationOfDay ==
    LET n    == params.normalPeriod
        on   == Least2(n, (n * params.normalDutyCycle + 99) \div 100)
    IN  RanAreation = (Day \div n) * on + Least2(Day % n, on)
PumpTimesOfDay == WholeDay => CirculationOfDay /\ AreationOfDay
=============================================================================

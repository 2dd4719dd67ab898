--------------------------------- MODULE MCWwc ---------------------------------
(* TLC instances of WwcDay: days of a few control periods.                 *)
EXTENDS WwcDay

MCDefaults ==
    [normalPeriod |-> 4, normalDutyCycle |-> 50, circulationPeriod |-> 2,
     circulationStartGMTOffset |-> -1, pumpFailureThreshold |-> 2]

\* Changes of the schedule, which add up: periods that divide the day, do not
\* divide it (the default) and exceed it, shares from part to more than all of
\* a period, offsets of both signs.
Changes ==
    {[normalPeriod |-> 2], [normalPeriod |-> 7],
     [normalDutyCycle |-> 30, circulationPeriod |-> 9],
     [normalDutyCycle |-> 150, circulationPeriod |-> 3],
     [circulationStartGMTOffset |-> 2]}

\* Values that are too small or no numbers.
Illegal ==
    {[normalPeriod |-> 0], [circulationPeriod |-> NotANumber, normalDutyCycle |-> -1]}

MCDocs == Changes \cup Illegal

\* A document arrives at an empty queue, a new request waits until the last
\* answer is published.
Calm == /\ queue = <<>> \/ outbox = <<>>
        /\ \A i \in 2..Len(queue) : queue[i].op \notin DocOps
=============================================================================

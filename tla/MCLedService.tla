----------------------------- MODULE MCLedService -----------------------------
(* TLC instances of LedService.                                            *)
EXTENDS LedService

\* The unit of time is 40 ms: 1 s and 200 ms, rounded to whole periods.
FineCadence == [disconnected |-> 24, connected |-> 24, wps |-> 5]

\* The unit of time is 250 ms.  The WPS procedure is too fast for it.
CoarseCadence == [disconnected |-> 4, connected |-> 4, wps |-> 5]
=============================================================================

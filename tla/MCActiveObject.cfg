\* Two requests, two callers, a timer.
CONSTANTS
    Requests = {r1, r2}
    Timers = {t1}
    Callers = {c1, c2}
    NoRequest = NoRequest
    NoCaller = NoCaller
    QueueSize = 2
    CmdQueueSize = 1
SPECIFICATION FairSpec
INVARIANTS TypeOK Ownership SyncCallProtocol
PROPERTIES KeepsPromise AcceptedCallsExecuted TimerCommandsReturn
CHECK_DEADLOCK FALSE

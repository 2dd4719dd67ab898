\* An assertion or comment of the code against what it does.
CONSTANTS
    AppTopics = {}
    TimeTopic = time
    QueueSize = 2
    Requests = {}
    Expiring = {"throttle", "obtainTime", "activity", "init", "reconnect", "safeGuard"}
    Tracked = {}
    None = None
SPECIFICATION Spec
INVARIANT ReconnectsOnlyWhileConnecting

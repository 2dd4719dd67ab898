\* Liveness.
CONSTANTS
    AppTopics = {}
    TimeTopic = time
    QueueSize = 2
    Requests = {}
    Expiring = {"throttle", "init", "safeGuard"}
    Tracked = {}
    None = None
SPECIFICATION FairSpec
PROPERTIES RetriesWiFi BrokenSessionNoticed

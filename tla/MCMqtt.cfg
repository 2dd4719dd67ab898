\* Every action: one topic of the WWC object, which subscribes when it boots.
CONSTANTS
    AppTopics = {control}
    TimeTopic = time
    QueueSize = 2
    Requests = {"unsubscribe", "subjectSend"}
    Expiring = {"throttle", "obtainTime", "activity", "init", "reconnect", "safeGuard"}
    Tracked = {"onError", "wifiDisconnected"}
    None = None
SPECIFICATION Spec
INVARIANTS ClientReady WatchdogArmed SubscriptionsLive ReportedTruth WifiAbortOnlyAfterLoss

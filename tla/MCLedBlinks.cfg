\* Four changes of rhythm, coarse time.
CONSTANTS
    Cadence <- CoarseCadence
    MaxTimers = 5
SPECIFICATION Spec
INVARIANT BlinksWhileDisconnected

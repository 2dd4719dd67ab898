\* Two changes of rhythm.
CONSTANTS
    Cadence <- FineCadence
    MaxTimers = 3
SPECIFICATION Spec
INVARIANT LitWhileConnected

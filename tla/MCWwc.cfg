\* Whole days of six control periods under many schedules.
CONSTANTS
    Day = 6
    Defaults <- MCDefaults
    Docs <- MCDocs
    NotANumber = NotANumber
    Heaps = {1, 9}
    HeapLimit = 5
    Times = {1}
    MaxTime = 10
    QueueSize = 2
    OutSize = 1
CONSTRAINT Calm
SPECIFICATION SpecDay
INVARIANTS TypeOK LedTruth PumpTimesOfDay
PROPERTY StatusTruthful

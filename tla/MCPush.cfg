SPECIFICATION LiveSpec
CONSTANTS
    Cap = 2
    MaxEvents = 4
    Garbled = {2}
    Stoppers = {s1, s2}
    Watcher = Watcher
    Unwatches = TRUE
    JoinsReader = TRUE
INVARIANTS
    TypeOK
    NoPanic
    NoEventMissed
    InOrderUpToDrops
    StopMeansEnded
    FailureLeavesNoConn
PROPERTIES
    StopReturns
    CancelEnds
CHECK_DEADLOCK FALSE

SPECIFICATION FairSpec
CONSTANTS
    FlushOnStop = TRUE
    MaxOps = 4
INVARIANTS
    TypeOK
    NoLostWakeup
    FifoOrder
    FlushedWhenDone
PROPERTIES
    EveryOpRuns
    StopCompletes
CHECK_DEADLOCK FALSE

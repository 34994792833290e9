SPECIFICATION FairSpec
CONSTANTS
    MaxInputs = 3
INVARIANTS
    TypeOK
    RequestKept
    RestartKept
    OneInFlight
PROPERTIES
    NoRestartWhileGathering
    Served
CHECK_DEADLOCK FALSE

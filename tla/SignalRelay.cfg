SPECIFICATION FairSpec
CONSTANTS
    MaxMsgs = 3
    MaxTries = 1
    ChanSize = 2
    StreamBufferSize = 2
INVARIANTS
    TypeOK
    InOrder
    CloseDeliversAll
    NoStranded
PROPERTIES
    RefinesPromise
    CloseReturns
    ArrivesOrBroken
CHECK_DEADLOCK FALSE

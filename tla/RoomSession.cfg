SPECIFICATION FairSpec
CONSTANTS
    Sessions = {s1, s2}
    MaxRooms = 2
INVARIANTS
    TypeOK
    ClosedRoomEmpty
PROPERTIES
    NoDisplacement
    SuccessorSpared
    NoGhosts
CHECK_DEADLOCK FALSE

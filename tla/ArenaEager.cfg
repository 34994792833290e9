SPECIFICATION Spec
CONSTANTS
    c1 = c1
    c2 = c2
    u1 = u1
    u2 = u2
    lobby = lobby
    annex = annex
    ruin = ruin
    NoSpaces <- NoSpace
    Undefined = Undefined
    Scale = 1
    Layout <- SharedKey
    Conns <- TwoConns
    Users <- TwoUsers
    Tokens <- OwnToken
    Rejoining <- NoConn
    MaxTasks = 2
    MaxEntries = 1
INVARIANTS
    TypeOK
    SeatsSound
PROPERTIES
    NoTeleport
    StillInCall
VIEW Unsent
CHECK_DEADLOCK FALSE

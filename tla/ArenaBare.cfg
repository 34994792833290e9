SPECIFICATION Spec
CONSTANTS
    c1 = c1
    c2 = c2
    u1 = u1
    u2 = u2
    lobby = lobby
    annex = annex
    ruin = ruin
    NoSpaces <- NoSpace
    Undefined = Undefined
    Scale = 1
    Layout <- Bare
    Conns <- TwoConns
    Users <- TwoUsers
    Tokens <- OwnToken
    Rejoining <- NoConn
    MaxTasks = 1
    MaxEntries = 1
INVARIANTS
    NobodyNowhere
CHECK_DEADLOCK FALSE

SPECIFICATION FairSpec
CONSTANTS
    c1 = c1
    c2 = c2
    u1 = u1
    u2 = u2
    lobby = lobby
    annex = annex
    ruin = ruin
    NoSpaces <- OneRuin
    Undefined = Undefined
    Scale = 1
    Layout <- Foyers
    Conns <- TwoConns
    Users <- TwoUsers
    Tokens <- AnyToken
    Rejoining <- OneConn
    MaxTasks = 2
    MaxEntries = 2
INVARIANTS
    Introduced
PROPERTIES
    JoinAnswered
CHECK_DEADLOCK FALSE

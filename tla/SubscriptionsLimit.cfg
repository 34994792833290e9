SPECIFICATION Spec
CONSTANTS
    t1 = t1
    t2 = t2
    m1 = m1
    m2 = m2
    c1 = c1
    c2 = c2
    None = None
    Tracks <- TwoTracks
    Media <- TwoMedia
    TrackOf <- Once
    Callers <- OneCaller
    Limit = 1
    MaxSubs = 2
    MaxDowns = 2
    MaxPending = 1
    Events = {"permission"}
INVARIANTS
    CapacityKept
VIEW Seen
CHECK_DEADLOCK FALSE

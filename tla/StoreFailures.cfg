SPECIFICATION FairSpec
CONSTANTS
    Conns = {c1, c2}
    Streams = {s1}
    EventIds = {e1, e2}
    Projections = {p1}
    Supported = 2
    MaxBatch = 2
    PageLimit = 1
    FirstFiles <- OwnFiles
    CatchesInside = TRUE
    MaxEvents = 2
    MaxEdits = 0
    NoConn = NoConn
INVARIANTS
    CheckpointsWithinHistory
PROPERTIES
    LockReleased

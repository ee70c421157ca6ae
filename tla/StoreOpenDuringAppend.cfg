SPECIFICATION Spec
CONSTANTS
    Conns = {c1, c2}
    Streams = {s1}
    EventIds = {e1}
    Projections = {}
    Supported = 2
    MaxBatch = 1
    PageLimit = 1
    FirstFiles <- OwnFiles
    CatchesInside = FALSE
    MaxEvents = 1
    MaxEdits = 0
    NoConn = NoConn
PROPERTIES
    HealthyCounterOpens

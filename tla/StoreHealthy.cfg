SPECIFICATION Spec
CONSTANTS
    Conns = {c1, c2}
    Streams = {s1, s2}
    EventIds = {e1, e2, e3}
    Projections = {}
    Supported = 2
    MaxBatch = 2
    PageLimit = 1
    FirstFiles <- OwnFiles
    CatchesInside = FALSE
    MaxEvents = 3
    MaxEdits = 0
    NoConn = NoConn
SYMMETRY StoreSymmetry
INVARIANTS
    SchemaCoversEvents
    PagesArePrefix
    BatchesAtomic
PROPERTIES
    NoLostUpdate
    ImplementsEventLog

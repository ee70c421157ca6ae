SPECIFICATION Spec
CONSTANTS
    Conns = {c1, c2}
    Streams = {s1, s2}
    EventIds = {e1, e2, e3}
    Projections = {}
    Supported = 2
    MaxBatch = 1
    PageLimit = 3
    FirstFiles <- AnyFiles
    CatchesInside = FALSE
    MaxEvents = 2
    MaxEdits = 1
    NoConn = NoConn
SYMMETRY StoreSymmetry
PROPERTIES
    NothingAppendedPastDamage
    DamageNeverHealed

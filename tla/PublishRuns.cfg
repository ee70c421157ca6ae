SPECIFICATION Spec
CONSTANTS
    r1 = r1
    r2 = r2
    r3 = r3
    a1 = a1
    a2 = a2
    a3 = a3
    Runs = {r1, r2, r3}
    Artifacts = {a1, a2, a3}
    Brings <- OverlappingBrings
    FirstPaths <- AnyPath
    Path = Path
    Earlier = Earlier
    Dangling = Dangling
    Absent = Absent
CHECK_DEADLOCK FALSE
INVARIANTS
    ClaimsDurable
    RunsAllOrNothing
    PublishedWhole
PROPERTIES
    StoreOnlyGrows

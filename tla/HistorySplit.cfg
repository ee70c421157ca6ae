SPECIFICATION Spec
CONSTANTS
    p = p
    q = q
    t1 = t1
    t2 = t2
    Parsers = {p, q}
    Versions <- Spellings
    Number <- Numbers
    TextRank <- TextOrder
    Instants = {t1, t2}
    LibraryCallers = TRUE
    MaxStreams = 3
CHECK_DEADLOCK FALSE
SYMMETRY HistorySymmetry
INVARIANTS
    CarriedOnce
    ReplacementCurrent
PROPERTIES
    NotSupersededAtBirth
    ResolvedStays

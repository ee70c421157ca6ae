SPECIFICATION Spec
CONSTANTS
    a = a
    b = b
    x = x
    y = y
    new = new
    accepted = accepted
    reduced = reduced
    Identities = {1, 2, 3}
    TrackingIds = {x, y}
    TrackingId <- IdOf
    System = {2}
    Artifacts = {a, b}
    Versions = {1, 2}
    Times = {1, 2}
    Results <- Said
    Names = {x, y, new}
    Dispositions = {accepted}
    Reductions = {reduced}
    Files <- Filed
    Attested = {1, 2}
    Sweeps = {"one"}
    Nothing = Nothing
    Library = TRUE
    Contents <- Brought
    MaxReadings = 3
SYMMETRY ArtifactSymmetry
INVARIANTS
    CaseHoldsOneRecord
    VerifyNamesRefusals
PROPERTIES
    CommandsKeepReport
    NoOrderFaultWritten
    RetryAppendsNothing

INIT Init
NEXT Next
CONSTANTS
  Refused <- MCRefused
  AsOf = 9
  MaxResults = 2
  MaxObservations = 2
  MaxLocations = 2
  MaxProfiles = 4
  MaxAffects = 2
  MaxDepth = 2
  MaxSteps = 20
  Lowered <- MCLowered
  Dashed <- MCDashed
  DigestShaped = {"digest"}
CHECK_DEADLOCK FALSE
INVARIANTS
    FindingsStayOpen
    PassIsVouched
    FailureKeepsItsClock
    OverlaysFoldToOneControl
    MintedReadNothing
    OrderIsLost
    RowsOutliveUpgrades
    EveryFileAnswered

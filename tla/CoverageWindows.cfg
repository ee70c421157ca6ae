SPECIFICATION Spec
CONSTANTS
  MaxTime = 4
  MaxRuns = 2
  Due <- MCDue
  Pool <- MCPool
  Number <- MCNumber
  TextRank <- MCNumber
  Documents <- MCDocuments
INVARIANTS
    WindowsAreTheLapses
    WindowsOnlyGrow
    GapNamesOneWindow
    OnlyUnanchoredGapsGoUnmatched
PROPERTIES
    ContradictedStays

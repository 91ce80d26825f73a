CONSTANTS
  N = 6
  Boundaries <- MCBoundaries
  Worlds = {w1, w2}
  None = None
  MaxCrashes = 5
SPECIFICATION FairSpec
INVARIANTS
  UnitsStayRecoverable
  NoUnitIsIndexedTwice
  ResultIsCurrent
  OnlyFinalPruningBlocks
PROPERTIES
  ImplementsUnitLedger
  RunsShrink
  RunsEnd

CONSTANTS
  p1 = p1
  p2 = p2
  top = top
  repoX = repoX
  repoY = repoY
  sX = sX
  sEdited = sEdited
  sY = sY
  sZero = sZero
  c1 = c1
  c2 = c2
  u = u
  v = v
  w = w
  y = y
  None = None
  Procs <- MCProcs
  Dirs <- MCDirs
  Jobs <- MCJobs
  Scans <- MCScans
  ContextOf <- MCContextOf
  UnitsOf <- MCUnitsOf
  Tiers <- MCTiers
  MaxRuns = 3
SYMMETRY MCSymmetry
SPECIFICATION Spec
INVARIANTS
  JournalIsOwned
  RecordIsFinal
  RecordsFollowReports
  RefusalHasACause
PROPERTIES
  FinalReportHasRecord
CHECK_DEADLOCK FALSE

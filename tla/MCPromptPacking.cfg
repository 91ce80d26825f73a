SPECIFICATION PackSpec
CONSTANTS
  MaxJobs = 5
  MaxCases = 3
  BatchSizes = {0, 1, 2, 3}
  PromptLimits = {3, 5, 9}
  JobKinds <- MCJobKinds
  CaseKinds <- MCCaseKinds
  CallEdges <- MCCallEdges
  SharedChars <- MCSharedChars
  FixedChars = 1
  UsizeMax = 100
  NoFile = NoFile
  Own = Own
INVARIANTS
  BatchesFit
  ChunksKeepRelatedCases
CHECK_DEADLOCK FALSE

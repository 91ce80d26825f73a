SPECIFICATION SSpec
CONSTANTS
  Scans = {"first", "second"}
  ContextOf <- MCContextOf
  Stages = {"method"}
  Units = {"a1", "b1"}
  Costs = {1}
  MaxFaults = 1
  None = None
  SharedChars <- MCSharedChars
  UsizeMax = 100
  NoFile = NoFile
  JobsOf <- MCJobsOf
  BatchSize = 2
  MaxPromptChars = 9
  MaxConcurrency = 1
  Limits = {1, 2}
  MaxCalls = 1
  MaxRuns = 3
INVARIANTS
  NeverReviewedTwice
PROPERTIES
  ImplementsLedger
CHECK_DEADLOCK FALSE

SPECIFICATION SSpec
CONSTANTS
  Scans = {"first"}
  ContextOf <- MCContextOf
  Stages = {"method"}
  Units = {"a1", "a2", "b1"}
  Costs = {1}
  MaxFaults = 1
  None = None
  SharedChars <- MCSharedChars
  UsizeMax = 100
  NoFile = NoFile
  JobsOf <- MCJobsOf
  BatchSize = 2
  MaxPromptChars = 9
  MaxConcurrency = 2
  Limits = {None, 1}
  MaxCalls = 1
  MaxRuns = 1
INVARIANT
  ResumeStaysPossible
CHECK_DEADLOCK FALSE

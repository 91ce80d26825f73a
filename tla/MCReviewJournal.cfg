SPECIFICATION JournalSpec
CONSTANTS
  Scans = {"first", "second", "edited"}
  ContextOf <- MCContextOf
  Stages = {"method", "proof"}
  Units = {"u"}
  Costs = {1}
  MaxFaults = 1
  MaxLines = 3
  None = None
CONSTRAINT
  LinesBound
INVARIANTS
  CrashSafe
  CompletedMirrorsFile
  SpendMirrorsFile
  ManifestFirst
PROPERTY
  AppendOnly

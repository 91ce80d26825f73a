SPECIFICATION FairSpec
CONSTANTS
  Keys = {"main.rs", "lib.rs"}
  MaxConcurrency = 2
  MaxItems = 3
  Queues <- BoundedQueues
INVARIANTS
  KeyExclusion
  NothingLost
  EarlyStopNeedsBudget
PROPERTIES
  CallShrinks
  CallReturns

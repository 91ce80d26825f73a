CONSTANTS
  c1 = c1
  c2 = c2
  Calls <- MCCalls
  Permits = 1
  MaxAttempts = 5
  MaxSamePrompt = 2
  MaxRepairs = 2
  AttemptTimeout = 2
  RetryBudget = 6
  MaxBackOff = 3
  WordBits = 3
SPECIFICATION Spec
INVARIANTS
  TypeOK
  UsageIsKept
  PermitHeldWithinBudget
PROPERTIES
  EveryStepCounts
  CallsEnd
CHECK_DEADLOCK FALSE

SPECIFICATION Spec
CONSTANTS
  Chunks <- MCChunks
  Semantics <- MCSemantics
  Evidence <- MCEvidence
  ProofLevel <- MCProofLevel
  Unknown = 9
  Limits = {None, 1}
  MaxRuns = 2
  None = None
INVARIANT
  JournaledDecisionsApply
CHECK_DEADLOCK FALSE

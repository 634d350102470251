SPECIFICATION Spec
CONSTANTS
  d1 = d1
  d2 = d2
  Decisions = {d1, d2}
  Candidate <- MCCandidate
  Routes <- DecidingRoutes
  None = None
  MaxSteps = 11
  PutFails = TRUE
  MaxInvocations = 4
INVARIANTS TypeOK StepBudget ActsOnApproval
PROPERTIES RecordIsFinal
SYMMETRY Perms
CHECK_DEADLOCK FALSE

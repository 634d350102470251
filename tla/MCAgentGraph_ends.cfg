SPECIFICATION FairSpec
CONSTANTS
  d1 = d1
  d2 = d2
  Decisions = {d1, d2}
  Candidate <- MCCandidate
  Routes <- AllRoutes
  None = None
  MaxSteps = 4
  PutFails = TRUE
  MaxInvocations = 2
PROPERTIES Ends
CHECK_DEADLOCK FALSE

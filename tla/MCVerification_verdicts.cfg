SPECIFICATION Spec
CONSTANTS
  p1 = p1
  p2 = p2
  Verifiers = {p1, p2}
  Types <- MCTypes
  Provenances = {"SIMULATED"}
  Reports <- MCReports
  Histories = {0, 5}
  MaxItems = 3
  Window = 3
  MaxReports = 3
CONSTRAINT Bounded
SYMMETRY Symmetry
INVARIANTS TypeOK EvidenceBehindVerified RefusalRespected VerdictIsCurrent
CHECK_DEADLOCK FALSE

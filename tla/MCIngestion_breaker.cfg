SPECIFICATION Spec
CONSTANTS
  Threads = {p1, p2, p3}
  FailureThreshold = 2
  SuccessThreshold = 2
  Limit = 2
  MaxRetries = 1
  StorageFails = TRUE
SYMMETRY Symmetry
INVARIANTS
  TypeOK
  ClosedBelowThreshold
PROPERTY
  RefinesCircuit

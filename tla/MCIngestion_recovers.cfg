SPECIFICATION FairSpec
CONSTANTS
  Threads = {p1}
  FailureThreshold = 2
  SuccessThreshold = 1
  Limit = 1
  MaxRetries = 1
  StorageFails = FALSE
PROPERTIES
  Recovers

SPECIFICATION Spec
CONSTANTS
  Runs = {r1, r2}
  Jobs <- MCJobs
  Enabled <- MCEnabled
  Batches <- MCBatches
  Ttl = 1
  Capacity = 2
  MaxTime = 1
  MaxRuns = 2
INVARIANTS TypeOK StoredOnce DiscardedIsKept FlagMeansRun
SYMMETRY Symmetry
CHECK_DEADLOCK FALSE

SPECIFICATION FairSpec
CONSTANTS
  v1 = v1
  v2 = v2
  a1 = a1
  c1 = c1
  Vessels = {v1, v2}
  Aircraft = {a1}
  Refused = {a1}
  Clients = {c1}
  Cap = 2
  Keep = 1
  FeedCap = 1
  MaxTime = 3
INVARIANTS TypeOK CacheCurrent
PROPERTIES AgedOut
CHECK_DEADLOCK FALSE

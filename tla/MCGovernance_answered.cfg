SPECIFICATION FairSpec
CONSTANTS
  Recs = {r1}
  ActIds = {a1}
  ApprovalIds = {u1}
  Payloads = {c1}
  Requests = {p1, p2}
  NoRec = NoRec
  NoAct = NoAct
  NoPayload = NoPayload
  MaxResults = 1

CHECK_DEADLOCK FALSE
PROPERTIES
  LockWaitersAnswered

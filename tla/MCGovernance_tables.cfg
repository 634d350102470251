SPECIFICATION Spec
CONSTANTS
  Recs = {r1}
  ActIds = {a1}
  ApprovalIds = {u1, u2}
  Payloads = {c1, c2}
  Requests = {p1, p2, p3}
  NoRec = NoRec
  NoAct = NoAct
  NoPayload = NoPayload
  MaxResults = 1
SYMMETRY Symmetry
CHECK_DEADLOCK FALSE
INVARIANTS
  TypeOK
  SingleFinalDecision
  SignatureMatchesStatus
  SignedContentFrozen
  LinkedActionApproved
  CompletedMeansExecuted
PROPERTIES
  FinalizedActionFrozen
  RefinesSignOff

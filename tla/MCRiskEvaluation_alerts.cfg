SPECIFICATION Spec
CONSTANTS
  c1 = c1
  c2 = c2
  Callers = {c1, c2}
  Entities = {e1}
  Whole = Whole
  Payloads <- MCPayloads
  PersonScores = {9000}
  Ticks = 3
  MaxNow = 4
SYMMETRY Symmetry
INVARIANTS TypeOK HighRiskAnnounced OneRecordPerOutcome AlarmsAnswered
CHECK_DEADLOCK FALSE

--------------------------- MODULE MCRiskEvaluation ---------------------------
(* Two sets of signals: one calm, one a storm that is revised while it lasts. *)
EXTENDS RiskEvaluation, TLC

CONSTANTS c1, c2

Factor(id, contribution, severity, areas) ==
  [id |-> id, contribution |-> contribution, severity |-> severity,
   confidence |-> 9, quality |-> 2, areas |-> areas]

Port(c, severity) == Factor(1, c, severity, {"routing"})
Stock(c) == Factor(2, c, "MEDIUM", {"inventory", "carrier"})

Payload(signals, factors, conflicts, limits) ==
  [signals |-> signals, factors |-> factors, conflicts |-> conflicts,
   limits |-> limits]

MCPayloads ==
  {Payload("calm", {Stock(2)}, 0, {}),
   Payload("storm", {Port(6, "HIGH"), Stock(3)}, 0, {}),
   Payload("storm", {Port(9, "CRITICAL")}, 1, {"stale"})}

Symmetry == Permutations({c1, c2})
=============================================================================

----------------------------- MODULE MCGovernance -----------------------------
(* Model-checking instance of Governance.                                   *)
EXTENDS Governance, TLC

Symmetry == Permutations(ApprovalIds) \cup Permutations(ActIds)
              \cup Permutations(Payloads) \cup Permutations(Requests)
=============================================================================

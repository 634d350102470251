-------------------------- MODULE MCActionExecution --------------------------
(* Model-checking instance of ActionExecution.                              *)
EXTENDS ActionExecution, TLC

Symmetry == Permutations(Calls) \cup Permutations(Routes) \cup Permutations(Keys)
=============================================================================

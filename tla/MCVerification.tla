--------------------------- MODULE MCVerification ---------------------------
(* Model-checking instance of Verification.  The shipment is SIMULATED, so   *)
(* that no verdict of success can rest on its row alone; a message confirms, *)
(* under a label that the collector takes for real, and can be redelivered   *)
(* under its raw id; another, an estimate, refuses.                          *)
EXTENDS Verification, TLC

CONSTANTS p1, p2

MCReports ==
  { [says |-> "confirmed", src |-> "SYNTHETIC", value |-> "wanted", ref |-> "m1"],
    [says |-> "refused", src |-> "ESTIMATED", value |-> "other", ref |-> NoRef] }

(* A carrier is reallocated and judged as a shipment is rerouted.            *)
MCTypes == ActionTypes \ {"CARRIER_REALLOCATION"}

(* A reroute meets every message.  A hold and an expedition are not followed *)
(* past the state where the last message arrives, and have no events from    *)
(* before the action.                                                        *)
Bounded ==
  action.type \in {"HOLD_SHIPMENT", "EXPEDITE_SHIPMENT"} =>
    action.before = 0 /\ Cardinality(Recorded) < MaxReports

Symmetry == Permutations(Verifiers)
=============================================================================

----------------------------- MODULE MCAgentGraph -----------------------------
(* Model-checking instance of AgentGraph: two decisions about one candidate. *)
EXTENDS AgentGraph, TLC

CONSTANTS d1, d2

MCCandidate == d1 :> "candidate" @@ d2 :> "candidate"
Perms == Permutations({d1, d2})

(* Enough to approve one decision, make another and ask for an action.       *)
DecidingRoutes == {None, "research_agent", "decision_agent", "human_approval", "action_agent"}
AllRoutes == DecidingRoutes \cup {"initialization", "approval_boundary", "verification_agent"}
=============================================================================

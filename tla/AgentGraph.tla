------------------------------ MODULE AgentGraph ------------------------------
(***************************************************************************)
(* One run of the agent graph, by its run_id: the nodes, the routing, the  *)
(* checkpoints that execute_agent_graph saves before and after, a crash of *)
(* the worker, resumption from a checkpoint, and the two endpoints, of     *)
(* which POST /graph/approve drives the last nodes itself.                 *)
(***************************************************************************)
EXTENDS Naturals, FiniteSets

CONSTANTS
  MaxSteps,        \* RouteEvaluator.max_steps
  Routes,          \* bound: values a caller gives selected_route
  Decisions,       \* decision ids
  Candidate,       \* the candidate a decision prefers
  None,            \* no decision, no route, no checkpoint
  PutFails,        \* whether the write of a checkpoint may fail
  MaxInvocations   \* bound: calls of the graph and of its endpoints

Analysts == {"research_agent", "risk_agent", "prediction_agent", "scenario_agent",
             "simulation_node", "optimization_node"}
Nodes == Analysts \cup
  {"initialization", "decision_agent", "approval_boundary", "human_approval",
   "action_agent", "verification_agent", "termination"}

ASSUME ConstantsAssumption ==
  /\ MaxSteps \in Nat /\ MaxInvocations \in Nat /\ PutFails \in BOOLEAN
  /\ None \notin Decisions /\ None \notin Nodes
  /\ Routes \subseteq Nodes \cup {None}

VARIABLES
  run,          \* the invocation under way
  cache,        \* state of _memory_cache["latest_<run_id>"]
  stored,       \* agent_checkpoints: the row the ORDER BY puts first
  actions,      \* governance_actions: decision executed under each candidate's key
  flushed,      \* the decision whose action lies in the request's open transaction
  dispatched,   \* how often an executor has run for each candidate
  approved,     \* decisions a human_approval_node recorded as APPROVED
  invocations

vars == <<run, cache, stored, actions, flushed, dispatched, approved, invocations>>
saves == <<cache, stored>>
effects == <<actions, flushed, dispatched>>

Candidates == {Candidate[d] : d \in Decisions}
Idle == [node |-> "idle"]

(* AgentGraphState: the fields the routing and the nodes look at.          *)
State == [status : {"INITIALIZING", "RUNNING", "WAITING_FOR_APPROVAL", "FAILED", "COMPLETED"},
          step : Nat, starts : 0..3, route : Nodes \cup {None},
          requires : BOOLEAN, errors : BOOLEAN,
          decision : Decisions \cup {None}, human : {"none", "APPROVE", "REJECT"},
          of : Decisions \cup {None}, approval : {"none", "PENDING", "APPROVED", "REJECTED"},
          acted : Decisions \cup {None}]

TypeOK ==
  /\ run \in {Idle} \cup
       [node : Nodes \cup {"END"}, by : {"library", "run", "approve"}, s : State,
        act : BOOLEAN, verify : BOOLEAN]
  /\ cache \in State \cup {None} /\ stored \in State \cup {None}
  /\ actions \in [Candidates -> Decisions \cup {None}]
  /\ flushed \in Decisions \cup {None}
  /\ dispatched \in [Candidates -> Nat]
  /\ approved \subseteq Decisions
  /\ invocations \in 0..MaxInvocations

-----------------------------------------------------------------------------
(* RouteEvaluator *)

(* The first NORMAL edge registered from each node.                        *)
DefaultEdge ==
  [n \in Nodes |->
    CASE n = "research_agent"    -> "risk_agent"
      [] n = "risk_agent"        -> "prediction_agent"
      [] n = "prediction_agent"  -> "scenario_agent"
      [] n = "scenario_agent"    -> "simulation_node"
      [] n = "simulation_node"   -> "optimization_node"
      [] n = "optimization_node" -> "decision_agent"
      [] n = "human_approval"    -> "action_agent"
      [] n = "action_agent"      -> "verification_agent"
      [] OTHER                   -> "termination"]

(* route_history is only appended to by initialization.                    *)
Loops(s) == s.starts = 3 /\ s.route = "initialization"

EvaluateUnboundedMutant(n, s) ==   \* the step limit only holds for default edges
  IF s.errors \/ s.status = "FAILED" THEN "termination"
  ELSE IF s.requires \/ s.status = "WAITING_FOR_APPROVAL" THEN "termination"
  ELSE IF s.route # None THEN IF Loops(s) \/ s.step > MaxSteps + 9 THEN "termination" ELSE s.route
  ELSE DefaultEdge[n]
EvaluateNoEdgeMutant(n, s) ==   \* the default edge is forgotten
  IF s.step >= MaxSteps \/ s.errors \/ s.status = "FAILED" THEN "termination"
  ELSE IF s.requires \/ s.status = "WAITING_FOR_APPROVAL" THEN "termination"
  ELSE s.route
Evaluate(n, s) ==
  IF s.step >= MaxSteps \/ s.errors \/ s.status = "FAILED" THEN "termination"
  ELSE IF s.requires \/ s.status = "WAITING_FOR_APPROVAL" THEN "termination"
  ELSE IF s.route # None THEN IF Loops(s) THEN "termination" ELSE s.route
  ELSE DefaultEdge[n]

(* POST /graph/approve calls the nodes one after the other itself.         *)
NextOfApprove(n, s) ==
  IF n = "human_approval" /\ run.act /\ s.approval = "APPROVED" THEN "action_agent"
  ELSE IF n = "action_agent" /\ run.verify THEN "verification_agent"
  ELSE "termination"

NextNode(n, s) ==
  IF n = "termination" THEN "END"
  ELSE IF run.by = "approve" THEN NextOfApprove(n, s) ELSE Evaluate(n, s)

Leave(n, s) ==
  run' = [node |-> NextNode(n, s), by |-> run.by, s |-> s, act |-> run.act, verify |-> run.verify]

-----------------------------------------------------------------------------
(* The nodes *)

At(n) == run.node = n
Step(s) == s.step + 1

Initialization ==
  /\ At("initialization")
  /\ Leave("initialization",
       [run.s EXCEPT !.status = "RUNNING", !.step = @ + 1,
                     !.starts = IF @ < 3 THEN @ + 1 ELSE 3])
  /\ UNCHANGED <<saves, effects, approved, invocations>>

AnalyseMutant(n) ==   \* the node does not count its step
  /\ At(n)
  /\ Leave(n, run.s)
  /\ UNCHANGED <<saves, effects, approved, invocations>>
Analyse(n) ==
  /\ At(n)
  /\ Leave(n, [run.s EXCEPT !.step = @ + 1])
  /\ UNCHANGED <<saves, effects, approved, invocations>>

Decide(d, requires) ==
  /\ At("decision_agent")
  /\ Leave("decision_agent",
       [run.s EXCEPT !.step = @ + 1, !.decision = d, !.requires = requires,
                     !.route = IF requires THEN "approval_boundary" ELSE "termination"])
  /\ UNCHANGED <<saves, effects, approved, invocations>>

ApprovalBoundary ==
  /\ At("approval_boundary")
  /\ Leave("approval_boundary",
       [run.s EXCEPT !.step = @ + 1, !.status = "WAITING_FOR_APPROVAL", !.requires = TRUE])
  /\ UNCHANGED <<saves, effects, approved, invocations>>

(* The result is one of the service's that serves this call alone; action  *)
(* does not follow, because enable_action is not a field of the state.     *)
HumanApproval ==
  /\ At("human_approval")
  /\ run.s.decision # None
  /\ LET s == [run.s EXCEPT !.step = @ + 1, !.of = run.s.decision, !.route = "termination"] IN
     \/ /\ s.human = "none"
        /\ Leave("human_approval",
             [s EXCEPT !.approval = "PENDING", !.requires = TRUE, !.status = "WAITING_FOR_APPROVAL"])
        /\ UNCHANGED approved
     \/ /\ s.human = "APPROVE"
        /\ Leave("human_approval", [s EXCEPT !.approval = "APPROVED", !.requires = FALSE])
        /\ approved' = approved \cup {s.decision}
     \/ /\ s.human = "REJECT"
        /\ Leave("human_approval", [s EXCEPT !.approval = "REJECTED", !.requires = FALSE])
        /\ UNCHANGED approved
  /\ UNCHANGED <<saves, effects, invocations>>

(* The policy compares the decision of the approval with the command's.    *)
MayActMutant(s) == s.approval = "APPROVED" /\ s.decision # None
MayAct(s) == s.approval = "APPROVED" /\ s.decision # None /\ s.of = s.decision

(* Without a session, as in the graph, the executor touches no record.     *)
(* With one, a command under a used key is replayed or refused; a new one  *)
(* is flushed and committed by nobody here.                                *)
ActMutant ==   \* the key is not looked up
  /\ At("action_agent")
  /\ MayAct(run.s)
  /\ IF run.by = "approve"
     THEN LET c == Candidate[run.s.decision] IN
          /\ flushed' = run.s.decision
          /\ dispatched' = [dispatched EXCEPT ![c] = @ + 1]
          /\ UNCHANGED actions
     ELSE UNCHANGED effects
  /\ Leave("action_agent",
       [run.s EXCEPT !.step = @ + 1, !.acted = run.s.decision, !.route = "termination"])
  /\ UNCHANGED <<saves, approved, invocations>>
Act ==
  /\ At("action_agent")
  /\ MayAct(run.s)
  /\ IF run.by = "approve"
     THEN LET c == Candidate[run.s.decision] IN
          \/ /\ actions[c] = None
             /\ flushed' = run.s.decision
             /\ dispatched' = [dispatched EXCEPT ![c] = @ + 1]
             /\ UNCHANGED actions
          \/ /\ actions[c] = run.s.decision
             /\ UNCHANGED effects
     ELSE UNCHANGED effects
  /\ Leave("action_agent",
       [run.s EXCEPT !.step = @ + 1, !.acted = run.s.decision, !.route = "termination"])
  /\ UNCHANGED <<saves, approved, invocations>>

(* Storing a verdict commits the session, the action with it; get_uow      *)
(* rolls back what is uncommitted when the request ends.                   *)
CommitSession ==
  /\ flushed # None
  /\ actions' = [actions EXCEPT ![Candidate[flushed]] = flushed]
  /\ flushed' = None
  /\ UNCHANGED dispatched
RollBack == flushed' = None /\ UNCHANGED <<actions, dispatched>>

(* Only the endpoint gives the node a session. A verdict that failed, or   *)
(* that is the stored one, is answered without a commit.                   *)
Verify ==
  /\ At("verification_agent")
  /\ run.by = "approve" /\ run.s.acted # None
  /\ CommitSession \/ UNCHANGED effects
  /\ Leave("verification_agent", [run.s EXCEPT !.step = @ + 1, !.route = "termination"])
  /\ UNCHANGED <<saves, approved, invocations>>

FinalStatus(s) ==
  IF s.requires THEN "WAITING_FOR_APPROVAL"
  ELSE IF s.errors \/ s.status = "FAILED" THEN "FAILED" ELSE "COMPLETED"

Termination ==
  /\ At("termination")
  /\ Leave("termination", [run.s EXCEPT !.step = @ + 1, !.status = FinalStatus(run.s)])
  /\ UNCHANGED <<saves, effects, approved, invocations>>

(* A node that lacks what it needs raises: a decision, an approval of it,  *)
(* a key that is free or its own, a session, an action.                    *)
Refuse ==
  /\ \/ At("human_approval") /\ run.s.decision = None
     \/ At("action_agent") /\ ~MayAct(run.s)
     \/ /\ At("action_agent") /\ MayAct(run.s) /\ run.by = "approve"
        /\ actions[Candidate[run.s.decision]] \notin {None, run.s.decision}
     \/ At("verification_agent") /\ (run.by # "approve" \/ run.s.acted = None)
  /\ run' = Idle
  /\ RollBack
  /\ UNCHANGED <<saves, approved, invocations>>

(* An agent raises for any other reason, a failing service among them.     *)
NodeRaises ==
  /\ run.node \in Nodes \ {"initialization", "approval_boundary", "termination"}
  /\ run' = Idle
  /\ RollBack
  /\ UNCHANGED <<saves, approved, invocations>>

-----------------------------------------------------------------------------
(* DurableCheckpointManager *)

(* Checkpoint ids chk_<step>_<ms> compare as text; "_" sorts after digits. *)
TextKey(step) == IF step < 10 THEN step * 11 + 10 ELSE ((step \div 10) * 11) + (step % 10)

(* A failed write leaves the state in memory only.                         *)
SaveCheckpoint(s) ==
  /\ cache' = s
  /\ \/ stored' = IF stored # None /\ TextKey(stored.step) > TextKey(s.step) THEN stored ELSE s
     \/ PutFails /\ UNCHANGED stored

Restorable == IF cache # None THEN cache ELSE stored

Begin(by, node, s, act, verify) ==
  /\ run = Idle
  /\ invocations < MaxInvocations
  /\ invocations' = invocations + 1
  /\ run' = [node |-> node, by |-> by, s |-> s, act |-> act, verify |-> verify]
  /\ UNCHANGED <<effects, approved>>

Fresh(route, requires, errors) ==
  [status |-> "INITIALIZING", step |-> 0, starts |-> 0, route |-> route,
   requires |-> requires, errors |-> errors, decision |-> None, human |-> "none",
   of |-> None, approval |-> "none", acted |-> None]

(* execute_agent_graph of a new run, and of one restored from a checkpoint *)
(* to which the caller has added a route and an answer.                    *)
Start(route, requires, errors) ==
  LET s == Fresh(route, requires, errors) IN
  /\ Restorable = None
  /\ Begin("library", "initialization", s, FALSE, FALSE)
  /\ SaveCheckpoint(s)

Resume(route, cleared, answer) ==
  /\ Restorable # None
  /\ LET s == [Restorable EXCEPT !.route = route, !.human = answer,
                                 !.requires = @ /\ ~cleared] IN
     /\ Begin("library", "initialization", s, FALSE, FALSE)
     /\ SaveCheckpoint(s)

(* POST /graph/run: no route is set, no checkpoint is saved.               *)
GraphRun(requires) ==
  /\ Begin("run", "initialization", Fresh(None, requires, FALSE), FALSE, FALSE)
  /\ UNCHANGED saves

(* POST /graph/approve: the decision and the answer come with the request. *)
GraphApprove(d, answer, enableAction, enableVerification) ==
  /\ Begin("approve", "human_approval",
       [Fresh(None, FALSE, FALSE) EXCEPT !.step = 8, !.decision = d, !.human = answer],
       enableAction /\ answer = "APPROVE", enableVerification)
  /\ UNCHANGED saves

Return ==
  /\ At("END")
  /\ run' = Idle
  /\ IF run.by = "library" THEN SaveCheckpoint(run.s) ELSE UNCHANGED saves
  /\ RollBack
  /\ UNCHANGED <<approved, invocations>>

(* The worker dies, and its memory and open transaction with it.           *)
Crash ==
  /\ run' = Idle
  /\ cache' = None
  /\ RollBack
  /\ UNCHANGED <<stored, approved, invocations>>

-----------------------------------------------------------------------------
Init ==
  /\ run = Idle
  /\ cache = None /\ stored = None
  /\ actions = [c \in Candidates |-> None]
  /\ flushed = None
  /\ dispatched = [c \in Candidates |-> 0]
  /\ approved = {}
  /\ invocations = 0

NodeWorks ==
  \/ Initialization
  \/ \E n \in Analysts : Analyse(n)
  \/ \E d \in Decisions, requires \in BOOLEAN : Decide(d, requires)
  \/ ApprovalBoundary \/ HumanApproval \/ Act \/ Verify \/ Termination
  \/ Refuse

NodeStep == NodeWorks \/ NodeRaises

Call ==
  \/ \E route \in Routes, b \in BOOLEAN, e \in BOOLEAN : Start(route, b, e)
  \/ \E route \in Routes, b \in BOOLEAN, a \in {"none", "APPROVE", "REJECT"} : Resume(route, b, a)
  \/ \E b \in BOOLEAN : GraphRun(b)
  \/ \E d \in Decisions, a \in {"APPROVE", "REJECT"}, b, v \in BOOLEAN : GraphApprove(d, a, b, v)

Next == NodeStep \/ Return \/ Crash \/ Call

Spec == Init /\ [][Next]_vars

(* invoke runs the nodes of a run without waiting for anything.            *)
FairSpec == Spec /\ WF_vars(NodeWorks \/ Return)

-----------------------------------------------------------------------------
(* Properties *)

States == {s \in {cache, stored} : s # None} \cup (IF run = Idle THEN {} ELSE {run.s})

(* A run that is resumed, with its step count, never gets a second budget: *)
(* beyond the limit an invocation only passes the first and the last node. *)
StepBudget ==
  \A s \in {cache, stored} \cup (IF run = Idle \/ run.by = "approve" THEN {} ELSE {run.s}) :
    s # None => s.step <= MaxSteps + 2 * invocations

(* No action is taken for a decision that no human has approved, whatever  *)
(* approval an earlier decision left in a restored state.                  *)
ActsOnApproval ==
  /\ \A s \in States : s.acted # None => s.acted \in approved
  /\ \A c \in Candidates : actions[c] # None => actions[c] \in approved
  /\ flushed # None => flushed \in approved

(* However often its decisions are approved again, a candidate is not      *)
(* dispatched again once its action is on record, and the record stays.    *)
RecordIsFinal ==
  [][\A c \in Candidates :
       actions[c] # None => /\ actions'[c] = actions[c]
                            /\ dispatched'[c] = dispatched[c]]_effects

(* A state that waits for a human is never one of a completed run, neither *)
(* when the run ends nor in any checkpoint it can be resumed from.         *)
NoCompletionWhileWaiting ==
  \A s \in States : s.status = "COMPLETED" => ~s.requires

(* While a decision waits for a human, only the last node can follow.      *)
BoundaryHolds ==
  [][run # Idle /\ run' # Idle /\ run.by # "approve" /\ run'.s.requires
       => run'.node \in {"termination", "END"}]_<<run>>

(* Every invocation ends, although selected_route is never cleared and a   *)
(* node may route to itself.                                               *)
Ends == run # Idle ~> run = Idle
=============================================================================

--------------------------- MODULE AgentGraphProofs ---------------------------
(***************************************************************************)
(* What AgentGraph guarantees for every step limit, every set of decisions *)
(* and every routing a caller asks for.                                    *)
(***************************************************************************)
EXTENDS AgentGraph, TLAPS

(* What every state of the run satisfies, in memory or in a checkpoint.    *)
Sound(s, A) ==
  /\ s.approval = "APPROVED" => s.of \in A
  /\ s.acted # None => s.acted \in A
  /\ s.status = "COMPLETED" => ~s.requires

(* The step count when the n-th invocation is about to run a node.         *)
WithinBudget(node, step, n) ==
  /\ node = "initialization" => step + 2 <= MaxSteps + 2 * n
  /\ node = "termination" => step + 1 <= MaxSteps + 2 * n
  /\ node = "END" => step <= MaxSteps + 2 * n
  /\ node \notin {"initialization", "termination", "END"} => step < MaxSteps

RunOK(r, A, n) ==
  /\ Sound(r.s, A)
  /\ r.node \notin {"initialization", "END"} => r.s.status # "COMPLETED"
  /\ r.by # "approve" => WithinBudget(r.node, r.s.step, n) /\ n >= 1

SavedOK(s, A, n) == s # None => Sound(s, A) /\ s.step <= MaxSteps + 2 * n

(* What is on record, or flushed to be, was approved and dispatched; an    *)
(* action is flushed under a free key only, and by the approve endpoint.   *)
ActionsOK ==
  /\ \A c \in Candidates : actions[c] # None => actions[c] \in approved /\ dispatched[c] > 0
  /\ flushed # None =>
       /\ flushed \in approved
       /\ actions[Candidate[flushed]] = None /\ dispatched[Candidate[flushed]] > 0
       /\ run # Idle /\ run.by = "approve" /\ run.node \notin {"human_approval", "action_agent"}

Inv ==
  /\ TypeOK
  /\ run # Idle => RunOK(run, approved, invocations)
  /\ SavedOK(cache, approved, invocations)
  /\ SavedOK(stored, approved, invocations)
  /\ ActionsOK

Runs == [node : Nodes \cup {"END"}, by : {"library", "run", "approve"}, s : State,
         act : BOOLEAN, verify : BOOLEAN]

-----------------------------------------------------------------------------
(* Routing leads to a node, and past the limit only to the last one.       *)

LEMMA DefaultIsNode ==
  ASSUME NEW n \in Nodes
  PROVE  DefaultEdge[n] \in Nodes
BY DEF DefaultEdge, Nodes, Analysts

LEMMA EvaluateType ==
  ASSUME NEW n \in Nodes, NEW s \in State
  PROVE  /\ Evaluate(n, s) \in Nodes
         /\ Evaluate(n, s) # "termination" => s.step < MaxSteps
<1>1. "termination" \in Nodes
  BY DEF Nodes
<1>2. s.route \in Nodes \cup {None} /\ s.step \in Nat
  BY DEF State
<1> QED
  BY <1>1, <1>2, DefaultIsNode, ConstantsAssumption DEF Evaluate

LEMMA NextNodeType ==
  ASSUME NEW n \in Nodes, NEW s \in State
  PROVE  NextNode(n, s) \in Nodes \cup {"END"}
BY EvaluateType DEF NextNode, NextOfApprove, Nodes

(* One node after another: what the next node needs to hold.               *)
LEMMA LeaveOK ==
  ASSUME NEW n \in Nodes, NEW s \in State, NEW A, NEW k \in Nat,
         run \in Runs, Leave(n, s), Sound(s, A),
         n = "termination" \/ s.status # "COMPLETED",
         run.by # "approve" =>
           /\ k >= 1
           /\ n = "termination" => s.step <= MaxSteps + 2 * k
           /\ n # "termination" => s.step + 1 <= MaxSteps + 2 * k
  PROVE  run' \in Runs /\ run' # Idle /\ RunOK(run', A, k)
<1>1. run' = [node |-> NextNode(n, s), by |-> run.by, s |-> s, act |-> run.act, verify |-> run.verify]
  BY DEF Leave
<1>2. NextNode(n, s) \in Nodes \cup {"END"}
  BY NextNodeType
<1>3. run' \in Runs
  BY <1>1, <1>2 DEF Runs
<1>4. run' # Idle
  BY <1>1, <1>2 DEF Idle, Nodes, Analysts
<1>5. run'.node = NextNode(n, s) /\ run'.by = run.by /\ run'.s = s
  BY <1>1
<1>6. NextNode(n, s) = "END" <=> n = "termination"
  BY EvaluateType DEF NextNode, NextOfApprove, Nodes, Analysts
<1>7. ASSUME run.by # "approve"
      PROVE  WithinBudget(NextNode(n, s), s.step, k)
  <2>1. s.step \in Nat /\ MaxSteps \in Nat
    BY ConstantsAssumption DEF State
  <2>2. CASE n = "termination"
    BY <1>6, <1>7, <2>1, <2>2 DEF WithinBudget
  <2>3. CASE n # "termination"
    <3>1. NextNode(n, s) = Evaluate(n, s)
      BY <1>7, <2>3 DEF NextNode
    <3>2. NextNode(n, s) # "termination" => s.step < MaxSteps
      BY <3>1, EvaluateType
    <3> QED
      BY <1>6, <1>7, <2>1, <2>3, <3>2 DEF WithinBudget
  <2> QED
    BY <2>2, <2>3
<1> QED
  BY <1>3, <1>4, <1>5, <1>6, <1>7 DEF RunOK

(* A saved checkpoint is sound when the saved state is.                    *)
LEMMA SaveOK ==
  ASSUME NEW s \in State, NEW A, NEW k \in Nat, SaveCheckpoint(s),
         Sound(s, A), s.step <= MaxSteps + 2 * k,
         SavedOK(stored, A, k), stored \in State \cup {None}
  PROVE  /\ SavedOK(cache', A, k) /\ SavedOK(stored', A, k)
         /\ cache' \in State \cup {None} /\ stored' \in State \cup {None}
BY DEF SaveCheckpoint, SavedOK

-----------------------------------------------------------------------------
LEMMA InitInv == Init => Inv
BY ConstantsAssumption DEF Init, Inv, TypeOK, SavedOK, ActionsOK

(* What a step of a node may assume of the state it starts from.           *)
LEMMA NodeState ==
  ASSUME Inv, NEW n \in Nodes, At(n)
  PROVE  /\ run \in Runs /\ run # Idle /\ run.s \in State
         /\ Sound(run.s, approved) /\ invocations \in Nat
         /\ n # "initialization" => run.s.status # "COMPLETED"
         /\ run.by # "approve" => invocations >= 1
         /\ run.by # "approve" /\ n = "termination" => run.s.step + 1 <= MaxSteps + 2 * invocations
         /\ run.by # "approve" /\ n # "termination" => run.s.step + 2 <= MaxSteps + 2 * invocations
<1>1. run # Idle
  BY DEF At, Idle, Nodes, Analysts
<1>2. run \in Runs
  BY <1>1 DEF Inv, TypeOK, Runs
<1>3. RunOK(run, approved, invocations)
  BY <1>1 DEF Inv
<1>4. run.s \in State /\ run.s.step \in Nat /\ invocations \in Nat /\ MaxSteps \in Nat
  BY <1>2, ConstantsAssumption DEF Runs, State, Inv, TypeOK
<1>5. n # "END"
  BY DEF Nodes, Analysts
<1>6. run.by # "approve" => WithinBudget(n, run.s.step, invocations) /\ invocations >= 1
  BY <1>3 DEF RunOK, At
<1>7. run.by # "approve" /\ n = "termination" => run.s.step + 1 <= MaxSteps + 2 * invocations
  BY <1>6 DEF WithinBudget
<1>8. run.by # "approve" /\ n # "termination" => run.s.step + 2 <= MaxSteps + 2 * invocations
  BY <1>4, <1>5, <1>6 DEF WithinBudget
<1>9. n # "initialization" => run.s.status # "COMPLETED"
  BY <1>3, <1>5 DEF RunOK, At
<1> QED
  BY <1>1, <1>2, <1>3, <1>4, <1>6, <1>7, <1>8, <1>9 DEF RunOK

(* The fields that a node or a caller writes, within their types.         *)
LEMMA StartedType ==
  ASSUME NEW s \in State, NEW status \in {"INITIALIZING", "RUNNING", "WAITING_FOR_APPROVAL", "FAILED", "COMPLETED"},
         NEW step \in Nat,
         NEW starts \in 0..3
  PROVE  [s EXCEPT !.status = status, !.step = step, !.starts = starts] \in State
BY DEF State

LEMMA DecidedType ==
  ASSUME NEW s \in State, NEW step \in Nat,
         NEW d \in Decisions \cup {None},
         NEW b \in BOOLEAN,
         NEW n \in Nodes \cup {None}
  PROVE  [s EXCEPT !.step = step, !.decision = d, !.requires = b, !.route = n] \in State
BY DEF State

LEMMA WaitingType ==
  ASSUME NEW s \in State, NEW step \in Nat,
         NEW status \in {"INITIALIZING", "RUNNING", "WAITING_FOR_APPROVAL", "FAILED", "COMPLETED"},
         NEW b \in BOOLEAN
  PROVE  [s EXCEPT !.step = step, !.status = status, !.requires = b] \in State
BY DEF State

LEMMA BoundType ==
  ASSUME NEW s \in State, NEW step \in Nat,
         NEW d \in Decisions \cup {None},
         NEW n \in Nodes \cup {None}
  PROVE  [s EXCEPT !.step = step, !.of = d, !.route = n] \in State
BY DEF State

LEMMA PendingType ==
  ASSUME NEW s \in State, NEW approval \in {"none", "PENDING", "APPROVED", "REJECTED"},
         NEW b \in BOOLEAN,
         NEW status \in {"INITIALIZING", "RUNNING", "WAITING_FOR_APPROVAL", "FAILED", "COMPLETED"}
  PROVE  [s EXCEPT !.approval = approval, !.requires = b, !.status = status] \in State
BY DEF State

LEMMA AnsweredType ==
  ASSUME NEW s \in State, NEW approval \in {"none", "PENDING", "APPROVED", "REJECTED"},
         NEW b \in BOOLEAN
  PROVE  [s EXCEPT !.approval = approval, !.requires = b] \in State
BY DEF State

LEMMA ActedType ==
  ASSUME NEW s \in State, NEW step \in Nat,
         NEW d \in Decisions \cup {None},
         NEW n \in Nodes \cup {None}
  PROVE  [s EXCEPT !.step = step, !.acted = d, !.route = n] \in State
BY DEF State

LEMMA VerifiedType ==
  ASSUME NEW s \in State, NEW step \in Nat,
         NEW n \in Nodes \cup {None}
  PROVE  [s EXCEPT !.step = step, !.route = n] \in State
BY DEF State

LEMMA TerminatedType ==
  ASSUME NEW s \in State, NEW step \in Nat,
         NEW status \in {"INITIALIZING", "RUNNING", "WAITING_FOR_APPROVAL", "FAILED", "COMPLETED"}
  PROVE  [s EXCEPT !.step = step, !.status = status] \in State
BY DEF State

LEMMA ResumedType ==
  ASSUME NEW s \in State, NEW n \in Nodes \cup {None},
         NEW answer \in {"none", "APPROVE", "REJECT"},
         NEW b \in BOOLEAN
  PROVE  [s EXCEPT !.route = n, !.human = answer, !.requires = b] \in State
BY DEF State

LEMMA ApprovingType ==
  ASSUME NEW s \in State, NEW step \in Nat,
         NEW d \in Decisions \cup {None},
         NEW answer \in {"none", "APPROVE", "REJECT"}
  PROVE  [s EXCEPT !.step = step, !.decision = d, !.human = answer] \in State
BY DEF State

LEMMA NamedNodes ==
  {"approval_boundary", "termination"} \subseteq Nodes
BY DEF Nodes

(* A node leaves a sound state, one step on, and a sound record.           *)
LEMMA NodeRecords ==
  ASSUME Inv, NEW n \in Nodes, At(n), NEW s \in State, Leave(n, s),
         s.step = run.s.step + 1,
         n = "termination" \/ s.status # "COMPLETED",
         approved \subseteq approved', approved' \subseteq Decisions,
         Sound(s, approved'), UNCHANGED saves, UNCHANGED invocations,
         actions' \in [Candidates -> Decisions \cup {None}],
         flushed' \in Decisions \cup {None}, dispatched' \in [Candidates -> Nat],
         ActionsOK'
  PROVE  Inv'
<1>1. run \in Runs /\ invocations \in Nat /\ run.s \in State /\ run.s.step \in Nat
  BY NodeState DEF State
<1>2. run' \in Runs /\ run' # Idle /\ RunOK(run', approved', invocations)
  <2>1. run.by # "approve" =>
          /\ invocations >= 1
          /\ n = "termination" => s.step <= MaxSteps + 2 * invocations
          /\ n # "termination" => s.step + 1 <= MaxSteps + 2 * invocations
    BY <1>1, NodeState, ConstantsAssumption
  <2> QED
    BY <1>1, <2>1, LeaveOK
<1>3. SavedOK(cache, approved', invocations) /\ SavedOK(stored, approved', invocations)
  BY DEF Inv, SavedOK, Sound
<1>4. TypeOK'
  BY <1>2 DEF Inv, TypeOK, saves, Runs
<1> QED
  BY <1>2, <1>3, <1>4 DEF Inv, saves

(* In an approving request only the last nodes follow on a flushed action. *)
LEMMA LeaveFlushed ==
  ASSUME NEW n \in Nodes, NEW s, Leave(n, s), run.by = "approve", n # "human_approval"
  PROVE  /\ run' # Idle /\ run'.by = "approve"
         /\ run'.node \notin {"human_approval", "action_agent"}
<1>1. /\ run' = [node |-> NextNode(n, s), by |-> run.by, s |-> s, act |-> run.act, verify |-> run.verify]
      /\ NextNode(n, s) \in {"verification_agent", "termination", "END"}
  BY DEF Leave, NextNode, NextOfApprove
<1>2. run'.node \in {"verification_agent", "termination", "END"} /\ run'.by = "approve"
  BY <1>1
<1> QED
  BY <1>2 DEF Idle

(* A node that touches no record.                                          *)
LEMMA NodeInv ==
  ASSUME Inv, NEW n \in Nodes, At(n), NEW s \in State, Leave(n, s),
         s.step = run.s.step + 1,
         n = "termination" \/ s.status # "COMPLETED",
         approved \subseteq approved', approved' \subseteq Decisions,
         Sound(s, approved'), UNCHANGED saves, UNCHANGED effects, UNCHANGED invocations
  PROVE  Inv'
<1>1. UNCHANGED <<actions, flushed, dispatched>>
  BY DEF effects
<1>2. /\ actions' \in [Candidates -> Decisions \cup {None}]
      /\ flushed' \in Decisions \cup {None} /\ dispatched' \in [Candidates -> Nat]
  BY <1>1 DEF Inv, TypeOK
<1>3. ASSUME flushed # None
      PROVE  run' # Idle /\ run'.by = "approve" /\ run'.node \notin {"human_approval", "action_agent"}
  BY <1>3, LeaveFlushed DEF Inv, ActionsOK, At
<1>4. ActionsOK'
  BY <1>1, <1>3 DEF Inv, ActionsOK
<1> QED
  BY <1>2, <1>4, NodeRecords

(* What is left when a request ends.                                       *)
LEMMA RollBackInv ==
  ASSUME Inv, RollBack, UNCHANGED approved
  PROVE  ActionsOK'
BY DEF RollBack, Inv, ActionsOK

-----------------------------------------------------------------------------
LEMMA NodeStepInv == Inv /\ NodeStep => Inv'
<1> SUFFICES ASSUME Inv, NodeStep PROVE Inv'
  OBVIOUS
<1> USE DEF saves, effects
<1>1. CASE Initialization
  <2> DEFINE s == [run.s EXCEPT !.status = "RUNNING", !.step = @ + 1,
                     !.starts = IF @ < 3 THEN @ + 1 ELSE 3]
  <2>1. "initialization" \in Nodes /\ At("initialization")
    BY <1>1 DEF Initialization, Nodes
  <2>2. run.s \in State /\ Sound(run.s, approved)
    BY <2>1, NodeState
  <2>3. s \in State /\ s.step = run.s.step + 1 /\ s.status # "COMPLETED" /\ Sound(s, approved)
    <3>1. run.s.step + 1 \in Nat /\ (IF run.s.starts < 3 THEN run.s.starts + 1 ELSE 3) \in 0..3
      BY <2>2 DEF State
    <3>2. s \in State
      BY <2>2, <3>1, StartedType
    <3>3. s.step = run.s.step + 1 /\ s.status # "COMPLETED" /\ Sound(s, approved)
      BY <2>2 DEF State, Sound
    <3> QED
      BY <3>2, <3>3
  <2>4. Leave("initialization", s) /\ UNCHANGED <<saves, effects, approved, invocations>>
    BY <1>1 DEF Initialization
  <2>5. approved' = approved /\ approved \subseteq Decisions
    BY <2>4 DEF Inv, TypeOK
  <2> HIDE DEF s
  <2> QED
    BY <2>1, <2>3, <2>4, <2>5, NodeInv
<1>2. ASSUME NEW n \in Analysts, Analyse(n) PROVE Inv'
  <2> DEFINE s == [run.s EXCEPT !.step = @ + 1]
  <2>1. n \in Nodes /\ At(n) /\ n # "initialization"
    BY <1>2 DEF Analyse, Nodes, Analysts
  <2>2. run.s \in State /\ Sound(run.s, approved) /\ run.s.status # "COMPLETED"
    BY <2>1, NodeState
  <2>3. s \in State /\ s.step = run.s.step + 1 /\ s.status # "COMPLETED" /\ Sound(s, approved)
    BY <2>2 DEF State, Sound
  <2>4. Leave(n, s) /\ UNCHANGED <<saves, effects, approved, invocations>>
    BY <1>2 DEF Analyse
  <2>5. approved' = approved /\ approved \subseteq Decisions
    BY <2>4 DEF Inv, TypeOK
  <2> HIDE DEF s
  <2> QED
    BY <2>1, <2>3, <2>4, <2>5, NodeInv
<1>3. ASSUME NEW d \in Decisions, NEW b \in BOOLEAN, Decide(d, b) PROVE Inv'
  <2> DEFINE s == [run.s EXCEPT !.step = @ + 1, !.decision = d, !.requires = b,
                     !.route = IF b THEN "approval_boundary" ELSE "termination"]
  <2>1. "decision_agent" \in Nodes /\ At("decision_agent")
    BY <1>3 DEF Decide, Nodes
  <2>2. run.s \in State /\ Sound(run.s, approved) /\ run.s.status # "COMPLETED"
    BY <2>1, NodeState
  <2>3. s \in State /\ s.step = run.s.step + 1 /\ s.status # "COMPLETED" /\ Sound(s, approved)
    <3>1. run.s.step + 1 \in Nat /\ (IF b THEN "approval_boundary" ELSE "termination") \in Nodes
      BY <2>2, NamedNodes DEF State
    <3>2. s \in State
      BY <2>2, <3>1, DecidedType
    <3>3. s.step = run.s.step + 1 /\ s.status # "COMPLETED" /\ Sound(s, approved)
      BY <2>2 DEF State, Sound, Nodes
    <3> QED
      BY <3>2, <3>3
  <2>4. Leave("decision_agent", s) /\ UNCHANGED <<saves, effects, approved, invocations>>
    BY <1>3 DEF Decide
  <2>5. approved' = approved /\ approved \subseteq Decisions
    BY <2>4 DEF Inv, TypeOK
  <2> HIDE DEF s
  <2> QED
    BY <2>1, <2>3, <2>4, <2>5, NodeInv
<1>4. CASE ApprovalBoundary
  <2> DEFINE s == [run.s EXCEPT !.step = @ + 1, !.status = "WAITING_FOR_APPROVAL", !.requires = TRUE]
  <2>1. "approval_boundary" \in Nodes /\ At("approval_boundary")
    BY <1>4 DEF ApprovalBoundary, Nodes
  <2>2. run.s \in State /\ Sound(run.s, approved)
    BY <2>1, NodeState
  <2>3. s \in State /\ s.step = run.s.step + 1 /\ s.status # "COMPLETED" /\ Sound(s, approved)
    <3>1. run.s.step + 1 \in Nat
      BY <2>2 DEF State, FinalStatus
    <3>2. s \in State
      BY <2>2, <3>1, WaitingType
    <3>3. s.step = run.s.step + 1 /\ s.status # "COMPLETED" /\ Sound(s, approved)
      BY <2>2 DEF State, Sound
    <3> QED
      BY <3>2, <3>3
  <2>4. Leave("approval_boundary", s) /\ UNCHANGED <<saves, effects, approved, invocations>>
    BY <1>4 DEF ApprovalBoundary
  <2>5. approved' = approved /\ approved \subseteq Decisions
    BY <2>4 DEF Inv, TypeOK
  <2> HIDE DEF s
  <2> QED
    BY <2>1, <2>3, <2>4, <2>5, NodeInv
<1>5. CASE HumanApproval
  <2>1. "human_approval" \in Nodes /\ At("human_approval")
    BY <1>5 DEF HumanApproval, Nodes
  <2>2. run.s \in State /\ Sound(run.s, approved) /\ run.s.status # "COMPLETED"
    BY <2>1, NodeState
  <2>3. run.s.decision \in Decisions
    BY <1>5, <2>2 DEF HumanApproval, State
  <2>4. approved \subseteq Decisions
    BY DEF Inv, TypeOK
  <2>5. UNCHANGED <<saves, effects, invocations>>
    BY <1>5 DEF HumanApproval
  <2>6. PICK s : /\ s \in State /\ s.step = run.s.step + 1 /\ s.status # "COMPLETED"
                 /\ Sound(s, approved') /\ Leave("human_approval", s)
                 /\ approved \subseteq approved' /\ approved' \subseteq Decisions
    <3> DEFINE t == [run.s EXCEPT !.step = @ + 1, !.of = run.s.decision, !.route = "termination"]
               p == [t EXCEPT !.approval = "PENDING", !.requires = TRUE, !.status = "WAITING_FOR_APPROVAL"]
               a == [t EXCEPT !.approval = "APPROVED", !.requires = FALSE]
               r == [t EXCEPT !.approval = "REJECTED", !.requires = FALSE]
    <3>0. t \in State /\ t.step = run.s.step + 1 /\ t.of = run.s.decision
          /\ t.acted = run.s.acted /\ t.status = run.s.status
      <4>1. run.s.step + 1 \in Nat /\ run.s.decision \in Decisions \cup {None}
        BY <2>2 DEF State
      <4>2. t \in State
        BY <2>2, <4>1, BoundType, NamedNodes
      <4> QED
        BY <2>2, <4>2 DEF State
    <3> HIDE DEF t
    <3>1. /\ p \in State /\ p.step = run.s.step + 1 /\ p.status # "COMPLETED" /\ Sound(p, approved)
      <4>1. p \in State
        BY <3>0, PendingType
      <4> QED
        BY <2>2, <3>0, <4>1 DEF State, Sound
    <3>2. /\ a \in State /\ a.step = run.s.step + 1 /\ a.status # "COMPLETED"
          /\ Sound(a, approved \cup {run.s.decision})
      <4>1. a \in State
        BY <3>0, AnsweredType
      <4> QED
        BY <2>2, <3>0, <4>1 DEF State, Sound
    <3>3. /\ r \in State /\ r.step = run.s.step + 1 /\ r.status # "COMPLETED" /\ Sound(r, approved)
      <4>1. r \in State
        BY <3>0, AnsweredType
      <4> QED
        BY <2>2, <3>0, <4>1 DEF State, Sound
    <3> USE DEF t
    <3>4. t.decision = run.s.decision
      BY <2>2 DEF State
    <3>5. \/ Leave("human_approval", p) /\ UNCHANGED approved
          \/ Leave("human_approval", a) /\ approved' = approved \cup {run.s.decision}
          \/ Leave("human_approval", r) /\ UNCHANGED approved
      BY <1>5, <3>4 DEF HumanApproval
    <3> HIDE DEF p, a, r, t
    <3> QED
      BY <2>3, <2>4, <3>1, <3>2, <3>3, <3>5
  <2> QED
    BY <2>1, <2>5, <2>6, NodeInv
<1>6. CASE Act
  <2> DEFINE s == [run.s EXCEPT !.step = @ + 1, !.acted = run.s.decision, !.route = "termination"]
             c == Candidate[run.s.decision]
  <2>1. "action_agent" \in Nodes /\ At("action_agent") /\ MayAct(run.s)
    BY <1>6 DEF Act, Nodes
  <2>2. run.s \in State /\ Sound(run.s, approved) /\ run.s.status # "COMPLETED"
    BY <2>1, NodeState
  <2>3. run.s.decision \in approved /\ run.s.decision \in Decisions /\ run.s.decision # None
    BY <2>1, <2>2, ConstantsAssumption DEF MayAct, State, Sound
  <2>4. s \in State /\ s.step = run.s.step + 1 /\ s.status # "COMPLETED" /\ Sound(s, approved)
    <3>1. run.s.step + 1 \in Nat /\ run.s.decision \in Decisions \cup {None}
      BY <2>2 DEF State, FinalStatus
    <3>2. s \in State
      BY <2>2, <3>1, ActedType, NamedNodes
    <3>3. s.step = run.s.step + 1 /\ s.status # "COMPLETED" /\ Sound(s, approved)
      BY <2>2, <2>3 DEF State, Sound, Nodes
    <3> QED
      BY <3>2, <3>3
  <2>5. Leave("action_agent", s) /\ UNCHANGED <<saves, approved, invocations>>
    BY <1>6 DEF Act
  <2>6. approved' = approved /\ approved \subseteq Decisions
    BY <2>5 DEF Inv, TypeOK
  <2>7. CASE UNCHANGED effects
    <3> HIDE DEF s
    <3> QED
      BY <2>1, <2>4, <2>5, <2>6, <2>7, NodeInv
  <2>8. CASE ~UNCHANGED effects
    <3>1. c \in Candidates
      BY <2>3 DEF Candidates
    <3>2. /\ actions[c] = None /\ flushed' = run.s.decision /\ UNCHANGED actions
          /\ dispatched' = [dispatched EXCEPT ![c] = @ + 1] /\ run.by = "approve"
      BY <1>6, <2>8 DEF Act
    <3>3. /\ actions \in [Candidates -> Decisions \cup {None}]
          /\ dispatched \in [Candidates -> Nat]
      BY DEF Inv, TypeOK
    <3>4. /\ actions' \in [Candidates -> Decisions \cup {None}]
          /\ flushed' \in Decisions \cup {None} /\ dispatched' \in [Candidates -> Nat]
      BY <2>3, <3>1, <3>2, <3>3
    <3>5. run' # Idle /\ run'.by = "approve" /\ run'.node \notin {"human_approval", "action_agent"}
      BY <2>1, <2>5, <3>2, LeaveFlushed
    <3>6. dispatched'[c] > 0 /\ \A x \in Candidates : dispatched[x] > 0 => dispatched'[x] > 0
      BY <3>1, <3>2, <3>3
    <3>7. \A x \in Candidates : actions'[x] # None => actions'[x] \in approved' /\ dispatched'[x] > 0
      BY <2>6, <3>2, <3>6 DEF Inv, ActionsOK
    <3>8. flushed' \in approved' /\ actions'[Candidate[flushed']] = None /\ dispatched'[Candidate[flushed']] > 0
      BY <2>3, <2>6, <3>2, <3>6
    <3>9. ActionsOK'
      BY <3>5, <3>7, <3>8 DEF ActionsOK
    <3> HIDE DEF s
    <3> QED
      BY <2>1, <2>4, <2>5, <2>6, <3>4, <3>9, NodeRecords
  <2> QED
    BY <2>7, <2>8
<1>7. CASE Verify
  <2> DEFINE s == [run.s EXCEPT !.step = @ + 1, !.route = "termination"]
  <2>1. "verification_agent" \in Nodes /\ At("verification_agent")
    BY <1>7 DEF Verify, Nodes
  <2>2. run.s \in State /\ Sound(run.s, approved) /\ run.s.status # "COMPLETED"
    BY <2>1, NodeState
  <2>3. s \in State /\ s.step = run.s.step + 1 /\ s.status # "COMPLETED" /\ Sound(s, approved)
    <3>1. run.s.step + 1 \in Nat
      BY <2>2 DEF State, FinalStatus
    <3>2. s \in State
      BY <2>2, <3>1, VerifiedType, NamedNodes
    <3>3. s.step = run.s.step + 1 /\ s.status # "COMPLETED" /\ Sound(s, approved)
      BY <2>2 DEF State, Sound, Nodes
    <3> QED
      BY <3>2, <3>3
  <2>4. Leave("verification_agent", s) /\ UNCHANGED <<saves, approved, invocations>>
    BY <1>7 DEF Verify
  <2>5. approved' = approved /\ approved \subseteq Decisions
    BY <2>4 DEF Inv, TypeOK
  <2>6. CASE UNCHANGED effects
    <3> HIDE DEF s
    <3> QED
      BY <2>1, <2>3, <2>4, <2>5, <2>6, NodeInv
  <2>7. CASE CommitSession
    <3>1. /\ actions \in [Candidates -> Decisions \cup {None}]
          /\ flushed \in Decisions /\ dispatched \in [Candidates -> Nat]
      BY <2>7 DEF CommitSession, Inv, TypeOK
    <3>2. /\ actions' \in [Candidates -> Decisions \cup {None}]
          /\ flushed' \in Decisions \cup {None} /\ dispatched' \in [Candidates -> Nat]
      BY <2>7, <3>1 DEF CommitSession
    <3>3. flushed \in approved /\ dispatched[Candidate[flushed]] > 0
      BY <2>7 DEF CommitSession, Inv, ActionsOK
    <3>4. ActionsOK'
      BY <2>5, <2>7, <3>1, <3>3 DEF CommitSession, Inv, ActionsOK
    <3> HIDE DEF s
    <3> QED
      BY <2>1, <2>3, <2>4, <2>5, <3>2, <3>4, NodeRecords
  <2> QED
    BY <1>7, <2>6, <2>7 DEF Verify
<1>8. CASE Termination
  <2> DEFINE s == [run.s EXCEPT !.step = @ + 1, !.status = FinalStatus(run.s)]
  <2>1. "termination" \in Nodes /\ At("termination")
    BY <1>8 DEF Termination, Nodes
  <2>2. run.s \in State /\ Sound(run.s, approved)
    BY <2>1, NodeState
  <2>3. s \in State /\ s.step = run.s.step + 1 /\ Sound(s, approved)
    <3>1. run.s.step + 1 \in Nat /\ FinalStatus(run.s) \in {"WAITING_FOR_APPROVAL", "FAILED", "COMPLETED"}
      BY <2>2 DEF State, FinalStatus
    <3>2. s \in State
      BY <2>2, <3>1, TerminatedType
    <3>3. s.step = run.s.step + 1 /\ Sound(s, approved)
      BY <2>2 DEF State, Sound, FinalStatus
    <3> QED
      BY <3>2, <3>3
  <2>4. Leave("termination", s) /\ UNCHANGED <<saves, effects, approved, invocations>>
    BY <1>8 DEF Termination
  <2>5. approved' = approved /\ approved \subseteq Decisions
    BY <2>4 DEF Inv, TypeOK
  <2> HIDE DEF s
  <2> QED
    BY <2>1, <2>3, <2>4, <2>5, NodeInv
<1>9. CASE Refuse \/ NodeRaises
  BY <1>9, RollBackInv DEF Refuse, NodeRaises, Inv, TypeOK, SavedOK, Sound, RollBack
<1> QED
  BY <1>1, <1>2, <1>3, <1>4, <1>5, <1>6, <1>7, <1>8, <1>9 DEF NodeStep, NodeWorks

-----------------------------------------------------------------------------
(* The steps around a run.                                                 *)

LEMMA CrashInv == Inv /\ Crash => Inv'
BY RollBackInv DEF Inv, Crash, TypeOK, SavedOK, RollBack

LEMMA ReturnInv == Inv /\ Return => Inv'
<1> SUFFICES ASSUME Inv, Return PROVE Inv'
  OBVIOUS
<1>1. run # Idle /\ run \in Runs /\ run.s \in State
  BY DEF Return, At, Idle, Inv, TypeOK, Runs
<1>2. Sound(run.s, approved)
  BY <1>1 DEF Inv, RunOK
<1>3. run' = Idle /\ RollBack /\ UNCHANGED <<approved, invocations>>
  BY DEF Return
<1>4. invocations \in Nat /\ stored \in State \cup {None}
      /\ SavedOK(stored, approved, invocations)
  BY DEF Inv, TypeOK
<1>5. CASE run.by = "library"
  <2>1. SaveCheckpoint(run.s)
    BY <1>5 DEF Return
  <2>2. run.s.step <= MaxSteps + 2 * invocations
    BY <1>1, <1>5 DEF Return, At, Inv, RunOK, WithinBudget
  <2>3. /\ SavedOK(cache', approved, invocations) /\ SavedOK(stored', approved, invocations)
        /\ cache' \in State \cup {None} /\ stored' \in State \cup {None}
    BY <1>1, <1>2, <1>4, <2>1, <2>2, SaveOK
  <2> QED
    BY <1>3, <2>3, RollBackInv DEF Inv, TypeOK, RollBack
<1>6. CASE run.by # "library"
  <2>1. UNCHANGED saves
    BY <1>6 DEF Return
  <2> QED
    BY <1>3, <2>1, RollBackInv DEF Inv, TypeOK, saves, RollBack
<1> QED
  BY <1>5, <1>6

(* What a call leaves, given the state it starts a run from.               *)
LEMMA BeginInv ==
  ASSUME Inv, NEW by \in {"library", "run", "approve"}, NEW node \in Nodes, NEW s \in State,
         NEW act \in BOOLEAN, NEW verify \in BOOLEAN, Begin(by, node, s, act, verify),
         Sound(s, approved), node # "initialization" => s.status # "COMPLETED",
         by # "approve" => node = "initialization" /\ s.step <= MaxSteps + 2 * invocations,
         \/ UNCHANGED saves
         \/ SaveCheckpoint(s) /\ by # "approve"
  PROVE  Inv'
<1>1. /\ run' = [node |-> node, by |-> by, s |-> s, act |-> act, verify |-> verify]
      /\ invocations' = invocations + 1 /\ invocations < MaxInvocations
      /\ UNCHANGED <<effects, approved>> /\ flushed = None
  BY DEF Begin, Inv, ActionsOK
<1>2. invocations \in 0..MaxInvocations /\ MaxInvocations \in Nat /\ MaxSteps \in Nat
      /\ s.step \in Nat
  BY ConstantsAssumption DEF Inv, TypeOK, State
<1>3. invocations \in Nat /\ invocations' \in Nat /\ invocations' \in 0..MaxInvocations
  BY <1>1, <1>2
<1>4. node # "END"
  BY DEF Nodes, Analysts
<1>5. by # "approve" => WithinBudget(node, s.step, invocations') /\ invocations' >= 1
  BY <1>1, <1>2, <1>3 DEF WithinBudget
<1>6. RunOK(run', approved, invocations')
  BY <1>1, <1>4, <1>5 DEF RunOK
<1>7. run' \in Runs
  BY <1>1 DEF Runs
<1>8. \A c : SavedOK(c, approved, invocations) /\ c \in State \cup {None}
             => SavedOK(c, approved, invocations')
  BY <1>1, <1>2, <1>3 DEF SavedOK, State
<1>9. stored \in State \cup {None} /\ cache \in State \cup {None}
      /\ SavedOK(stored, approved, invocations)
      /\ SavedOK(cache, approved, invocations)
  BY DEF Inv, TypeOK
<1>10. /\ SavedOK(cache', approved, invocations') /\ SavedOK(stored', approved, invocations')
       /\ cache' \in State \cup {None} /\ stored' \in State \cup {None}
  <2>1. CASE UNCHANGED saves
    BY <1>8, <1>9, <2>1 DEF saves
  <2>2. CASE SaveCheckpoint(s) /\ by # "approve"
    <3>1. s.step <= MaxSteps + 2 * invocations'
      BY <1>1, <1>2, <2>2
    <3>2. SavedOK(stored, approved, invocations')
      BY <1>8, <1>9
    <3> QED
      BY <1>3, <1>9, <2>2, <3>1, <3>2, SaveOK
  <2> QED
    BY <2>1, <2>2
<1>11. TypeOK' /\ ActionsOK'
  BY <1>1, <1>3, <1>7, <1>10 DEF Inv, TypeOK, ActionsOK, effects, Runs
<1> QED
  BY <1>1, <1>6, <1>10, <1>11 DEF Inv

LEMMA FreshOK ==
  ASSUME NEW route \in Nodes \cup {None}, NEW b \in BOOLEAN, NEW e \in BOOLEAN
  PROVE  /\ Fresh(route, b, e) \in State
         /\ Sound(Fresh(route, b, e), approved)
         /\ Fresh(route, b, e).step = 0 /\ Fresh(route, b, e).status = "INITIALIZING"
         /\ Fresh(route, b, e).approval = "none" /\ Fresh(route, b, e).acted = None
<1>1. Fresh(route, b, e) \in State
  BY DEF Fresh, State
<1> QED
  BY <1>1 DEF Fresh, Sound

LEMMA CallInv == Inv /\ Call => Inv'
<1> SUFFICES ASSUME Inv, Call PROVE Inv'
  OBVIOUS
<1>0. "initialization" \in Nodes /\ "human_approval" \in Nodes /\ MaxSteps \in Nat
      /\ MaxInvocations \in Nat /\ invocations \in Nat /\ Routes \subseteq Nodes \cup {None}
  BY ConstantsAssumption DEF Nodes, Inv, TypeOK
<1>1. ASSUME NEW route \in Routes, NEW b \in BOOLEAN, NEW e \in BOOLEAN, Start(route, b, e)
      PROVE  Inv'
  <2>1. PICK s : s = Fresh(route, b, e)
    OBVIOUS
  <2>2. Begin("library", "initialization", s, FALSE, FALSE) /\ SaveCheckpoint(s)
    BY <1>1, <2>1 DEF Start
  <2>3. s \in State /\ Sound(s, approved) /\ s.step = 0
    BY <1>0, <2>1, FreshOK
  <2>4. s.step <= MaxSteps + 2 * invocations
    BY <1>0, <2>3
  <2> QED
    BY <1>0, <2>2, <2>3, <2>4, BeginInv
<1>2. ASSUME NEW route \in Routes, NEW b \in BOOLEAN, NEW a \in {"none", "APPROVE", "REJECT"},
             Resume(route, b, a)
      PROVE  Inv'
  <2>1. PICK c : c = Restorable
    OBVIOUS
  <2>2. c \in State /\ Sound(c, approved) /\ c.step <= MaxSteps + 2 * invocations
    BY <1>2, <2>1 DEF Resume, Restorable, Inv, TypeOK, SavedOK
  <2>3. PICK s : s = [c EXCEPT !.route = route, !.human = a, !.requires = @ /\ ~b]
    OBVIOUS
  <2>4. Begin("library", "initialization", s, FALSE, FALSE) /\ SaveCheckpoint(s)
    BY <1>2, <2>1, <2>3 DEF Resume
  <2>5. (c.requires /\ ~b) \in BOOLEAN
    OBVIOUS
  <2>6. s \in State
    BY <1>0, <2>2, <2>3, <2>5, ResumedType
  <2>7. s.step = c.step /\ Sound(s, approved)
    BY <2>2, <2>3 DEF State, Sound
  <2> QED
    BY <1>0, <2>2, <2>4, <2>6, <2>7, BeginInv
<1>3. ASSUME NEW b \in BOOLEAN, GraphRun(b) PROVE Inv'
  <2>1. PICK s : s = Fresh(None, b, FALSE)
    OBVIOUS
  <2>2. Begin("run", "initialization", s, FALSE, FALSE) /\ UNCHANGED saves
    BY <1>3, <2>1 DEF GraphRun
  <2>3. s \in State /\ Sound(s, approved) /\ s.step = 0
    BY <2>1, FreshOK
  <2>4. s.step <= MaxSteps + 2 * invocations
    BY <1>0, <2>3
  <2> QED
    BY <1>0, <2>2, <2>3, <2>4, BeginInv
<1>4. ASSUME NEW d \in Decisions, NEW a \in {"APPROVE", "REJECT"}, NEW b \in BOOLEAN,
             NEW v \in BOOLEAN, GraphApprove(d, a, b, v)
      PROVE  Inv'
  <2>1. PICK f : f = Fresh(None, FALSE, FALSE)
    OBVIOUS
  <2>2. f \in State /\ f.status = "INITIALIZING" /\ f.approval = "none" /\ f.acted = None
    BY <2>1, FreshOK
  <2>3. PICK s : s = [f EXCEPT !.step = 8, !.decision = d, !.human = a]
    OBVIOUS
  <2>4. PICK act \in BOOLEAN : act = (b /\ a = "APPROVE")
    OBVIOUS
  <2>5. Begin("approve", "human_approval", s, act, v) /\ UNCHANGED saves
    BY <1>4, <2>1, <2>3, <2>4 DEF GraphApprove
  <2>6. s \in State
    BY <2>2, <2>3, ApprovingType
  <2>7. s.status # "COMPLETED" /\ Sound(s, approved)
    BY <2>2, <2>3 DEF State, Sound
  <2> QED
    BY <1>0, <2>5, <2>6, <2>7, BeginInv
<1> QED
  BY <1>1, <1>2, <1>3, <1>4 DEF Call

LEMMA Stutter == Inv /\ UNCHANGED vars => Inv'
BY DEF Inv, vars, TypeOK, ActionsOK

(* Inv is inductive.                                                       *)
THEOREM Invariance == Spec => []Inv
<1>1. Init => Inv
  BY InitInv
<1>2. Inv /\ [Next]_vars => Inv'
  BY NodeStepInv, ReturnInv, CrashInv, CallInv, Stutter DEF Next
<1> QED
  BY <1>1, <1>2, PTL DEF Spec

(* The state of a run keeps its types through every node, checkpoint,      *)
(* crash and resumption (AgentGraphState, DurableCheckpointManager).       *)
THEOREM TypeCorrect == Spec => []TypeOK
<1>1. Inv => TypeOK
  BY DEF Inv
<1> QED
  BY <1>1, Invariance, PTL

(* A run never gets more than the step limit and two steps a call, however *)
(* it is routed and resumed (RouteEvaluator.evaluate).                     *)
THEOREM BudgetKept == Spec => []StepBudget
<1>1. Inv => StepBudget
  <2> SUFFICES ASSUME Inv PROVE StepBudget
    OBVIOUS
  <2>1. \A s \in {cache, stored} : s # None => s.step <= MaxSteps + 2 * invocations
    BY DEF Inv, SavedOK
  <2>2. ASSUME run # Idle, run.by # "approve"
        PROVE  run.s.step <= MaxSteps + 2 * invocations
    <3>1. run \in Runs /\ WithinBudget(run.node, run.s.step, invocations)
      BY <2>2 DEF Inv, TypeOK, Runs, RunOK
    <3>2. run.s.step \in Nat /\ invocations \in Nat /\ MaxSteps \in Nat
      BY <3>1, ConstantsAssumption DEF Runs, State, Inv, TypeOK
    <3> QED
      BY <3>1, <3>2 DEF WithinBudget
  <2> QED
    BY <2>1, <2>2 DEF StepBudget
<1> QED
  BY <1>1, Invariance, PTL

(* No action runs for a decision that no human approved in this run, also  *)
(* after a resumption with an older approval (action_node).                *)
THEOREM ApprovedOnly == Spec => []ActsOnApproval
<1>1. Inv => ActsOnApproval
  <2> SUFFICES ASSUME Inv PROVE ActsOnApproval
    OBVIOUS
  <2>1. ASSUME NEW s \in States PROVE Sound(s, approved)
    BY <2>1 DEF States, Inv, SavedOK, RunOK
  <2> QED
    BY <2>1 DEF Inv, Sound, ActsOnApproval, ActionsOK
<1> QED
  BY <1>1, Invariance, PTL

RecordStep ==
  \A c \in Candidates :
    actions[c] # None => /\ actions'[c] = actions[c]
                         /\ dispatched'[c] = dispatched[c]

(* An action on record stays, and approving again dispatches nothing for   *)
(* its candidate (ActionAgent.execute, check_idempotency). An action that  *)
(* was flushed and rolled back is not on record.                           *)
THEOREM RecordKept == Spec => RecordIsFinal
<1>1. Inv /\ [Next]_vars => [RecordStep]_effects
  <2> SUFFICES ASSUME Inv, Next PROVE [RecordStep]_effects
    BY DEF vars, effects
  <2>1. CASE Act
    <3>1. UNCHANGED effects \/ RecordStep
      BY <2>1 DEF Act, RecordStep, Inv, TypeOK
    <3> QED
      BY <3>1
  <2>2. CASE Verify
    <3>1. CASE CommitSession
      <4>1. actions[Candidate[flushed]] = None /\ actions \in [Candidates -> Decisions \cup {None}]
        BY <3>1 DEF CommitSession, Inv, ActionsOK, TypeOK
      <4> QED
        BY <3>1, <4>1 DEF CommitSession, RecordStep
    <3> QED
      BY <2>2, <3>1 DEF Verify
  <2>3. CASE RollBack
    BY <2>3 DEF RollBack, RecordStep
  <2>4. Act \/ Verify \/ RollBack \/ UNCHANGED effects
    BY DEF Next, NodeStep, NodeWorks, Initialization, Analyse, Decide, ApprovalBoundary, HumanApproval,
           Termination, Refuse, NodeRaises, Return, Crash, Call, Start, Resume, GraphRun, GraphApprove, Begin
  <2> QED
    BY <2>1, <2>2, <2>3, <2>4
<1>2. Spec => [][RecordStep]_effects
  BY <1>1, Invariance, PTL DEF Spec
<1> QED
  BY <1>2 DEF RecordIsFinal, RecordStep

(* A run that waits for its human is not recorded as completed             *)
(* (termination_node, approval_boundary_node).                             *)
THEOREM WaitingNotCompleted == Spec => []NoCompletionWhileWaiting
<1>1. Inv => NoCompletionWhileWaiting
  <2> SUFFICES ASSUME Inv, NEW s \in States PROVE Sound(s, approved)
    BY DEF Sound, NoCompletionWhileWaiting
  <2> QED
    BY DEF States, Inv, SavedOK, RunOK
<1> QED
  BY <1>1, Invariance, PTL

-----------------------------------------------------------------------------
BoundaryStep ==
  run # Idle /\ run' # Idle /\ run.by # "approve" /\ run'.s.requires
    => run'.node \in {"termination", "END"}

LEMMA LeaveBoundary ==
  ASSUME NEW n, NEW s, Leave(n, s), run.by # "approve", run'.s.requires
  PROVE  run'.node \in {"termination", "END"}
<1>1. run'.s = s /\ run'.node = NextNode(n, s)
  BY DEF Leave
<1>2. s.requires
  BY <1>1
<1> QED
  BY <1>1, <1>2 DEF NextNode, Evaluate

(* Every node but one that raises leaves by way of the routing.            *)
LEMMA NodeLeaves ==
  ASSUME NodeStep, run' # Idle
  PROVE  \E n, s : Leave(n, s)
BY DEF NodeStep, NodeWorks, Refuse, NodeRaises, Initialization, Analyse, Decide, ApprovalBoundary, HumanApproval,
       Act, Verify, Termination

(* Nothing but the last node follows while a decision waits for a human    *)
(* (RouteEvaluator.evaluate, condition 3).                                 *)
THEOREM BoundaryKept == Spec => BoundaryHolds
<1>1. [Next]_vars => [BoundaryStep]_<<run>>
  <2> SUFFICES ASSUME Next, run # Idle, run' # Idle, run.by # "approve", run' # run, run'.s.requires
               PROVE  run'.node \in {"termination", "END"}
    BY DEF BoundaryStep, vars
  <2>1. NodeStep
    BY DEF Next, Return, Crash, Call, Start, Resume, GraphRun, GraphApprove, Begin
  <2>2. PICK n, s : Leave(n, s)
    BY <2>1, NodeLeaves
  <2> QED
    BY <2>2, LeaveBoundary
<1>2. Spec => [][BoundaryStep]_<<run>>
  BY <1>1, PTL DEF Spec
<1> QED
  BY <1>2 DEF BoundaryHolds, BoundaryStep
=============================================================================

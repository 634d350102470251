---------------------------- MODULE ActionExecution ----------------------------
(***************************************************************************)
(* POST /actions/execute: an approved decision is carried out against a    *)
(* shipment, at most once per idempotency key.  Each call is a transaction *)
(* at READ COMMITTED that takes no row lock: the checks of ActionSafety-   *)
(* Policy and ActionPersistenceService read committed rows, the shipment's *)
(* new route waits in the session, and everything is written at the end.   *)
(* Decisions are formulated (and formulated again) by save_decision in the *)
(* same way, and so is the PATCH of a shipment; the row-locked handlers of *)
(* Governance that edit and sign a recommendation are one step each here.  *)
(***************************************************************************)
EXTENDS Naturals, Sequences

CONSTANTS
  Decisions,     \* recommendations.id
  Keys,          \* idempotency keys
  ClientIds,     \* action ids a client may put into its command
  Derived,       \* "no action id": it is derived from the command
  Routes,        \* routes a command may put the shipment on
  InitialRoute,
  Keep,          \* a column that a PATCH leaves out
  Calls,         \* concurrent requests
  MaxActions,    \* bound: rows of actions
  MaxSignOffs    \* bound: approvals rows of a decision

ASSUME ConstantsAssumption ==
  /\ Derived \notin ClientIds
  /\ InitialRoute \notin Routes
  /\ Keep \notin Routes \cup BOOLEAN
  /\ MaxActions \in Nat /\ MaxSignOffs \in Nat

VARIABLES
  status,        \* recommendations.status
  approvals,     \* decisions of the approvals rows of a recommendation, oldest first
  actions,       \* actions rows the agent wrote, oldest first
  route,         \* shipments.route_id
  delivered,     \* shipments.status is DELIVERED or CANCELLED
  call           \* the open request of each worker thread

tables == <<status, approvals, actions, route, delivered>>
vars == <<status, approvals, actions, route, delivered, call>>

-----------------------------------------------------------------------------
(* "RECOMMENDED" stands for every status the decision agent gives.         *)
LifecycleStatus == {"PENDING", "APPROVED", "REJECTED", "EXECUTED"}
Status == LifecycleStatus \cup {"ABSENT", "RECOMMENDED"}
ApprovalDecision == {"APPROVE", "REJECT", "REQUEST_MODIFICATION"}
StatusAfterMutant == [APPROVE |-> "APPROVED", REJECT |-> "REJECTED",
                      REQUEST_MODIFICATION |-> "REQUEST_MODIFICATION"]
StatusAfter == [APPROVE |-> "APPROVED", REJECT |-> "REJECTED",
                REQUEST_MODIFICATION |-> "PENDING"]

Command == [decision : Decisions, key : Keys, id : ClientIds \cup {Derived},
            route : Routes]

(* The derived id covers the key but not the parameters; the fingerprint   *)
(* covers the parameters but not the key.                                  *)
ActionId(c) == IF c.id = Derived THEN <<c.decision, c.key>> ELSE c.id
Fingerprint(c) == <<c.decision, c.route>>

Row(c) == [id |-> ActionId(c), key |-> c.key, decision |-> c.decision,
           route |-> c.route]
Idle == [step |-> "idle"]

TypeOK ==
  /\ status \in [Decisions -> Status]
  /\ approvals \in [Decisions -> Seq(ApprovalDecision)]
  /\ actions \in Seq({Row(c) : c \in Command})
  /\ route \in Routes \cup {InitialRoute}
  /\ delivered \in BOOLEAN
  /\ call \in [Calls ->
       {Idle}
       \cup [step : {"check", "execute", "record", "commit"}, command : Command,
             seen : Status]
       \cup [step : {"save"}, decision : Decisions, seen : Status]
       \cup [step : {"patch"}, route : Routes \cup {Keep},
             delivered : BOOLEAN \cup {Keep}]]

Rows == 1..Len(actions)

(* check_idempotency: rows with the command's id or its key.               *)
Existing(c) == {i \in Rows : actions[i].id = ActionId(c) \/ actions[i].key = c.key}
Replays(i, c) == Fingerprint(actions[i]) = Fingerprint(c)

Goto(p, step) == call' = [call EXCEPT ![p] =
  [step |-> step, command |-> call[p].command, seen |-> call[p].seen]]
Answer(p) == call' = [call EXCEPT ![p] = Idle]

-----------------------------------------------------------------------------
(* The endpoint takes any one of the decision's approvals rows, or vouches *)
(* for the approval itself when there is none and the status is APPROVED;  *)
(* validate_approval accepts it.  Other commands are answered with an      *)
(* error.                                                                  *)
Approved(d) ==
  IF approvals[d] = <<>> THEN status[d] = "APPROVED"
  ELSE \E i \in DOMAIN approvals[d] : approvals[d][i] = "APPROVE"

Receive(p) ==
  /\ call[p] = Idle
  /\ \E c \in Command :
       /\ Approved(c.decision)
       /\ call' = [call EXCEPT ![p] =
            [step |-> "check", command |-> c, seen |-> status[c.decision]]]
  /\ UNCHANGED tables

(* ActionAgent.execute: a known id or key is replayed or refused.          *)
CheckIdempotency(p) ==
  /\ call[p].step = "check"
  /\ IF Existing(call[p].command) = {} THEN Goto(p, "execute") ELSE Answer(p)
  /\ UNCHANGED tables

(* validate_target_entity, and the executor's change of the shipment in    *)
(* the session.                                                            *)
Execute(p) ==
  /\ call[p].step = "execute"
  /\ IF ~delivered /\ route # call[p].command.route
     THEN Goto(p, "record") ELSE Answer(p)
  /\ UNCHANGED tables

(* record_action_execution checks again.  A replay commits the session,    *)
(* and with it the shipment's new route; a conflict rolls it back.         *)
RecordCheck(p) ==
  LET c == call[p].command IN
  /\ call[p].step = "record"
  /\ IF Existing(c) = {} THEN Goto(p, "commit") /\ UNCHANGED route
     ELSE \E i \in Existing(c) :
            /\ Answer(p)
            /\ route' = IF Replays(i, c) THEN c.route ELSE route
  /\ UNCHANGED <<status, approvals, actions, delivered>>

(* The action row, the decision's status and the shipment commit together, *)
(* or not at all when the action's primary key is taken.  The status is    *)
(* written unless the session read it as EXECUTED.                         *)
CommitMutant(p) ==   \* a row with the same id does not stop the insert
  LET c == call[p].command IN
  /\ call[p].step = "commit"
  /\ Len(actions) < MaxActions
  /\ actions' = Append(actions, Row(c))
  /\ status' = [status EXCEPT ![c.decision] =
                  IF call[p].seen = "EXECUTED" THEN @ ELSE "EXECUTED"]
  /\ route' = c.route
  /\ Answer(p)
  /\ UNCHANGED <<approvals, delivered>>
Commit(p) ==
  LET c == call[p].command IN
  /\ call[p].step = "commit"
  /\ IF \E i \in Rows : actions[i].id = ActionId(c)
     THEN UNCHANGED <<status, actions, route>>
     ELSE /\ Len(actions) < MaxActions
          /\ actions' = Append(actions, Row(c))
          /\ status' = [status EXCEPT ![c.decision] =
                          IF call[p].seen = "EXECUTED" THEN @ ELSE "EXECUTED"]
          /\ route' = c.route
  /\ Answer(p)
  /\ UNCHANGED <<approvals, delivered>>

-----------------------------------------------------------------------------
(* DecisionRepository.save_decision: an upsert of the deterministic        *)
(* decision id, whatever has become of the row.                            *)
BeginSaveDecision(p) ==
  /\ call[p] = Idle
  /\ \E d \in Decisions :
       call' = [call EXCEPT ![p] =
                  [step |-> "save", decision |-> d, seen |-> status[d]]]
  /\ UNCHANGED tables

CommitSaveDecision(p) ==
  LET d == call[p].decision
      inserts == call[p].seen = "ABSENT" IN
  /\ call[p].step = "save"
  /\ \/ status' = [status EXCEPT ![d] =
                     IF inserts /\ @ # "ABSENT" THEN @ ELSE "RECOMMENDED"]
     \/ call[p].seen = "RECOMMENDED" /\ UNCHANGED status
  /\ Answer(p)
  /\ UNCHANGED <<approvals, actions, route, delivered>>

-----------------------------------------------------------------------------
(* PATCH /shipments: the route and the status are written if they differ   *)
(* from what the session read; a terminal status that was read does not    *)
(* become an open one.                                                     *)
BeginUpdateShipment(p) ==
  /\ call[p] = Idle
  /\ \E r \in Routes \cup {Keep}, s \in BOOLEAN \cup {Keep} :
       /\ r # route
       /\ delivered => s # FALSE
       /\ call' = [call EXCEPT ![p] = [step |-> "patch", route |-> r, delivered |-> s]]
  /\ UNCHANGED tables

CommitUpdateShipment(p) ==
  /\ call[p].step = "patch"
  /\ route' = IF call[p].route = Keep THEN route ELSE call[p].route
  /\ delivered' = IF call[p].delivered = Keep THEN delivered ELSE call[p].delivered
  /\ Answer(p)
  /\ UNCHANGED <<status, approvals, actions>>

-----------------------------------------------------------------------------
(* The row-locked handlers of Governance.                                  *)

UpdateRecommendation(d) ==
  /\ \/ /\ status[d] \in {"RECOMMENDED", "PENDING"}
        /\ \E s \in LifecycleStatus : status' = [status EXCEPT ![d] = s]
     \/ /\ status[d] = "APPROVED"
        /\ status' = [status EXCEPT ![d] = "EXECUTED"]
  /\ UNCHANGED <<approvals, actions, route, delivered, call>>

CreateApproval(d) ==
  /\ status[d] = "PENDING"
  /\ Len(approvals[d]) < MaxSignOffs
  /\ \E decision \in ApprovalDecision :
       /\ approvals' = [approvals EXCEPT ![d] = Append(@, decision)]
       /\ status' = [status EXCEPT ![d] = StatusAfter[decision]]
  /\ UNCHANGED <<actions, route, delivered, call>>

(* An error, a timeout or a crash: the session is rolled back.             *)
RollBack(p) ==
  /\ call[p] # Idle
  /\ Answer(p)
  /\ UNCHANGED tables

Init ==
  /\ status = [d \in Decisions |-> "ABSENT"]
  /\ approvals = [d \in Decisions |-> <<>>]
  /\ actions = <<>>
  /\ route = InitialRoute
  /\ delivered = FALSE
  /\ call = [p \in Calls |-> Idle]

Next ==
  \/ \E p \in Calls :
       \/ Receive(p) \/ CheckIdempotency(p) \/ Execute(p) \/ RecordCheck(p)
       \/ Commit(p) \/ BeginSaveDecision(p) \/ CommitSaveDecision(p)
       \/ BeginUpdateShipment(p) \/ CommitUpdateShipment(p) \/ RollBack(p)
  \/ \E d \in Decisions : UpdateRecommendation(d) \/ CreateApproval(d)

Spec == Init /\ [][Next]_vars

-----------------------------------------------------------------------------
(* Properties *)

(* A retry of a command, even one that runs next to the first attempt,     *)
(* never carries the action out twice: the primary key of actions closes   *)
(* the window between the last idempotency check and the commit.           *)
RetryExecutesOnce ==
  \A i, j \in Rows : actions[i].id = actions[j].id => i = j

(* The last two steps of a call of /actions/execute.                       *)
Answers(p) == call[p].step \in {"record", "commit"} /\ call'[p] = Idle

(* The shipment stays put, or is on the route of an action on record.      *)
AgentExplainsRoute ==
  \A p \in Calls : Answers(p) =>
    route' = route \/ \E i \in Rows' : actions'[i].route = route'

(* The agent never reroutes the shipment without an action on record: the  *)
(* executor's change and the actions row stand or fall together, whichever *)
(* way the call ends.                                                      *)
RouteExplained == [][AgentExplainsRoute]_vars

-----------------------------------------------------------------------------
(* What ActionLedger sees of an open request: a handler's steps are hidden. *)
RequestOf(c) ==
  CASE c.step \in {"check", "execute", "record", "commit"} ->
         [kind |-> "action", entry |-> Row(c.command)]
    [] c.step = "patch" /\ c.route # Keep -> [kind |-> "plan", route |-> c.route]
    [] OTHER -> [kind |-> "none"]

(* Every interleaving of attempts, retries, failures, new formulations of  *)
(* the decision, sign-offs and edits of the shipment is one of ActionLedger: *)
(* an action is carried out once, upon a request that was accepted while   *)
(* its decision was approved, and the shipment only moves in the step that *)
(* enters it, upon a repetition of it, or for the shipment's owner.        *)
AL == INSTANCE ActionLedger WITH
  Callers <- Calls, Entries <- {Row(c) : c \in Command}, Unmoved <- InitialRoute,
  approved <- {d \in Decisions : Approved(d)},
  ledger <- actions,
  request <- [p \in Calls |-> RequestOf(call[p])]
RefinesLedger == AL!Spec
=============================================================================

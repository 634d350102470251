------------------------------ MODULE Governance ------------------------------
(***************************************************************************)
(* The governance tables of ChainSentinel (recommendations, approvals,     *)
(* actions, verification_results) under concurrent HTTP requests.          *)
(*                                                                         *)
(* A request is one database transaction at READ COMMITTED.  At "read" it  *)
(* waits for the row lock of its SELECT ... FOR UPDATE and then checks the *)
(* lifecycle rules against the row and the request's body; at "write" it   *)
(* changes rows and commits; a handler that completes an action holds the  *)
(* action's row while it waits for the recommendation's at "rec".  An      *)
(* error answer or a failed transaction rolls back and leaves the tables   *)
(* as they were.  The body is chosen where the handler first looks at it.  *)
(***************************************************************************)
EXTENDS Naturals, FiniteSets

CONSTANTS
  Recs,        \* recommendation ids
  ActIds,      \* action ids
  ApprovalIds, \* bound: fresh approval ids (generate_uuid)
  Payloads,    \* contents of a recommendation, result payloads of an action
  Requests,    \* concurrent requests
  NoRec, NoAct, NoPayload,
  MaxResults   \* bound: verification rows of one action

ASSUME ConstantsAssumption ==
  /\ NoRec \notin Recs
  /\ NoAct \notin ActIds
  /\ NoPayload \notin Payloads
  /\ MaxResults \in Nat \ {0}

VARIABLES
  status,      \* recommendations.status, "ABSENT" while there is no row
  content,     \* the other columns of the recommendation
  approvals,   \* rows of approvals
  actions,     \* actions rows by id
  results,     \* number of verification_results rows of an action
  req          \* the open request of each worker thread

tables == <<status, content, approvals, actions, results>>
vars == <<status, content, approvals, actions, results, req>>

-----------------------------------------------------------------------------
RecommendationStatus == {"PENDING", "APPROVED", "REJECTED", "EXECUTED"}
FinalStatus == {"APPROVED", "REJECTED", "EXECUTED"}
ActionStatus == {"PENDING", "EXECUTING", "COMPLETED", "FAILED"}
FinalDecision == {"APPROVE", "REJECT"}
ApprovalDecision == FinalDecision \cup {"REQUEST_MODIFICATION"}

(* Definitions named ...Mutant are faulty variants of the definition that  *)
(* follows: plausible slips that the properties below must notice.         *)
StatusAfterMutant(d) == IF d \in FinalDecision THEN "APPROVED" ELSE d

(* The status a decision gives its recommendation.                         *)
StatusAfter(d) ==
  CASE d = "APPROVE" -> "APPROVED"
    [] d = "REJECT"  -> "REJECTED"
    [] OTHER         -> "PENDING"

(* The approval id record_human_decision derives from the recommendation   *)
(* and its preferred candidate, which is part of the content.              *)
DeterministicId(r, c) == <<r, c>>

Approval == [id : ApprovalIds \cup (Recs \X Payloads), rec : Recs,
             decision : ApprovalDecision,
             signed : Payloads]   \* the content the row had when decided

Action == [rec : Recs \cup {NoRec}, status : ActionStatus,
           result : Payloads \cup {NoPayload}]
NoAction == [rec |-> NoRec, status |-> "ABSENT", result |-> NoPayload]
Exists(a) == actions[a].status # "ABSENT"

(* valid_transitions of update_action.                                     *)
ValidTransitions(s) ==
  CASE s = "PENDING"   -> {"EXECUTING", "FAILED"}
    [] s = "EXECUTING" -> {"COMPLETED", "FAILED"}
    [] OTHER           -> {}

RecOps == {"update_recommendation", "create_approval", "record_human_decision"}
ActOps == {"update_action", "execute_action"}
ReadOps == {"create_action", "create_verification_result"}
Ops == RecOps \cup ActOps \cup ReadOps \cup {"idle"}

Request == [op : Ops, at : {"read", "rec", "write"},
            rec : Recs \cup {NoRec}, act : ActIds \cup {NoAct},
            arg : RecommendationStatus \cup ActionStatus \cup ApprovalDecision
                    \cup {"keep"},
            payload : Payloads \cup {NoPayload}]

Idle == [op |-> "idle", at |-> "read", rec |-> NoRec, act |-> NoAct,
         arg |-> "keep", payload |-> NoPayload]

TypeOK ==
  /\ status \in [Recs -> RecommendationStatus \cup {"ABSENT"}]
  /\ content \in [Recs -> Payloads \cup {NoPayload}]
  /\ approvals \subseteq Approval
  /\ actions \in [ActIds -> Action \cup {NoAction}]
  /\ results \in [ActIds -> 0..MaxResults]
  /\ req \in [Requests -> Request]

-----------------------------------------------------------------------------
(* Row locks: a request holds the rows it selected FOR UPDATE until it     *)
(* commits or rolls back.                                                  *)
HoldsRecDecisionMutant(p, r) ==   \* record_human_decision without FOR UPDATE
  req[p].op \in (RecOps \cup ActOps) \ {"record_human_decision"}
    /\ req[p].at = "write" /\ req[p].rec = r
HoldsRecUpdateMutant(p, r) ==     \* update_recommendation without FOR UPDATE
  req[p].op \in (RecOps \cup ActOps) \ {"update_recommendation"}
    /\ req[p].at = "write" /\ req[p].rec = r
HoldsRecQueueMutant(p, r) ==      \* waiting for the row already blocks it
  req[p].op \in RecOps \cup ActOps /\ req[p].at # "read" /\ req[p].rec = r
HoldsRec(p, r) ==
  /\ req[p].op \in RecOps \cup ActOps
  /\ req[p].at = "write"
  /\ req[p].rec = r
HoldsActMutant(p, a) ==           \* the action is unlocked before the write
  req[p].op \in ActOps /\ req[p].at = "rec" /\ req[p].act = a
HoldsAct(p, a) ==
  /\ req[p].op \in ActOps
  /\ req[p].at \in {"rec", "write"}
  /\ req[p].act = a
RecUnlocked(r) == \A p \in Requests : ~HoldsRec(p, r)
ActUnlocked(a) == \A p \in Requests : ~HoldsAct(p, a)

Begin(p, request) == /\ req[p] = Idle
                     /\ req' = [req EXCEPT ![p] = request]
                     /\ UNCHANGED tables
Goto(p, step) == req' = [req EXCEPT ![p].at = step]
Finish(p) == req' = [req EXCEPT ![p] = Idle]
At(p, op, step) == req[p].op = op /\ req[p].at = step

(* get_for_update: wait for the row lock, then go on with the request if   *)
(* the handler's checks pass, answer with an error and roll back otherwise.*)
SelectRecForUpdate(p, checks, request) ==
  /\ RecUnlocked(req[p].rec)
  /\ IF checks THEN req' = [req EXCEPT ![p] = request] ELSE Finish(p)
  /\ UNCHANGED tables

-----------------------------------------------------------------------------
(* RecommendationService *)

CreateRecommendation(r) ==
  /\ status[r] = "ABSENT"
  /\ \E s \in RecommendationStatus, c \in Payloads :
        /\ status' = [status EXCEPT ![r] = s]
        /\ content' = [content EXCEPT ![r] = c]
  /\ UNCHANGED <<approvals, actions, results, req>>

BeginUpdateRecommendation(p) ==
  \E r \in Recs :
    Begin(p, [Idle EXCEPT !.op = "update_recommendation", !.rec = r])

UpdatableMutant(r, newStatus, newContent) ==   \* "len(update_data) == 1" dropped
  status[r] # "ABSENT" /\ (status[r] \in FinalStatus =>
                             status[r] = "APPROVED" /\ newStatus = "EXECUTED")
(* A finalized row accepts nothing but APPROVED -> EXECUTED alone.         *)
Updatable(r, newStatus, newContent) ==
  /\ status[r] # "ABSENT"
  /\ status[r] \in FinalStatus =>
       /\ status[r] = "APPROVED" /\ newStatus = "EXECUTED"
       /\ newContent = NoPayload

(* The body is a status, other columns, or both.                           *)
LockUpdateRecommendation(p) ==
  /\ At(p, "update_recommendation", "read")
  /\ \E s \in RecommendationStatus \cup {"keep"}, c \in Payloads \cup {NoPayload} :
       /\ s # "keep" \/ c # NoPayload
       /\ SelectRecForUpdate(p, Updatable(req[p].rec, s, c),
            [req[p] EXCEPT !.at = "write", !.arg = s, !.payload = c])

CommitUpdateRecommendation(p) ==
  /\ At(p, "update_recommendation", "write")
  /\ status' = IF req[p].arg = "keep" THEN status
               ELSE [status EXCEPT ![req[p].rec] = req[p].arg]
  /\ content' = IF req[p].payload = NoPayload THEN content
                ELSE [content EXCEPT ![req[p].rec] = req[p].payload]
  /\ Finish(p)
  /\ UNCHANGED <<approvals, actions, results>>

-----------------------------------------------------------------------------
(* ApprovalService.create_approval and the approval agent's                *)
(* ApprovalRepository.record_human_decision.  Neither is told which content *)
(* the signatory was shown.                                                *)

BeginSignOff(p) ==
  \E r \in Recs, op \in {"create_approval", "record_human_decision"} :
    /\ status[r] # "ABSENT"
    /\ Begin(p, [Idle EXCEPT !.op = op, !.rec = r])

DecidableMutant(r) == status[r] # "EXECUTED"   \* any unexecuted row
Decidable(r) == status[r] = "PENDING"

LockSignOff(p) ==
  \E d \in ApprovalDecision :
    /\ \/ At(p, "create_approval", "read")
       \/ At(p, "record_human_decision", "read") /\ d \in FinalDecision
    /\ SelectRecForUpdate(p, Decidable(req[p].rec),
         [req[p] EXCEPT !.at = "write", !.arg = d])

(* The approval row and the status it gives the recommendation commit      *)
(* together; an id already in the table fails the insert.                  *)
RecordDecision(p, id) ==
  LET r == req[p].rec IN
  /\ IF \E x \in approvals : x.id = id
     THEN UNCHANGED <<status, approvals>>
     ELSE /\ approvals' = approvals \cup
               {[id |-> id, rec |-> r, decision |-> req[p].arg,
                 signed |-> content[r]]}
          /\ status' = [status EXCEPT ![r] = StatusAfter(req[p].arg)]
  /\ Finish(p)
  /\ UNCHANGED <<content, actions, results>>

CommitCreateApproval(p) ==
  /\ At(p, "create_approval", "write")
  /\ \E id \in ApprovalIds : RecordDecision(p, id)

CommitHumanDecision(p) ==
  /\ At(p, "record_human_decision", "write")
  /\ RecordDecision(p, DeterministicId(req[p].rec, content[req[p].rec]))

-----------------------------------------------------------------------------
(* ActionService *)

BeginCreateActionMutant(p) ==   \* only a rejected recommendation is refused
  \E r \in Recs \cup {NoRec} :
    /\ r # NoRec => status[r] \in {"PENDING", "APPROVED"}
    /\ Begin(p, [Idle EXCEPT !.op = "create_action", !.at = "write", !.rec = r])
(* The recommendation is read without a lock.                              *)
BeginCreateAction(p) ==
  \E r \in Recs \cup {NoRec} :
    /\ r # NoRec => status[r] = "APPROVED"
    /\ Begin(p, [Idle EXCEPT !.op = "create_action", !.at = "write", !.rec = r])

InsertAction(p) ==
  /\ At(p, "create_action", "write")
  /\ \E a \in ActIds :
       /\ ~Exists(a)
       /\ actions' = [actions EXCEPT ![a] =
            [rec |-> req[p].rec, status |-> "EXECUTING", result |-> NoPayload]]
  /\ Finish(p)
  /\ UNCHANGED <<status, content, approvals, results>>

BeginChangeAction(p) ==
  \E a \in ActIds, op \in ActOps :
    Begin(p, [Idle EXCEPT !.op = op, !.act = a])

(* The checks of update_action (PATCH of the status, the result payload or *)
(* both), and what execute_action makes of the action's status.            *)
Changeable(a, newStatus) ==
  /\ actions[a].status \in {"PENDING", "EXECUTING"}
  /\ newStatus # "keep" => newStatus \in ValidTransitions(actions[a].status)
Progress(a) ==
  IF actions[a].status = "PENDING" THEN "EXECUTING" ELSE "COMPLETED"

LockAction(p) ==
  LET a == req[p].act
      linked == actions[a].rec # NoRec IN
  \E s \in ActionStatus \cup {"keep"}, c \in Payloads \cup {NoPayload} :
    /\ \/ At(p, "update_action", "read") /\ (s # "keep" \/ c # NoPayload)
       \/ At(p, "execute_action", "read") /\ s = Progress(a) /\ c = NoPayload
    /\ ActUnlocked(a)
    /\ IF Changeable(a, s)
       THEN req' = [req EXCEPT ![p] =
              [op |-> req[p].op, act |-> a, arg |-> s, payload |-> c,
               at |-> IF s = "COMPLETED" /\ linked THEN "rec" ELSE "write",
               rec |-> IF s = "COMPLETED" THEN actions[a].rec ELSE NoRec]]
       ELSE Finish(p)
    /\ UNCHANGED tables

(* The completed action's recommendation is locked after the action.       *)
LockActionRec(p) ==
  /\ req[p].op \in ActOps /\ req[p].at = "rec"
  /\ RecUnlocked(req[p].rec)
  /\ Goto(p, "write")
  /\ UNCHANGED tables

CommitActionMutant(p) ==   \* the recommendation is left as it was
  LET a == req[p].act IN
  /\ req[p].op \in ActOps /\ req[p].at = "write"
  /\ actions' = [actions EXCEPT
       ![a].status = IF req[p].arg = "keep" THEN @ ELSE req[p].arg,
       ![a].result = IF req[p].payload = NoPayload THEN @ ELSE req[p].payload]
  /\ Finish(p)
  /\ UNCHANGED <<status, content, approvals, results>>

CommitAction(p) ==
  LET a == req[p].act
      r == req[p].rec IN
  /\ req[p].op \in ActOps /\ req[p].at = "write"
  /\ actions' = [actions EXCEPT
       ![a].status = IF req[p].arg = "keep" THEN @ ELSE req[p].arg,
       ![a].result = IF req[p].payload = NoPayload THEN @ ELSE req[p].payload]
  /\ status' = IF r = NoRec THEN status ELSE [status EXCEPT ![r] = "EXECUTED"]
  /\ Finish(p)
  /\ UNCHANGED <<content, approvals, results>>

-----------------------------------------------------------------------------
(* VerificationResultService.create_verification_result: neither the       *)
(* action nor the absence of a result is locked.                           *)

BeginCreateResult(p) ==
  \E a \in ActIds :
    /\ Exists(a) /\ results[a] = 0
    /\ Begin(p, [Idle EXCEPT !.op = "create_verification_result",
                             !.at = "write", !.act = a])

InsertResult(p) ==
  /\ At(p, "create_verification_result", "write")
  /\ results[req[p].act] < MaxResults
  /\ results' = [results EXCEPT ![req[p].act] = @ + 1]
  /\ Finish(p)
  /\ UNCHANGED <<status, content, approvals, actions>>

-----------------------------------------------------------------------------
(* A statement timeout, a lost connection or a crashed worker: the open    *)
(* transaction is rolled back and its locks are released.                  *)
RollBack(p) ==
  /\ req[p] # Idle
  /\ Finish(p)
  /\ UNCHANGED tables

Init ==
  /\ status = [r \in Recs |-> "ABSENT"]
  /\ content = [r \in Recs |-> NoPayload]
  /\ approvals = {}
  /\ actions = [a \in ActIds |-> NoAction]
  /\ results = [a \in ActIds |-> 0]
  /\ req = [p \in Requests |-> Idle]

(* One statement of an open request.                                       *)
Step(p) ==
  \/ LockUpdateRecommendation(p) \/ CommitUpdateRecommendation(p)
  \/ LockSignOff(p) \/ CommitCreateApproval(p) \/ CommitHumanDecision(p)
  \/ InsertAction(p)
  \/ LockAction(p) \/ LockActionRec(p) \/ CommitAction(p)
  \/ InsertResult(p)

Arrive(p) ==
  \/ BeginUpdateRecommendation(p) \/ BeginSignOff(p) \/ BeginCreateAction(p)
  \/ BeginChangeAction(p) \/ BeginCreateResult(p)

Next ==
  \/ \E r \in Recs : CreateRecommendation(r)
  \/ \E p \in Requests : Arrive(p) \/ Step(p) \/ RollBack(p)

Spec == Init /\ [][Next]_vars

(* Every connection keeps executing its statements, and a waiting SELECT   *)
(* FOR UPDATE is served in turn by PostgreSQL's lock queue.                *)
AwaitLock(p) == \/ LockUpdateRecommendation(p) \/ LockSignOff(p)
                \/ LockAction(p) \/ LockActionRec(p)

Fairness == \A p \in Requests : WF_vars(Step(p)) /\ SF_vars(AwaitLock(p))

FairSpec == Spec /\ Fairness

-----------------------------------------------------------------------------
(* Properties *)

IsFinalRow(x) == x.decision \in FinalDecision

(* A recommendation is settled by at most one human decision, however many *)
(* signatories post at once through either endpoint: the row lock and the  *)
(* PENDING check of create_approval and record_human_decision.             *)
SingleFinalDecision ==
  \A x, y \in approvals :
    x.rec = y.rec /\ IsFinalRow(x) /\ IsFinalRow(y) => x = y

(* The approvals table and recommendations.status never disagree: a        *)
(* rejected proposal is not carried out, an approved one is not rejected.  *)
SignatureMatchesStatus ==
  \A x \in approvals :
    /\ x.decision = "APPROVE" => status[x.rec] \in {"APPROVED", "EXECUTED"}
    /\ x.decision = "REJECT" => status[x.rec] = "REJECTED"

(* What was signed stays as it was signed: no PATCH that was under way     *)
(* when the decision committed changes the proposal afterwards.            *)
SignedContentFrozen ==
  \A x \in approvals : IsFinalRow(x) => content[x.rec] = x.signed

(* create_action reads the recommendation without a lock and inserts       *)
(* later; still no action is linked to a recommendation that is not        *)
(* approved by the time the action exists.                                 *)
LinkedActionApproved ==
  \A a \in ActIds :
    actions[a].rec # NoRec => status[actions[a].rec] \in {"APPROVED", "EXECUTED"}

(* update_action and execute_action change two rows: a completed action's  *)
(* recommendation is EXECUTED in the same commit.                          *)
CompletedMeansExecuted ==
  \A a \in ActIds :
    actions[a].status = "COMPLETED" /\ actions[a].rec # NoRec
      => status[actions[a].rec] = "EXECUTED"

(* A finalized action is never changed again, neither its status nor its   *)
(* result, by a request that read it before it was finalized.              *)
FinalizedActionFrozen ==
  [][\A a \in ActIds : actions[a].status \in {"COMPLETED", "FAILED"}
                         => actions'[a] = actions[a]]_vars

-----------------------------------------------------------------------------
(* The inductive invariant behind them. *)

LocksExclusive ==
  /\ \A p, q \in Requests, r \in Recs : HoldsRec(p, r) /\ HoldsRec(q, r) => p = q
  /\ \A p, q \in Requests, a \in ActIds : HoldsAct(p, a) /\ HoldsAct(q, a) => p = q

(* What an open request has found out about its rows.                      *)
CheckedRec(p) ==
  LET r == req[p].rec IN
  /\ req[p].op \in RecOps => r \in Recs /\ req[p].at # "rec"
  /\ At(p, "update_recommendation", "write") =>
       /\ req[p].arg \in RecommendationStatus \cup {"keep"}
       /\ Updatable(r, req[p].arg, req[p].payload)
  /\ req[p].op \in {"create_approval", "record_human_decision"} =>
       /\ status[r] # "ABSENT"
       /\ req[p].at = "write" => Decidable(r) /\ req[p].arg \in ApprovalDecision
  /\ req[p].op = "create_action" /\ r # NoRec => status[r] \in {"APPROVED", "EXECUTED"}

CheckedAct(p) ==
  LET a == req[p].act IN
  /\ req[p].op \in ActOps => a \in ActIds
  /\ req[p].op \in ActOps /\ req[p].at # "read" =>
       /\ req[p].arg \in ActionStatus \cup {"keep"}
       /\ Changeable(a, req[p].arg)
       /\ req[p].rec = IF req[p].arg = "COMPLETED" THEN actions[a].rec ELSE NoRec
       /\ req[p].at = "rec" => req[p].rec # NoRec
  /\ req[p].op = "create_verification_result" => a \in ActIds

RowsConsistent ==
  /\ \A r \in Recs : status[r] # "ABSENT" => content[r] \in Payloads
  /\ \A x \in approvals : status[x.rec] # "ABSENT"

(* Everything the handlers establish and the row locks keep true: what     *)
(* makes the properties above hold in every interleaving.                  *)
Inv ==
  /\ TypeOK
  /\ LocksExclusive
  /\ \A p \in Requests : CheckedRec(p) /\ CheckedAct(p)
  /\ RowsConsistent
  /\ SingleFinalDecision /\ SignatureMatchesStatus /\ SignedContentFrozen
  /\ LinkedActionApproved /\ CompletedMeansExecuted

-----------------------------------------------------------------------------
(* The lifecycle as a whole: see SignOff.                                  *)
FinalRowsOf(r) == {x \in approvals : x.rec = r /\ IsFinalRow(x)}
DecisionOf(r) ==
  IF FinalRowsOf(r) = {} THEN "NONE"
  ELSE (CHOOSE x \in FinalRowsOf(r) : TRUE).decision
SO == INSTANCE SignOff WITH decision <- [r \in Recs |-> DecisionOf(r)]
RefinesSignOff == SO!Spec

(* A request that waits for row locks is answered: the handlers that hold  *)
(* an action's row while they wait for its recommendation's deadlock with  *)
(* nobody.                                                                 *)
LockWaitersAnswered ==
  \A p \in Requests : (req[p].op \in RecOps \cup ActOps) ~> (req[p].op = "idle")
=============================================================================

--------------------------- MODULE GovernanceProofs ---------------------------
(* Proofs about Governance, for every set of recommendations, actions,       *)
(* payloads and concurrent requests.                                         *)
EXTENDS Governance, TLAPS

USE DEF RecommendationStatus, FinalStatus, ActionStatus, FinalDecision,
        ApprovalDecision, RecOps, ActOps, ReadOps, Ops

(* The tables and the request variable of an initial state satisfy Inv.      *)
LEMMA InitInv == Init => Inv
<1> SUFFICES ASSUME Init PROVE Inv
  OBVIOUS
<1>1. TypeOK
  BY ConstantsAssumption DEF Init, TypeOK, Idle, Request, Action
<1>2. LocksExclusive
  BY DEF Init, LocksExclusive, HoldsRec, HoldsAct, Idle
<1>3. \A p \in Requests : CheckedRec(p) /\ CheckedAct(p)
  BY DEF Init, CheckedRec, CheckedAct, Idle, At
<1>4. RowsConsistent /\ SingleFinalDecision /\ SignatureMatchesStatus
        /\ SignedContentFrozen
  BY DEF Init, RowsConsistent, SingleFinalDecision, SignatureMatchesStatus,
         SignedContentFrozen
<1>5. LinkedActionApproved /\ CompletedMeansExecuted
  BY DEF Init, NoAction, LinkedActionApproved, CompletedMeansExecuted
<1> QED
  BY <1>1, <1>2, <1>3, <1>4, <1>5 DEF Inv

(* A step that only moves one request p to a state that is well-typed, has   *)
(* checked what it must and shares no lock keeps Inv.                        *)
LEMMA RequestStep ==
  ASSUME Inv, NEW p \in Requests, NEW new \in Request,
         req' = [req EXCEPT ![p] = new], UNCHANGED tables,
         CheckedRec(p)', CheckedAct(p)',
         \A q \in Requests \ {p}, r \in Recs : HoldsRec(q, r) => ~HoldsRec(p, r)',
         \A q \in Requests \ {p}, a \in ActIds : HoldsAct(q, a) => ~HoldsAct(p, a)'
  PROVE  Inv'
<1>1. TypeOK'
  BY DEF Inv, TypeOK, tables
<1>2. \A q \in Requests \ {p} : req'[q] = req[q]
  BY DEF Inv, TypeOK
<1>3. LocksExclusive'
  <2>1. \A q \in Requests \ {p}, r \in Recs : HoldsRec(q, r)' <=> HoldsRec(q, r)
    BY <1>2 DEF HoldsRec
  <2>2. \A q \in Requests \ {p}, a \in ActIds : HoldsAct(q, a)' <=> HoldsAct(q, a)
    BY <1>2 DEF HoldsAct
  <2>3. ASSUME NEW q1 \in Requests, NEW q2 \in Requests, NEW r \in Recs,
               HoldsRec(q1, r)', HoldsRec(q2, r)'
        PROVE  q1 = q2
    BY <2>1, <2>3 DEF Inv, LocksExclusive
  <2>4. ASSUME NEW q1 \in Requests, NEW q2 \in Requests, NEW a \in ActIds,
               HoldsAct(q1, a)', HoldsAct(q2, a)'
        PROVE  q1 = q2
    BY <2>2, <2>4 DEF Inv, LocksExclusive
  <2> QED
    BY <2>3, <2>4 DEF LocksExclusive
<1>4. ASSUME NEW q \in Requests
      PROVE  CheckedRec(q)' /\ CheckedAct(q)'
  <2>1. CASE q = p
    BY <2>1
  <2>2. CASE q # p
    BY <2>2, <1>2 DEF Inv, tables, CheckedRec, CheckedAct, At, Updatable,
                      Decidable, Changeable
  <2> QED
    BY <2>1, <2>2
<1>5. /\ RowsConsistent' /\ SingleFinalDecision' /\ SignatureMatchesStatus'
      /\ SignedContentFrozen' /\ LinkedActionApproved' /\ CompletedMeansExecuted'
  BY DEF Inv, tables, RowsConsistent, SingleFinalDecision,
         SignatureMatchesStatus, SignedContentFrozen, LinkedActionApproved,
         CompletedMeansExecuted
<1> QED
  BY <1>1, <1>3, <1>4, <1>5 DEF Inv

(* A request that ends without touching the tables: an error answer, a       *)
(* rollback.                                                                 *)
LEMMA FinishStep ==
  ASSUME Inv, NEW p \in Requests, Finish(p), UNCHANGED tables
  PROVE  Inv'
<1>1. Idle \in Request
  BY DEF Idle, Request
<1>2. req' = [req EXCEPT ![p] = Idle] /\ req'[p] = Idle
  BY DEF Finish, Inv, TypeOK
<1>3. CheckedRec(p)' /\ CheckedAct(p)'
  BY <1>2 DEF CheckedRec, CheckedAct, Idle, At
<1>4. (\A r \in Recs : ~HoldsRec(p, r)') /\ (\A a \in ActIds : ~HoldsAct(p, a)')
  BY <1>2 DEF HoldsRec, HoldsAct, Idle
<1> QED
  BY <1>1, <1>2, <1>3, <1>4, RequestStep

-----------------------------------------------------------------------------
(* The steps of a request that read: arrivals and lock acquisitions.         *)

(* A request that opens its session reads, but locks and writes nothing.   *)
LEMMA BeginInv ==
  ASSUME Inv, NEW p \in Requests, Arrive(p)
  PROVE  Inv'
<1>1. CASE BeginUpdateRecommendation(p)
  <2>1. PICK r \in Recs :
          Begin(p, [Idle EXCEPT !.op = "update_recommendation", !.rec = r])
    BY <1>1 DEF BeginUpdateRecommendation
  <2> DEFINE new == [Idle EXCEPT !.op = "update_recommendation", !.rec = r]
  <2>2. new \in Request /\ new.at = "read" /\ new.op = "update_recommendation"
          /\ new.rec = r
    BY DEF Idle, Request
  <2>3. UNCHANGED tables /\ req' = [req EXCEPT ![p] = new] /\ req'[p] = new
    BY <2>1 DEF Begin, Inv, TypeOK
  <2> HIDE DEF new
  <2>4. CheckedRec(p)' /\ CheckedAct(p)'
    BY <2>2, <2>3 DEF CheckedRec, CheckedAct, At
  <2>5. /\ \A r1 \in Recs : ~HoldsRec(p, r1)'
      /\ \A b \in ActIds : ~HoldsAct(p, b)'
    BY <2>2, <2>3 DEF HoldsRec, HoldsAct
  <2> QED
    BY <2>2, <2>3, <2>4, <2>5, RequestStep
<1>2. CASE BeginSignOff(p)
  <2>1. PICK r \in Recs, op \in {"create_approval", "record_human_decision"} :
          /\ status[r] # "ABSENT"
          /\ Begin(p, [Idle EXCEPT !.op = op, !.rec = r])
    BY <1>2 DEF BeginSignOff
  <2> DEFINE new == [Idle EXCEPT !.op = op, !.rec = r]
  <2>2. new \in Request /\ new.at = "read" /\ new.op = op /\ new.rec = r
    BY DEF Idle, Request
  <2>3. UNCHANGED tables /\ req' = [req EXCEPT ![p] = new] /\ req'[p] = new
    BY <2>1 DEF Begin, Inv, TypeOK
  <2> HIDE DEF new
  <2>4. CheckedRec(p)' /\ CheckedAct(p)'
    BY <2>1, <2>2, <2>3 DEF CheckedRec, CheckedAct, At, tables
  <2>5. /\ \A r1 \in Recs : ~HoldsRec(p, r1)'
      /\ \A b \in ActIds : ~HoldsAct(p, b)'
    BY <2>2, <2>3 DEF HoldsRec, HoldsAct
  <2> QED
    BY <2>2, <2>3, <2>4, <2>5, RequestStep
<1>3. CASE BeginCreateAction(p)
  <2>1. PICK r \in Recs \cup {NoRec} :
          /\ r # NoRec => status[r] = "APPROVED"
          /\ Begin(p, [Idle EXCEPT !.op = "create_action", !.at = "write", !.rec = r])
    BY <1>3 DEF BeginCreateAction
  <2> DEFINE new == [Idle EXCEPT !.op = "create_action", !.at = "write", !.rec = r]
  <2>2. new \in Request /\ new.op = "create_action" /\ new.rec = r
    BY DEF Idle, Request
  <2>3. UNCHANGED tables /\ req' = [req EXCEPT ![p] = new] /\ req'[p] = new
    BY <2>1 DEF Begin, Inv, TypeOK
  <2> HIDE DEF new
  <2>4. CheckedRec(p)' /\ CheckedAct(p)'
    BY <2>1, <2>2, <2>3 DEF CheckedRec, CheckedAct, At, tables
  <2>5. /\ \A r1 \in Recs : ~HoldsRec(p, r1)'
      /\ \A b \in ActIds : ~HoldsAct(p, b)'
    BY <2>2, <2>3 DEF HoldsRec, HoldsAct
  <2> QED
    BY <2>2, <2>3, <2>4, <2>5, RequestStep
<1>4. CASE BeginChangeAction(p)
  <2>1. PICK a \in ActIds, op \in ActOps :
          Begin(p, [Idle EXCEPT !.op = op, !.act = a])
    BY <1>4 DEF BeginChangeAction
  <2> DEFINE new == [Idle EXCEPT !.op = op, !.act = a]
  <2>2. new \in Request /\ new.at = "read" /\ new.op = op /\ new.act = a
    BY DEF Idle, Request
  <2>3. UNCHANGED tables /\ req' = [req EXCEPT ![p] = new] /\ req'[p] = new
    BY <2>1 DEF Begin, Inv, TypeOK
  <2> HIDE DEF new
  <2>4. CheckedRec(p)' /\ CheckedAct(p)'
    BY <2>2, <2>3 DEF CheckedRec, CheckedAct, At
  <2>5. /\ \A r1 \in Recs : ~HoldsRec(p, r1)'
      /\ \A b \in ActIds : ~HoldsAct(p, b)'
    BY <2>2, <2>3 DEF HoldsRec, HoldsAct
  <2> QED
    BY <2>2, <2>3, <2>4, <2>5, RequestStep
<1>5. CASE BeginCreateResult(p)
  <2>1. PICK a \in ActIds :
          Begin(p, [Idle EXCEPT !.op = "create_verification_result",
                                !.at = "write", !.act = a])
    BY <1>5 DEF BeginCreateResult
  <2> DEFINE new == [Idle EXCEPT !.op = "create_verification_result",
                                 !.at = "write", !.act = a]
  <2>2. new \in Request /\ new.op = "create_verification_result" /\ new.act = a
    BY DEF Idle, Request
  <2>3. UNCHANGED tables /\ req' = [req EXCEPT ![p] = new] /\ req'[p] = new
    BY <2>1 DEF Begin, Inv, TypeOK
  <2> HIDE DEF new
  <2>4. CheckedRec(p)' /\ CheckedAct(p)'
    BY <2>2, <2>3 DEF CheckedRec, CheckedAct, At
  <2>5. /\ \A r1 \in Recs : ~HoldsRec(p, r1)'
      /\ \A b \in ActIds : ~HoldsAct(p, b)'
    BY <2>2, <2>3 DEF HoldsRec, HoldsAct
  <2> QED
    BY <2>2, <2>3, <2>4, <2>5, RequestStep
<1> QED
  BY <1>1, <1>2, <1>3, <1>4, <1>5 DEF Arrive

(* SELECT ... FOR UPDATE of update_recommendation: the row is exclusive and,*)
(* if the checks pass, updatable.                                           *)
LEMMA LockUpdateRecommendationInv ==
  ASSUME Inv, NEW p \in Requests, LockUpdateRecommendation(p)
  PROVE  Inv'
<1> DEFINE r == req[p].rec
<1>1. PICK s \in RecommendationStatus \cup {"keep"}, c \in Payloads \cup {NoPayload} :
        SelectRecForUpdate(p, Updatable(r, s, c),
          [req[p] EXCEPT !.at = "write", !.arg = s, !.payload = c])
  BY DEF LockUpdateRecommendation
<1>2. req[p] \in Request /\ req[p].op = "update_recommendation" /\ r \in Recs
  BY DEF LockUpdateRecommendation, At, Inv, TypeOK, CheckedRec
<1>3. CASE Updatable(r, s, c)
  <2> DEFINE new == [req[p] EXCEPT !.at = "write", !.arg = s, !.payload = c]
  <2>1. /\ new \in Request /\ new.op = "update_recommendation" /\ new.at = "write"
        /\ new.rec = r /\ new.arg = s /\ new.payload = c
    BY <1>2 DEF Request
  <2>2. UNCHANGED tables /\ req' = [req EXCEPT ![p] = new] /\ req'[p] = new
    BY <1>1, <1>3 DEF SelectRecForUpdate, Inv, TypeOK
  <2> HIDE DEF new
  <2>3. CheckedRec(p)' /\ CheckedAct(p)'
    BY <1>2, <1>3, <2>1, <2>2 DEF CheckedRec, CheckedAct, At, tables, Updatable
  <2>4. \A q \in Requests : ~HoldsRec(q, r)
    BY <1>1 DEF SelectRecForUpdate, RecUnlocked
  <2>5. \A r1 \in Recs : HoldsRec(p, r1)' => r1 = r
    BY <2>1, <2>2 DEF HoldsRec
  <2>6. \A a \in ActIds : ~HoldsAct(p, a)'
    BY <2>1, <2>2 DEF HoldsAct
  <2> QED
    BY <2>1, <2>2, <2>3, <2>4, <2>5, <2>6, RequestStep
<1>4. CASE ~Updatable(r, s, c)
  BY <1>1, <1>4, FinishStep DEF SelectRecForUpdate
<1> QED
  BY <1>3, <1>4

(* SELECT ... FOR UPDATE of create_approval and record_human_decision: the  *)
(* row is exclusive and still undecided.                                    *)
LEMMA LockSignOffInv ==
  ASSUME Inv, NEW p \in Requests, LockSignOff(p)
  PROVE  Inv'
<1> DEFINE r == req[p].rec
<1>1. PICK d \in ApprovalDecision :
        SelectRecForUpdate(p, Decidable(r), [req[p] EXCEPT !.at = "write", !.arg = d])
  BY DEF LockSignOff
<1>2. /\ req[p] \in Request /\ r \in Recs
      /\ req[p].op \in {"create_approval", "record_human_decision"}
      /\ status[r] # "ABSENT"
  BY DEF LockSignOff, At, Inv, TypeOK, CheckedRec
<1>3. CASE Decidable(r)
  <2> DEFINE new == [req[p] EXCEPT !.at = "write", !.arg = d]
  <2>1. /\ new \in Request /\ new.op = req[p].op /\ new.at = "write"
        /\ new.rec = r /\ new.arg = d /\ new.payload = req[p].payload
    BY <1>2 DEF Request
  <2>2. UNCHANGED tables /\ req' = [req EXCEPT ![p] = new] /\ req'[p] = new
    BY <1>1, <1>3 DEF SelectRecForUpdate, Inv, TypeOK
  <2> HIDE DEF new
  <2>3. CheckedRec(p)' /\ CheckedAct(p)'
    BY <1>2, <1>3, <2>1, <2>2 DEF CheckedRec, CheckedAct, At, tables, Decidable
  <2>4. \A q \in Requests : ~HoldsRec(q, r)
    BY <1>1 DEF SelectRecForUpdate, RecUnlocked
  <2>5. \A r1 \in Recs : HoldsRec(p, r1)' => r1 = r
    BY <2>1, <2>2 DEF HoldsRec
  <2>6. \A a \in ActIds : ~HoldsAct(p, a)'
    BY <1>2, <2>1, <2>2 DEF HoldsAct
  <2> QED
    BY <2>1, <2>2, <2>3, <2>4, <2>5, <2>6, RequestStep
<1>4. CASE ~Decidable(r)
  BY <1>1, <1>4, FinishStep DEF SelectRecForUpdate
<1> QED
  BY <1>3, <1>4

(* SELECT ... FOR UPDATE of the action by update_action and execute_action. *)
LEMMA LockActionInv ==
  ASSUME Inv, NEW p \in Requests, LockAction(p)
  PROVE  Inv'
<1> DEFINE a == req[p].act
<1>1. PICK s \in ActionStatus \cup {"keep"}, c \in Payloads \cup {NoPayload} :
        /\ ActUnlocked(a)
        /\ IF Changeable(a, s)
           THEN req' = [req EXCEPT ![p] =
                  [op |-> req[p].op, act |-> a, arg |-> s, payload |-> c,
                   at |-> IF s = "COMPLETED" /\ actions[a].rec # NoRec
                          THEN "rec" ELSE "write",
                   rec |-> IF s = "COMPLETED" THEN actions[a].rec ELSE NoRec]]
           ELSE Finish(p)
        /\ UNCHANGED tables
  BY Zenon DEF LockAction
<1>2. req[p] \in Request /\ a \in ActIds /\ req[p].op \in ActOps
  BY DEF LockAction, At, Inv, TypeOK, CheckedAct
<1>3. CASE Changeable(a, s)
  <2> DEFINE at == IF s = "COMPLETED" /\ actions[a].rec # NoRec
                   THEN "rec" ELSE "write"
             rec == IF s = "COMPLETED" THEN actions[a].rec ELSE NoRec
             new == [op |-> req[p].op, act |-> a, arg |-> s, payload |-> c,
                     at |-> at, rec |-> rec]
  <2>1. /\ at \in {"rec", "write"} /\ rec \in Recs \cup {NoRec}
        /\ at = "rec" => rec # NoRec
        /\ at = "write" => rec = NoRec
    BY <1>2 DEF Inv, TypeOK, Action, NoAction
  <2>a. req' = [req EXCEPT ![p] = new]
    BY <1>1, <1>3
  <2> HIDE DEF at, rec
  <2>2. /\ new \in Request /\ new.op = req[p].op /\ new.at = at
        /\ new.act = a /\ new.arg = s /\ new.rec = rec
    <3>1. /\ at \in {"read", "rec", "write"} /\ c \in Payloads \cup {NoPayload}
          /\ s \in RecommendationStatus \cup ActionStatus \cup ApprovalDecision
                     \cup {"keep"}
      BY <2>1
    <3> QED
      BY <1>2, <2>1, <3>1 DEF Request
  <2>3. req' = [req EXCEPT ![p] = new] /\ req'[p] = new
    BY <2>a DEF Inv, TypeOK
  <2>4. UNCHANGED tables
    BY <1>1
  <2> HIDE DEF new
  <2>5. CheckedRec(p)' /\ CheckedAct(p)'
    BY <1>2, <1>3, <2>1, <2>2, <2>3, <2>4
       DEF CheckedRec, CheckedAct, At, tables, Changeable, rec
  <2>6. \A q \in Requests : ~HoldsAct(q, a)
    BY <1>1 DEF ActUnlocked
  <2>7. \A b \in ActIds : HoldsAct(p, b)' => b = a
    BY <2>2, <2>3 DEF HoldsAct
  <2>8. \A r \in Recs : ~HoldsRec(p, r)'
    BY <2>1, <2>2, <2>3, ConstantsAssumption DEF HoldsRec
  <2> QED
    BY <2>2, <2>3, <2>4, <2>5, <2>6, <2>7, <2>8, RequestStep
<1>4. CASE ~Changeable(a, s)
  BY <1>1, <1>4, FinishStep
<1> QED
  BY <1>3, <1>4

(* The second lock of a completion: the recommendation of the locked action.*)
LEMMA LockActionRecInv ==
  ASSUME Inv, NEW p \in Requests, LockActionRec(p)
  PROVE  Inv'
<1> DEFINE new == [req[p] EXCEPT !.at = "write"]
<1>1. req[p] \in Request /\ req[p].op \in ActOps /\ req[p].at = "rec"
  BY DEF LockActionRec, Inv, TypeOK
<1>2. /\ new \in Request /\ new.op = req[p].op /\ new.at = "write"
      /\ new.act = req[p].act /\ new.arg = req[p].arg /\ new.rec = req[p].rec
  BY <1>1 DEF Request
<1>3. UNCHANGED tables /\ req' = [req EXCEPT ![p] = new] /\ req'[p] = new
  BY DEF LockActionRec, Goto, Inv, TypeOK
<1> HIDE DEF new
<1>4. CheckedRec(p)' /\ CheckedAct(p)'
  <2>1. CheckedAct(p)
    BY DEF Inv
  <2> QED
    BY <1>1, <1>2, <1>3, <2>1 DEF CheckedRec, CheckedAct, At, tables, Changeable
<1>5. \A q \in Requests, r \in Recs : HoldsRec(p, r)' => ~HoldsRec(q, r)
  BY <1>2, <1>3 DEF LockActionRec, RecUnlocked, HoldsRec
<1>6. \A b \in ActIds : HoldsAct(p, b)' => HoldsAct(p, b)
  BY <1>1, <1>2, <1>3 DEF HoldsAct
<1>7. \A q \in Requests \ {p}, b \in ActIds : HoldsAct(q, b) => ~HoldsAct(p, b)'
  BY <1>6 DEF Inv, LocksExclusive
<1> QED
  BY <1>2, <1>3, <1>4, <1>5, <1>7, RequestStep

-----------------------------------------------------------------------------
(* The steps that change rows. *)

(* The rows a finished request held are free; nobody else's locks change.    *)
LEMMA FinishLocks ==
  ASSUME Inv, NEW p \in Requests, Finish(p)
  PROVE  /\ LocksExclusive' /\ req' \in [Requests -> Request] /\ req'[p] = Idle
         /\ \A q \in Requests \ {p} : req'[q] = req[q]
         /\ CheckedRec(p)' /\ CheckedAct(p)'
<1>1. Idle \in Request
  BY DEF Idle, Request
<1>2. /\ req' \in [Requests -> Request] /\ req'[p] = Idle
      /\ \A q \in Requests \ {p} : req'[q] = req[q]
  BY <1>1 DEF Finish, Inv, TypeOK
<1>3. CheckedRec(p)' /\ CheckedAct(p)'
  BY <1>2 DEF CheckedRec, CheckedAct, Idle, At
<1>4. \A q \in Requests, r \in Recs : HoldsRec(q, r)' => q # p /\ HoldsRec(q, r)
  BY <1>2 DEF HoldsRec, Idle
<1>5. \A q \in Requests, a \in ActIds : HoldsAct(q, a)' => q # p /\ HoldsAct(q, a)
  BY <1>2 DEF HoldsAct, Idle
<1>6. LocksExclusive'
  BY <1>4, <1>5 DEF LocksExclusive, Inv
<1> QED
  BY <1>2, <1>3, <1>6

(* A new recommendation has no approvals and no actions.                    *)
LEMMA CreateRecommendationInv ==
  ASSUME Inv, NEW r \in Recs, CreateRecommendation(r)
  PROVE  Inv'
<1>1. PICK s \in RecommendationStatus, c \in Payloads :
        /\ status[r] = "ABSENT"
        /\ status' = [status EXCEPT ![r] = s]
        /\ content' = [content EXCEPT ![r] = c]
        /\ UNCHANGED <<approvals, actions, results, req>>
  BY DEF CreateRecommendation
<1>2. /\ status' \in [Recs -> RecommendationStatus \cup {"ABSENT"}]
      /\ content' \in [Recs -> Payloads \cup {NoPayload}]
      /\ status'[r] = s /\ content'[r] = c
      /\ \A r1 \in Recs \ {r} : status'[r1] = status[r1] /\ content'[r1] = content[r1]
  BY <1>1 DEF Inv, TypeOK
<1>3. TypeOK'
  BY <1>1, <1>2 DEF Inv, TypeOK
<1>4. LocksExclusive'
  BY <1>1 DEF Inv, LocksExclusive, HoldsRec, HoldsAct
<1>5. ASSUME NEW q \in Requests
      PROVE  CheckedRec(q)' /\ CheckedAct(q)'
  <2>1. CheckedRec(q) /\ CheckedAct(q) /\ req[q] \in Request
    BY DEF Inv, TypeOK
  <2>2. CheckedRec(q)'
    BY <1>1, <1>2, <2>1 DEF CheckedRec, At, Updatable, Decidable, Request
  <2>3. CheckedAct(q)'
    BY <1>1, <2>1 DEF CheckedAct, Changeable
  <2> QED
    BY <2>2, <2>3
<1>6. \A x \in approvals : x.rec \in Recs \ {r}
  BY <1>1 DEF Inv, TypeOK, RowsConsistent, Approval
<1>7. /\ RowsConsistent' /\ SingleFinalDecision' /\ SignatureMatchesStatus'
      /\ SignedContentFrozen'
  BY <1>1, <1>2, <1>6 DEF Inv, RowsConsistent, SingleFinalDecision,
     SignatureMatchesStatus, SignedContentFrozen
<1>8. \A a \in ActIds : actions[a].rec \in Recs \cup {NoRec}
  BY DEF Inv, TypeOK, Action, NoAction
<1>9. LinkedActionApproved' /\ CompletedMeansExecuted'
  BY <1>1, <1>2, <1>8 DEF Inv, LinkedActionApproved, CompletedMeansExecuted
<1> QED
  BY <1>3, <1>4, <1>5, <1>7, <1>9 DEF Inv

(* Nobody but the holder of a row's lock has a check on the row to lose.     *)
LEMMA CommitUpdateRecommendationInv ==
  ASSUME Inv, NEW p \in Requests, CommitUpdateRecommendation(p)
  PROVE  Inv'
<1> DEFINE r == req[p].rec
           s == req[p].arg
           c == req[p].payload
<1>1. /\ At(p, "update_recommendation", "write")
      /\ status' = IF s = "keep" THEN status ELSE [status EXCEPT ![r] = s]
      /\ content' = IF c = NoPayload THEN content ELSE [content EXCEPT ![r] = c]
      /\ Finish(p) /\ UNCHANGED <<approvals, actions, results>>
  BY DEF CommitUpdateRecommendation
<1>2. /\ r \in Recs /\ s \in RecommendationStatus \cup {"keep"}
      /\ c \in Payloads \cup {NoPayload} /\ Updatable(r, s, c)
  BY <1>1 DEF Inv, TypeOK, CheckedRec, At, Request
<1>3. HoldsRec(p, r)
  BY <1>1 DEF HoldsRec, At
<1>4. /\ status' \in [Recs -> RecommendationStatus \cup {"ABSENT"}]
      /\ content' \in [Recs -> Payloads \cup {NoPayload}]
      /\ status'[r] = IF s = "keep" THEN status[r] ELSE s
      /\ content'[r] = IF c = NoPayload THEN content[r] ELSE c
      /\ \A r1 \in Recs \ {r} : status'[r1] = status[r1] /\ content'[r1] = content[r1]
  BY <1>1, <1>2 DEF Inv, TypeOK
<1>5. /\ status[r] # "ABSENT" /\ status'[r] # "ABSENT"
      /\ status[r] \in {"APPROVED", "EXECUTED"} => status'[r] = "EXECUTED"
      /\ status[r] # "REJECTED"
      /\ status[r] \in FinalStatus => content'[r] = content[r]
  BY <1>2, <1>4 DEF Updatable
<1>6. TypeOK' /\ LocksExclusive'
  BY <1>1, <1>4, FinishLocks DEF Inv, TypeOK
<1>7. ASSUME NEW q \in Requests
      PROVE  CheckedRec(q)' /\ CheckedAct(q)'
  <2>1. CASE q = p
    BY <1>1, <2>1, FinishLocks
  <2>2. CASE q # p
    <3>1. req'[q] = req[q] /\ CheckedRec(q) /\ CheckedAct(q) /\ req[q] \in Request
      BY <1>1, <2>2, FinishLocks DEF Inv, TypeOK
    <3>2. ~HoldsRec(q, r)
      BY <1>2, <1>3, <2>2 DEF Inv, LocksExclusive
    <3>3. CheckedRec(q)'
      BY <1>4, <1>5, <3>1, <3>2
         DEF CheckedRec, At, Updatable, Decidable, HoldsRec, Request
    <3>4. CheckedAct(q)'
      BY <1>1, <3>1 DEF CheckedAct, Changeable
    <3> QED
      BY <3>3, <3>4
  <2> QED
    BY <2>1, <2>2
<1>8. \A x \in approvals : x.rec \in Recs
  BY DEF Inv, TypeOK, Approval
<1>9. RowsConsistent'
  BY <1>1, <1>2, <1>4, <1>5, <1>8 DEF Inv, RowsConsistent
<1>10. SingleFinalDecision'
  BY <1>1 DEF Inv, SingleFinalDecision
<1>11. SignatureMatchesStatus'
  BY <1>1, <1>4, <1>5, <1>8 DEF Inv, SignatureMatchesStatus
<1>12. SignedContentFrozen'
  BY <1>1, <1>4, <1>5, <1>8
     DEF Inv, SignedContentFrozen, SignatureMatchesStatus, IsFinalRow
<1>13. \A a \in ActIds : actions[a].rec \in Recs \cup {NoRec}
  BY DEF Inv, TypeOK, Action, NoAction
<1>14. LinkedActionApproved' /\ CompletedMeansExecuted'
  BY <1>1, <1>4, <1>5, <1>13 DEF Inv, LinkedActionApproved, CompletedMeansExecuted
<1> QED
  BY <1>6, <1>7, <1>9, <1>10, <1>11, <1>12, <1>14 DEF Inv

(* The decision of a pending recommendation is its first final row.          *)
LEMMA RecordDecisionInv ==
  ASSUME Inv, NEW p \in Requests, NEW id, RecordDecision(p, id),
         req[p].op \in {"create_approval", "record_human_decision"},
         req[p].at = "write",
         content[req[p].rec] \in Payloads
           => id \in ApprovalIds \cup (Recs \X Payloads)
  PROVE  Inv'
<1> DEFINE r == req[p].rec
           d == req[p].arg
           row == [id |-> id, rec |-> r, decision |-> d,
                   signed |-> content[r]]
<1>1. /\ r \in Recs /\ d \in ApprovalDecision
      /\ status[r] = "PENDING" /\ content[r] \in Payloads
  BY DEF Inv, CheckedRec, At, Decidable, RowsConsistent
<1>2. HoldsRec(p, r)
  BY DEF HoldsRec
<1>3. Finish(p) /\ UNCHANGED <<content, actions, results>>
  BY DEF RecordDecision
<1>4. CASE \E x \in approvals : x.id = id
  BY <1>3, <1>4, FinishStep DEF RecordDecision, tables
<1>5. CASE ~ \E x \in approvals : x.id = id
  <2>1. approvals' = approvals \cup {row}
        /\ status' = [status EXCEPT ![r] = StatusAfter(d)]
    BY <1>5 DEF RecordDecision
  <2>2. StatusAfter(d) \in {"PENDING", "APPROVED", "REJECTED"}
        /\ (d = "APPROVE" => StatusAfter(d) = "APPROVED")
        /\ (d = "REJECT" => StatusAfter(d) = "REJECTED")
    BY <1>1 DEF StatusAfter
  <2>3. row \in Approval /\ row.rec = r /\ row.decision = d /\ row.signed = content[r]
    BY <1>1 DEF Approval
  <2>4. /\ status' \in [Recs -> RecommendationStatus \cup {"ABSENT"}]
        /\ status'[r] = StatusAfter(d)
        /\ \A r1 \in Recs \ {r} : status'[r1] = status[r1]
    BY <1>1, <2>1, <2>2 DEF Inv, TypeOK
  <2> HIDE DEF row
  <2>5. TypeOK' /\ LocksExclusive'
    BY <1>3, <2>1, <2>3, <2>4, FinishLocks DEF Inv, TypeOK
  <2>6. ASSUME NEW q \in Requests
        PROVE  CheckedRec(q)' /\ CheckedAct(q)'
    <3>1. CASE q = p
      BY <1>3, <3>1, FinishLocks
    <3>2. CASE q # p
      <4>1. req'[q] = req[q] /\ CheckedRec(q) /\ CheckedAct(q) /\ req[q] \in Request
        BY <1>3, <3>2, FinishLocks DEF Inv, TypeOK
      <4>2. ~HoldsRec(q, r)
        BY <1>1, <1>2, <3>2 DEF Inv, LocksExclusive
      <4>3. CheckedRec(q)'
        BY <1>1, <1>3, <2>2, <2>4, <4>1, <4>2
           DEF CheckedRec, At, Updatable, Decidable, HoldsRec, Request
      <4>4. CheckedAct(q)'
        BY <1>3, <4>1 DEF CheckedAct, Changeable
      <4> QED
        BY <4>3, <4>4
    <3> QED
      BY <3>1, <3>2
  <2>7. \A x \in approvals : x.rec \in Recs /\ (x.rec = r => ~IsFinalRow(x))
    BY <1>1 DEF Inv, TypeOK, Approval, SignatureMatchesStatus, IsFinalRow
  <2>8. RowsConsistent'
    BY <1>1, <1>3, <2>1, <2>2, <2>3, <2>4, <2>7 DEF Inv, RowsConsistent
  <2>9. SingleFinalDecision'
    BY <2>1, <2>3, <2>7 DEF Inv, SingleFinalDecision
  <2>10. SignatureMatchesStatus'
    BY <2>1, <2>2, <2>3, <2>4, <2>7 DEF Inv, SignatureMatchesStatus, IsFinalRow
  <2>11. SignedContentFrozen'
    BY <1>3, <2>1, <2>3, <2>7 DEF Inv, SignedContentFrozen
  <2>12. \A a \in ActIds : actions[a].rec \in Recs \cup {NoRec}
    BY DEF Inv, TypeOK, Action, NoAction
  <2>13. LinkedActionApproved' /\ CompletedMeansExecuted'
    BY <1>1, <1>3, <2>4, <2>12
       DEF Inv, LinkedActionApproved, CompletedMeansExecuted
  <2> QED
    BY <2>5, <2>6, <2>8, <2>9, <2>10, <2>11, <2>13 DEF Inv
<1> QED
  BY <1>4, <1>5

(* The two endpoints that sign off write the same tables.                   *)
LEMMA CommitSignOffInv ==
  ASSUME Inv, NEW p \in Requests, CommitCreateApproval(p) \/ CommitHumanDecision(p)
  PROVE  Inv'
<1>1. CASE CommitCreateApproval(p)
  BY <1>1, RecordDecisionInv DEF CommitCreateApproval, At
<1>2. CASE CommitHumanDecision(p)
  <2>1. req[p].op = "record_human_decision" /\ req[p].at = "write"
        /\ RecordDecision(p, DeterministicId(req[p].rec, content[req[p].rec]))
    BY <1>2 DEF CommitHumanDecision, At
  <2>2. req[p].rec \in Recs
    BY <2>1 DEF Inv, CheckedRec
  <2>3. content[req[p].rec] \in Payloads
          => DeterministicId(req[p].rec, content[req[p].rec]) \in Recs \X Payloads
    BY <2>2 DEF DeterministicId
  <2> QED
    BY <2>1, <2>3, RecordDecisionInv
<1> QED
  BY <1>1, <1>2

(* create_action inserts without a lock: APPROVED is only left for EXECUTED.*)
LEMMA InsertActionInv ==
  ASSUME Inv, NEW p \in Requests, InsertAction(p)
  PROVE  Inv'
<1> DEFINE r == req[p].rec
           row == [rec |-> r, status |-> "EXECUTING", result |-> NoPayload]
<1>1. PICK a \in ActIds : ~Exists(a) /\ actions' = [actions EXCEPT ![a] = row]
  BY DEF InsertAction
<1>2. /\ Finish(p) /\ UNCHANGED <<status, content, approvals, results>>
      /\ req[p].op = "create_action"
  BY DEF InsertAction, At
<1>3. /\ r \in Recs \cup {NoRec} /\ actions[a].status = "ABSENT"
      /\ r # NoRec => status[r] \in {"APPROVED", "EXECUTED"}
  BY <1>1, <1>2 DEF Inv, TypeOK, CheckedRec, Request, Exists
<1>4. row \in Action /\ row.rec = r /\ row.status = "EXECUTING"
  BY <1>3 DEF Action
<1> HIDE DEF row
<1>5. /\ actions' \in [ActIds -> Action \cup {NoAction}] /\ actions'[a] = row
      /\ \A b \in ActIds \ {a} : actions'[b] = actions[b]
  BY <1>1, <1>4 DEF Inv, TypeOK
<1>6. TypeOK' /\ LocksExclusive'
  BY <1>2, <1>5, FinishLocks DEF Inv, TypeOK
<1>7. ASSUME NEW q \in Requests
      PROVE  CheckedRec(q)' /\ CheckedAct(q)'
  <2>1. CASE q = p
    BY <1>2, <2>1, FinishLocks
  <2>2. CASE q # p
    <3>1. req'[q] = req[q] /\ CheckedRec(q) /\ CheckedAct(q)
      BY <1>2, <2>2, FinishLocks DEF Inv
    <3>2. CheckedRec(q)'
      BY <1>2, <3>1 DEF CheckedRec, At, Updatable, Decidable
    <3>3. req[q].op \in ActOps /\ req[q].at # "read" => req[q].act # a
      BY <1>3, <3>1 DEF CheckedAct, Changeable
    <3>4. CheckedAct(q)'
      BY <1>5, <3>1, <3>3 DEF CheckedAct, Changeable
    <3> QED
      BY <3>2, <3>4
  <2> QED
    BY <2>1, <2>2
<1>8. /\ RowsConsistent' /\ SingleFinalDecision' /\ SignatureMatchesStatus'
      /\ SignedContentFrozen'
  BY <1>2 DEF Inv, RowsConsistent, SingleFinalDecision, SignatureMatchesStatus,
     SignedContentFrozen
<1>9. LinkedActionApproved' /\ CompletedMeansExecuted'
  BY <1>2, <1>3, <1>4, <1>5 DEF Inv, LinkedActionApproved, CompletedMeansExecuted
<1> QED
  BY <1>6, <1>7, <1>8, <1>9 DEF Inv

(* The commit of an action's change, together with its recommendation's when*)
(* it completes.                                                            *)
LEMMA CommitActionInv ==
  ASSUME Inv, NEW p \in Requests, CommitAction(p)
  PROVE  Inv'
<1> DEFINE a == req[p].act
           r == req[p].rec
           s == req[p].arg
           c == req[p].payload
<1>1. /\ req[p].op \in ActOps /\ req[p].at = "write"
      /\ actions' = [actions EXCEPT
           ![a].status = IF s = "keep" THEN @ ELSE s,
           ![a].result = IF c = NoPayload THEN @ ELSE c]
      /\ status' = IF r = NoRec THEN status ELSE [status EXCEPT ![r] = "EXECUTED"]
      /\ Finish(p) /\ UNCHANGED <<content, approvals, results>>
  BY DEF CommitAction
<1>2. /\ a \in ActIds /\ s \in ActionStatus \cup {"keep"} /\ Changeable(a, s)
      /\ r = IF s = "COMPLETED" THEN actions[a].rec ELSE NoRec
      /\ c \in Payloads \cup {NoPayload} /\ r \in Recs \cup {NoRec}
  BY <1>1 DEF Inv, TypeOK, CheckedAct, Request
<1>3. actions[a] \in Action /\ actions[a].status \in {"PENDING", "EXECUTING"}
  BY <1>2 DEF Inv, TypeOK, Changeable, NoAction
<1>4. /\ actions' \in [ActIds -> Action \cup {NoAction}]
      /\ actions'[a].status = IF s = "keep" THEN actions[a].status ELSE s
      /\ actions'[a].rec = actions[a].rec
      /\ \A b \in ActIds \ {a} : actions'[b] = actions[b]
  BY <1>1, <1>2, <1>3 DEF Inv, TypeOK, Action
<1>5. HoldsAct(p, a) /\ (r # NoRec => HoldsRec(p, r))
  BY <1>1 DEF HoldsAct, HoldsRec
<1>6. r # NoRec => r \in Recs /\ status[r] \in {"APPROVED", "EXECUTED"}
                  /\ actions[a].rec = r
  BY <1>2 DEF Inv, LinkedActionApproved
<1>7. /\ status' \in [Recs -> RecommendationStatus \cup {"ABSENT"}]
      /\ r # NoRec => status'[r] = "EXECUTED"
      /\ \A r1 \in Recs \ {r} : status'[r1] = status[r1]
  BY <1>1, <1>6, ConstantsAssumption DEF Inv, TypeOK
<1>8. TypeOK' /\ LocksExclusive'
  BY <1>1, <1>4, <1>7, FinishLocks DEF Inv, TypeOK
<1>9. ASSUME NEW q \in Requests
      PROVE  CheckedRec(q)' /\ CheckedAct(q)'
  <2>1. CASE q = p
    BY <1>1, <2>1, FinishLocks
  <2>2. CASE q # p
    <3>1. req'[q] = req[q] /\ CheckedRec(q) /\ CheckedAct(q) /\ req[q] \in Request
      BY <1>1, <2>2, FinishLocks DEF Inv, TypeOK
    <3>2. ~HoldsAct(q, a) /\ (r # NoRec => ~HoldsRec(q, r))
      BY <1>2, <1>5, <1>6, <2>2 DEF Inv, LocksExclusive
    <3>3. CheckedRec(q)'
      BY <1>1, <1>6, <1>7, <3>1, <3>2
         DEF CheckedRec, At, Updatable, Decidable, HoldsRec, Request
    <3>4. CheckedAct(q)'
      BY <1>4, <3>1, <3>2 DEF CheckedAct, Changeable, HoldsAct, Request
    <3> QED
      BY <3>3, <3>4
  <2> QED
    BY <2>1, <2>2
<1>10. \A x \in approvals : x.rec \in Recs
  BY DEF Inv, TypeOK, Approval
<1>11. RowsConsistent' /\ SingleFinalDecision' /\ SignedContentFrozen'
  BY <1>1, <1>6, <1>7, <1>10
     DEF Inv, RowsConsistent, SingleFinalDecision, SignedContentFrozen
<1>12. SignatureMatchesStatus'
  BY <1>1, <1>6, <1>7, <1>10 DEF Inv, SignatureMatchesStatus
<1>13. \A b \in ActIds : actions[b].rec \in Recs \cup {NoRec}
  BY DEF Inv, TypeOK, Action, NoAction
<1>14. LinkedActionApproved'
  BY <1>2, <1>4, <1>6, <1>7, <1>13 DEF Inv, LinkedActionApproved
<1>15. ASSUME NEW b \in ActIds, actions'[b].status = "COMPLETED",
              actions'[b].rec # NoRec
       PROVE  status'[actions'[b].rec] = "EXECUTED"
  <2>1. CASE b = a
    BY <1>2, <1>3, <1>4, <1>6, <1>7, <1>15, <2>1
  <2>2. CASE b # a
    BY <1>4, <1>7, <1>13, <1>15, <2>2 DEF Inv, CompletedMeansExecuted
  <2> QED
    BY <2>1, <2>2
<1>16. CompletedMeansExecuted'
  BY <1>15 DEF CompletedMeansExecuted
<1> QED
  BY <1>8, <1>9, <1>11, <1>12, <1>14, <1>16 DEF Inv

(* A verification result touches no table that Inv speaks of but its own.   *)
LEMMA InsertResultInv ==
  ASSUME Inv, NEW p \in Requests, InsertResult(p)
  PROVE  Inv'
<1> DEFINE a == req[p].act
<1>1. /\ a \in ActIds /\ results[a] < MaxResults
      /\ results' = [results EXCEPT ![a] = @ + 1] /\ Finish(p)
      /\ UNCHANGED <<status, content, approvals, actions>>
  BY DEF InsertResult, At, Inv, CheckedAct
<1>2. results' \in [ActIds -> 0..MaxResults]
  BY <1>1, ConstantsAssumption DEF Inv, TypeOK
<1>3. TypeOK' /\ LocksExclusive'
  BY <1>1, <1>2, FinishLocks DEF Inv, TypeOK
<1>4. ASSUME NEW q \in Requests
      PROVE  CheckedRec(q)' /\ CheckedAct(q)'
  <2>1. CASE q = p
    BY <1>1, <2>1, FinishLocks
  <2>2. CASE q # p
    <3>1. req'[q] = req[q] /\ CheckedRec(q) /\ CheckedAct(q)
      BY <1>1, <2>2, FinishLocks DEF Inv
    <3> QED
      BY <1>1, <3>1 DEF CheckedRec, CheckedAct, At, Updatable, Decidable, Changeable
  <2> QED
    BY <2>1, <2>2
<1>5. /\ RowsConsistent' /\ SingleFinalDecision' /\ SignatureMatchesStatus'
      /\ SignedContentFrozen' /\ LinkedActionApproved' /\ CompletedMeansExecuted'
  BY <1>1 DEF Inv, RowsConsistent, SingleFinalDecision, SignatureMatchesStatus,
     SignedContentFrozen, LinkedActionApproved, CompletedMeansExecuted
<1> QED
  BY <1>3, <1>4, <1>5 DEF Inv

(* Inv is inductive: one case per handler.                                  *)
LEMMA NextInv == Inv /\ [Next]_vars => Inv'
<1> SUFFICES ASSUME Inv, [Next]_vars PROVE Inv'
  OBVIOUS
<1>1. ASSUME NEW r \in Recs, CreateRecommendation(r) PROVE Inv'
  BY <1>1, CreateRecommendationInv
<1>2. ASSUME NEW p \in Requests, Arrive(p) PROVE Inv'
  BY <1>2, BeginInv
<1>3. ASSUME NEW p \in Requests, Step(p) PROVE Inv'
  BY <1>3, LockUpdateRecommendationInv, CommitUpdateRecommendationInv,
     LockSignOffInv, CommitSignOffInv, InsertActionInv, LockActionInv,
     LockActionRecInv, CommitActionInv, InsertResultInv DEF Step
<1>4. ASSUME NEW p \in Requests, RollBack(p) PROVE Inv'
  BY <1>4, FinishStep DEF RollBack
<1>5. CASE UNCHANGED vars
  <2>1. UNCHANGED tables /\ UNCHANGED req
    BY <1>5 DEF vars, tables
  <2>2. TypeOK' /\ LocksExclusive' /\ RowsConsistent'
    BY <2>1 DEF Inv, TypeOK, LocksExclusive, RowsConsistent, HoldsRec, HoldsAct, tables
  <2>3. \A q \in Requests : CheckedRec(q)' /\ CheckedAct(q)'
    BY <2>1 DEF Inv, tables, CheckedRec, CheckedAct, At, Updatable, Decidable,
                Changeable
  <2>4. /\ SingleFinalDecision' /\ SignatureMatchesStatus'
        /\ SignedContentFrozen' /\ LinkedActionApproved' /\ CompletedMeansExecuted'
    BY <2>1 DEF Inv, tables, SingleFinalDecision, SignatureMatchesStatus,
       SignedContentFrozen, LinkedActionApproved, CompletedMeansExecuted
  <2> QED
    BY <2>2, <2>3, <2>4 DEF Inv
<1> QED
  BY <1>1, <1>2, <1>3, <1>4, <1>5 DEF Next

-----------------------------------------------------------------------------
(* The invariant the handlers and row locks of governance_services.py and    *)
(* approval/persistence.py maintain holds in every interleaving.             *)
THEOREM Invariance == Spec => []Inv
  BY InitInv, NextInv, PTL DEF Spec

(* The rows are always well-formed.                                          *)
THEOREM TypeCorrect == Spec => []TypeOK
<1>1. Inv => TypeOK
  BY DEF Inv
<1> QED
  BY <1>1, Invariance, PTL

(* At most one human decision settles a recommendation, through whichever    *)
(* of the two endpoints it is posted.                                        *)
THEOREM OneDecision == Spec => []SingleFinalDecision
<1>1. Inv => SingleFinalDecision
  BY DEF Inv
<1> QED
  BY <1>1, Invariance, PTL

(* The status of a recommendation is the one its final decision gave it, or  *)
(* what comes after it.                                                      *)
THEOREM SignatureKept == Spec => []SignatureMatchesStatus
<1>1. Inv => SignatureMatchesStatus
  BY DEF Inv
<1> QED
  BY <1>1, Invariance, PTL

(* No request that read a proposal before it was signed changes its content  *)
(* afterwards.                                                               *)
THEOREM ContentKept == Spec => []SignedContentFrozen
<1>1. Inv => SignedContentFrozen
  BY DEF Inv
<1> QED
  BY <1>1, Invariance, PTL

(* The unlocked check of create_action is harmless: every linked action's    *)
(* recommendation is approved or executed.                                   *)
THEOREM ActionsApproved == Spec => []LinkedActionApproved
<1>1. Inv => LinkedActionApproved
  BY DEF Inv
<1> QED
  BY <1>1, Invariance, PTL

(* Completing an action and executing its recommendation stand or fall       *)
(* together.                                                                 *)
THEOREM CompletionKept == Spec => []CompletedMeansExecuted
<1>1. Inv => CompletedMeansExecuted
  BY DEF Inv
<1> QED
  BY <1>1, Invariance, PTL

(* A finalized action is frozen: only the holder of its row lock changes it, *)
(* and the holder found it unfinalized.                                      *)
THEOREM ActionFinality == Spec => FinalizedActionFrozen
<1>1. ASSUME Inv, [Next]_vars, NEW a \in ActIds,
             actions[a].status \in {"COMPLETED", "FAILED"}
      PROVE  actions'[a] = actions[a]
  <2>1. ASSUME NEW p \in Requests, InsertAction(p) PROVE actions'[a] = actions[a]
    BY <1>1, <2>1 DEF InsertAction, Exists, Inv, TypeOK
  <2>2. ASSUME NEW p \in Requests, CommitAction(p) PROVE actions'[a] = actions[a]
    <3>1. Changeable(req[p].act, req[p].arg)
      BY <1>1, <2>2 DEF CommitAction, Inv, CheckedAct
    <3>2. a # req[p].act
      BY <1>1, <3>1 DEF Changeable
    <3> QED
      BY <1>1, <2>2, <3>2 DEF CommitAction, Inv, TypeOK
  <2>3. ASSUME NEW p \in Requests,
               \/ LockUpdateRecommendation(p) \/ CommitUpdateRecommendation(p)
               \/ LockSignOff(p) \/ CommitCreateApproval(p) \/ CommitHumanDecision(p)
               \/ LockAction(p) \/ LockActionRec(p) \/ InsertResult(p)
               \/ Arrive(p) \/ RollBack(p)
        PROVE  UNCHANGED actions
    BY <2>3 DEF LockUpdateRecommendation, CommitUpdateRecommendation, LockSignOff,
       CommitCreateApproval, CommitHumanDecision, RecordDecision, LockAction,
       LockActionRec, InsertResult, Arrive, RollBack, SelectRecForUpdate, tables,
       BeginUpdateRecommendation, BeginSignOff, BeginCreateAction,
       BeginChangeAction, BeginCreateResult, Begin
  <2> QED
    BY <1>1, <2>1, <2>2, <2>3 DEF Next, Step, CreateRecommendation, vars
<1>2. Inv /\ [Next]_vars =>
        [\A a \in ActIds : actions[a].status \in {"COMPLETED", "FAILED"}
            => actions'[a] = actions[a]]_vars
  BY <1>1
<1> QED
  BY <1>2, Invariance, PTL DEF Spec, FinalizedActionFrozen

-----------------------------------------------------------------------------
(* The governance tables implement SignOff. *)

(* An undecided recommendation has no final approvals row.                  *)
LEMMA DecisionTyped ==
  ASSUME Inv, NEW r \in Recs, status[r] \in {"ABSENT", "PENDING"}
  PROVE  FinalRowsOf(r) = {} /\ DecisionOf(r) = "NONE"
  BY DEF Inv, FinalRowsOf, DecisionOf, IsFinalRow, SignatureMatchesStatus

(* The abstract decision is a function of the final approvals rows.         *)
LEMMA SameDecisions ==
  ASSUME NEW r \in Recs, FinalRowsOf(r)' = FinalRowsOf(r)
  PROVE  DecisionOf(r)' = DecisionOf(r)
  BY DEF DecisionOf

(* The governance tables implement SignOff: every step proposes, signs,     *)
(* overrides or carries out one recommendation, or stutters.                *)
THEOREM Refinement == Spec => RefinesSignOff
<1> DEFINE dec == [r \in Recs |-> DecisionOf(r)]
<1>1. Init => SO!Init
  BY DEF Init, SO!Init, DecisionOf, FinalRowsOf
<1>2. Inv /\ [Next]_vars => [SO!Next]_<<status, dec>>
  <2> SUFFICES ASSUME Inv, [Next]_vars, status' # status \/ dec' # dec
               PROVE  \E r \in Recs : SO!Propose(r) \/ SO!Sign(r)
                                        \/ SO!Override(r) \/ SO!CarryOut(r)
    BY DEF SO!Next
  <2> USE DEF SO!Propose, SO!Sign, SO!Override, SO!CarryOut
  <2>1. UNCHANGED approvals => dec' = dec
    BY DEF DecisionOf, FinalRowsOf, IsFinalRow
  <2>2. ASSUME NEW r \in Recs, CreateRecommendation(r)
        PROVE  SO!Propose(r)
    BY <2>1, <2>2 DEF CreateRecommendation, SO!Statuses
  <2>3. ASSUME NEW p \in Requests, CommitUpdateRecommendation(p)
        PROVE  SO!Override(req[p].rec) \/ SO!CarryOut(req[p].rec)
    <3>1. /\ req[p].rec \in Recs /\ Updatable(req[p].rec, req[p].arg, req[p].payload)
          /\ req[p].arg \in RecommendationStatus \cup {"keep"}
      BY <2>3 DEF CommitUpdateRecommendation, Inv, CheckedRec, At
    <3>2. dec' = dec /\ status' # status
      BY <2>1, <2>3 DEF CommitUpdateRecommendation
    <3>3. status' = [status EXCEPT ![req[p].rec] = req[p].arg]
          /\ req[p].arg # status[req[p].rec] /\ req[p].arg \in RecommendationStatus
      BY <2>3, <3>1, <3>2 DEF CommitUpdateRecommendation, Inv, TypeOK
    <3>4. status[req[p].rec] \in RecommendationStatus
      BY <3>1 DEF Updatable, Inv, TypeOK
    <3> QED
      BY <3>1, <3>2, <3>3, <3>4 DEF Updatable, SO!FinalStatuses
  <2>4. ASSUME NEW p \in Requests, NEW id, RecordDecision(p, id),
               At(p, "create_approval", "write")
                 \/ At(p, "record_human_decision", "write")
        PROVE  SO!Sign(req[p].rec)
    <3>0. PICK r \in Recs, d \in ApprovalDecision :
            req[p].rec = r /\ req[p].arg = d /\ status[r] = "PENDING"
      BY <2>4 DEF Inv, CheckedRec, At, Decidable
    <3> DEFINE row == [id |-> id, rec |-> r, decision |-> d,
                       signed |-> content[r]]
    <3>1. r \in Recs /\ d \in ApprovalDecision /\ status[r] = "PENDING"
      BY <3>0
    <3>2. approvals' = approvals \cup {row}
          /\ status' = [status EXCEPT ![r] = StatusAfter(d)]
      BY <2>1, <2>4, <3>0 DEF RecordDecision
    <3>3. row.rec = r /\ row.decision = d
      OBVIOUS
    <3> HIDE DEF row
    <3>4. \A q \in Recs \ {r} : DecisionOf(q)' = DecisionOf(q)
      <4> SUFFICES ASSUME NEW q \in Recs \ {r} PROVE DecisionOf(q)' = DecisionOf(q)
        OBVIOUS
      <4>1. FinalRowsOf(q)' = FinalRowsOf(q)
        BY <3>2, <3>3 DEF FinalRowsOf, IsFinalRow
      <4> QED
        BY <4>1, SameDecisions
    <3>5. FinalRowsOf(r) = {} /\ DecisionOf(r) = "NONE"
      BY <3>1, DecisionTyped
    <3>6. d \in FinalDecision
      <4> SUFFICES ASSUME d = "REQUEST_MODIFICATION" PROVE FALSE
        BY <3>1
      <4>1. status' = status
        BY <3>1, <3>2 DEF StatusAfter, Inv, TypeOK
      <4>2. FinalRowsOf(r)' = FinalRowsOf(r)
        BY <3>2, <3>3 DEF FinalRowsOf, IsFinalRow
      <4>3. dec' = dec
        BY <3>4, <4>2, SameDecisions
      <4> QED
        BY <4>1, <4>3
    <3>7. FinalRowsOf(r)' = {row}
      BY <3>2, <3>3, <3>5, <3>6 DEF FinalRowsOf, IsFinalRow
    <3>8. DecisionOf(r)' = d
      BY <3>3, <3>7 DEF DecisionOf
    <3>9. dec' = [dec EXCEPT ![r] = d]
      BY <3>4, <3>8
    <3>10. status' = [status EXCEPT ![r] = SO!StatusAfter(d)]
      <4>1. StatusAfter(d) = SO!StatusAfter(d)
        BY <3>6 DEF FinalDecision, StatusAfter, SO!StatusAfter
      <4> QED
        BY <3>2, <4>1
    <3> QED
      BY <3>0, <3>1, <3>5, <3>6, <3>9, <3>10
  <2>5. ASSUME NEW p \in Requests, CommitAction(p)
        PROVE  SO!CarryOut(req[p].rec) /\ req[p].rec \in Recs
    <3> DEFINE r == req[p].rec
    <3>1. dec' = dec /\ status' # status
      BY <2>1, <2>5 DEF CommitAction
    <3>2. r # NoRec /\ status' = [status EXCEPT ![r] = "EXECUTED"]
      BY <2>5, <3>1 DEF CommitAction
    <3>3. /\ req[p].act \in ActIds /\ r = actions[req[p].act].rec
          /\ r \in Recs \cup {NoRec}
      BY <2>5, <3>2 DEF CommitAction, Inv, TypeOK, CheckedAct, Request
    <3>4. r \in Recs /\ status[r] \in {"APPROVED", "EXECUTED"}
      BY <3>2, <3>3 DEF Inv, LinkedActionApproved
    <3>5. status[r] # "EXECUTED"
      BY <3>1, <3>2, <3>4 DEF Inv, TypeOK
    <3> QED
      BY <3>1, <3>2, <3>4, <3>5
  <2>6. ASSUME NEW p \in Requests,
               \/ LockUpdateRecommendation(p) \/ LockSignOff(p) \/ InsertAction(p)
               \/ LockAction(p) \/ LockActionRec(p) \/ InsertResult(p)
               \/ Arrive(p) \/ RollBack(p)
        PROVE  FALSE
    <3>1. UNCHANGED <<status, approvals>>
      BY <2>6 DEF LockUpdateRecommendation, LockSignOff, InsertAction, LockAction,
         LockActionRec, InsertResult, Arrive, RollBack, SelectRecForUpdate, tables,
         BeginUpdateRecommendation, BeginSignOff, BeginCreateAction,
         BeginChangeAction, BeginCreateResult, Begin
    <3> QED
      BY <2>1, <3>1
  <2>7. CASE UNCHANGED vars
    BY <2>1, <2>7 DEF vars
  <2>8. ASSUME NEW p \in Requests, CommitUpdateRecommendation(p)
        PROVE  req[p].rec \in Recs
    BY <2>8 DEF CommitUpdateRecommendation, Inv, CheckedRec, At
  <2>9. ASSUME NEW p \in Requests, CommitCreateApproval(p) \/ CommitHumanDecision(p)
        PROVE  SO!Sign(req[p].rec) /\ req[p].rec \in Recs
    <3>1. req[p].rec \in Recs
      BY <2>9 DEF CommitCreateApproval, CommitHumanDecision, Inv, CheckedRec, At
    <3> QED
      BY <2>4, <2>9, <3>1 DEF CommitCreateApproval, CommitHumanDecision
  <2> HIDE DEF SO!Propose, SO!Sign, SO!Override, SO!CarryOut
  <2> QED
    BY <2>2, <2>3, <2>5, <2>6, <2>7, <2>8, <2>9 DEF Next, Step
<1> QED
  BY <1>1, <1>2, Invariance, PTL DEF Spec, RefinesSignOff, SO!Spec, SO!vars
=============================================================================

------------------------------- MODULE SignOff -------------------------------
(***************************************************************************)
(* What the governance tables promise about a recommendation, whatever     *)
(* requests run concurrently: it is proposed once, it may be revised while *)
(* it is not final, at most one human decision settles it, and a settled   *)
(* recommendation only ever moves from APPROVED to EXECUTED.               *)
(***************************************************************************)
CONSTANT Recs      \* recommendation ids

VARIABLES
  status,          \* [Recs -> Statuses]
  decision         \* [Recs -> the decision that settled it, or "NONE"]

vars == <<status, decision>>

Statuses == {"ABSENT", "PENDING", "APPROVED", "REJECTED", "EXECUTED"}
FinalStatuses == {"APPROVED", "REJECTED", "EXECUTED"}
Decisions == {"NONE", "APPROVE", "REJECT"}
StatusAfter(d) == IF d = "APPROVE" THEN "APPROVED" ELSE "REJECTED"

Init == /\ status = [r \in Recs |-> "ABSENT"]
        /\ decision = [r \in Recs |-> "NONE"]

(* A proposal appears, in any status its author gives it.                  *)
Propose(r) ==
  /\ status[r] = "ABSENT"
  /\ \E s \in Statuses \ {"ABSENT"} : status' = [status EXCEPT ![r] = s]
  /\ UNCHANGED decision

(* A signatory settles a pending proposal.                                 *)
Sign(r) ==
  /\ status[r] = "PENDING"
  /\ decision[r] = "NONE"
  /\ \E d \in {"APPROVE", "REJECT"} :
        /\ status' = [status EXCEPT ![r] = StatusAfter(d)]
        /\ decision' = [decision EXCEPT ![r] = d]

(* An editor moves a pending proposal on without a signature.              *)
Override(r) ==
  /\ status[r] = "PENDING"
  /\ \E s \in FinalStatuses : status' = [status EXCEPT ![r] = s]
  /\ UNCHANGED decision

(* An approved proposal is carried out.                                    *)
CarryOut(r) ==
  /\ status[r] = "APPROVED"
  /\ status' = [status EXCEPT ![r] = "EXECUTED"]
  /\ UNCHANGED decision

Next == \E r \in Recs : Propose(r) \/ Sign(r) \/ Override(r) \/ CarryOut(r)

Spec == Init /\ [][Next]_vars
=============================================================================

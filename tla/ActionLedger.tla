----------------------------- MODULE ActionLedger -----------------------------
(***************************************************************************)
(* What POST /actions/execute promises, whatever calls run next to each    *)
(* other, fail or are repeated.  Actions are carried out one at a time and *)
(* never taken back; an id is carried out once; the shipment moves in the  *)
(* same step as the entry that explains it, or for a repeated request of   *)
(* an entry, or for its owner.  A request is accepted for an approved      *)
(* decision: the approval may be gone when it is carried out.              *)
(***************************************************************************)
EXTENDS Naturals, Sequences

CONSTANTS
  Callers,       \* whoever may have a request open
  Decisions,     \* what is approved, and carried out
  Entries,       \* actions: records with an id, a key, a decision and a route
  Routes,        \* routes the owner may plan
  Unmoved        \* the route before anything happens

VARIABLES
  approved,      \* the decisions that may be requested now
  ledger,        \* the actions carried out, oldest first
  route,         \* where the shipment goes
  request        \* the open request of each caller

vars == <<approved, ledger, route, request>>

None == [kind |-> "none"]
Action(e) == [kind |-> "action", entry |-> e]
Plan(r) == [kind |-> "plan", route |-> r]

Open(p, r) == request' = [request EXCEPT ![p] = r]
Close(p) == Open(p, None)

Init ==
  /\ approved = {}
  /\ ledger = <<>>
  /\ route = Unmoved
  /\ request = [p \in Callers |-> None]

(* People approve a decision, or take the approval back.                   *)
Review(d) ==
  /\ approved' \in {approved \cup {d}, approved \ {d}}
  /\ UNCHANGED <<ledger, route, request>>

Accept(p) ==
  /\ request[p] = None
  /\ \/ \E e \in Entries : e.decision \in approved /\ Open(p, Action(e))
     \/ \E r \in Routes : Open(p, Plan(r))
  /\ UNCHANGED <<approved, ledger, route>>

(* A request ends without any effect.                                      *)
Withdraw(p) ==
  /\ request[p] # None
  /\ Close(p)
  /\ UNCHANGED <<approved, ledger, route>>

(* A new action is carried out; its decision may need a new approval now.  *)
CarryOut(p) ==
  \E e \in Entries :
    /\ request[p] = Action(e)
    /\ \A i \in DOMAIN ledger : ledger[i].id # e.id
    /\ ledger' = Append(ledger, e)
    /\ route' = e.route
    /\ approved' \in {approved, approved \ {e.decision}}
    /\ Close(p)

(* A repetition of an action on record sends the shipment there again.     *)
Repeat(p) ==
  \E e \in Entries, i \in DOMAIN ledger :
    /\ request[p] = Action(e)
    /\ ledger[i].id = e.id \/ ledger[i].key = e.key
    /\ ledger[i].decision = e.decision /\ ledger[i].route = e.route
    /\ route' = e.route
    /\ Close(p)
    /\ UNCHANGED <<approved, ledger>>

(* The owner's plan takes effect.                                          *)
Follow(p) ==
  \E r \in Routes :
    /\ request[p] = Plan(r)
    /\ route' = r
    /\ Close(p)
    /\ UNCHANGED <<approved, ledger>>

Next ==
  \/ \E d \in Decisions : Review(d)
  \/ \E p \in Callers : \/ Accept(p) \/ Withdraw(p) \/ CarryOut(p)
                        \/ Repeat(p) \/ Follow(p)

Spec == Init /\ [][Next]_vars
=============================================================================

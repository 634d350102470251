----------------------------- MODULE Verification -----------------------------
(* The outcome of one executed action and the verdicts about it: evidence is *)
(* collected from the target's row and from shipment_events, judged by the   *)
(* verifier of the action's type, and stored as the action's one row of      *)
(* verification_results (api/app/agents/verification).                       *)
(*                                                                           *)
(* A verifier reads the target, then the events, then the stored row, and    *)
(* writes: four statements of a READ COMMITTED transaction, between which    *)
(* the world moves on and another verifier of the same action may run.       *)
(* Every command carries the action's own parameters, its approval and the   *)
(* same window, and leaves the id of the verdict to be derived.              *)
EXTENDS Naturals, FiniteSets

CONSTANTS
  Verifiers,    \* requests that verify the action
  Types,        \* the action types considered
  Provenances,  \* data_provenance of a shipment, any string
  Reports,      \* what a shipment event may say: [says, src, value, ref]; src is any string
  Histories,    \* how many events of the shipment precede the action
  MaxItems,     \* MAX_EVIDENCE_ITEMS
  Window,       \* the observation window has the instants 1..Window
  MaxReports    \* bound on the events recorded

NoRef == "no ref"
NoReport == [says |-> "nothing", src |-> "none", value |-> "none", ref |-> NoRef]

(* "wanted" is what the action was to bring about; for a hold it is HELD,    *)
(* and "on hold" is the ON_HOLD that the executor writes.  A facility that   *)
(* is OPERATIONAL, ACTIVE or REALLOCATED has the value "wanted".             *)
Values == {"none", "wanted", "on hold", "other"}
Sources == {"REAL", "ESTIMATED", "SIMULATED"}
ActionTypes == {"SHIPMENT_REROUTE", "CARRIER_REALLOCATION", "FACILITY_REALLOCATION",
                "EXPEDITE_SHIPMENT", "HOLD_SHIPMENT", "MONITOR"}

ASSUME VerificationAssumption ==
  /\ Types \subseteq ActionTypes /\ Provenances \subseteq STRING
  /\ Reports \subseteq [says : {"confirmed", "refused", "nothing"}, src : STRING,
                        value : Values, ref : STRING]
  /\ \A a, b \in Reports : a.ref # NoRef /\ a.ref = b.ref => a = b
  /\ Histories \subseteq Nat /\ MaxItems \in Nat \ {0} /\ Window \in Nat \ {0}
  /\ MaxReports \in Nat

VARIABLES
  action,    \* the action: its type, whether it has a target row, the events before it
  executed,  \* its status is neither PENDING nor DRAFT
  target,    \* the target's row: the value in question, provenance, updated_at
  events,    \* the shipment event, if any, of each instant
  now,       \* the clock; the window ends after the instant Window
  stored,    \* the row of verification_results
  run,       \* what each verifier has read and concluded; flag: the verified column it read
  settled    \* the last verdict came of a run that nothing disturbed (a history variable)

vars == <<action, executed, target, events, now, stored, run, settled>>
world == <<action, executed, target, events, now>>

Instants == 1..Window
NoVerdict == [status |-> "none", value |-> "none", count |-> 0, highest |-> "none"]
NoRow == [verdict |-> NoVerdict, verified |-> FALSE]
Resting == [step |-> "idle", target |-> [value |-> "none", src |-> "none", at |-> 0],
            verdict |-> NoVerdict, flag |-> FALSE, alone |-> FALSE]

OfShipment == action.type # "FACILITY_REALLOCATION"

-----------------------------------------------------------------------------
(* EvidenceCollector                                                         *)

(* _map_source_to_precedence: only two labels (in either case) are told from *)
(* real; the repository's own SYNTHETIC, a missing one and any other is REAL.*)
Discounted == {"SIMULATED", "ESTIMATED"}
PrecedenceLax(label) == IF label = "SIMULATED" THEN label ELSE "REAL"   \* A slip.
Precedence(label) == IF label \in Discounted THEN label ELSE "REAL"

(* Items are ordered by their timestamps; the target's row, collected first, *)
(* comes before an event of the same instant.  It is never held against the  *)
(* window.                                                                   *)
TargetItem(t) == [at |-> 2 * t.at, src |-> Precedence(t.src), says |-> "nothing",
                  value |-> t.value, ref |-> NoRef, op |-> TRUE]
EventItem(i) == [at |-> 2 * i + 1, src |-> Precedence(events[i].src), says |-> events[i].says,
                 value |-> events[i].value, ref |-> events[i].ref, op |-> FALSE]

Earlier(S, at) == {e \in S : e.at < at}
Oldest(S, n) == {e \in S : Cardinality(Earlier(S, e.at)) < n}

Recorded == {i \in Instants : events[i] # NoReport}

(* The query returns the oldest events of the shipment, those from before    *)
(* the action among them, and the window is applied to what it returns.      *)
ShipmentEvents ==
  LET limit == 2 * MaxItems IN
  IF action.before >= limit THEN {}
  ELSE Oldest({EventItem(i) : i \in Recorded}, limit - action.before)

(* Of the items with one raw_reference_id the first is kept.                 *)
Deduplicate(S) ==
  {e \in S : e.ref = NoRef \/ \A f \in Earlier(S, e.at) : f.ref # e.ref}

CollectUnbounded(t) ==   \* A slip: the bound is only put on the query.
  (IF action.present THEN {TargetItem(t)} ELSE {})
    \cup (IF action.present /\ OfShipment THEN Deduplicate(ShipmentEvents) ELSE {})
Collect(t) ==
  LET entity == IF action.present THEN {TargetItem(t)} ELSE {}
      reports == IF action.present /\ OfShipment THEN ShipmentEvents ELSE {}
  IN Oldest(Deduplicate(entity \cup reports), MaxItems)

-----------------------------------------------------------------------------
(* The verifiers                                                             *)

HasReal(E) == \E e \in E : e.src = "REAL"
Says(E, word) == \E e \in E : e.says = word

Last(S) == CHOOSE e \in S : \A f \in S : f.at <= e.at

(* The value of the last item that has one; only the target's row has a      *)
(* route or a carrier, events have a mode and a status as well.              *)
Observed(E) ==
  LET told == {e \in E : e.value # "none"
                 /\ (e.op \/ action.type \in {"EXPEDITE_SHIPMENT", "HOLD_SHIPMENT"})}
  IN IF told = {} THEN "none" ELSE Last(told).value

(* reroute and carrier: a refusal is never outvoted.  Refusals are events; a *)
(* row whose own status is FAILED is not among the targets.                  *)
ReassignedOptimist(E) ==   \* A slip: the row matches, so the refusal is not looked at.
  IF Observed(E) = "wanted" THEN IF HasReal(E) THEN "VERIFIED" ELSE "PARTIALLY_VERIFIED"
  ELSE IF Says(E, "refused") THEN IF Says(E, "confirmed") THEN "CONFLICT" ELSE "FAILED"
  ELSE IF Says(E, "confirmed") THEN "PARTIALLY_VERIFIED" ELSE "FAILED"
Reassigned(E) ==
  IF Says(E, "refused") THEN IF Says(E, "confirmed") THEN "CONFLICT" ELSE "FAILED"
  ELSE IF Observed(E) = "wanted" THEN IF HasReal(E) THEN "VERIFIED" ELSE "PARTIALLY_VERIFIED"
  ELSE IF Says(E, "confirmed") THEN "PARTIALLY_VERIFIED" ELSE "FAILED"

Facility(E) ==
  IF HasReal(E) /\ \E e \in E : e.op /\ e.value = "wanted" THEN "VERIFIED"
  ELSE "PARTIALLY_VERIFIED"

Expedited(E) ==
  IF Observed(E) # "wanted" /\ ~Says(E, "confirmed") THEN "FAILED"
  ELSE IF HasReal(E) THEN "VERIFIED" ELSE "PARTIALLY_VERIFIED"

(* "refused" is a RELEASED or DELIVERED event; it contradicts HELD only.     *)
Held(E) ==
  IF Says(E, "refused") /\ (Says(E, "confirmed") \/ Observed(E) = "wanted") THEN "CONFLICT"
  ELSE IF Observed(E) \notin {"wanted", "on hold"} /\ ~Says(E, "confirmed") THEN "FAILED"
  ELSE IF HasReal(E) THEN "VERIFIED" ELSE "PARTIALLY_VERIFIED"

(* Adding two datetimes in the reroute verifier raises a TypeError.          *)
WithoutEvidence ==
  IF action.type = "SHIPMENT_REROUTE" THEN "ERROR"
  ELSE IF now > Window THEN "EXPIRED" ELSE "PENDING"

StatusOf(E) ==
  IF action.type = "MONITOR" THEN "NOT_APPLICABLE"
  ELSE IF E = {} THEN WithoutEvidence
  ELSE IF \A e \in E : e.src = "SIMULATED" THEN "INSUFFICIENT_EVIDENCE"
  ELSE CASE action.type = "FACILITY_REALLOCATION" -> Facility(E)
         [] action.type = "EXPEDITE_SHIPMENT"     -> Expedited(E)
         [] action.type = "HOLD_SHIPMENT"         -> Held(E)
         [] OTHER                                 -> Reassigned(E)

(* What a verdict says, which is what its fingerprint is taken of; a facility*)
(* tells its attributes only when it is verified.                            *)
Judge(E) ==
  LET status == StatusOf(E)
      silent == status \in {"INSUFFICIENT_EVIDENCE", "PENDING", "EXPIRED", "ERROR",
                            "NOT_APPLICABLE"}
                  \/ (action.type = "FACILITY_REALLOCATION" /\ status # "VERIFIED")
  IN [status  |-> status,
      value   |-> IF silent THEN "none" ELSE Observed(E),
      count   |-> Cardinality(E),
      highest |-> IF status = "INSUFFICIENT_EVIDENCE" THEN "SIMULATED"
                  ELSE IF E = {} \/ status = "NOT_APPLICABLE" THEN "none"
                  ELSE IF HasReal(E) THEN "REAL" ELSE "ESTIMATED"]

Verified(verdict) == verdict.status \in {"VERIFIED", "NOT_APPLICABLE"}

-----------------------------------------------------------------------------
(* One verification of the action                                            *)

At(p, step) == run[p].step = step

(* Whatever changes the evidence disturbs the runs under way.                *)
Disturb ==
  /\ run' = [p \in Verifiers |-> [run[p] EXCEPT !.alone = FALSE]]
  /\ settled' = FALSE

(* VerificationPolicy.evaluate refuses an action that is not executed.       *)
CollectState(p) ==
  /\ At(p, "idle") /\ executed
  /\ run' = [q \in Verifiers |->
       IF q = p THEN [Resting EXCEPT !.step = "events", !.target = target,
                        !.alone = \A o \in Verifiers : At(o, "idle")]
       ELSE [run[q] EXCEPT !.alone = FALSE]]
  /\ settled' = FALSE
  /\ UNCHANGED <<world, stored>>

(* An unexpected error is answered with a payload that is not stored.        *)
CollectEvents(p) ==
  /\ At(p, "events")
  /\ LET verdict == Judge(Collect(run[p].target)) IN
     run' = [run EXCEPT ![p] =
       IF verdict.status = "ERROR" THEN Resting
       ELSE [run[p] EXCEPT !.step = "load", !.target = Resting.target, !.verdict = verdict]]
  /\ UNCHANGED <<world, stored, settled>>

(* persist: the same fingerprint is a replay.                                *)
SameStatus(a, b) == a.status = b.status   \* A slip: only the status is compared.
Same(a, b) == a = b
LoadExisting(p) ==
  /\ At(p, "load")
  /\ IF Same(stored.verdict, run[p].verdict)
     THEN /\ settled' = run[p].alone
          /\ run' = [run EXCEPT ![p] = Resting]
     ELSE /\ run' = [run EXCEPT ![p].step = IF stored = NoRow THEN "insert" ELSE "update",
                               ![p].flag = stored.verified]
          /\ UNCHANGED settled
  /\ UNCHANGED <<world, stored>>

Finish(p, done) ==
  /\ run' = [run EXCEPT ![p] = Resting]
  /\ settled' = (done /\ run[p].alone)

(* The id is a function of the action: the second of two first verdicts      *)
(* violates the primary key and is answered as an ERROR.                     *)
Insert(p) ==
  /\ At(p, "insert")
  /\ stored' = IF stored = NoRow
               THEN [verdict |-> run[p].verdict, verified |-> Verified(run[p].verdict)]
               ELSE stored
  /\ Finish(p, stored = NoRow)
  /\ UNCHANGED world

(* The session writes the columns that differ from what it has read, so a    *)
(* flag that did not change keeps what another run has made of it.           *)
Update(p) ==
  /\ At(p, "update")
  /\ stored' = [verdict  |-> run[p].verdict,
                verified |-> IF Verified(run[p].verdict) = run[p].flag
                             THEN stored.verified ELSE Verified(run[p].verdict)]
  /\ Finish(p, TRUE)
  /\ UNCHANGED world

-----------------------------------------------------------------------------
(* The world                                                                 *)

(* What the executor of each type leaves in the target's row.                *)
Effect ==
  IF action.type \in {"FACILITY_REALLOCATION", "MONITOR"} THEN target.value
  ELSE IF action.type = "HOLD_SHIPMENT" THEN "on hold" ELSE "wanted"

Execute ==
  /\ ~executed /\ executed' = TRUE /\ now' = 1
  /\ target' = IF Effect = target.value THEN target
               ELSE [target EXCEPT !.value = Effect, !.at = 1]
  /\ UNCHANGED <<action, events, stored, run, settled>>

(* A PATCH of the target, by a person.                                       *)
ChangeTarget(v) ==
  /\ executed /\ action.present
  /\ v = "on hold" => action.type = "HOLD_SHIPMENT"
  /\ target' = [target EXCEPT !.value = v, !.at = now]
  /\ target' # target
  /\ Disturb
  /\ UNCHANGED <<action, executed, events, now, stored>>

(* A message about an instant that has passed; messages come in any order.   *)
Report(i, r) ==
  /\ executed /\ action.present /\ OfShipment
  /\ i <= now /\ events[i] = NoReport
  /\ Cardinality(Recorded) < MaxReports
  /\ events' = [events EXCEPT ![i] = r]
  /\ Disturb
  /\ UNCHANGED <<action, executed, target, now, stored>>

Tick ==
  /\ executed /\ now <= Window
  /\ now' = now + 1
  /\ Disturb
  /\ UNCHANGED <<action, executed, target, events, stored>>

Init ==
  /\ action \in [type : Types, present : BOOLEAN, before : Histories]
  /\ action.present \/ action.before = 0
  /\ target \in [value : {"wanted", "other"}, src : Provenances, at : {0}]
  /\ IF OfShipment THEN target.value = "other" ELSE target.src = "REAL" /\ action.before = 0
  /\ ~action.present => target = [value |-> "other", src |-> "REAL", at |-> 0]
  /\ executed = FALSE /\ now = 0
  /\ events = [i \in Instants |-> NoReport]
  /\ stored = NoRow
  /\ run = [p \in Verifiers |-> Resting]
  /\ settled = FALSE

Verify(p) ==
  CollectState(p) \/ CollectEvents(p) \/ LoadExisting(p) \/ Insert(p) \/ Update(p)

Next ==
  \/ \E p \in Verifiers : Verify(p)
  \/ Execute \/ Tick
  \/ \E v \in Values \ {"none"} : ChangeTarget(v)
  \/ \E i \in Instants, r \in Reports : Report(i, r)

Spec == Init /\ [][Next]_vars

-----------------------------------------------------------------------------
(* Properties                                                                *)

Statuses == {"VERIFIED", "PARTIALLY_VERIFIED", "FAILED", "PENDING", "EXPIRED", "CONFLICT",
             "INSUFFICIENT_EVIDENCE", "NOT_APPLICABLE", "ERROR", "none"}
Verdicts == [status : Statuses, value : Values, count : 0..MaxItems,
             highest : Sources \cup {"none"}]
Rows == [verdict : Verdicts, verified : BOOLEAN]

(* Every variable has its type; a verdict never rests on more items than the *)
(* bound allows.                                                             *)
TypeOK ==
  /\ action \in [type : Types, present : BOOLEAN, before : Histories]
  /\ executed \in BOOLEAN /\ settled \in BOOLEAN /\ now \in 0..Window + 1
  /\ target \in [value : Values, src : Provenances \cup {"REAL"}, at : 0..Window + 1]
  /\ events \in [Instants -> Reports \cup {NoReport}]
  /\ stored \in Rows
  /\ run \in [Verifiers ->
       [step : {"idle", "events", "load", "insert", "update"}, verdict : Verdicts, flag : BOOLEAN,
        target : [value : Values, src : Provenances \cup {"REAL", "none"}, at : 0..Window + 1],
        alone : BOOLEAN]]

(* No row has its verified column set unless something on record about the   *)
(* target, its row or a message, is labelled neither SIMULATED nor ESTIMATED,*)
(* whatever runs overlapped and whichever of them wrote the column last.     *)
EvidenceBehindVerified ==
  stored.verified /\ action.type # "MONITOR" =>
    \/ action.present /\ target.src \notin Discounted
    \/ \E i \in Recorded : events[i].src \notin Discounted

(* After a run that nothing disturbed, a reassignment that is VERIFIED has   *)
(* no refusal among the evidence that is read: a refusal on record, whatever *)
(* confirms it otherwise and in whatever order the messages came, lies past  *)
(* the bound on evidence or past what the query returns.                     *)
RefusalRespected ==
  (/\ settled /\ stored.verdict.status = "VERIFIED"
   /\ action.type \in {"SHIPMENT_REROUTE", "CARRIER_REALLOCATION"}) =>
     \A i \in Recorded : events[i].says = "refused" =>
       LET before == Cardinality({k \in Recorded : k < i})
       IN before + 1 >= MaxItems \/ action.before + before >= 2 * MaxItems

(* After a run that nothing disturbed, the row holds the verdict on the      *)
(* evidence there is, whatever verdicts overlapping runs stored before it.   *)
VerdictIsCurrent == settled => stored.verdict = Judge(Collect(target))
=============================================================================

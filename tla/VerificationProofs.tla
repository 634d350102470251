-------------------------- MODULE VerificationProofs --------------------------
(* A row that calls an action verified has evidence behind it that is not    *)
(* labelled SIMULATED or ESTIMATED, for any number of verifiers, any labels, *)
(* any window, any messages and any bound on evidence.                       *)
(* The argument: evidence is only ever added and the provenance of a target  *)
(* does not change, so what counted as real when a verifier read it is still *)
(* on record when the verifier, however late, writes.                        *)
(*                                                                           *)
(* Then, each from an invariant of its own: the types, a verdict that is up  *)
(* to date when nobody interfered, and a refusal that outlives the verifiers.*)
EXTENDS Verification, FiniteSetTheorems, WellFoundedInduction, TLAPS

RealOnRecord ==
  \/ target.src \notin Discounted /\ action.present
  \/ \E i \in Recorded : events[i].src \notin Discounted

IsTarget(t) == t = [value |-> t.value, src |-> t.src, at |-> t.at]
IsRun(r) == r = [step |-> r.step, target |-> r.target, verdict |-> r.verdict,
                 flag |-> r.flag, alone |-> r.alone]

(* Records and functions have the fields and domains that EXCEPT relies on.  *)
Shape ==
  /\ IsTarget(target)
  /\ events = [i \in Instants |-> events[i]]
  /\ run = [p \in Verifiers |-> run[p]]
  /\ \A p \in Verifiers : IsRun(run[p])

(* A verifier's copy of the row has the provenance of the row.               *)
ReadFaithfully ==
  \A p \in Verifiers : run[p].step = "events" => run[p].target.src = target.src

(* A favourable verdict not yet written rests on evidence still on record.   *)
ConcludedFaithfully ==
  \A p \in Verifiers :
    run[p].step \in {"load", "insert", "update"} /\ Verified(run[p].verdict)
      /\ action.type # "MONITOR" => RealOnRecord

IInv == Shape /\ ReadFaithfully /\ ConcludedFaithfully /\ EvidenceBehindVerified

(* What the collector takes for real is whatever is not labelled otherwise.  *)
LEMMA RealIsUnlabelled ==
  ASSUME NEW label, Precedence(label) = "REAL"
  PROVE  label \notin Discounted
  BY DEF Precedence, Discounted

(* Only real evidence makes a verifier say VERIFIED.                         *)
LEMMA VerifiedNeedsReal ==
  ASSUME NEW E, Verified(Judge(E)), action.type # "MONITOR"
  PROVE  HasReal(E)
<1>1. Judge(E).status = StatusOf(E)
  BY DEF Judge
<1>2. StatusOf(E) \in {"VERIFIED", "NOT_APPLICABLE"}
  BY <1>1 DEF Verified
<1>3. E # {}
  BY <1>2 DEF StatusOf, WithoutEvidence
<1>4. ~(\A e \in E : e.src = "SIMULATED")
  BY <1>2, <1>3 DEF StatusOf
<1>5. CASE action.type = "FACILITY_REALLOCATION"
  BY <1>2, <1>3, <1>4, <1>5 DEF StatusOf, Facility
<1>6. CASE action.type = "EXPEDITE_SHIPMENT"
  BY <1>2, <1>3, <1>4, <1>6 DEF StatusOf, Expedited
<1>7. CASE action.type = "HOLD_SHIPMENT"
  BY <1>2, <1>3, <1>4, <1>7 DEF StatusOf, Held
<1>8. CASE action.type \notin {"FACILITY_REALLOCATION", "EXPEDITE_SHIPMENT", "HOLD_SHIPMENT"}
  BY <1>2, <1>3, <1>4, <1>8 DEF StatusOf, Reassigned
<1> QED
  BY <1>5, <1>6, <1>7, <1>8

(* What is collected is the row that was read and events on record.          *)
LEMMA CollectedIsOnRecord ==
  ASSUME NEW t, HasReal(Collect(t))
  PROVE  \/ t.src \notin Discounted /\ action.present
         \/ \E i \in Recorded : events[i].src \notin Discounted
<1>1. PICK e \in Collect(t) : e.src = "REAL"
  BY DEF HasReal
<1>2. CASE action.present /\ e = TargetItem(t)
  BY <1>1, <1>2, RealIsUnlabelled DEF TargetItem
<1>3. CASE e \in ShipmentEvents
  <2>1. PICK i \in Recorded : e = EventItem(i)
    BY <1>3 DEF ShipmentEvents, Oldest
  <2> QED
    BY <1>1, <2>1, RealIsUnlabelled DEF EventItem
<1>4. (action.present /\ e = TargetItem(t)) \/ e \in ShipmentEvents
  BY <1>1 DEF Collect, Oldest, Deduplicate
<1> QED
  BY <1>2, <1>3, <1>4

(* The initial states have no verdict and no run.                            *)
LEMMA InitHolds == Init => IInv
<1> SUFFICES ASSUME Init PROVE IInv
  OBVIOUS
<1>1. IsTarget(target)
  BY DEF Init, IsTarget
<1>2. events = [i \in Instants |-> events[i]]
  BY DEF Init
<1>3. run = [p \in Verifiers |-> run[p]]
  BY DEF Init
<1>4. \A p \in Verifiers : IsRun(run[p]) /\ run[p].step = "idle"
  BY DEF Init, IsRun, Resting
<1>5. ~stored.verified
  BY DEF Init, NoRow
<1> QED
  BY <1>1, <1>2, <1>3, <1>4, <1>5
  DEF IInv, Shape, ReadFaithfully, ConcludedFaithfully, EvidenceBehindVerified

(* A run whose other fields stay as they are keeps its shape.                *)
LEMMA AloneOnly ==
  ASSUME NEW r, IsRun(r), NEW b
  PROVE  LET s == [r EXCEPT !.alone = b] IN
         IsRun(s) /\ s.step = r.step /\ s.target = r.target /\ s.verdict = r.verdict
           /\ s.flag = r.flag
  BY DEF IsRun

(* The three updates a verifier makes of its own record.                     *)
BegunRun(r, t, b) == [r EXCEPT !.step = "events", !.target = t, !.alone = b]
JudgedRun(r, t, v) == [r EXCEPT !.step = "load", !.target = t, !.verdict = v]
LoadedRun(r, w, b) == [r EXCEPT !.step = w, !.flag = b]

Fields == {"step", "target", "verdict", "flag", "alone"}

LEMMA Begun ==
  ASSUME NEW r, IsRun(r), NEW t, NEW b
  PROVE  LET s == BegunRun(r, t, b) IN IsRun(s) /\ s.step = "events" /\ s.target = t
<1> DEFINE s == BegunRun(r, t, b)
<1>1. DOMAIN r = Fields /\ r = [x \in Fields |-> r[x]]
  BY DEF IsRun, Fields
<1>2. s = [x \in Fields |-> IF x = "step" THEN "events" ELSE IF x = "target" THEN t
                               ELSE IF x = "alone" THEN b ELSE r[x]]
  BY <1>1 DEF BegunRun
<1>3. s = [step |-> "events", target |-> t, verdict |-> r.verdict, flag |-> r.flag, alone |-> b]
  BY <1>2 DEF Fields
<1> HIDE DEF s
<1>4. IsRun(s) /\ s.step = "events" /\ s.target = t
  BY <1>3 DEF IsRun
<1> QED
  BY <1>4 DEF s

LEMMA Judged ==
  ASSUME NEW r, IsRun(r), NEW t, NEW v
  PROVE  LET s == JudgedRun(r, t, v) IN IsRun(s) /\ s.step = "load" /\ s.verdict = v
<1> DEFINE s == JudgedRun(r, t, v)
<1>1. DOMAIN r = Fields /\ r = [x \in Fields |-> r[x]]
  BY DEF IsRun, Fields
<1>2. s = [x \in Fields |-> IF x = "step" THEN "load" ELSE IF x = "target" THEN t
                               ELSE IF x = "verdict" THEN v ELSE r[x]]
  BY <1>1 DEF JudgedRun
<1>3. s = [step |-> "load", target |-> t, verdict |-> v, flag |-> r.flag, alone |-> r.alone]
  BY <1>2 DEF Fields
<1> HIDE DEF s
<1>4. IsRun(s) /\ s.step = "load" /\ s.verdict = v
  BY <1>3 DEF IsRun
<1> QED
  BY <1>4 DEF s

LEMMA Loaded ==
  ASSUME NEW r, IsRun(r), NEW w, NEW b
  PROVE  LET s == LoadedRun(r, w, b) IN IsRun(s) /\ s.step = w /\ s.verdict = r.verdict
<1> DEFINE s == LoadedRun(r, w, b)
<1>1. DOMAIN r = Fields /\ r = [x \in Fields |-> r[x]]
  BY DEF IsRun, Fields
<1>2. s = [x \in Fields |-> IF x = "step" THEN w ELSE IF x = "flag" THEN b ELSE r[x]]
  BY <1>1 DEF LoadedRun
<1>3. s = [step |-> w, target |-> r.target, verdict |-> r.verdict, flag |-> b, alone |-> r.alone]
  BY <1>2 DEF Fields
<1> HIDE DEF s
<1>4. IsRun(s) /\ s.step = w /\ s.verdict = r.verdict
  BY <1>3 DEF IsRun
<1> QED
  BY <1>4 DEF s

(* Steps of the world: no verdict is touched, nothing real is taken back.    *)
LEMMA DisturbKeeps ==
  ASSUME IInv, Disturb, UNCHANGED <<action, stored>>, IsTarget(target'),
         events' = [i \in Instants |-> events'[i]],
         target'.src = target.src, RealOnRecord => RealOnRecord'
  PROVE  IInv'
<1>1. \A p \in Verifiers :
        /\ run'[p] = [run[p] EXCEPT !.alone = FALSE]
        /\ IsRun(run'[p]) /\ run'[p].step = run[p].step
        /\ run'[p].target = run[p].target /\ run'[p].verdict = run[p].verdict
  BY AloneOnly DEF Disturb, IInv, Shape
<1>2. run' = [p \in Verifiers |-> run'[p]]
  BY DEF Disturb
<1>3. Shape'
  BY <1>1, <1>2 DEF Shape, IsRun, IsTarget
<1>4. ReadFaithfully'
  BY <1>1 DEF IInv, ReadFaithfully
<1>5. ConcludedFaithfully'
  BY <1>1 DEF IInv, ConcludedFaithfully, Verified
<1>6. EvidenceBehindVerified'
  BY DEF IInv, EvidenceBehindVerified, RealOnRecord
<1> QED
  BY <1>3, <1>4, <1>5, <1>6 DEF IInv

LEMMA ChangeTargetKeeps ==
  ASSUME IInv, NEW v, ChangeTarget(v)
  PROVE  IInv'
<1>1. IsTarget(target') /\ target'.src = target.src
  BY DEF IInv, Shape, ChangeTarget, IsTarget
<1>2. RealOnRecord => RealOnRecord'
  BY <1>1 DEF ChangeTarget, RealOnRecord, Recorded
<1>3. events' = [i \in Instants |-> events'[i]]
  BY DEF IInv, Shape, ChangeTarget
<1> QED
  BY <1>1, <1>2, <1>3, DisturbKeeps DEF ChangeTarget

LEMMA ReportKeeps ==
  ASSUME IInv, NEW i \in Instants, NEW r \in Reports, Report(i, r)
  PROVE  IInv'
<1>1. \A j \in Instants : j # i => events'[j] = events[j]
  BY DEF IInv, Shape, Report
<1>2. events' = [j \in Instants |-> events'[j]]
  BY DEF IInv, Shape, Report
<1>3. i \notin Recorded
  BY DEF Report, Recorded
<1>4. RealOnRecord => RealOnRecord'
  BY <1>1, <1>3 DEF RealOnRecord, Recorded, Report
<1>5. IsTarget(target') /\ target'.src = target.src
  BY DEF IInv, Shape, Report, IsTarget
<1> QED
  BY <1>2, <1>4, <1>5, DisturbKeeps DEF Report

LEMMA TickKeeps ==
  ASSUME IInv, Tick
  PROVE  IInv'
<1>1. RealOnRecord => RealOnRecord'
  BY DEF Tick, RealOnRecord, Recorded
<1>2. IsTarget(target') /\ target'.src = target.src
  BY DEF IInv, Shape, Tick, IsTarget
<1>3. events' = [j \in Instants |-> events'[j]]
  BY DEF IInv, Shape, Tick
<1> QED
  BY <1>1, <1>2, <1>3, DisturbKeeps DEF Tick

(* The executor changes the row but not its provenance.                      *)
LEMMA ExecuteKeeps ==
  ASSUME IInv, Execute
  PROVE  IInv'
<1>1. IsTarget(target') /\ target'.src = target.src
  BY DEF IInv, Shape, Execute, IsTarget
<1>2. RealOnRecord => RealOnRecord'
  BY <1>1 DEF Execute, RealOnRecord, Recorded
<1>3. Shape'
  BY <1>1 DEF IInv, Shape, Execute, IsRun
<1>4. ReadFaithfully'
  BY <1>1 DEF IInv, ReadFaithfully, Execute
<1>5. ConcludedFaithfully'
  BY <1>2 DEF IInv, ConcludedFaithfully, Execute, Verified
<1>6. EvidenceBehindVerified'
  BY <1>2 DEF IInv, EvidenceBehindVerified, RealOnRecord, Execute
<1> QED
  BY <1>3, <1>4, <1>5, <1>6 DEF IInv

(* Steps of one verifier: the world stands still.                            *)
LEMMA RunKeeps ==
  ASSUME IInv, NEW p \in Verifiers, NEW r, IsRun(r), UNCHANGED world,
         run' = [run EXCEPT ![p] = r],
         r.step = "events" => r.target.src = target.src,
         r.step \in {"load", "insert", "update"} /\ Verified(r.verdict)
           /\ action.type # "MONITOR" => RealOnRecord,
         stored'.verified /\ action.type # "MONITOR" => RealOnRecord
  PROVE  IInv'
<1>1. run'[p] = r /\ \A q \in Verifiers : q # p => run'[q] = run[q]
  BY DEF IInv, Shape
<1>2. RealOnRecord' <=> RealOnRecord
  BY DEF world, RealOnRecord, Recorded
<1>3. Shape'
  <2>1. run' = [q \in Verifiers |-> run'[q]]
    BY DEF IInv, Shape
  <2>2. \A q \in Verifiers : IsRun(run[q])
    BY DEF IInv, Shape
  <2>3. \A q \in Verifiers : IsRun(run'[q])
    BY <1>1, <2>2
  <2>4. IsTarget(target') /\ events' = [i \in Instants |-> events'[i]]
    BY DEF IInv, Shape, world, IsTarget
  <2>5. \A q \in Verifiers : IsRun(run[q])'
    BY <2>3 DEF IsRun
  <2> QED
    BY <2>1, <2>4, <2>5 DEF Shape, IsTarget
<1>4. ReadFaithfully'
  BY <1>1 DEF IInv, ReadFaithfully, world
<1>5. ConcludedFaithfully'
  BY <1>1, <1>2 DEF IInv, ConcludedFaithfully, world, Verified
<1>6. EvidenceBehindVerified'
  BY <1>2 DEF EvidenceBehindVerified, RealOnRecord, world
<1> QED
  BY <1>3, <1>4, <1>5, <1>6 DEF IInv

(* What RunKeeps asks of the row when the row is not written.                *)
LEMMA RowFounded ==
  ASSUME IInv
  PROVE  stored.verified /\ action.type # "MONITOR" => RealOnRecord
  BY DEF IInv, EvidenceBehindVerified, RealOnRecord

LEMMA RestingIsRun == IsRun(Resting) /\ Resting.step = "idle"
  BY DEF IsRun, Resting

LEMMA CollectStateKeeps ==
  ASSUME IInv, NEW p \in Verifiers, CollectState(p)
  PROVE  IInv'
<1> DEFINE b == \A o \in Verifiers : At(o, "idle")
           r == [Resting EXCEPT !.step = "events", !.target = target, !.alone = b]
<1>1. IsRun(r) /\ r.step = "events" /\ r.target = target
  <2>1. r = BegunRun(Resting, target, b)
    BY DEF BegunRun
  <2> HIDE DEF r, b
  <2> QED
    BY <2>1, Begun, RestingIsRun
<1>2. run'[p] = r
  BY DEF CollectState
<1>3. \A q \in Verifiers : q # p =>
        /\ run'[q] = [run[q] EXCEPT !.alone = FALSE]
        /\ IsRun(run'[q]) /\ run'[q].step = run[q].step
        /\ run'[q].target = run[q].target /\ run'[q].verdict = run[q].verdict
  BY AloneOnly DEF CollectState, IInv, Shape
<1>4. run' = [q \in Verifiers |-> run'[q]]
  BY DEF CollectState
<1> HIDE DEF r, b
<1>5. \A q \in Verifiers : IsRun(run'[q])
  BY <1>1, <1>2, <1>3
<1>6. RealOnRecord' <=> RealOnRecord
  BY DEF CollectState, world, RealOnRecord, Recorded
<1>7. Shape'
  <2>1. \A q \in Verifiers : IsRun(run[q])'
    BY <1>5 DEF IsRun
  <2>2. IsTarget(target)' /\ (events = [i \in Instants |-> events[i]])'
    BY DEF IInv, Shape, CollectState, world, IsTarget
  <2> QED
    BY <1>4, <2>1, <2>2 DEF Shape
<1>8. ReadFaithfully'
  <2>1. target' = target
    BY DEF CollectState, world
  <2>2. run'[p].target.src = target.src
    BY <1>1, <1>2
  <2>3. \A q \in Verifiers : q # p /\ run'[q].step = "events" => run'[q].target.src = target.src
    BY <1>3 DEF IInv, ReadFaithfully
  <2> QED
    BY <2>1, <2>2, <2>3 DEF ReadFaithfully
<1>9. ConcludedFaithfully'
  BY <1>1, <1>2, <1>3, <1>6 DEF IInv, ConcludedFaithfully, CollectState, world, Verified
<1>10. EvidenceBehindVerified'
  BY <1>6, RowFounded DEF EvidenceBehindVerified, RealOnRecord, CollectState, world
<1> QED
  BY <1>7, <1>8, <1>9, <1>10 DEF IInv

(* The step that the invariant is about: from evidence to a verdict.         *)
LEMMA CollectEventsKeeps ==
  ASSUME IInv, NEW p \in Verifiers, CollectEvents(p)
  PROVE  IInv'
<1> DEFINE verdict == Judge(Collect(run[p].target))
<1>1. IsRun(run[p]) /\ run[p].step = "events" /\ run[p].target.src = target.src
  BY DEF IInv, Shape, ReadFaithfully, CollectEvents, At
<1>2. stored' = stored /\ UNCHANGED world
  BY DEF CollectEvents
<1>3. CASE verdict.status = "ERROR"
  <2>1. run' = [run EXCEPT ![p] = Resting]
    BY <1>3 DEF CollectEvents
  <2> QED
    BY <1>2, <2>1, RestingIsRun, RowFounded, RunKeeps
<1>4. CASE verdict.status # "ERROR"
  <2> DEFINE r == [run[p] EXCEPT !.step = "load", !.target = Resting.target,
                                 !.verdict = verdict]
  <2>1. run' = [run EXCEPT ![p] = r]
    BY <1>4 DEF CollectEvents
  <2> HIDE DEF verdict
  <2>2. IsRun(r) /\ r.step = "load" /\ r.verdict = verdict
    <3>1. r = JudgedRun(run[p], Resting.target, verdict)
      BY DEF JudgedRun
    <3> HIDE DEF r
    <3> QED
      BY <1>1, <3>1, Judged
  <2> USE DEF verdict
  <2>3. Verified(verdict) /\ action.type # "MONITOR" => RealOnRecord
    BY <1>1, VerifiedNeedsReal, CollectedIsOnRecord DEF RealOnRecord
  <2> HIDE DEF verdict, r
  <2> QED
    BY <1>2, <2>1, <2>2, <2>3, RowFounded, RunKeeps
<1> QED
  BY <1>3, <1>4

LEMMA LoadExistingKeeps ==
  ASSUME IInv, NEW p \in Verifiers, LoadExisting(p)
  PROVE  IInv'
<1>1. IsRun(run[p]) /\ run[p].step = "load"
  BY DEF IInv, Shape, LoadExisting, At
<1>2. stored' = stored /\ UNCHANGED world
  BY DEF LoadExisting
<1>3. CASE Same(stored.verdict, run[p].verdict)
  <2>1. run' = [run EXCEPT ![p] = Resting]
    BY <1>3 DEF LoadExisting
  <2> QED
    BY <1>2, <2>1, RestingIsRun, RowFounded, RunKeeps
<1>4. CASE ~Same(stored.verdict, run[p].verdict)
  <2> DEFINE s == IF stored = NoRow THEN "insert" ELSE "update"
             r == [run[p] EXCEPT !.step = s, !.flag = stored.verified]
  <2>1. IsRun(r) /\ r.step = s /\ r.verdict = run[p].verdict
    <3>1. r = LoadedRun(run[p], s, stored.verified)
      BY DEF LoadedRun
    <3> HIDE DEF r, s
    <3> QED
      BY <1>1, <3>1, Loaded
  <2>2. run' = [run EXCEPT ![p] = r]
    <3>1. run' = [run EXCEPT ![p].step = s, ![p].flag = stored.verified]
      BY <1>4 DEF LoadExisting
    <3> QED
      BY <3>1 DEF IInv, Shape
  <2>3. s \in {"insert", "update"}
    OBVIOUS
  <2>4. Verified(run[p].verdict) /\ action.type # "MONITOR" => RealOnRecord
    BY <1>1 DEF IInv, ConcludedFaithfully
  <2> HIDE DEF r, s
  <2>5. r.step # "events"
    BY <2>1, <2>3
  <2> QED
    BY <1>2, <2>1, <2>2, <2>4, <2>5, RowFounded, RunKeeps
<1> QED
  BY <1>3, <1>4

(* A writer's favourable verdict is founded at the moment of the write.      *)
LEMMA WriteKeeps ==
  ASSUME IInv, NEW p \in Verifiers, Insert(p) \/ Update(p)
  PROVE  IInv'
<1>1. run[p].step \in {"insert", "update"}
  BY DEF Insert, Update, At
<1>2. Verified(run[p].verdict) /\ action.type # "MONITOR" => RealOnRecord
  BY <1>1 DEF IInv, ConcludedFaithfully
<1>3. run' = [run EXCEPT ![p] = Resting] /\ UNCHANGED world
  BY DEF Insert, Update, Finish
<1>4. CASE Insert(p)
  <2>1. stored' = stored
          \/ stored' = [verdict |-> run[p].verdict, verified |-> Verified(run[p].verdict)]
    BY <1>4 DEF Insert
  <2>2. stored'.verified = stored.verified \/ stored'.verified = Verified(run[p].verdict)
    BY <2>1
  <2> QED
    BY <1>2, <1>3, <2>2, RowFounded, RestingIsRun, RunKeeps
<1>5. CASE Update(p)
  <2>1. stored' = [verdict |-> run[p].verdict,
                   verified |-> IF Verified(run[p].verdict) = run[p].flag
                                THEN stored.verified ELSE Verified(run[p].verdict)]
    BY <1>5 DEF Update
  <2>2. stored'.verified = stored.verified \/ stored'.verified = Verified(run[p].verdict)
    BY <2>1
  <2> QED
    BY <1>2, <1>3, <2>2, RowFounded, RestingIsRun, RunKeeps
<1> QED
  BY <1>4, <1>5

LEMMA StutterKeeps ==
  ASSUME IInv, UNCHANGED vars
  PROVE  IInv'
  BY DEF IInv, vars, Shape, IsTarget, IsRun, ReadFaithfully, ConcludedFaithfully,
         EvidenceBehindVerified, RealOnRecord, Recorded, Verified

LEMMA NextKeeps == IInv /\ [Next]_vars => IInv'
<1> SUFFICES ASSUME IInv, [Next]_vars PROVE IInv'
  OBVIOUS
<1>1. CASE UNCHANGED vars
  BY <1>1, StutterKeeps
<1>2. ASSUME NEW p \in Verifiers, Verify(p) PROVE IInv'
  BY <1>2, CollectStateKeeps, CollectEventsKeeps, LoadExistingKeeps, WriteKeeps DEF Verify
<1>3. CASE Execute \/ Tick
  BY <1>3, ExecuteKeeps, TickKeeps
<1>4. CASE \E v \in Values \ {"none"} : ChangeTarget(v)
  BY <1>4, ChangeTargetKeeps
<1>5. CASE \E i \in Instants, r \in Reports : Report(i, r)
  BY <1>5, ReportKeeps
<1> QED
  BY <1>1, <1>2, <1>3, <1>4, <1>5 DEF Next

(* EvidenceBehindVerified is an invariant: no interleaving of verifiers, late*)
(* messages and changes of the row makes persist store a favourable flag     *)
(* when all there is on record is labelled SIMULATED or ESTIMATED.           *)
THEOREM VerifiedIsFounded == Spec => []EvidenceBehindVerified
<1>1. IInv => EvidenceBehindVerified
  BY DEF IInv
<1> QED
  BY <1>1, InitHolds, NextKeeps, PTL DEF Spec

-----------------------------------------------------------------------------
(* What is collected                                                         *)

(* Items have their instants within the bounds of the window, and no two of  *)
(* them have the same: rows have even ones and events odd ones.              *)
Bound == 2 * Window + 2

AreItems(S) ==
  /\ IsFiniteSet(S)
  /\ \A e \in S : e.at \in 0..Bound /\ e.value \in Values
  /\ \A e, f \in S : e.at = f.at => e = f

LEMMA LeastNat ==
  ASSUME NEW S, S \subseteq Nat, S # {}
  PROVE  \E m \in S : \A k \in S : m <= k
<1>1. PICK m \in S : \A k \in S : ~(<<k, m>> \in OpToRel(<, Nat))
  BY NatLessThanWellFounded, WFMin
<1>2. \A k \in S : ~(k < m)
  BY <1>1 DEF OpToRel
<1> QED
  BY <1>2

LEMMA EarliestItem ==
  ASSUME NEW S, S # {}, \A e \in S : e.at \in Nat
  PROVE  \E e \in S : \A f \in S : e.at <= f.at
<1> DEFINE T == {e.at : e \in S}
<1>1. PICK m \in T : \A k \in T : m <= k
  <2>1. T \subseteq Nat /\ T # {}
    OBVIOUS
  <2> HIDE DEF T
  <2> QED
    BY <2>1, LeastNat
<1> QED
  BY <1>1

LEMMA LatestItem ==
  ASSUME NEW S, S # {}, AreItems(S)
  PROVE  \E e \in S : \A f \in S : f.at <= e.at
<1> DEFINE T == {Bound - e.at : e \in S}
<1>1. Bound \in Nat /\ \A e \in S : e.at \in 0..Bound
  BY VerificationAssumption DEF AreItems, Bound
<1> HIDE DEF Bound
<1>2. PICK m \in T : \A k \in T : m <= k
  <2>1. T \subseteq Nat /\ T # {}
    BY <1>1
  <2> HIDE DEF T
  <2> QED
    BY <2>1, LeastNat
<1>3. PICK e \in S : m = Bound - e.at
  BY <1>2
<1>4. ASSUME NEW f \in S PROVE f.at <= e.at
  <2>1. Bound - e.at <= Bound - f.at
    BY <1>2, <1>3
  <2> QED
    BY <1>1, <2>1
<1> QED
  BY <1>4

LEMMA SomeOfThem ==
  ASSUME NEW S, AreItems(S), NEW T, T \subseteq S
  PROVE  AreItems(T)
<1>1. IsFiniteSet(T)
  BY FS_Subset DEF AreItems
<1> QED
  BY <1>1 DEF AreItems

(* No more items are kept than the bound allows.                             *)
LEMMA OldestBounded ==
  ASSUME NEW S, AreItems(S), NEW n \in Nat
  PROVE  AreItems(Oldest(S, n)) /\ Cardinality(Oldest(S, n)) \in 0..n
<1> DEFINE T == Oldest(S, n)
<1>1. T \subseteq S /\ AreItems(T)
  BY SomeOfThem DEF Oldest
<1>2. IsFiniteSet(T) /\ Cardinality(T) \in Nat
  BY <1>1, FS_CardinalityType DEF AreItems
<1>3. CASE T = {}
  BY <1>1, <1>3, FS_EmptySet
<1>4. CASE T # {}
  <2>1. PICK e \in T : \A f \in T : f.at <= e.at
    <3> HIDE DEF T
    <3> QED
      BY <1>1, <1>4, LatestItem
  <2>2. PICK E : E = Earlier(S, e.at)
    OBVIOUS
  <2>3. Cardinality(E) < n
    BY <2>1, <2>2 DEF Oldest
  <2>4. T \subseteq E \cup {e}
    <3> SUFFICES ASSUME NEW f \in T, f # e PROVE f \in E
      OBVIOUS
    <3>1. f.at # e.at /\ f.at \in Int /\ e.at \in Int /\ f.at <= e.at
      BY <1>1, <2>1 DEF AreItems
    <3>2. f.at < e.at
      BY <3>1
    <3> QED
      BY <1>1, <2>2, <3>2 DEF Earlier
  <2>5. IsFiniteSet(E) /\ Cardinality(E) \in Nat
    <3>1. E \subseteq S
      BY <2>2 DEF Earlier
    <3> QED
      BY <3>1, FS_Subset, FS_CardinalityType DEF AreItems
  <2>6. IsFiniteSet(E \cup {e}) /\ Cardinality(E \cup {e}) <= Cardinality(E) + 1
    BY <2>5, FS_AddElement
  <2>7. Cardinality(E \cup {e}) \in Nat /\ Cardinality(T) <= Cardinality(E \cup {e})
    BY <2>4, <2>6, FS_Subset, FS_CardinalityType
  <2> QED
    BY <1>1, <1>2, <2>3, <2>5, <2>6, <2>7
<1> QED
  BY <1>3, <1>4

EventItems == {EventItem(i) : i \in Recorded}

LEMMA RecordedTyped ==
  ASSUME TypeOK
  PROVE  /\ IsFiniteSet(Recorded) /\ Cardinality(Recorded) \in Nat
         /\ \A i \in Recorded : i \in Instants /\ events[i] \in Reports
<1>1. IsFiniteSet(Instants)
  BY FS_Interval, VerificationAssumption DEF Instants
<1>2. Recorded \subseteq Instants
  BY DEF Recorded
<1> QED
  BY <1>1, <1>2, FS_Subset, FS_CardinalityType DEF Recorded, TypeOK

(* An item for each event recorded.                                          *)
LEMMA EventItemsTyped ==
  ASSUME TypeOK
  PROVE  AreItems(EventItems) /\ Cardinality(EventItems) <= Cardinality(Recorded)
<1>1. /\ IsFiniteSet(Recorded)
      /\ \A i \in Recorded : i \in 1..Window /\ events[i] \in Reports
  BY RecordedTyped DEF Instants
<1> DEFINE g == [i \in Recorded |-> EventItem(i)]
<1>2. g \in Surjection(Recorded, EventItems)
  BY DEF EventItems, Surjection
<1>3. IsFiniteSet(EventItems) /\ Cardinality(EventItems) <= Cardinality(Recorded)
  <2> HIDE DEF g
  <2> QED
    BY <1>1, <1>2, FS_Surjection
<1>4. \A i \in Recorded : /\ EventItem(i).at = 2 * i + 1
                           /\ EventItem(i).at \in 0..Bound
                           /\ EventItem(i).value \in Values
  <2> SUFFICES ASSUME NEW i \in Recorded
               PROVE  /\ EventItem(i).at = 2 * i + 1 /\ EventItem(i).at \in 0..Bound
                      /\ EventItem(i).value \in Values
    OBVIOUS
  <2>1. EventItem(i).at = 2 * i + 1 /\ EventItem(i).value = events[i].value
    BY DEF EventItem
  <2>2. 2 * i + 1 \in 0..Bound
    BY <1>1, VerificationAssumption DEF Bound
  <2>3. events[i].value \in Values
    BY <1>1, VerificationAssumption
  <2> QED
    BY <2>1, <2>2, <2>3
<1>5. \A e, f \in EventItems : e.at = f.at => e = f
  <2> SUFFICES ASSUME NEW i \in Recorded, NEW k \in Recorded, EventItem(i).at = EventItem(k).at
               PROVE  EventItem(i) = EventItem(k)
    BY DEF EventItems
  <2>1. 2 * i + 1 = 2 * k + 1 /\ i \in Int /\ k \in Int
    BY <1>1, <1>4
  <2>2. i = k
    BY <2>1
  <2> QED
    BY <2>2
<1> QED
  BY <1>3, <1>4, <1>5 DEF AreItems, EventItems

Targets == [value : Values, src : Provenances \cup {"REAL", "none"}, at : 0..Window + 1]

Candidates(t) ==
  (IF action.present THEN {TargetItem(t)} ELSE {})
    \cup (IF action.present /\ OfShipment THEN ShipmentEvents ELSE {})

LEMMA CandidatesTyped ==
  ASSUME TypeOK, NEW t \in Targets
  PROVE  /\ AreItems(Candidates(t)) /\ Candidates(t) \subseteq EventItems \cup {TargetItem(t)}
         /\ Cardinality(Candidates(t)) <= Cardinality(Recorded) + 1
<1>1. AreItems(EventItems) /\ Cardinality(EventItems) <= Cardinality(Recorded)
  BY EventItemsTyped
<1>2. IsFiniteSet(EventItems) /\ Cardinality(EventItems) \in Nat /\ Cardinality(Recorded) \in Nat
  BY <1>1, RecordedTyped, FS_CardinalityType DEF AreItems
<1>3. /\ TargetItem(t).at = 2 * t.at /\ TargetItem(t).at \in 0..Bound
      /\ TargetItem(t).value \in Values
  <2>1. TargetItem(t).at = 2 * t.at /\ TargetItem(t).value = t.value
    BY DEF TargetItem
  <2>2. t.at \in 0..Window + 1 /\ Window \in Nat /\ t.value \in Values
    BY VerificationAssumption DEF Targets
  <2>3. 2 * t.at \in 0..Bound
    BY <2>2 DEF Bound
  <2> QED
    BY <2>1, <2>2, <2>3
<1>4. \A e \in EventItems : e.at # TargetItem(t).at
  <2> SUFFICES ASSUME NEW i \in Recorded PROVE EventItem(i).at # TargetItem(t).at
    BY DEF EventItems
  <2>1. EventItem(i).at = 2 * i + 1 /\ i \in Int /\ t.at \in Int
    BY RecordedTyped DEF EventItem, Instants, Targets
  <2> QED
    BY <1>3, <2>1
<1>5. IsFiniteSet(EventItems \cup {TargetItem(t)})
      /\ Cardinality(EventItems \cup {TargetItem(t)}) <= Cardinality(EventItems) + 1
  BY <1>2, FS_AddElement
<1>6. AreItems(EventItems \cup {TargetItem(t)})
  BY <1>1, <1>3, <1>4, <1>5 DEF AreItems
<1>7. ShipmentEvents \subseteq EventItems
  BY DEF ShipmentEvents, Oldest, EventItems
<1>8. Candidates(t) \subseteq EventItems \cup {TargetItem(t)}
  BY <1>7 DEF Candidates
<1>9. AreItems(Candidates(t))
  BY <1>6, <1>8, SomeOfThem
<1>10. Cardinality(Candidates(t)) <= Cardinality(EventItems \cup {TargetItem(t)})
  BY <1>5, <1>8, FS_Subset
<1>11. Cardinality(Candidates(t)) \in Nat /\ Cardinality(EventItems \cup {TargetItem(t)}) \in Nat
  BY <1>5, <1>9, FS_CardinalityType DEF AreItems
<1> QED
  BY <1>1, <1>2, <1>5, <1>8, <1>9, <1>10, <1>11

LEMMA CollectedTyped ==
  ASSUME TypeOK, NEW t \in Targets
  PROVE  AreItems(Collect(t)) /\ Cardinality(Collect(t)) \in 0..MaxItems
<1>1. Collect(t) = Oldest(Deduplicate(Candidates(t)), MaxItems)
  BY DEF Collect, Candidates
<1>2. AreItems(Deduplicate(Candidates(t)))
  BY CandidatesTyped, SomeOfThem DEF Deduplicate
<1> QED
  BY <1>1, <1>2, OldestBounded, VerificationAssumption

-----------------------------------------------------------------------------
(* The types                                                                 *)

LEMMA ObservedTyped ==
  ASSUME NEW E, AreItems(E)
  PROVE  Observed(E) \in Values
<1> DEFINE told == {e \in E : e.value # "none"
                 /\ (e.op \/ action.type \in {"EXPEDITE_SHIPMENT", "HOLD_SHIPMENT"})}
<1>1. Observed(E) = IF told = {} THEN "none" ELSE Last(told).value
  BY DEF Observed
<1>2. told \subseteq E /\ AreItems(told)
  BY SomeOfThem
<1> HIDE DEF told
<1>3. CASE told = {}
  BY <1>1, <1>3 DEF Values
<1>4. CASE told # {}
  <2>1. Last(told) \in told
    BY <1>2, <1>4, LatestItem DEF Last
  <2> QED
    BY <1>1, <1>2, <1>4, <2>1 DEF AreItems
<1> QED
  BY <1>3, <1>4

LEMMA StatusTyped ==
  ASSUME NEW E
  PROVE  StatusOf(E) \in Statuses
<1>1. Facility(E) \in Statuses
  BY DEF Facility, Statuses
<1>2. Expedited(E) \in Statuses
  BY DEF Expedited, Statuses
<1>3. Held(E) \in Statuses
  BY DEF Held, Statuses
<1>4. Reassigned(E) \in Statuses
  BY DEF Reassigned, Statuses
<1>5. WithoutEvidence \in Statuses
  BY DEF WithoutEvidence, Statuses
<1>6. {"NOT_APPLICABLE", "INSUFFICIENT_EVIDENCE"} \subseteq Statuses
  BY DEF Statuses
<1> QED
  BY <1>1, <1>2, <1>3, <1>4, <1>5, <1>6 DEF StatusOf

LEMMA JudgeTyped ==
  ASSUME TypeOK, NEW t \in Targets
  PROVE  Judge(Collect(t)) \in Verdicts
<1>1. PICK E : E = Collect(t)
  OBVIOUS
<1>2. AreItems(E) /\ Cardinality(E) \in 0..MaxItems
  BY <1>1, CollectedTyped
<1>3. Observed(E) \in Values /\ "none" \in Values
  BY <1>2, ObservedTyped DEF Values
<1>4. PICK st \in Statuses : st = StatusOf(E)
  BY StatusTyped
<1>5. PICK v \in Values : Judge(E).value = v
  BY <1>3 DEF Judge
<1>6. Judge(E).highest \in Sources \cup {"none"}
  BY DEF Judge, Sources
<1>7. /\ Judge(E) = [status |-> st, value |-> v, count |-> Cardinality(E),
                    highest |-> Judge(E).highest]
  BY <1>4, <1>5 DEF Judge
<1>8. PICK h \in Sources \cup {"none"} : Judge(E).highest = h
  BY <1>6
<1>9. Judge(E) = [status |-> st, value |-> v, count |-> Cardinality(E), highest |-> h]
  BY <1>7, <1>8
<1> QED
  BY <1>1, <1>2, <1>9 DEF Verdicts

RunTypes ==
  [step : {"idle", "events", "load", "insert", "update"}, verdict : Verdicts, flag : BOOLEAN,
   target : Targets, alone : BOOLEAN]

LEMMA RestingTyped == NoVerdict \in Verdicts /\ NoRow \in Rows /\ Resting \in RunTypes
<1>1. 0 \in 0..MaxItems /\ 0 \in 0..Window + 1
  BY VerificationAssumption
<1>2. NoVerdict \in Verdicts
  BY <1>1 DEF NoVerdict, Verdicts, Statuses, Values, Sources
<1> QED
  BY <1>1, <1>2 DEF NoRow, Rows, Resting, RunTypes, Targets, Values, Sources

LEMMA TargetTyped ==
  ASSUME TypeOK
  PROVE  target \in Targets
<1>1. target \in [value : Values, src : Provenances \cup {"REAL"}, at : 0..Window + 1]
  BY DEF TypeOK
<1> QED
  BY <1>1 DEF Targets

(* A disturbed run keeps its type.                                           *)
LEMMA DisturbedTyped ==
  ASSUME NEW r \in RunTypes
  PROVE  [r EXCEPT !.alone = FALSE] \in RunTypes
  BY DEF RunTypes

LEMMA DisturbTyped ==
  ASSUME TypeOK, Disturb
  PROVE  run' \in [Verifiers -> RunTypes] /\ settled' \in BOOLEAN
<1>1. \A p \in Verifiers : run[p] \in RunTypes
  BY DEF TypeOK, RunTypes, Targets
<1>2. \A p \in Verifiers : [run[p] EXCEPT !.alone = FALSE] \in RunTypes
  BY <1>1, DisturbedTyped
<1> QED
  BY <1>2 DEF Disturb

(* What a verifier does to the world, to its record and to the row.          *)
LEMMA VerifierTyped ==
  ASSUME TypeOK, UNCHANGED world, stored' \in Rows, settled' \in BOOLEAN,
         run' \in [Verifiers -> RunTypes]
  PROVE  TypeOK'
  BY DEF TypeOK, world, RunTypes, Targets

LEMMA WorldTyped ==
  ASSUME TypeOK, UNCHANGED <<action, stored>>, Disturb, executed' \in BOOLEAN,
         now' \in 0..Window + 1,
         target' \in [value : Values, src : Provenances \cup {"REAL"}, at : 0..Window + 1],
         events' \in [Instants -> Reports \cup {NoReport}]
  PROVE  TypeOK'
<1>1. run' \in [Verifiers -> RunTypes] /\ settled' \in BOOLEAN
  BY DisturbTyped
<1> QED
  BY <1>1 DEF TypeOK, RunTypes, Targets

LEMMA VerifyTyped ==
  ASSUME TypeOK, NEW p \in Verifiers, Verify(p)
  PROVE  TypeOK'
<1>1. run \in [Verifiers -> RunTypes] /\ run[p] \in RunTypes /\ stored \in Rows
  BY DEF TypeOK, RunTypes, Targets
<1>2. CASE CollectState(p)
  <2> DEFINE b == \A o \in Verifiers : At(o, "idle")
             r == [Resting EXCEPT !.step = "events", !.target = target, !.alone = b]
  <2>1. r \in RunTypes
    <3>1. b \in BOOLEAN
      OBVIOUS
    <3> HIDE DEF b
    <3> QED
      BY <3>1, RestingTyped, TargetTyped DEF RunTypes
  <2>2. run' = [q \in Verifiers |-> IF q = p THEN r ELSE [run[q] EXCEPT !.alone = FALSE]]
    BY <1>2 DEF CollectState
  <2> HIDE DEF r
  <2>3. run' \in [Verifiers -> RunTypes]
    BY <1>1, <2>1, <2>2, DisturbedTyped
  <2> QED
    BY <1>1, <1>2, <2>3, VerifierTyped DEF CollectState
<1>3. CASE CollectEvents(p)
  <2>1. PICK v : v = Judge(Collect(run[p].target))
    OBVIOUS
  <2>2. v \in Verdicts
    BY <1>1, <2>1, JudgeTyped DEF RunTypes
  <2> DEFINE r == IF v.status = "ERROR" THEN Resting
                  ELSE [run[p] EXCEPT !.step = "load", !.target = Resting.target, !.verdict = v]
  <2>3. Resting.target \in Targets
    BY RestingTyped DEF RunTypes
  <2>4. r \in RunTypes
    BY <1>1, <2>2, <2>3, RestingTyped DEF RunTypes
  <2>5. run' = [run EXCEPT ![p] = r]
    BY <1>3, <2>1 DEF CollectEvents
  <2> HIDE DEF r
  <2>6. run' \in [Verifiers -> RunTypes]
    BY <1>1, <2>4, <2>5
  <2>7. settled' \in BOOLEAN /\ UNCHANGED <<world, stored>>
    BY <1>3 DEF CollectEvents, TypeOK
  <2> QED
    BY <1>1, <2>6, <2>7, VerifierTyped
<1>4. CASE LoadExisting(p)
  <2> DEFINE w == IF stored = NoRow THEN "insert" ELSE "update"
             r == [run[p] EXCEPT !.step = w, !.flag = stored.verified]
  <2>1. r \in RunTypes
    <3>1. stored.verified \in BOOLEAN /\ w \in {"insert", "update"}
      BY <1>1 DEF Rows
    <3> HIDE DEF w
    <3> QED
      BY <1>1, <3>1 DEF RunTypes
  <2>2. run' = [run EXCEPT ![p] = Resting] \/ run' = [run EXCEPT ![p] = r]
    BY <1>1, <1>4 DEF LoadExisting
  <2> HIDE DEF r
  <2>3. run' \in [Verifiers -> RunTypes]
    BY <1>1, <2>1, <2>2, RestingTyped
  <2>4. settled' \in BOOLEAN /\ UNCHANGED <<world, stored>>
    <3>1. settled \in BOOLEAN /\ run[p].alone \in BOOLEAN
      BY <1>1 DEF TypeOK, RunTypes
    <3>2. settled' = settled \/ settled' = run[p].alone
      BY <1>4 DEF LoadExisting
    <3> QED
      BY <1>4, <3>1, <3>2 DEF LoadExisting
  <2> QED
    BY <1>1, <2>3, <2>4, VerifierTyped
<1>5. CASE Insert(p) \/ Update(p)
  <2>1. run[p].verdict \in Verdicts /\ Verified(run[p].verdict) \in BOOLEAN
    BY <1>1 DEF RunTypes, Verified
  <2>2. stored.verdict \in Verdicts /\ stored.verified \in BOOLEAN
    BY <1>1 DEF Rows
  <2>3. stored' \in Rows
    <3>1. CASE Insert(p)
      <4>1. stored' = stored
              \/ stored' = [verdict |-> run[p].verdict, verified |-> Verified(run[p].verdict)]
        BY <3>1 DEF Insert
      <4> QED
        BY <1>1, <2>1, <4>1 DEF Rows
    <3>2. CASE Update(p)
      <4>1. PICK b \in BOOLEAN : stored' = [verdict |-> run[p].verdict, verified |-> b]
        BY <2>1, <2>2, <3>2 DEF Update
      <4> QED
        BY <2>1, <4>1 DEF Rows
    <3> QED
      BY <1>5, <3>1, <3>2
  <2>4. run' = [run EXCEPT ![p] = Resting] /\ UNCHANGED world /\ settled' \in BOOLEAN
    BY <1>5 DEF Insert, Update, Finish
  <2>5. run' \in [Verifiers -> RunTypes]
    BY <1>1, <2>4, RestingTyped
  <2> QED
    BY <2>3, <2>4, <2>5, VerifierTyped
<1> QED
  BY <1>2, <1>3, <1>4, <1>5 DEF Verify

LEMMA NextTyped == TypeOK /\ [Next]_vars => TypeOK'
<1> SUFFICES ASSUME TypeOK, [Next]_vars PROVE TypeOK'
  OBVIOUS
<1> DEFINE T == [value : Values, src : Provenances \cup {"REAL"}, at : 0..Window + 1]
<1>1. CASE UNCHANGED vars
  BY <1>1 DEF TypeOK, vars
<1>2. ASSUME NEW p \in Verifiers, Verify(p) PROVE TypeOK'
  BY <1>2, VerifyTyped
<1>3. CASE Execute
  <2>1. target \in T
    BY DEF TypeOK
  <2>2. Effect \in Values
    BY <2>1 DEF Effect, Values
  <2>3. 1 \in 0..Window + 1
    BY VerificationAssumption
  <2>4. target' \in T
    BY <1>3, <2>1, <2>2, <2>3 DEF Execute
  <2> QED
    BY <1>3, <2>3, <2>4 DEF Execute, TypeOK
<1>4. CASE Tick
  <2>1. now' \in 0..Window + 1
    BY <1>4, VerificationAssumption DEF Tick, TypeOK
  <2> QED
    BY <1>4, <2>1, WorldTyped DEF Tick, TypeOK
<1>5. ASSUME NEW v \in Values \ {"none"}, ChangeTarget(v) PROVE TypeOK'
  <2>1. target' \in T
    BY <1>5 DEF ChangeTarget, TypeOK
  <2> QED
    BY <1>5, <2>1, WorldTyped DEF ChangeTarget, TypeOK
<1>6. ASSUME NEW i \in Instants, NEW r \in Reports, Report(i, r) PROVE TypeOK'
  <2>1. events' \in [Instants -> Reports \cup {NoReport}]
    BY <1>6 DEF Report, TypeOK
  <2> QED
    BY <1>6, <2>1, WorldTyped DEF Report, TypeOK
<1> QED
  BY <1>1, <1>2, <1>3, <1>4, <1>5, <1>6 DEF Next

LEMMA InitTyped == Init => TypeOK
<1> SUFFICES ASSUME Init PROVE TypeOK
  OBVIOUS
<1>1. 0 \in 0..Window + 1
  BY VerificationAssumption
<1>2. target \in [value : Values, src : Provenances \cup {"REAL"}, at : 0..Window + 1]
  BY <1>1 DEF Init, Values
<1>3. run \in [Verifiers -> RunTypes] /\ stored \in Rows
  BY RestingTyped DEF Init
<1> QED
  BY <1>1, <1>2, <1>3 DEF Init, TypeOK, RunTypes, Targets

(* Every variable keeps its type, and no verdict rests on more items than    *)
(* the collector's bound, however many messages there are.                   *)
THEOREM TypeCorrect == Spec => []TypeOK
  BY InitTyped, NextTyped, PTL DEF Spec

-----------------------------------------------------------------------------
(* The verdict on the evidence there is                                      *)

CurrentVerdict == Judge(Collect(target))

(* A run that nothing disturbed runs alone, on the row as it is, to the      *)
(* verdict on the evidence as it is; before the execution there is no run.   *)
Undisturbed ==
  \A p \in Verifiers : run[p].alone /\ run[p].step # "idle" =>
    /\ \A q \in Verifiers : q # p => run[q].step = "idle"
    /\ run[p].step = "events" => run[p].target = target
    /\ run[p].step \in {"load", "insert", "update"} => run[p].verdict = CurrentVerdict

NothingBefore ==
  ~executed => ~settled /\ \A p \in Verifiers : run[p].step = "idle"

CurrentInv == TypeOK /\ Undisturbed /\ NothingBefore /\ VerdictIsCurrent

(* A verdict is a function of the world.                                     *)
LEMMA JudgeOfWorld ==
  ASSUME UNCHANGED world, NEW t
  PROVE  Judge(Collect(t))' = Judge(Collect(t))
<1>1. action' = action /\ events' = events /\ now' = now
  BY DEF world
<1>2. OfShipment' = OfShipment /\ Recorded' = Recorded
  BY <1>1 DEF OfShipment, Recorded
<1>3. \A i : EventItem(i)' = EventItem(i)
  BY <1>1 DEF EventItem
<1>4. ShipmentEvents' = ShipmentEvents
  BY <1>1, <1>2, <1>3 DEF ShipmentEvents
<1>5. PICK E : E = Collect(t)
  OBVIOUS
<1>6. Collect(t)' = E
  BY <1>1, <1>2, <1>4, <1>5 DEF Collect
<1>7. Observed(E)' = Observed(E)
  BY <1>1 DEF Observed
<1>8. WithoutEvidence' = WithoutEvidence
  BY <1>1 DEF WithoutEvidence
<1>9. /\ Facility(E)' = Facility(E) /\ Expedited(E)' = Expedited(E)
      /\ Held(E)' = Held(E) /\ Reassigned(E)' = Reassigned(E)
  BY <1>7 DEF Facility, Expedited, Held, Reassigned
<1>10. StatusOf(E)' = StatusOf(E)
  BY <1>1, <1>8, <1>9 DEF StatusOf
<1>11. Judge(E)' = Judge(E)
  BY <1>1, <1>7, <1>10 DEF Judge
<1> QED
  BY <1>5, <1>6, <1>11

LEMMA CurrentOfWorld ==
  ASSUME UNCHANGED world
  PROVE  CurrentVerdict' = CurrentVerdict
<1>1. PICK t : t = target
  OBVIOUS
<1>2. target' = t
  BY <1>1 DEF world
<1>3. Judge(Collect(t))' = Judge(Collect(t))
  BY JudgeOfWorld
<1> QED
  BY <1>1, <1>2, <1>3 DEF CurrentVerdict

(* A step of a run under way: no other run is undisturbed.                   *)
LEMMA AdvanceKeeps ==
  ASSUME CurrentInv, NEW p \in Verifiers, run[p].step # "idle", UNCHANGED world, NEW r,
         run' = [run EXCEPT ![p] = r],
         r.step # "idle" /\ r.alone =>
           /\ run[p].alone /\ r.step # "events"
           /\ r.verdict = CurrentVerdict
  PROVE  Undisturbed' /\ executed'
<1>1. run'[p] = r /\ \A q \in Verifiers : q # p => run'[q] = run[q]
  BY DEF CurrentInv, TypeOK
<1>2. executed'
  BY DEF CurrentInv, NothingBefore, world
<1>3. target' = target /\ CurrentVerdict' = CurrentVerdict
  BY CurrentOfWorld DEF world
<1>4. \A q \in Verifiers : q # p => ~(run[q].alone /\ run[q].step # "idle")
  BY DEF CurrentInv, Undisturbed
<1>5. ASSUME run'[p].alone, run'[p].step # "idle"
      PROVE  /\ \A q \in Verifiers : q # p => run'[q].step = "idle"
             /\ run'[p].step # "events" /\ run'[p].verdict = CurrentVerdict'
  BY <1>1, <1>3, <1>5 DEF CurrentInv, Undisturbed
<1>6. \A q \in Verifiers : q # p => ~(run'[q].alone /\ run'[q].step # "idle")
  BY <1>1, <1>4
<1>7. Undisturbed'
  BY <1>5, <1>6 DEF Undisturbed
<1> QED
  BY <1>2, <1>7

LEMMA VerifyCurrent ==
  ASSUME CurrentInv, NEW p \in Verifiers, Verify(p)
  PROVE  Undisturbed' /\ NothingBefore' /\ VerdictIsCurrent'
<1>1. UNCHANGED world /\ CurrentVerdict' = CurrentVerdict
  BY CurrentOfWorld DEF Verify, CollectState, CollectEvents, LoadExisting, Insert, Update
<1>2. CASE CollectState(p)
  <2> DEFINE b == \A o \in Verifiers : At(o, "idle")
             r == [Resting EXCEPT !.step = "events", !.target = target, !.alone = b]
  <2>1. r.step = "events" /\ r.target = target /\ r.alone = b
    BY DEF Resting
  <2>2. run'[p] = r
    BY <1>2 DEF CollectState
  <2>3. \A q \in Verifiers : run[q] \in RunTypes
    BY DEF CurrentInv, TypeOK, RunTypes, Targets
  <2>4. ASSUME NEW q \in Verifiers, q # p
        PROVE  run'[q].step = run[q].step /\ ~run'[q].alone
    <3>1. run'[q] = [run[q] EXCEPT !.alone = FALSE]
      BY <1>2, <2>4 DEF CollectState
    <3> QED
      BY <2>3, <3>1 DEF RunTypes
  <2> HIDE DEF r
  <2>5. b => \A q \in Verifiers : run[q].step = "idle"
    BY DEF At
  <2> HIDE DEF b
  <2>6. Undisturbed'
    <3>1. target' = target
      BY <1>1 DEF world
    <3>2. run'[p].alone => \A q \in Verifiers : q # p => run'[q].step = "idle"
      BY <2>1, <2>2, <2>4, <2>5
    <3> QED
      BY <2>1, <2>2, <2>4, <3>1, <3>2 DEF Undisturbed
  <2>7. ~settled' /\ executed'
    <3>1. settled' = FALSE
      BY <1>2 DEF CollectState
    <3>2. executed
      BY <1>2 DEF CollectState
    <3>3. executed' = executed
      BY <1>1 DEF world
    <3> QED
      BY <3>1, <3>2, <3>3
  <2> QED
    BY <2>6, <2>7 DEF NothingBefore, VerdictIsCurrent
<1>3. CASE CollectEvents(p)
  <2>1. PICK v : v = Judge(Collect(run[p].target))
    OBVIOUS
  <2> DEFINE r == IF v.status = "ERROR" THEN Resting
                  ELSE [run[p] EXCEPT !.step = "load", !.target = Resting.target, !.verdict = v]
  <2>2. run' = [run EXCEPT ![p] = r] /\ UNCHANGED <<stored, settled>> /\ run[p].step = "events"
    BY <1>3, <2>1 DEF CollectEvents, At
  <2>3. run[p] \in RunTypes
    BY DEF CurrentInv, TypeOK, RunTypes, Targets
  <2>4. r.step # "idle" => r.step = "load" /\ r.alone = run[p].alone /\ r.verdict = v
    BY <2>3 DEF RunTypes, Resting
  <2> HIDE DEF r
  <2>5. run[p].alone => v = CurrentVerdict
    BY <2>1, <2>2 DEF CurrentInv, Undisturbed, CurrentVerdict
  <2>6. Undisturbed' /\ executed'
    BY <1>1, <2>2, <2>4, <2>5, AdvanceKeeps
  <2> QED
    BY <1>1, <2>2, <2>6 DEF NothingBefore, VerdictIsCurrent, CurrentInv, CurrentVerdict
<1>4. CASE LoadExisting(p)
  <2> DEFINE w == IF stored = NoRow THEN "insert" ELSE "update"
             r == [run[p] EXCEPT !.step = w, !.flag = stored.verified]
  <2>1. run[p].step = "load" /\ stored' = stored
    BY <1>4 DEF LoadExisting, At
  <2>2. run[p] \in RunTypes /\ run \in [Verifiers -> RunTypes]
    BY DEF CurrentInv, TypeOK, RunTypes, Targets
  <2>3. run[p].alone => run[p].verdict = CurrentVerdict
    BY <2>1 DEF CurrentInv, Undisturbed
  <2>4. CASE Same(stored.verdict, run[p].verdict)
    <3>1. run' = [run EXCEPT ![p] = Resting] /\ settled' = run[p].alone
      BY <1>4, <2>4 DEF LoadExisting
    <3>2. Resting.step = "idle"
      BY DEF Resting
    <3>3. Undisturbed' /\ executed'
      BY <1>1, <2>1, <3>1, <3>2, AdvanceKeeps
    <3>4. VerdictIsCurrent'
      BY <1>1, <2>1, <2>3, <2>4, <3>1 DEF VerdictIsCurrent, CurrentVerdict, Same
    <3> QED
      BY <3>3, <3>4 DEF NothingBefore
  <2>5. CASE ~Same(stored.verdict, run[p].verdict)
    <3>1. run' = [run EXCEPT ![p] = r] /\ settled' = settled
      BY <1>4, <2>2, <2>5 DEF LoadExisting
    <3>2. /\ r.step = w /\ r.alone = run[p].alone /\ r.verdict = run[p].verdict
      BY <2>2 DEF RunTypes
    <3>3. w # "events"
      OBVIOUS
    <3> HIDE DEF r, w
    <3>4. Undisturbed' /\ executed'
      BY <1>1, <2>1, <2>3, <3>1, <3>2, <3>3, AdvanceKeeps
    <3> QED
      BY <1>1, <2>1, <3>1, <3>4 DEF NothingBefore, VerdictIsCurrent, CurrentInv, CurrentVerdict
  <2> QED
    BY <2>4, <2>5
<1>5. CASE Insert(p) \/ Update(p)
  <2>1. run[p].step \in {"insert", "update"} /\ run' = [run EXCEPT ![p] = Resting]
    BY <1>5 DEF Insert, Update, Finish, At
  <2>2. Resting.step = "idle"
    BY DEF Resting
  <2>3. Undisturbed' /\ executed'
    BY <1>1, <2>1, <2>2, AdvanceKeeps
  <2>4. run[p].alone => run[p].verdict = CurrentVerdict
    BY <2>1 DEF CurrentInv, Undisturbed
  <2>5. settled' => run[p].alone /\ stored'.verdict = run[p].verdict
    <3>1. CASE Insert(p)
      <4>1. settled' = ((stored = NoRow) /\ run[p].alone)
        BY <3>1 DEF Insert, Finish
      <4>2. stored = NoRow => stored'.verdict = run[p].verdict
        BY <3>1 DEF Insert
      <4> QED
        BY <4>1, <4>2
    <3>2. CASE Update(p)
      <4>1. settled' = (TRUE /\ run[p].alone)
        BY <3>2 DEF Update, Finish
      <4>2. stored'.verdict = run[p].verdict
        BY <3>2 DEF Update
      <4> QED
        BY <4>1, <4>2
    <3> QED
      BY <1>5, <3>1, <3>2
  <2>6. VerdictIsCurrent'
    BY <1>1, <2>4, <2>5 DEF VerdictIsCurrent, CurrentVerdict
  <2> QED
    BY <2>3, <2>6 DEF NothingBefore
<1> QED
  BY <1>2, <1>3, <1>4, <1>5 DEF Verify

LEMMA NextCurrent == CurrentInv /\ [Next]_vars => CurrentInv'
<1> SUFFICES ASSUME CurrentInv, [Next]_vars PROVE CurrentInv'
  OBVIOUS
<1>1. TypeOK'
  BY NextTyped DEF CurrentInv
<1>2. ASSUME Disturb, executed, executed' = executed
      PROVE  Undisturbed' /\ NothingBefore' /\ VerdictIsCurrent'
  <2>1. \A p \in Verifiers : run[p] \in RunTypes
    BY DEF CurrentInv, TypeOK, RunTypes, Targets
  <2>2. \A p \in Verifiers : ~run'[p].alone
    BY <1>2, <2>1 DEF Disturb, RunTypes
  <2>3. ~settled'
    BY <1>2 DEF Disturb
  <2> QED
    BY <1>2, <2>2, <2>3 DEF Undisturbed, NothingBefore, VerdictIsCurrent
<1>3. ASSUME NEW p \in Verifiers, Verify(p) PROVE CurrentInv'
  BY <1>1, <1>3, VerifyCurrent DEF CurrentInv
<1>4. CASE Execute
  BY <1>1, <1>4 DEF Execute, CurrentInv, NothingBefore, Undisturbed, VerdictIsCurrent
<1>5. CASE Tick
  BY <1>1, <1>2, <1>5 DEF Tick, CurrentInv
<1>6. ASSUME NEW v, ChangeTarget(v) PROVE CurrentInv'
  BY <1>1, <1>2, <1>6 DEF ChangeTarget, CurrentInv
<1>7. ASSUME NEW i, NEW r, Report(i, r) PROVE CurrentInv'
  BY <1>1, <1>2, <1>7 DEF Report, CurrentInv
<1>8. CASE UNCHANGED vars
  <2>1. UNCHANGED <<executed, target, stored, run, settled>> /\ CurrentVerdict' = CurrentVerdict
    BY <1>8, CurrentOfWorld DEF vars, world
  <2> QED
    BY <1>1, <2>1 DEF CurrentInv, Undisturbed, NothingBefore, VerdictIsCurrent, CurrentVerdict
<1> QED
  BY <1>3, <1>4, <1>5, <1>6, <1>7, <1>8 DEF Next

LEMMA InitCurrent == Init => CurrentInv
<1> SUFFICES ASSUME Init PROVE CurrentInv
  OBVIOUS
<1>1. \A p \in Verifiers : run[p].step = "idle"
  BY DEF Init, Resting
<1>2. ~settled
  BY DEF Init
<1> QED
  BY <1>1, <1>2, InitTyped DEF CurrentInv, Undisturbed, NothingBefore, VerdictIsCurrent

(* After an undisturbed run the row holds the verdict on the evidence there  *)
(* is: what an earlier, overlapping run of persist stored does not survive.  *)
THEOREM VerdictUpToDate == Spec => []VerdictIsCurrent
<1>1. CurrentInv => VerdictIsCurrent
  BY DEF CurrentInv
<1> QED
  BY <1>1, InitCurrent, NextCurrent, PTL DEF Spec

-----------------------------------------------------------------------------
(* Refusals                                                                  *)

(* There are reports of a shipment only.                                     *)
ReportsOfShipment == Recorded # {} => action.present /\ OfShipment

(* The reports of earlier instants, which are all that precede a report.     *)
Before(i) == {k \in Recorded : k < i}

LEMMA BeforeTyped ==
  ASSUME TypeOK, NEW i \in Recorded, NEW k \in Recorded, k <= i
  PROVE  /\ IsFiniteSet(Before(i)) /\ Cardinality(Before(i)) \in Nat
         /\ Cardinality(Before(k)) \in Nat /\ Cardinality(Before(k)) <= Cardinality(Before(i))
<1>1. IsFiniteSet(Recorded) /\ Recorded \subseteq Nat
  BY RecordedTyped, VerificationAssumption DEF Instants
<1>2. Before(i) \subseteq Recorded /\ Before(k) \subseteq Before(i)
  <2>1. ASSUME NEW j \in Recorded, j < k PROVE j < i
    <3>1. j \in Nat /\ k \in Nat /\ i \in Nat
      BY <1>1
    <3> QED
      BY <2>1, <3>1
  <2> QED
    BY <2>1 DEF Before
<1>3. IsFiniteSet(Before(i))
  BY <1>1, <1>2, FS_Subset
<1>4. IsFiniteSet(Before(k)) /\ Cardinality(Before(k)) <= Cardinality(Before(i))
  BY <1>2, <1>3, FS_Subset
<1> QED
  BY <1>3, <1>4, FS_CardinalityType

LEMMA EarlierReports ==
  ASSUME TypeOK, NEW i \in Recorded
  PROVE  /\ IsFiniteSet(Earlier(EventItems, EventItem(i).at))
         /\ Cardinality(Earlier(EventItems, EventItem(i).at)) \in Nat
         /\ Cardinality(Earlier(EventItems, EventItem(i).at)) <= Cardinality(Before(i))
<1>1. Recorded \subseteq Nat
  BY RecordedTyped, VerificationAssumption DEF Instants
<1>2. Earlier(EventItems, EventItem(i).at) = {EventItem(k) : k \in Before(i)}
  <2>1. \A k \in Recorded : EventItem(k).at < EventItem(i).at <=> k < i
    <3> SUFFICES ASSUME NEW k \in Recorded
                 PROVE  EventItem(k).at < EventItem(i).at <=> k < i
      OBVIOUS
    <3>1. EventItem(k).at = 2 * k + 1 /\ EventItem(i).at = 2 * i + 1 /\ k \in Nat /\ i \in Nat
      BY <1>1 DEF EventItem
    <3> QED
      BY <3>1
  <2> QED
    BY <2>1 DEF Earlier, EventItems, Before
<1> DEFINE g == [k \in Before(i) |-> EventItem(k)]
           T == {EventItem(k) : k \in Before(i)}
<1>3. g \in Surjection(Before(i), T)
  BY DEF Surjection
<1>4. IsFiniteSet(Before(i))
  BY <1>1, BeforeTyped
<1>5. IsFiniteSet(T) /\ Cardinality(T) <= Cardinality(Before(i))
  <2> HIDE DEF g, T
  <2> QED
    BY <1>3, <1>4, FS_Surjection
<1> QED
  BY <1>2, <1>5, FS_CardinalityType

(* A report with few enough before it is returned by the query, and survives *)
(* the bound on evidence if it survives the removal of duplicates.           *)
LEMMA ReportRead ==
  ASSUME TypeOK, action.present, OfShipment, NEW i \in Recorded,
         Cardinality(Before(i)) + 1 < MaxItems,
         action.before + Cardinality(Before(i)) < 2 * MaxItems
  PROVE  /\ EventItem(i) \in Candidates(target)
         /\ EventItem(i) \in Deduplicate(Candidates(target)) => EventItem(i) \in Collect(target)
<1>1. action.before \in Nat /\ MaxItems \in Nat /\ Cardinality(Before(i)) \in Nat
  <2>1. i <= i
    BY RecordedTyped, VerificationAssumption DEF Instants
  <2> QED
    BY <2>1, BeforeTyped, VerificationAssumption DEF TypeOK
<1>2. PICK few : few = Earlier(EventItems, EventItem(i).at)
  OBVIOUS
<1>3. IsFiniteSet(few) /\ Cardinality(few) \in Nat /\ Cardinality(few) <= Cardinality(Before(i))
  BY <1>2, EarlierReports
<1>4. EventItem(i) \in ShipmentEvents
  <2>1. EventItem(i) \in EventItems
    BY DEF EventItems
  <2>2. PICK n : n = 2 * MaxItems - action.before
    OBVIOUS
  <2>3. Cardinality(few) < n /\ ~(action.before >= 2 * MaxItems)
    BY <1>1, <1>3, <2>2
  <2>4. EventItem(i) \in Oldest(EventItems, n)
    BY <1>2, <2>1, <2>3 DEF Oldest
  <2> QED
    BY <2>2, <2>3, <2>4 DEF ShipmentEvents, EventItems
<1>5. EventItem(i) \in Candidates(target)
  BY <1>4 DEF Candidates
<1>6. ASSUME EventItem(i) \in Deduplicate(Candidates(target))
      PROVE  EventItem(i) \in Collect(target)
  <2>1. PICK D : D = Deduplicate(Candidates(target))
    OBVIOUS
  <2>2. D \subseteq EventItems \cup {TargetItem(target)}
    BY <2>1, CandidatesTyped, TargetTyped DEF Deduplicate
  <2>3. Earlier(D, EventItem(i).at) \subseteq few \cup {TargetItem(target)}
    BY <1>2, <2>2 DEF Earlier
  <2>4. /\ IsFiniteSet(few \cup {TargetItem(target)})
        /\ Cardinality(few \cup {TargetItem(target)}) <= Cardinality(few) + 1
    <3>1. IsFiniteSet(few) /\ Cardinality(few) \in Nat
      BY <1>3
    <3> QED
      BY <3>1, FS_AddElement
  <2>5. /\ IsFiniteSet(Earlier(D, EventItem(i).at))
        /\ Cardinality(Earlier(D, EventItem(i).at)) <= Cardinality(few \cup {TargetItem(target)})
    BY <2>3, <2>4, FS_Subset
  <2>6. /\ Cardinality(Earlier(D, EventItem(i).at)) \in Nat
        /\ Cardinality(few \cup {TargetItem(target)}) \in Nat
    BY <2>4, <2>5, FS_CardinalityType
  <2>7. Cardinality(Earlier(D, EventItem(i).at)) < MaxItems
    BY <1>1, <1>3, <2>4, <2>5, <2>6
  <2>8. EventItem(i) \in Oldest(D, MaxItems)
    BY <1>6, <2>1, <2>7 DEF Oldest
  <2> QED
    BY <2>1, <2>8 DEF Collect, Candidates
<1> QED
  BY <1>5, <1>6

(* Of several reports with one reference the first is kept, and they all say *)
(* the same; so a refusal with few enough before it is among the evidence.   *)
LEMMA RefusalRead ==
  ASSUME TypeOK, action.present, OfShipment, NEW i \in Recorded, events[i].says = "refused",
         Cardinality(Before(i)) + 1 < MaxItems,
         action.before + Cardinality(Before(i)) < 2 * MaxItems
  PROVE  Says(Collect(target), "refused")
<1>1. PICK C : C = Candidates(target)
  OBVIOUS
<1>2. AreItems(C) /\ C \subseteq EventItems \cup {TargetItem(target)}
  BY <1>1, CandidatesTyped, TargetTyped
<1>3. EventItem(i) \in C
  BY <1>1, ReportRead
<1>4. \A k \in Recorded : /\ EventItem(k).ref = events[k].ref /\ EventItem(k).at = 2 * k + 1
                           /\ EventItem(k).says = events[k].says /\ events[k] \in Reports
                           /\ k \in Nat
  BY RecordedTyped, VerificationAssumption DEF EventItem, Instants
<1>5. CASE events[i].ref = NoRef
  <2>1. EventItem(i) \in Deduplicate(C)
    BY <1>3, <1>4, <1>5 DEF Deduplicate
  <2> QED
    BY <1>1, <1>4, <2>1, ReportRead DEF Says
<1>6. CASE events[i].ref # NoRef
  <2> DEFINE D == {e \in C : e.ref = events[i].ref}
  <2>1. D # {} /\ \A e \in D : e.at \in Nat
    BY <1>2, <1>3, <1>4 DEF AreItems
  <2>2. PICK e \in D : \A f \in D : e.at <= f.at
    <3> HIDE DEF D
    <3> QED
      BY <2>1, EarliestItem
  <2>3. PICK k \in Recorded : e = EventItem(k)
    BY <1>2, <1>6, <2>2 DEF EventItems, TargetItem
  <2>4. events[k] = events[i]
    BY <1>4, <1>6, <2>2, <2>3, VerificationAssumption
  <2>5. k <= i
    <3>1. e.at <= EventItem(i).at
      BY <1>3, <1>4, <2>2
    <3> QED
      BY <1>4, <2>3, <3>1
  <2>6. ASSUME NEW f \in Earlier(C, e.at) PROVE f.ref # e.ref
    <3>1. f \in C /\ f.at < e.at /\ f.at \in Int /\ e.at \in Int
      BY <1>2, <2>2 DEF Earlier, AreItems
    <3> QED
      BY <2>2, <3>1
  <2>7. EventItem(k) \in Deduplicate(C)
    BY <2>2, <2>3, <2>6 DEF Deduplicate
  <2>8. /\ Cardinality(Before(k)) + 1 < MaxItems
        /\ action.before + Cardinality(Before(k)) < 2 * MaxItems
    <3>1. /\ Cardinality(Before(k)) \in Nat /\ Cardinality(Before(i)) \in Nat
          /\ Cardinality(Before(k)) <= Cardinality(Before(i))
      BY <2>5, BeforeTyped
    <3>2. action.before \in Nat /\ MaxItems \in Nat
      BY VerificationAssumption DEF TypeOK
    <3> QED
      BY <3>1, <3>2
  <2>9. EventItem(k) \in Collect(target)
    BY <1>1, <2>7, <2>8, ReportRead
  <2> QED
    BY <1>4, <2>4, <2>9 DEF Says
<1> QED
  BY <1>5, <1>6

LEMMA RefusalJudged ==
  ASSUME NEW E, action.type \in {"SHIPMENT_REROUTE", "CARRIER_REALLOCATION"},
         Judge(E).status = "VERIFIED"
  PROVE  ~Says(E, "refused")
<1>1. StatusOf(E) = "VERIFIED"
  BY DEF Judge
<1>2. Reassigned(E) = "VERIFIED"
  BY <1>1 DEF StatusOf, WithoutEvidence
<1> QED
  BY <1>2 DEF Reassigned

LEMMA NextReports ==
  ASSUME ReportsOfShipment, [Next]_vars
  PROVE  ReportsOfShipment'
<1>1. CASE action' = action /\ events' = events
  BY <1>1 DEF ReportsOfShipment, Recorded, OfShipment
<1>2. ASSUME NEW i, NEW r, Report(i, r) PROVE ReportsOfShipment'
  BY <1>2 DEF Report, ReportsOfShipment, OfShipment
<1>3. ASSUME NEW p \in Verifiers, Verify(p) PROVE action' = action /\ events' = events
  <2>1. UNCHANGED world
    BY <1>3 DEF Verify, CollectState, CollectEvents, LoadExisting, Insert, Update
  <2> QED
    BY <2>1 DEF world
<1>4. CASE Execute \/ Tick \/ (\E v \in Values \ {"none"} : ChangeTarget(v))
  <2>1. action' = action /\ events' = events
    BY <1>4 DEF Execute, Tick, ChangeTarget
  <2> QED
    BY <1>1, <2>1
<1>5. CASE UNCHANGED vars
  <2>1. action' = action /\ events' = events
    BY <1>5 DEF vars
  <2> QED
    BY <1>1, <2>1
<1> QED
  BY <1>1, <1>2, <1>3, <1>4, <1>5 DEF Next

(* After an undisturbed run a reroute or a change of carrier that is called  *)
(* verified was refused by nobody among the oldest reports, those that a     *)
(* verifier reads, whatever else was reported and in whatever order.         *)
THEOREM RefusalStands == Spec => []RefusalRespected
<1>1. Init => ReportsOfShipment
  BY DEF Init, ReportsOfShipment, Recorded
<1>2. CurrentInv /\ ReportsOfShipment => RefusalRespected
  <2> SUFFICES ASSUME CurrentInv, ReportsOfShipment, settled,
                      stored.verdict.status = "VERIFIED",
                      action.type \in {"SHIPMENT_REROUTE", "CARRIER_REALLOCATION"},
                      NEW i \in Recorded, events[i].says = "refused"
               PROVE  \/ Cardinality(Before(i)) + 1 >= MaxItems
                      \/ action.before + Cardinality(Before(i)) >= 2 * MaxItems
    BY DEF RefusalRespected, Before
  <2>1. ~Says(Collect(target), "refused")
    <3>1. Judge(Collect(target)).status = "VERIFIED"
      BY DEF CurrentInv, VerdictIsCurrent
    <3> QED
      BY <3>1, RefusalJudged
  <2>2. ~(/\ Cardinality(Before(i)) + 1 < MaxItems
          /\ action.before + Cardinality(Before(i)) < 2 * MaxItems)
    BY <2>1, RefusalRead DEF CurrentInv, ReportsOfShipment
  <2>3. /\ action.before \in Nat /\ MaxItems \in Nat
        /\ Cardinality(Before(i)) \in Nat
    <3>1. TypeOK /\ i <= i
      BY RecordedTyped, VerificationAssumption DEF CurrentInv, Instants
    <3> QED
      BY <3>1, BeforeTyped, VerificationAssumption DEF TypeOK
  <2> QED
    BY <2>2, <2>3
<1>3. ReportsOfShipment /\ [Next]_vars => ReportsOfShipment'
  BY NextReports
<1> QED
  BY <1>1, <1>2, <1>3, InitCurrent, NextCurrent, PTL DEF Spec
=============================================================================

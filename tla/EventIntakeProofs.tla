--------------------------- MODULE EventIntakeProofs ---------------------------
(* What becomes of the events of scheduled fetches, for any number of        *)
(* threads, jobs and batches, any time to live and any capacity of the raw   *)
(* store: none is stored twice within a time to live, and none is discarded  *)
(* but for a copy that was kept.                                             *)
EXTENDS EventIntake, FiniteSetTheorems, SequenceTheorems, TLAPS

-----------------------------------------------------------------------------
(* The inductive invariant                                                   *)

\* The fingerprint under which a copy was recorded.
FingerprintOf(c) ==
  [org |-> c.org,
   provider |-> c.event.provider,
   by |-> IF c.event.id # None THEN "event_id" ELSE "payload",
   value |-> IF c.event.id # None THEN c.event.id ELSE c.event.content]

\* A thread has a job exactly while it executes it; what it accepted and what
\* it discarded are of this execution.
ThreadsBusy ==
  \A r \in Runs :
    /\ run[r].step = "idle" <=> run[r].job = NoJob
    /\ run[r].step = "fetch" =>
         run[r].accepted = <<>> /\ run[r].duplicates = {}

\* The events a fetch brought are its tenant's, or name no tenant.
Addressed ==
  \A r \in Runs : \A i \in DOMAIN run[r].rest :
    run[r].job.org # None => run[r].rest[i].org \in {None, run[r].job.org}

Counters ==
  /\ CountedOnce
  /\ \A j \in Jobs : job[j].total <= begun /\ job[j].consecutive <= job[j].failed

\* A fingerprint stands for a copy that has it, for a ttl from its recording.
SeenStandsFor ==
  \A f \in Fingerprints : seen[f] # Unseen =>
    /\ FingerprintOf(seen[f].original) = f
    /\ seen[f].until = seen[f].original.at + Ttl

\* The copies that the execution of r has accepted and not stored yet.
Holding(r) == IF run[r].step = "record" THEN run[r].accepted ELSE <<>>

\* Of each copy in s or a later one, the ledger knows.
Covered(s) ==
  \A i \in DOMAIN s :
    /\ FingerprintOf(s[i]) \in Fingerprints
    /\ s[i].at + Ttl <= seen[FingerprintOf(s[i])].until

AllCovered == Covered(store) /\ \A r \in Runs : Covered(Holding(r))

FarApart(c, d) == c.at + Ttl <= d.at \/ d.at + Ttl <= c.at

DistinctIn(s) ==
  \A i, k \in DOMAIN s : i # k /\ SameReport(s[i], s[k]) => FarApart(s[i], s[k])

DistinctAcross(s, t) ==
  \A i \in DOMAIN s, k \in DOMAIN t : SameReport(s[i], t[k]) => FarApart(s[i], t[k])

AllDistinct ==
  /\ DistinctIn(store)
  /\ \A r \in Runs : DistinctIn(Holding(r)) /\ DistinctAcross(store, Holding(r))
  /\ \A r, q \in Runs : r # q => DistinctAcross(Holding(r), Holding(q))

\* What a fingerprint stands for is stored, on its way there, or given up.
OriginalsKept ==
  \A f \in Fingerprints : seen[f] # Unseen =>
    \/ seen[f].original \in Range(store) \cup evicted \cup forsaken
    \/ \E r \in Runs : seen[f].original \in Range(Holding(r))

DuplicatesFounded ==
  \A r \in Runs : \A d \in run[r].duplicates :
    SameReport(d.copy, d.of) /\ d.copy.at < d.of.at + Ttl

JobsInv == ThreadsBusy /\ Addressed /\ Counters /\ FlagMeansRun

LedgerInv == SeenStandsFor /\ AllCovered /\ AllDistinct /\ OriginalsKept

IInv == TypeOK /\ JobsInv /\ LedgerInv /\ DuplicatesFounded

-----------------------------------------------------------------------------
(* Lemmas about the operators of the module                                  *)

LEMMA IdleTyped == Idle \in Executions
<1>1. <<>> \in Seq(Events) /\ <<>> \in Seq(Copies)
  BY EmptySeq
<1> QED
  BY <1>1 DEF Idle, Executions, Steps, Statuses

LEMMA BatchTyped ==
  ASSUME NEW b \in Batches
  PROVE  b \in Seq(Events) /\ Range(b) \subseteq Events
<1>1. Range(b) \subseteq Events
  BY DEF Events
<1>2. b \in Seq(Range(b))
  BY IntakeAssumption
<1> QED
  BY <1>1, <1>2, SeqMonotonic

LEMMA CopyTyped ==
  ASSUME NEW j \in Jobs, NEW e \in Events, now \in 0..MaxTime
  PROVE  Copy(j.org, e) \in Copies
  BY DEF Copy, Copies

LEMMA FingerprintTyped ==
  ASSUME NEW j \in Jobs, NEW e \in Events
  PROVE  Fingerprint(j.org, e) \in Fingerprints
  BY DEF Fingerprints

\* The ledger looks a report up under the fingerprint of its copy.
LEMMA CopyFingerprint ==
  ASSUME NEW org, NEW e, org # None => e.org \in {None, org}
  PROVE  Fingerprint(org, e) = FingerprintOf(Copy(org, e))
  BY DEF Fingerprint, FingerprintOf, Copy

\* Two copies are of one report if and only if they have one fingerprint.
LEMMA SameReportFingerprint ==
  ASSUME NEW c, NEW d
  PROVE  SameReport(c, d) <=> FingerprintOf(c) = FingerprintOf(d)
<1>1. FingerprintOf(c).org = c.org /\ FingerprintOf(d).org = d.org
  BY DEF FingerprintOf
<1>2. /\ FingerprintOf(c).provider = c.event.provider
      /\ FingerprintOf(d).provider = d.event.provider
  BY DEF FingerprintOf
<1>3. /\ FingerprintOf(c).by = (IF c.event.id # None THEN "event_id" ELSE "payload")
      /\ FingerprintOf(d).by = (IF d.event.id # None THEN "event_id" ELSE "payload")
  BY DEF FingerprintOf
<1>4. /\ FingerprintOf(c).value = (IF c.event.id # None THEN c.event.id ELSE c.event.content)
      /\ FingerprintOf(d).value = (IF d.event.id # None THEN d.event.id ELSE d.event.content)
  BY DEF FingerprintOf
<1>5. ASSUME FingerprintOf(c) = FingerprintOf(d) PROVE SameReport(c, d)
  BY <1>1, <1>2, <1>3, <1>4, <1>5 DEF SameReport
<1>6. ASSUME SameReport(c, d) PROVE FingerprintOf(c) = FingerprintOf(d)
  BY <1>6 DEF SameReport, FingerprintOf
<1> QED
  BY <1>5, <1>6

\* What the raw store keeps is the end of what it is given.
LEMMA KeptProperties ==
  ASSUME NEW s \in Seq(Copies)
  PROVE  /\ Kept(s) \in Seq(Copies)
         /\ Len(Kept(s)) <= Capacity
         /\ \E n \in Nat : \A i \in DOMAIN Kept(s) :
              i + n \in DOMAIN s /\ Kept(s)[i] = s[i + n]
<1> DEFINE n == IF Len(s) > Capacity THEN Len(s) - Capacity ELSE 0
<1>1. Len(s) \in Nat /\ DOMAIN s = 1..Len(s) /\ Capacity \in Nat \ {0}
  BY LenProperties, IntakeAssumption
<1>2. n \in Nat /\ 1 + n \in Int
  BY <1>1
<1>3. Kept(s) = SubSeq(s, 1 + n, Len(s))
  BY DEF Kept
<1>4. \A i \in (1 + n)..Len(s) : s[i] \in Copies
  BY <1>1, <1>2, ElementOfSeq
<1>5. /\ Kept(s) \in Seq(Copies)
      /\ Len(Kept(s)) = IF 1 + n <= Len(s) THEN Len(s) - (1 + n) + 1 ELSE 0
      /\ \A i \in 1..(Len(s) - (1 + n) + 1) : Kept(s)[i] = s[(1 + n) + i - 1]
  <2> HIDE DEF n
  <2> QED
    BY <1>1, <1>2, <1>3, <1>4, SubSeqProperties
<1>6. Len(Kept(s)) <= Capacity
  BY <1>1, <1>5
<1>7. DOMAIN Kept(s) = 1..Len(Kept(s))
  BY <1>5, LenProperties
<1>8. \A i \in DOMAIN Kept(s) : i + n \in DOMAIN s /\ Kept(s)[i] = s[i + n]
  <2> HIDE DEF n
  <2> SUFFICES ASSUME NEW i \in 1..Len(Kept(s))
               PROVE  i + n \in DOMAIN s /\ Kept(s)[i] = s[i + n]
    BY <1>7
  <2>1. i \in 1..(Len(s) - (1 + n) + 1)
    <3>1. Len(s) \in Nat /\ n \in Nat /\ Len(Kept(s)) \in Nat /\ i \in 1..Len(Kept(s))
      BY <1>1, <1>2, <1>5, LenProperties
    <3>2. Len(Kept(s)) = IF 1 + n <= Len(s) THEN Len(s) - (1 + n) + 1 ELSE 0
      BY <1>5
    <3> QED
      BY <3>1, <3>2
  <2>2. Kept(s)[i] = s[(1 + n) + i - 1] /\ (1 + n) + i - 1 = i + n
    BY <1>2, <1>5, <2>1
  <2> QED
    BY <1>1, <1>2, <2>1, <2>2
<1> QED
  BY <1>2, <1>5, <1>6, <1>8

\* A step that leaves the ledger, the store and what is on its way there alone.
LEMMA LedgerUntouched ==
  ASSUME LedgerInv, UNCHANGED <<seen, store, evicted, forsaken>>,
         \A r \in Runs : Holding(r)' = Holding(r)
  PROVE  LedgerInv'
<1>1. SeenStandsFor'
  BY DEF LedgerInv, SeenStandsFor
<1>2. AllCovered'
  BY DEF LedgerInv, AllCovered, Covered
<1>3. AllDistinct'
  BY DEF LedgerInv, AllDistinct, DistinctIn, DistinctAcross
<1>4. OriginalsKept'
  BY DEF LedgerInv, OriginalsKept
<1> QED
  BY <1>1, <1>2, <1>3, <1>4 DEF LedgerInv

\* A step inside the executions under way, which the jobs do not see.
LEMMA JobsUntouched ==
  ASSUME Counters, FlagMeansRun, UNCHANGED <<job, begun>>,
         \A r \in Runs :
           /\ run'[r].job = run[r].job
           /\ run'[r].step \in {"fetch", "record", "count"}
                <=> run[r].step \in {"fetch", "record", "count"}
  PROVE  Counters' /\ FlagMeansRun'
<1>1. \A j \in Jobs : Uncounted(j)' = Uncounted(j)
  BY DEF Uncounted
<1>2. CountedOnce'
  BY <1>1 DEF Counters, CountedOnce
<1>3. FlagMeansRun'
  BY DEF FlagMeansRun
<1> QED
  BY <1>2, <1>3 DEF Counters

-----------------------------------------------------------------------------
(* The registry and the flags of the jobs                                    *)

LEMMA RegisteredTyped ==
  ASSUME TypeOK, NEW i \in Ids, registry[i] # NoJob
  PROVE  registry[i] \in Jobs
  BY DEF TypeOK

LEMMA RegistryKeeps ==
  ASSUME IInv, NEW d \in Jobs \cup {NoJob}, NEW i \in Ids, d # NoJob => d.id = i,
         registry' = [registry EXCEPT ![i] = d],
         UNCHANGED <<job, run, seen, store, evicted, forsaken, now, begun>>
  PROVE  IInv'
<1>1. TypeOK'
  <2>1. /\ registry' \in [Ids -> Jobs \cup {NoJob}]
        /\ \A k \in Ids : registry'[k] # NoJob => registry'[k].id = k
    BY DEF IInv, TypeOK
  <2> QED
    BY <2>1 DEF IInv, TypeOK
<1>2. JobsInv'
  <2>1. ThreadsBusy' /\ Addressed'
    BY DEF IInv, JobsInv, ThreadsBusy, Addressed
  <2>2. Counters' /\ FlagMeansRun'
    BY JobsUntouched DEF IInv, JobsInv
  <2> QED
    BY <2>1, <2>2 DEF JobsInv
<1>3. LedgerInv'
  BY LedgerUntouched DEF IInv, Holding
<1>4. DuplicatesFounded'
  BY DEF IInv, DuplicatesFounded
<1> QED
  BY <1>1, <1>2, <1>3, <1>4 DEF IInv

LEMMA RegisterKeeps ==
  ASSUME IInv, NEW j \in Jobs, RegisterJob(j)
  PROVE  IInv'
<1>1. j.id \in Ids
  BY DEF Ids
<1> QED
  BY <1>1, RegistryKeeps DEF RegisterJob

LEMMA UnregisterKeeps ==
  ASSUME IInv, NEW i \in Ids, UnregisterJob(i)
  PROVE  IInv'
  BY RegistryKeeps DEF UnregisterJob

\* Asking for a cancellation, or using one up, leaves the counters alone.
LEMMA FlagsKeep ==
  ASSUME IInv, NEW j \in Jobs, NEW s \in JobStates,
         s.running = job[j].running, s.total = job[j].total, s.ok = job[j].ok,
         s.failed = job[j].failed, s.consecutive = job[j].consecutive,
         job' = [job EXCEPT ![j] = s],
         UNCHANGED <<registry, run, seen, store, evicted, forsaken, now, begun>>
  PROVE  IInv'
<1>1. TypeOK'
  <2>1. job' \in [Jobs -> JobStates]
    BY DEF IInv, TypeOK
  <2> QED
    BY <2>1 DEF IInv, TypeOK
<1>2. \A k \in Jobs :
        /\ job'[k].running = job[k].running /\ job'[k].total = job[k].total
        /\ job'[k].ok = job[k].ok /\ job'[k].failed = job[k].failed
        /\ job'[k].consecutive = job[k].consecutive
  BY DEF IInv, TypeOK
<1>3. JobsInv'
  <2>1. ThreadsBusy' /\ Addressed'
    BY DEF IInv, JobsInv, ThreadsBusy, Addressed
  <2>2. \A k \in Jobs : Uncounted(k)' = Uncounted(k)
    BY DEF Uncounted
  <2>3. Counters'
    BY <1>2, <2>2 DEF IInv, JobsInv, Counters, CountedOnce
  <2>4. FlagMeansRun'
    BY <1>2 DEF IInv, JobsInv, FlagMeansRun
  <2> QED
    BY <2>1, <2>3, <2>4 DEF JobsInv
<1>4. LedgerInv'
  BY LedgerUntouched DEF IInv, Holding
<1>5. DuplicatesFounded'
  BY DEF IInv, DuplicatesFounded
<1> QED
  BY <1>1, <1>3, <1>4, <1>5 DEF IInv

LEMMA RequestCancelKeeps ==
  ASSUME IInv, NEW i \in Ids, RequestCancel(i)
  PROVE  IInv'
<1> DEFINE j == registry[i]
<1>1. j \in Jobs
  BY RegisteredTyped DEF IInv, RequestCancel
<1>2. job[j] \in JobStates
  BY <1>1 DEF IInv, TypeOK
<1> DEFINE s == [job[j] EXCEPT !.cancel = TRUE]
<1>3. /\ s \in JobStates /\ s.running = job[j].running /\ s.total = job[j].total
      /\ s.ok = job[j].ok /\ s.failed = job[j].failed /\ s.consecutive = job[j].consecutive
  BY <1>2 DEF JobStates
<1>4. job' = [job EXCEPT ![j] = s]
  BY DEF RequestCancel
<1> QED
  BY <1>1, <1>3, <1>4, FlagsKeep DEF RequestCancel

LEMMA SkipCancelledKeeps ==
  ASSUME IInv, NEW i \in Ids, SkipCancelled(i)
  PROVE  IInv'
<1> DEFINE j == registry[i]
<1>1. j \in Jobs
  BY RegisteredTyped DEF IInv, SkipCancelled
<1>2. job[j] \in JobStates
  BY <1>1 DEF IInv, TypeOK
<1> DEFINE s == [job[j] EXCEPT !.cancel = FALSE, !.last = "CANCELLED"]
<1>3. /\ s \in JobStates /\ s.running = job[j].running /\ s.total = job[j].total
      /\ s.ok = job[j].ok /\ s.failed = job[j].failed /\ s.consecutive = job[j].consecutive
  BY <1>2 DEF JobStates
<1>4. job' = [job EXCEPT ![j] = s]
  BY <1>1 DEF SkipCancelled, IInv, TypeOK
<1> QED
  BY <1>1, <1>3, <1>4, FlagsKeep DEF SkipCancelled

LEMMA BegunTyped ==
  ASSUME NEW c \in JobStates, c.total < MaxRuns, MaxRuns \in Nat,
         NEW s, s = [c EXCEPT !.running = TRUE, !.total = @ + 1]
  PROVE  /\ s \in JobStates /\ s.total = c.total + 1 /\ s.ok = c.ok
         /\ s.failed = c.failed /\ s.consecutive = c.consecutive
<1>1. c.total + 1 \in 0..MaxRuns
  BY DEF JobStates
<1> DEFINE n == c.total + 1
<1>2. s = [c EXCEPT !.running = TRUE, !.total = n] /\ n \in 0..MaxRuns
  BY <1>1
<1> HIDE DEF n
<1> QED
  <2>1. s \in JobStates
    BY <1>2 DEF JobStates
  <2>2. s.total = n /\ s.ok = c.ok /\ s.failed = c.failed /\ s.consecutive = c.consecutive
    BY <1>2 DEF JobStates
  <2> QED
    BY <2>1, <2>2 DEF n

\* The next execution of a job, which the counters do not have yet.
LEMMA ExecuteKeeps ==
  ASSUME IInv, NEW r \in Runs, NEW i \in Ids, Execute(r, i)
  PROVE  IInv'
<1>0. PICK j \in Jobs : j = registry[i]
  BY RegisteredTyped DEF IInv, Execute
<1> DEFINE s == [job[j] EXCEPT !.running = TRUE, !.total = @ + 1]
           e == [Idle EXCEPT !.step = "fetch", !.job = j]
<1>1. j # NoJob /\ run[r] = Idle /\ begun < MaxRuns /\ begun' = begun + 1
  BY <1>0 DEF Execute
<1>2. /\ job[j] \in JobStates /\ job[j].total <= begun
      /\ begun \in 0..MaxRuns /\ MaxRuns \in Nat
  BY <1>1, IntakeAssumption DEF IInv, TypeOK, JobsInv, Counters
<1>3. /\ s \in JobStates /\ s.total = job[j].total + 1 /\ s.ok = job[j].ok
      /\ s.failed = job[j].failed /\ s.consecutive = job[j].consecutive
  <2>1. job[j].total < MaxRuns
    BY <1>1, <1>2 DEF JobStates
  <2> QED
    BY <1>2, <2>1, BegunTyped
<1>4. /\ e \in Executions /\ e.step = "fetch" /\ e.job = j /\ e.rest = <<>>
      /\ e.accepted = <<>> /\ e.duplicates = {}
  BY <1>1, IdleTyped DEF Idle, Executions, Steps
<1>5. job' = [job EXCEPT ![j] = s] /\ run' = [run EXCEPT ![r] = e]
  BY <1>0, <1>1 DEF Execute, IInv, TypeOK
<1>6. UNCHANGED <<registry, seen, store, evicted, forsaken, now>>
  BY DEF Execute
<1> HIDE DEF s, e
<1>7. job' \in [Jobs -> JobStates] /\ job'[j] = s /\ \A k \in Jobs : k # j => job'[k] = job[k]
  BY <1>1, <1>3, <1>5 DEF IInv, TypeOK
<1>8. /\ run' \in [Runs -> Executions] /\ run'[r] = e
      /\ \A q \in Runs : q # r => run'[q] = run[q]
  BY <1>4, <1>5 DEF IInv, TypeOK
<1>9. TypeOK'
  BY <1>1, <1>2, <1>6, <1>7, <1>8 DEF IInv, TypeOK
<1>10. ThreadsBusy' /\ Addressed'
  <2>1. \A q \in Runs : run'[q] = run[q] \/ run'[q] = e
    BY <1>8
  <2>2. \A k \in DOMAIN e.rest : FALSE
    BY <1>4, EmptySeq
  <2> QED
    BY <1>1, <1>4, <2>1, <2>2 DEF IInv, JobsInv, ThreadsBusy, Addressed
<1>11. run[r].step = "idle" /\ run[r].job = NoJob /\ run[r].accepted = <<>>
  BY <1>1 DEF Idle
<1>12. Counters'
  <2>1. Uncounted(j)' = Uncounted(j) \cup {r} /\ r \notin Uncounted(j)
    BY <1>1, <1>4, <1>8, <1>11 DEF Uncounted
  <2>2. \A k \in Jobs : k # j => Uncounted(k)' = Uncounted(k)
    BY <1>1, <1>4, <1>8, <1>11 DEF Uncounted
  <2>3. IsFiniteSet(Uncounted(j))
    BY FS_Subset, IntakeAssumption DEF Uncounted
  <2>4. Cardinality(Uncounted(j)') = Cardinality(Uncounted(j)) + 1
    BY <2>1, <2>3, FS_AddElement
  <2>5. Cardinality(Uncounted(j)) \in Nat
    BY <2>3, FS_CardinalityType
  <2>6. job[j].total = job[j].ok + job[j].failed + Cardinality(Uncounted(j))
    BY <1>1 DEF IInv, JobsInv, Counters, CountedOnce
  <2>7. job[j].total \in Nat /\ job[j].ok \in Nat /\ job[j].failed \in Nat
    BY <1>2 DEF JobStates
  <2>8. s.total = s.ok + s.failed + Cardinality(Uncounted(j)')
    BY <1>3, <2>4, <2>5, <2>6, <2>7
  <2>9. CountedOnce'
    BY <1>7, <2>2, <2>8 DEF IInv, JobsInv, Counters, CountedOnce
  <2>10. \A k \in Jobs : job'[k].total <= begun' /\ job'[k].consecutive <= job'[k].failed
    <3>1. \A k \in Jobs : job[k].total \in Nat /\ job[k].total <= begun
                           /\ job[k].consecutive <= job[k].failed
      BY DEF IInv, TypeOK, JobStates, JobsInv, Counters
    <3> QED
      BY <1>1, <1>2, <1>3, <1>7, <3>1
  <2> QED
    BY <2>9, <2>10 DEF Counters
<1>13. FlagMeansRun'
  <2>1. \A q \in Runs : run[q].job \in Jobs => q # r
    BY <1>11, IntakeAssumption
  <2> QED
    BY <1>1, <1>4, <1>7, <1>8, <2>1 DEF IInv, JobsInv, FlagMeansRun
<1>14. LedgerInv'
  <2>1. \A q \in Runs : Holding(q)' = Holding(q)
    BY <1>4, <1>8, <1>11 DEF Holding
  <2> QED
    BY <1>6, <2>1, LedgerUntouched DEF IInv
<1>15. DuplicatesFounded'
  BY <1>4, <1>8 DEF IInv, DuplicatesFounded
<1> QED
  BY <1>9, <1>10, <1>12, <1>13, <1>14, <1>15 DEF IInv, JobsInv

-----------------------------------------------------------------------------
(* The body of ingest                                                        *)

\* What an execution does before it is counted, but for the ledger.
LEMMA ExecutionKeeps ==
  ASSUME IInv, NEW r \in Runs, NEW e \in Executions,
         run' = [run EXCEPT ![r] = e], UNCHANGED <<job, begun>>,
         run[r].step \in {"fetch", "record", "count"},
         e.step \in {"record", "count"}, e.job = run[r].job,
         \A i \in DOMAIN e.rest : e.job.org # None => e.rest[i].org \in {None, e.job.org},
         \A d \in e.duplicates : SameReport(d.copy, d.of) /\ d.copy.at < d.of.at + Ttl
  PROVE  /\ run' \in [Runs -> Executions] /\ run'[r] = e
         /\ \A q \in Runs : q # r => run'[q] = run[q]
         /\ JobsInv' /\ DuplicatesFounded'
<1>1. /\ run' \in [Runs -> Executions] /\ run'[r] = e
      /\ \A q \in Runs : q # r => run'[q] = run[q]
  BY DEF IInv, TypeOK
<1>2. ThreadsBusy'
  BY <1>1 DEF IInv, JobsInv, ThreadsBusy
<1>3. Addressed'
  BY <1>1 DEF IInv, JobsInv, Addressed
<1>4. Counters' /\ FlagMeansRun'
  <2>1. \A q \in Runs :
          /\ run'[q].job = run[q].job
          /\ run'[q].step \in {"fetch", "record", "count"}
               <=> run[q].step \in {"fetch", "record", "count"}
    BY <1>1
  <2> QED
    BY <2>1, JobsUntouched DEF IInv, JobsInv
<1>5. DuplicatesFounded'
  BY <1>1 DEF IInv, DuplicatesFounded
<1> QED
  BY <1>1, <1>2, <1>3, <1>4, <1>5 DEF JobsInv

\* ... with a step that leaves the ledger, and what it accepted, alone.
LEMMA QuietKeeps ==
  ASSUME IInv, NEW r \in Runs, NEW e \in Executions,
         run' = [run EXCEPT ![r] = e],
         UNCHANGED <<registry, job, seen, store, evicted, forsaken, now, begun>>,
         run[r].step \in {"fetch", "record", "count"},
         e.step \in {"record", "count"}, e.job = run[r].job,
         \A i \in DOMAIN e.rest : e.job.org # None => e.rest[i].org \in {None, e.job.org},
         \A d \in e.duplicates : SameReport(d.copy, d.of) /\ d.copy.at < d.of.at + Ttl,
         Holding(r) = IF e.step = "record" THEN e.accepted ELSE <<>>
  PROVE  IInv'
<1>1. /\ run' \in [Runs -> Executions] /\ run'[r] = e
      /\ \A q \in Runs : q # r => run'[q] = run[q]
      /\ JobsInv' /\ DuplicatesFounded'
  BY ExecutionKeeps
<1>2. TypeOK'
  BY <1>1 DEF IInv, TypeOK
<1>3. \A q \in Runs : Holding(q)' = Holding(q)
  BY <1>1 DEF Holding
<1>4. LedgerInv'
  BY <1>3, LedgerUntouched DEF IInv
<1> QED
  BY <1>1, <1>2, <1>4 DEF IInv

LEMMA FetchFailsKeeps ==
  ASSUME IInv, NEW r \in Runs, FetchFails(r)
  PROVE  IInv'
<1> DEFINE e == [run[r] EXCEPT !.step = "count", !.status = "FAILED"]
<1>1. run[r] \in Executions /\ run[r].step = "fetch"
  BY DEF IInv, TypeOK, FetchFails
<1>2. /\ e \in Executions /\ e.step = "count" /\ e.job = run[r].job
      /\ e.rest = run[r].rest /\ e.duplicates = run[r].duplicates
  BY <1>1 DEF Executions, Steps, Statuses
<1>3. run' = [run EXCEPT ![r] = e]
  BY DEF FetchFails, IInv, TypeOK
<1>4. Holding(r) = <<>>
  BY <1>1 DEF Holding
<1>5. /\ \A i \in DOMAIN e.rest : e.job.org # None => e.rest[i].org \in {None, e.job.org}
      /\ \A d \in e.duplicates : SameReport(d.copy, d.of) /\ d.copy.at < d.of.at + Ttl
  BY <1>2 DEF IInv, JobsInv, Addressed, DuplicatesFounded
<1> HIDE DEF e
<1> QED
  BY <1>1, <1>2, <1>3, <1>4, <1>5, QuietKeeps DEF FetchFails

LEMMA FetchKeeps ==
  ASSUME IInv, NEW r \in Runs, Fetch(r)
  PROVE  IInv'
<1>1. PICK b \in Batches :
        /\ \A x \in Range(b) : run[r].job.org # None => x.org \in {None, run[r].job.org}
        /\ run' = [run EXCEPT ![r].step = "record", ![r].rest = b]
  BY DEF Fetch
<1> DEFINE e == [run[r] EXCEPT !.step = "record", !.rest = b]
<1>2. run[r] \in Executions /\ run[r].step = "fetch"
  BY DEF IInv, TypeOK, Fetch
<1>3. /\ e \in Executions /\ e.step = "record" /\ e.job = run[r].job /\ e.rest = b
      /\ e.duplicates = run[r].duplicates /\ e.accepted = run[r].accepted
  BY <1>2, BatchTyped DEF Executions, Steps
<1>4. run' = [run EXCEPT ![r] = e]
  BY <1>1 DEF IInv, TypeOK
<1>5. Holding(r) = <<>> /\ run[r].accepted = <<>>
  BY <1>2 DEF Holding, IInv, JobsInv, ThreadsBusy
<1>6. \A i \in DOMAIN b : b[i] \in Range(b)
  BY DEF Range
<1>7. /\ \A i \in DOMAIN e.rest : e.job.org # None => e.rest[i].org \in {None, e.job.org}
      /\ \A d \in e.duplicates : SameReport(d.copy, d.of) /\ d.copy.at < d.of.at + Ttl
  BY <1>1, <1>3, <1>6 DEF IInv, DuplicatesFounded
<1> HIDE DEF e
<1> QED
  BY <1>2, <1>3, <1>4, <1>5, <1>7, QuietKeeps DEF Fetch

\* What is recorded while no copy counts is a whole ttl after every copy kept.
LEMMA ApartFromNew ==
  ASSUME TypeOK, NEW s \in Seq(Copies), Covered(s), NEW c \in Copies, c.at = now,
         ~Live(FingerprintOf(c))
  PROVE  \A i \in DOMAIN s :
           SameReport(s[i], c) \/ SameReport(c, s[i]) => s[i].at + Ttl <= c.at
<1> SUFFICES ASSUME NEW i \in DOMAIN s, SameReport(s[i], c) \/ SameReport(c, s[i])
             PROVE  s[i].at + Ttl <= c.at
  OBVIOUS
<1>1. FingerprintOf(s[i]) = FingerprintOf(c)
  BY SameReportFingerprint
<1> DEFINE f == FingerprintOf(c)
<1>2. f \in Fingerprints /\ s[i].at + Ttl <= seen[f].until
  BY <1>1 DEF Covered
<1>3. s[i] \in Copies
  BY LenProperties, ElementOfSeq
<1>4. s[i].at \in Nat /\ c.at \in Nat /\ Ttl \in Nat
  BY <1>3, IntakeAssumption DEF Copies
<1>5. seen[f].until \in Nat
  <2>1. seen[f] = Unseen \/ seen[f] \in [until : Nat, original : Copies]
    BY <1>2 DEF TypeOK
  <2> QED
    BY <2>1 DEF Unseen
<1>6. seen[f].until <= c.at
  BY <1>4, <1>5 DEF Live
<1> HIDE DEF f
<1> QED
  BY <1>2, <1>4, <1>5, <1>6

\* The event that Record takes, its copy and its fingerprint.
LEMMA NextEvent ==
  ASSUME IInv, NEW r \in Runs, run[r].step = "record", run[r].rest # <<>>,
         NEW x, x = Head(run[r].rest)
  PROVE  /\ run[r] \in Executions /\ run[r].job \in Jobs
         /\ Tail(run[r].rest) \in Seq(Events)
         /\ \A i \in DOMAIN Tail(run[r].rest) : run[r].job.org # None =>
              Tail(run[r].rest)[i].org \in {None, run[r].job.org}
         /\ Copy(run[r].job.org, x) \in Copies
         /\ Copy(run[r].job.org, x).at = now
         /\ Fingerprint(run[r].job.org, x) \in Fingerprints
         /\ Fingerprint(run[r].job.org, x) = FingerprintOf(Copy(run[r].job.org, x))
<1> DEFINE rest == run[r].rest
<1>1. run[r] \in Executions
  BY DEF IInv, TypeOK
<1>2. run[r].job \in Jobs /\ rest \in Seq(Events)
  BY <1>1 DEF IInv, JobsInv, ThreadsBusy, Executions
<1>3. /\ Head(rest) \in Events /\ Tail(rest) \in Seq(Events)
      /\ Len(Tail(rest)) = Len(rest) - 1
      /\ \A i \in 1..Len(Tail(rest)) : Tail(rest)[i] = rest[i + 1]
  BY <1>2, HeadTailProperties
<1>4. \A i \in DOMAIN rest : run[r].job.org # None => rest[i].org \in {None, run[r].job.org}
  BY DEF IInv, JobsInv, Addressed
<1>5. Len(rest) \in Nat \ {0} /\ DOMAIN rest = 1..Len(rest) /\ Head(rest) = rest[1]
  <2>1. Len(rest) \in Nat \ {0}
    BY <1>2, EmptySeq
  <2>2. DOMAIN rest = 1..Len(rest)
    BY <1>2, LenProperties
  <2> QED
    BY <1>2, <2>1, <2>2
<1>6. DOMAIN Tail(rest) = 1..Len(Tail(rest))
  BY <1>3, LenProperties
<1>7. \A i \in DOMAIN Tail(rest) : i + 1 \in DOMAIN rest /\ Tail(rest)[i] = rest[i + 1]
  <2> HIDE DEF rest
  <2> SUFFICES ASSUME NEW i \in 1..Len(Tail(rest))
               PROVE  i + 1 \in 1..Len(rest) /\ Tail(rest)[i] = rest[i + 1]
    BY <1>5, <1>6
  <2>1. i \in 1..(Len(rest) - 1) /\ Len(rest) \in Nat
    BY <1>3, <1>5
  <2> QED
    BY <1>3, <2>1
<1>8. run[r].job.org # None => x.org \in {None, run[r].job.org}
  <2>1. 1 \in DOMAIN rest
    BY <1>5
  <2> QED
    BY <1>4, <1>5, <2>1
<1>9. /\ Copy(run[r].job.org, x) \in Copies
      /\ Fingerprint(run[r].job.org, x) \in Fingerprints
  BY <1>2, <1>3, CopyTyped, FingerprintTyped DEF IInv, TypeOK
<1>10. Fingerprint(run[r].job.org, x) = FingerprintOf(Copy(run[r].job.org, x))
  BY <1>8, CopyFingerprint
<1>11. Copy(run[r].job.org, x).at = now
  BY DEF Copy
<1>12. \A i \in DOMAIN Tail(rest) : run[r].job.org # None =>
         Tail(rest)[i].org \in {None, run[r].job.org}
  BY <1>4, <1>7
<1> QED
  BY <1>1, <1>2, <1>3, <1>9, <1>10, <1>11, <1>12

LEMMA RecordDuplicateKeeps ==
  ASSUME IInv, NEW r \in Runs, Record(r),
         Live(Fingerprint(run[r].job.org, Head(run[r].rest)))
  PROVE  IInv'
<1>1. PICK x : x = Head(run[r].rest)
  OBVIOUS
<1> DEFINE c == Copy(run[r].job.org, x)
           f == Fingerprint(run[r].job.org, x)
           d == [copy |-> c, of |-> seen[f].original]
           e == [run[r] EXCEPT !.rest = Tail(@), !.duplicates = @ \cup {d}]
<1>2. run[r].step = "record" /\ run[r].rest # <<>>
  BY DEF Record
<1>3. /\ run[r] \in Executions /\ Tail(run[r].rest) \in Seq(Events)
      /\ \A i \in DOMAIN Tail(run[r].rest) : run[r].job.org # None =>
           Tail(run[r].rest)[i].org \in {None, run[r].job.org}
      /\ c \in Copies /\ c.at = now /\ f \in Fingerprints /\ f = FingerprintOf(c)
  BY <1>1, <1>2, NextEvent
<1>4. /\ run' = [run EXCEPT ![r] = e]
      /\ UNCHANGED <<registry, job, seen, store, evicted, forsaken, now, begun>>
  BY <1>1 DEF Record, IInv, TypeOK
<1>5. now < seen[f].until /\ now \in Nat
  BY <1>1 DEF Live, IInv, TypeOK
<1> HIDE DEF c, f
<1>6. seen[f] # Unseen
  BY <1>5 DEF Unseen
<1>7. /\ seen[f].original \in Copies /\ FingerprintOf(seen[f].original) = f
      /\ seen[f].until = seen[f].original.at + Ttl
  BY <1>3, <1>6 DEF IInv, TypeOK, LedgerInv, SeenStandsFor
<1>8. SameReport(d.copy, d.of) /\ d.copy.at < d.of.at + Ttl
  BY <1>3, <1>5, <1>7, SameReportFingerprint
<1>9. d \in [copy : Copies, of : Copies]
  BY <1>3, <1>7
<1> HIDE DEF d
<1>10. /\ e \in Executions /\ e.step = "record" /\ e.job = run[r].job
       /\ e.rest = Tail(run[r].rest) /\ e.accepted = run[r].accepted
       /\ e.duplicates = run[r].duplicates \cup {d}
  BY <1>2, <1>3, <1>9 DEF Executions
<1> HIDE DEF e
<1>11. \A y \in e.duplicates : SameReport(y.copy, y.of) /\ y.copy.at < y.of.at + Ttl
  BY <1>8, <1>10 DEF IInv, DuplicatesFounded
<1>12. \A i \in DOMAIN e.rest : e.job.org # None => e.rest[i].org \in {None, e.job.org}
  BY <1>3, <1>10
<1>13. Holding(r) = e.accepted
  BY <1>2, <1>10 DEF Holding
<1> QED
  BY <1>2, <1>4, <1>10, <1>11, <1>12, <1>13, QuietKeeps

\* What an execution holds is a sequence of copies.
LEMMA HoldingTyped ==
  ASSUME TypeOK, NEW r \in Runs
  PROVE  Holding(r) \in Seq(Copies)
<1>1. run[r] \in Executions /\ <<>> \in Seq(Copies)
  BY EmptySeq DEF TypeOK
<1> QED
  BY <1>1 DEF Holding, Executions

LEMMA SeenTyped ==
  ASSUME TypeOK, NEW f \in Fingerprints
  PROVE  seen[f].until \in Nat
<1>1. seen[f] = Unseen \/ seen[f] \in [until : Nat, original : Copies]
  BY DEF TypeOK
<1> QED
  BY <1>1 DEF Unseen

\* A ledger whose entries only get later covers what it covered.
LEMMA CoveredStays ==
  ASSUME TypeOK, NEW s \in Seq(Copies), Covered(s),
         \A f \in Fingerprints : seen'[f].until \in Nat /\ seen[f].until <= seen'[f].until
  PROVE  \A i \in DOMAIN s :
           /\ FingerprintOf(s[i]) \in Fingerprints
           /\ s[i].at + Ttl <= seen'[FingerprintOf(s[i])].until
<1> SUFFICES ASSUME NEW i \in DOMAIN s
             PROVE  /\ FingerprintOf(s[i]) \in Fingerprints
                    /\ s[i].at + Ttl <= seen'[FingerprintOf(s[i])].until
  OBVIOUS
<1> DEFINE f == FingerprintOf(s[i])
<1>1. f \in Fingerprints /\ s[i].at + Ttl <= seen[f].until
  BY DEF Covered
<1>2. s[i] \in Copies
  BY LenProperties, ElementOfSeq
<1>3. s[i].at \in Nat /\ Ttl \in Nat
  BY <1>2, IntakeAssumption DEF Copies
<1>4. seen[f].until \in Nat
  BY <1>1, SeenTyped
<1> QED
  BY <1>1, <1>3, <1>4

LEMMA RecordFreshKeeps ==
  ASSUME IInv, NEW r \in Runs, Record(r),
         ~Live(Fingerprint(run[r].job.org, Head(run[r].rest)))
  PROVE  IInv'
<1>1. PICK x : x = Head(run[r].rest)
  OBVIOUS
<1>2. PICK c : c = Copy(run[r].job.org, x)
  OBVIOUS
<1>3. PICK f : f = Fingerprint(run[r].job.org, x)
  OBVIOUS
<1> DEFINE e == [run[r] EXCEPT !.rest = Tail(@), !.accepted = Append(@, c)]
           h == Append(run[r].accepted, c)
           entry == [until |-> now + Ttl, original |-> c]
<1>4. run[r].step = "record" /\ run[r].rest # <<>>
  BY DEF Record
<1>5. /\ run[r] \in Executions /\ Tail(run[r].rest) \in Seq(Events)
      /\ \A i \in DOMAIN Tail(run[r].rest) : run[r].job.org # None =>
           Tail(run[r].rest)[i].org \in {None, run[r].job.org}
      /\ c \in Copies /\ c.at = now /\ f \in Fingerprints /\ f = FingerprintOf(c)
  BY <1>1, <1>2, <1>3, <1>4, NextEvent
<1>6. /\ run' = [run EXCEPT ![r] = e] /\ seen' = [seen EXCEPT ![f] = entry]
      /\ UNCHANGED <<registry, job, store, evicted, forsaken, now, begun>>
  BY <1>1, <1>2, <1>3 DEF Record, IInv, TypeOK
<1>7. ~Live(f) /\ now \in Nat /\ Ttl \in Nat \ {0} /\ seen[f].until \in Nat
  BY <1>1, <1>3, <1>5, IntakeAssumption, SeenTyped DEF IInv, TypeOK
<1>8. run[r].accepted \in Seq(Copies) /\ h \in Seq(Copies)
  BY <1>5, AppendProperties DEF Executions
<1>9. /\ Len(run[r].accepted) \in Nat /\ Len(h) = Len(run[r].accepted) + 1
      /\ DOMAIN run[r].accepted = 1..Len(run[r].accepted) /\ DOMAIN h = 1..Len(h)
      /\ \A i \in 1..Len(run[r].accepted) : h[i] = run[r].accepted[i]
      /\ h[Len(run[r].accepted) + 1] = c
  BY <1>5, <1>8, AppendProperties, LenProperties
<1> HIDE DEF h
<1>10. \A i \in DOMAIN h :
         \/ i \in DOMAIN run[r].accepted /\ h[i] = run[r].accepted[i]
         \/ i = Len(h) /\ h[i] = c
  BY <1>9
<1>11. \A i \in DOMAIN run[r].accepted : i \in DOMAIN h /\ h[i] = run[r].accepted[i]
  BY <1>9
<1>12. Len(h) \in DOMAIN h /\ h[Len(h)] = c
  BY <1>9
<1>13. /\ e \in Executions /\ e.step = "record" /\ e.job = run[r].job /\ e.accepted = h
       /\ e.rest = Tail(run[r].rest) /\ e.duplicates = run[r].duplicates
  BY <1>4, <1>5, <1>8 DEF Executions, h
<1> HIDE DEF e
<1>14. /\ \A i \in DOMAIN e.rest : e.job.org # None => e.rest[i].org \in {None, e.job.org}
       /\ \A d \in e.duplicates : SameReport(d.copy, d.of) /\ d.copy.at < d.of.at + Ttl
  BY <1>5, <1>13 DEF IInv, DuplicatesFounded
<1>15. /\ run' \in [Runs -> Executions] /\ run'[r] = e
       /\ \A q \in Runs : q # r => run'[q] = run[q]
       /\ JobsInv' /\ DuplicatesFounded'
  BY <1>4, <1>6, <1>13, <1>14, ExecutionKeeps
<1>16. /\ entry \in [until : Nat, original : Copies] /\ entry.until = now + Ttl
       /\ entry.original = c
  BY <1>5, <1>7
<1> HIDE DEF entry
<1>17. /\ seen' \in [Fingerprints -> {Unseen} \cup [until : Nat, original : Copies]]
       /\ seen'[f] = entry /\ \A g \in Fingerprints : g # f => seen'[g] = seen[g]
  BY <1>5, <1>6, <1>16 DEF IInv, TypeOK
<1>18. TypeOK'
  BY <1>6, <1>15, <1>17 DEF IInv, TypeOK
<1>19. SeenStandsFor'
  BY <1>5, <1>16, <1>17 DEF IInv, LedgerInv, SeenStandsFor
<1>20. /\ Holding(r) = run[r].accepted /\ Holding(r)' = h
       /\ \A q \in Runs : q # r => Holding(q)' = Holding(q)
  BY <1>4, <1>13, <1>15 DEF Holding
<1>21. \A g \in Fingerprints : seen'[g].until \in Nat /\ seen[g].until <= seen'[g].until
  <2>1. seen[f].until <= now + Ttl /\ now + Ttl \in Nat
    BY <1>7 DEF Live
  <2>2. \A g \in Fingerprints : seen[g].until \in Nat
    BY SeenTyped DEF IInv
  <2> QED
    BY <1>16, <1>17, <2>1, <2>2
<1>22. /\ Covered(store) /\ store \in Seq(Copies)
       /\ \A q \in Runs : Covered(Holding(q)) /\ Holding(q) \in Seq(Copies)
  BY HoldingTyped DEF IInv, TypeOK, LedgerInv, AllCovered
<1>23. AllCovered'
  <2>1. Covered(store)'
    BY <1>6, <1>21, <1>22, CoveredStays DEF IInv, Covered
  <2>2. ASSUME NEW q \in Runs, q # r PROVE Covered(Holding(q))'
    <3>1. \A i \in DOMAIN Holding(q) :
            /\ FingerprintOf(Holding(q)[i]) \in Fingerprints
            /\ Holding(q)[i].at + Ttl <= seen'[FingerprintOf(Holding(q)[i])].until
      BY <1>21, <1>22, CoveredStays DEF IInv
    <3> QED
      BY <1>20, <2>2, <3>1 DEF Covered
  <2>3. Covered(Holding(r))'
    <3>1. \A i \in DOMAIN run[r].accepted :
            /\ FingerprintOf(run[r].accepted[i]) \in Fingerprints
            /\ run[r].accepted[i].at + Ttl <= seen'[FingerprintOf(run[r].accepted[i])].until
      BY <1>20, <1>21, <1>22, CoveredStays DEF IInv
    <3>2. FingerprintOf(c) \in Fingerprints /\ c.at + Ttl <= seen'[FingerprintOf(c)].until
      BY <1>5, <1>7, <1>16, <1>17
    <3>3. \A i \in DOMAIN h :
            /\ FingerprintOf(h[i]) \in Fingerprints
            /\ h[i].at + Ttl <= seen'[FingerprintOf(h[i])].until
      BY <1>10, <3>1, <3>2
    <3> QED
      BY <1>20, <3>3 DEF Covered
  <2> QED
    BY <2>1, <2>2, <2>3 DEF AllCovered
<1>24. ASSUME NEW s \in Seq(Copies), Covered(s)
       PROVE  \A i \in DOMAIN s :
                SameReport(s[i], c) \/ SameReport(c, s[i]) => FarApart(s[i], c) /\ FarApart(c, s[i])
  BY <1>5, <1>7, <1>24, ApartFromNew DEF IInv, FarApart
<1>25. /\ DistinctIn(store)
       /\ \A q \in Runs : DistinctIn(Holding(q)) /\ DistinctAcross(store, Holding(q))
       /\ \A q, p \in Runs : q # p => DistinctAcross(Holding(q), Holding(p))
  BY DEF IInv, LedgerInv, AllDistinct
<1>26. AllDistinct'
  <2>1. DistinctIn(h)
    <3> SUFFICES ASSUME NEW i \in DOMAIN h, NEW k \in DOMAIN h, i # k, SameReport(h[i], h[k])
                 PROVE  FarApart(h[i], h[k])
      BY DEF DistinctIn
    <3>1. CASE i \in DOMAIN run[r].accepted /\ k \in DOMAIN run[r].accepted
      BY <1>11, <1>20, <1>25, <3>1 DEF DistinctIn
    <3>2. CASE i \in DOMAIN run[r].accepted /\ h[k] = c
      BY <1>11, <1>20, <1>22, <1>24, <3>2
    <3>3. CASE h[i] = c /\ k \in DOMAIN run[r].accepted
      BY <1>11, <1>20, <1>22, <1>24, <3>3
    <3> QED
      BY <1>10, <3>1, <3>2, <3>3
  <2>2. DistinctAcross(store, h)
    <3> SUFFICES ASSUME NEW i \in DOMAIN store, NEW k \in DOMAIN h, SameReport(store[i], h[k])
                 PROVE  FarApart(store[i], h[k])
      BY DEF DistinctAcross
    <3>1. CASE k \in DOMAIN run[r].accepted
      BY <1>11, <1>20, <1>25, <3>1 DEF DistinctAcross
    <3>2. CASE h[k] = c
      BY <1>22, <1>24, <3>2
    <3> QED
      BY <1>10, <3>1, <3>2
  <2>3. ASSUME NEW q \in Runs, q # r
        PROVE  DistinctAcross(Holding(q), h) /\ DistinctAcross(h, Holding(q))
    <3>1. ASSUME NEW i \in DOMAIN Holding(q), NEW k \in DOMAIN h, SameReport(Holding(q)[i], h[k])
          PROVE  FarApart(Holding(q)[i], h[k])
      <4>1. CASE k \in DOMAIN run[r].accepted
        BY <1>11, <1>20, <1>25, <2>3, <3>1, <4>1 DEF DistinctAcross
      <4>2. CASE h[k] = c
        BY <1>22, <1>24, <3>1, <4>2
      <4> QED
        BY <1>10, <4>1, <4>2
    <3>2. ASSUME NEW i \in DOMAIN Holding(q), NEW k \in DOMAIN h, SameReport(h[k], Holding(q)[i])
          PROVE  FarApart(h[k], Holding(q)[i])
      <4>1. CASE k \in DOMAIN run[r].accepted
        BY <1>11, <1>20, <1>25, <2>3, <3>2, <4>1 DEF DistinctAcross
      <4>2. CASE h[k] = c
        BY <1>22, <1>24, <3>2, <4>2
      <4> QED
        BY <1>10, <4>1, <4>2
    <3> QED
      BY <3>1, <3>2 DEF DistinctAcross
  <2>4. DistinctIn(store)'
    BY <1>6, <1>25 DEF DistinctIn
  <2>5. ASSUME NEW q \in Runs
        PROVE  DistinctIn(Holding(q))' /\ DistinctAcross(store, Holding(q))'
    <3>1. CASE q = r
      BY <1>6, <1>20, <2>1, <2>2, <3>1 DEF DistinctIn, DistinctAcross
    <3>2. CASE q # r
      BY <1>6, <1>20, <1>25, <3>2 DEF DistinctIn, DistinctAcross
    <3> QED
      BY <3>1, <3>2
  <2>6. ASSUME NEW q \in Runs, NEW p \in Runs, q # p
        PROVE  DistinctAcross(Holding(q), Holding(p))'
    <3>1. CASE q = r
      BY <1>20, <2>3, <2>6, <3>1 DEF DistinctAcross
    <3>2. CASE p = r
      BY <1>20, <2>3, <2>6, <3>2 DEF DistinctAcross
    <3>3. CASE q # r /\ p # r
      BY <1>20, <1>25, <2>6, <3>3 DEF DistinctAcross
    <3> QED
      BY <3>1, <3>2, <3>3
  <2> QED
    BY <2>4, <2>5, <2>6 DEF AllDistinct
<1>27. OriginalsKept'
  <2>1. Range(Holding(r)) \subseteq Range(h) /\ c \in Range(h)
    BY <1>11, <1>12, <1>20 DEF Range
  <2>2. \A q \in Runs : Range(Holding(q)) \subseteq Range(Holding(q)')
    BY <1>20, <2>1
  <2> SUFFICES ASSUME NEW g \in Fingerprints, seen'[g] # Unseen
               PROVE  \/ seen'[g].original \in Range(store') \cup evicted' \cup forsaken'
                      \/ \E q \in Runs : seen'[g].original \in Range(Holding(q)')
    BY DEF OriginalsKept
  <2>3. CASE g = f
    BY <1>16, <1>17, <1>20, <2>1, <2>3
  <2>4. CASE g # f
    BY <1>6, <1>17, <2>2, <2>4 DEF IInv, LedgerInv, OriginalsKept
  <2> QED
    BY <2>3, <2>4
<1> QED
  BY <1>15, <1>18, <1>19, <1>23, <1>26, <1>27 DEF IInv, LedgerInv

\* An execution that is through with its batch, and holds nothing any more.
LEMMA EndOfBatch ==
  ASSUME IInv, NEW r \in Runs, run[r].step = "record", run[r].rest = <<>>,
         NEW s \in Statuses,
         run' = [run EXCEPT ![r].step = "count", ![r].status = s], UNCHANGED <<job, begun>>
  PROVE  /\ run' \in [Runs -> Executions] /\ JobsInv' /\ DuplicatesFounded'
         /\ Holding(r) = run[r].accepted /\ Holding(r)' = <<>>
         /\ \A q \in Runs : q # r => Holding(q)' = Holding(q)
<1> DEFINE e == [run[r] EXCEPT !.step = "count", !.status = s]
<1>1. run[r] \in Executions
  BY DEF IInv, TypeOK
<1>2. /\ e \in Executions /\ e.step = "count" /\ e.job = run[r].job /\ e.rest = run[r].rest
      /\ e.duplicates = run[r].duplicates
  BY <1>1 DEF Executions, Steps
<1>3. run' = [run EXCEPT ![r] = e]
  BY DEF IInv, TypeOK
<1> HIDE DEF e
<1>4. /\ \A i \in DOMAIN e.rest : e.job.org # None => e.rest[i].org \in {None, e.job.org}
      /\ \A d \in e.duplicates : SameReport(d.copy, d.of) /\ d.copy.at < d.of.at + Ttl
  BY <1>2 DEF IInv, JobsInv, Addressed, DuplicatesFounded
<1>5. /\ run' \in [Runs -> Executions] /\ run'[r] = e
      /\ \A q \in Runs : q # r => run'[q] = run[q]
      /\ JobsInv' /\ DuplicatesFounded'
  BY <1>2, <1>3, <1>4, ExecutionKeeps
<1> QED
  BY <1>2, <1>5 DEF Holding

\* The store given one more sequence whose copies are covered and far apart
\* keeps the end of both together.
LEMMA Stored ==
  ASSUME TypeOK, NEW t \in Seq(Copies), Covered(store), Covered(t),
         DistinctIn(store), DistinctIn(t), DistinctAcross(store, t)
  PROVE  /\ Kept(store \o t) \in Seq(Copies) /\ Len(Kept(store \o t)) <= Capacity
         /\ Range(store \o t) = Range(store) \cup Range(t)
         /\ Range(store \o t) \subseteq Copies
         /\ Covered(Kept(store \o t)) /\ DistinctIn(Kept(store \o t))
         /\ \A u : DistinctAcross(store, u) /\ DistinctAcross(t, u)
                    => DistinctAcross(Kept(store \o t), u)
<1>1. PICK all : all = store \o t
  OBVIOUS
<1>2. store \in Seq(Copies)
  BY DEF TypeOK
<1>3. /\ all \in Seq(Copies) /\ Len(all) = Len(store) + Len(t)
      /\ \A i \in 1..(Len(store) + Len(t)) :
           all[i] = IF i <= Len(store) THEN store[i] ELSE t[i - Len(store)]
  BY <1>1, <1>2, ConcatProperties
<1>4. /\ Len(store) \in Nat /\ DOMAIN store = 1..Len(store)
      /\ Len(t) \in Nat /\ DOMAIN t = 1..Len(t) /\ DOMAIN all = 1..Len(all)
  BY <1>2, <1>3, LenProperties
<1>5. \A i \in DOMAIN all :
        \/ i \in DOMAIN store /\ all[i] = store[i]
        \/ i - Len(store) \in DOMAIN t /\ all[i] = t[i - Len(store)]
  BY <1>3, <1>4
<1>6. Covered(all)
  BY <1>5 DEF Covered
<1>7. DistinctIn(all)
  <2> SUFFICES ASSUME NEW i \in DOMAIN all, NEW k \in DOMAIN all, i # k,
                      SameReport(all[i], all[k])
               PROVE  FarApart(all[i], all[k])
    BY DEF DistinctIn
  <2>1. CASE all[i] = store[i] /\ i \in DOMAIN store /\ all[k] = store[k] /\ k \in DOMAIN store
    BY <2>1 DEF DistinctIn
  <2>2. CASE /\ i - Len(store) \in DOMAIN t /\ all[i] = t[i - Len(store)]
             /\ k - Len(store) \in DOMAIN t /\ all[k] = t[k - Len(store)]
    <3>1. i - Len(store) # k - Len(store)
      BY <1>4
    <3> QED
      BY <2>2, <3>1 DEF DistinctIn
  <2>3. CASE /\ i \in DOMAIN store /\ all[i] = store[i]
             /\ k - Len(store) \in DOMAIN t /\ all[k] = t[k - Len(store)]
    BY <2>3 DEF DistinctAcross
  <2>4. CASE /\ k \in DOMAIN store /\ all[k] = store[k]
             /\ i - Len(store) \in DOMAIN t /\ all[i] = t[i - Len(store)]
    <3>1. SameReport(all[k], all[i])
      BY DEF SameReport
    <3>2. FarApart(all[k], all[i])
      BY <2>4, <3>1 DEF DistinctAcross
    <3> QED
      BY <3>2 DEF FarApart
  <2> QED
    BY <1>5, <2>1, <2>2, <2>3, <2>4
<1>8. PICK n \in Nat : \A i \in DOMAIN Kept(all) :
        i + n \in DOMAIN all /\ Kept(all)[i] = all[i + n]
  BY <1>3, KeptProperties
<1>9. Kept(all) \in Seq(Copies) /\ Len(Kept(all)) <= Capacity /\ DOMAIN Kept(all) = 1..Len(Kept(all))
  BY <1>3, KeptProperties, LenProperties
<1>10. Covered(Kept(all))
  BY <1>6, <1>8 DEF Covered
<1>11. DistinctIn(Kept(all))
  <2> SUFFICES ASSUME NEW i \in DOMAIN Kept(all), NEW k \in DOMAIN Kept(all), i # k,
                      SameReport(Kept(all)[i], Kept(all)[k])
               PROVE  FarApart(Kept(all)[i], Kept(all)[k])
    BY DEF DistinctIn
  <2>1. i \in Int /\ k \in Int
    BY <1>9
  <2>2. i + n # k + n
    BY <2>1
  <2> QED
    BY <1>7, <1>8, <2>2 DEF DistinctIn
<1>12. ASSUME NEW u, DistinctAcross(store, u), DistinctAcross(t, u)
       PROVE  DistinctAcross(Kept(all), u)
  <2>1. DistinctAcross(all, u)
    BY <1>5, <1>12 DEF DistinctAcross
  <2> QED
    BY <1>8, <2>1 DEF DistinctAcross
<1>13. Range(all) = Range(store) \cup Range(t) /\ Range(all) \subseteq Copies
  BY <1>1, <1>2, <1>3, RangeConcatenation, RangeOfSeq
<1> QED
  BY <1>1, <1>9, <1>10, <1>11, <1>12, <1>13

LEMMA StoreBatchKeeps ==
  ASSUME IInv, NEW r \in Runs, StoreBatch(r)
  PROVE  IInv'
<1>1. PICK t : t = run[r].accepted
  OBVIOUS
<1>2. PICK all : all = store \o t
  OBVIOUS
<1>3. /\ store' = Kept(all) /\ evicted' = evicted \cup (Range(all) \ Range(Kept(all)))
      /\ UNCHANGED <<registry, job, seen, forsaken, now, begun>>
  BY <1>1, <1>2 DEF StoreBatch, ToStore
<1>4. /\ run' \in [Runs -> Executions] /\ JobsInv' /\ DuplicatesFounded'
      /\ Holding(r) = t /\ Holding(r)' = <<>>
      /\ \A q \in Runs : q # r => Holding(q)' = Holding(q)
  <2>1. Outcome(r) \in Statuses
    BY DEF Outcome, Statuses
  <2> QED
    BY <1>1, <2>1, EndOfBatch DEF StoreBatch
<1>5. /\ Covered(store) /\ \A q \in Runs : Covered(Holding(q))
      /\ DistinctIn(store)
      /\ \A q \in Runs : DistinctIn(Holding(q)) /\ DistinctAcross(store, Holding(q))
      /\ \A q, p \in Runs : q # p => DistinctAcross(Holding(q), Holding(p))
  BY DEF IInv, LedgerInv, AllCovered, AllDistinct
<1>6. t \in Seq(Copies) /\ Covered(t) /\ DistinctIn(t) /\ DistinctAcross(store, t)
  BY <1>4, <1>5, HoldingTyped DEF IInv
<1>7. /\ Kept(all) \in Seq(Copies) /\ Len(Kept(all)) <= Capacity
      /\ Range(all) = Range(store) \cup Range(t) /\ Range(all) \subseteq Copies
      /\ Covered(Kept(all)) /\ DistinctIn(Kept(all))
      /\ \A u : DistinctAcross(store, u) /\ DistinctAcross(t, u) => DistinctAcross(Kept(all), u)
  BY <1>2, <1>5, <1>6, Stored DEF IInv
<1>8. TypeOK'
  BY <1>3, <1>4, <1>7 DEF IInv, TypeOK
<1>9. SeenStandsFor'
  BY <1>3 DEF IInv, LedgerInv, SeenStandsFor
<1>10. DOMAIN <<>> = {}
  OBVIOUS
<1>11. AllCovered'
  BY <1>3, <1>4, <1>5, <1>7, <1>10 DEF AllCovered, Covered
<1>12. AllDistinct'
  <2>1. DistinctIn(store)'
    BY <1>3, <1>7 DEF DistinctIn
  <2>2. ASSUME NEW q \in Runs
        PROVE  DistinctIn(Holding(q))' /\ DistinctAcross(store, Holding(q))'
    <3>1. CASE q = r
      BY <1>4, <1>10, <3>1 DEF DistinctIn, DistinctAcross
    <3>2. CASE q # r
      <4>1. DistinctAcross(store, Holding(q)) /\ DistinctAcross(t, Holding(q))
        BY <1>4, <1>5, <3>2
      <4>2. DistinctAcross(Kept(all), Holding(q))
        BY <1>7, <4>1
      <4> QED
        BY <1>3, <1>4, <1>5, <3>2, <4>2 DEF DistinctIn, DistinctAcross
    <3> QED
      BY <3>1, <3>2
  <2>3. ASSUME NEW q \in Runs, NEW p \in Runs, q # p
        PROVE  DistinctAcross(Holding(q), Holding(p))'
    <3>1. CASE q = r \/ p = r
      BY <1>4, <1>10, <3>1 DEF DistinctAcross
    <3>2. CASE q # r /\ p # r
      BY <1>4, <1>5, <2>3, <3>2 DEF DistinctAcross
    <3> QED
      BY <3>1, <3>2
  <2> QED
    BY <2>1, <2>2, <2>3 DEF AllDistinct
<1>13. OriginalsKept'
  <2> SUFFICES ASSUME NEW g \in Fingerprints, seen'[g] # Unseen
               PROVE  \/ seen'[g].original \in Range(store') \cup evicted' \cup forsaken'
                      \/ \E q \in Runs : seen'[g].original \in Range(Holding(q)')
    BY DEF OriginalsKept
  <2>1. \/ seen[g].original \in Range(store) \cup evicted \cup forsaken
        \/ \E q \in Runs : seen[g].original \in Range(Holding(q))
    BY <1>3 DEF IInv, LedgerInv, OriginalsKept
  <2>2. CASE \E q \in Runs : q # r /\ seen[g].original \in Range(Holding(q))
    BY <1>3, <1>4, <2>2
  <2>3. CASE seen[g].original \in Range(all)
    BY <1>3, <2>3
  <2>4. CASE seen[g].original \in evicted \cup forsaken
    BY <1>3, <2>4
  <2> QED
    BY <1>4, <1>7, <2>1, <2>2, <2>3, <2>4
<1> QED
  BY <1>4, <1>8, <1>9, <1>11, <1>12, <1>13 DEF IInv, LedgerInv

\* What a failing storage drops is given up.
LEMMA StorageFailsKeeps ==
  ASSUME IInv, NEW r \in Runs, StorageFails(r)
  PROVE  IInv'
<1>1. /\ forsaken' = forsaken \cup Range(run[r].accepted)
      /\ UNCHANGED <<registry, job, seen, store, evicted, now, begun>>
  BY DEF StorageFails
<1>2. /\ run' \in [Runs -> Executions] /\ JobsInv' /\ DuplicatesFounded'
      /\ Holding(r) = run[r].accepted /\ Holding(r)' = <<>>
      /\ \A q \in Runs : q # r => Holding(q)' = Holding(q)
  <2>1. "FAILED" \in Statuses
    BY DEF Statuses
  <2> QED
    BY <2>1, EndOfBatch DEF StorageFails
<1>3. Range(run[r].accepted) \subseteq Copies
  BY <1>2, HoldingTyped, RangeOfSeq DEF IInv
<1>4. TypeOK'
  BY <1>1, <1>2, <1>3 DEF IInv, TypeOK
<1>5. SeenStandsFor'
  BY <1>1 DEF IInv, LedgerInv, SeenStandsFor
<1>6. DOMAIN <<>> = {}
  OBVIOUS
<1>7. AllCovered'
  BY <1>1, <1>2, <1>6 DEF IInv, LedgerInv, AllCovered, Covered
<1>8. \A q \in Runs : Holding(q)' = Holding(q) \/ Holding(q)' = <<>>
  BY <1>2
<1>9. AllDistinct'
  <2>1. /\ DistinctIn(store)
        /\ \A q \in Runs : DistinctIn(Holding(q)) /\ DistinctAcross(store, Holding(q))
        /\ \A q, p \in Runs : q # p => DistinctAcross(Holding(q), Holding(p))
    BY DEF IInv, LedgerInv, AllDistinct
  <2> QED
    BY <1>1, <1>6, <1>8, <2>1 DEF AllDistinct, DistinctIn, DistinctAcross
<1>10. OriginalsKept'
  BY <1>1, <1>2 DEF IInv, LedgerInv, OriginalsKept
<1> QED
  BY <1>2, <1>4, <1>5, <1>7, <1>9, <1>10 DEF IInv, LedgerInv

-----------------------------------------------------------------------------
(* The end of an execution                                                   *)

LEMMA CountedTyped ==
  ASSUME NEW c \in JobStates, c.ok + c.failed < MaxRuns, c.consecutive <= c.failed,
         MaxRuns \in Nat, NEW status
  PROVE  /\ Counted(c, status) \in JobStates
         /\ Counted(c, status).running = c.running
         /\ Counted(c, status).total = c.total
         /\ Counted(c, status).ok + Counted(c, status).failed = c.ok + c.failed + 1
         /\ Counted(c, status).consecutive <= Counted(c, status).failed
<1>1. /\ c.ok \in Nat /\ c.failed \in Nat /\ c.consecutive \in Nat
      /\ c.ok + 1 \in 0..MaxRuns /\ c.failed + 1 \in 0..MaxRuns
      /\ c.consecutive + 1 \in 0..MaxRuns /\ 0 \in 0..MaxRuns
  BY DEF JobStates
<1>2. CASE status \in {"SUCCESS", "PARTIAL", "SKIPPED_DUPLICATE"}
  <2>1. PICK n : n = c.ok + 1
    OBVIOUS
  <2>2. Counted(c, status) = [c EXCEPT !.last = "SUCCESS", !.consecutive = 0, !.ok = n]
    BY <1>2, <2>1 DEF Counted
  <2>3. /\ Counted(c, status) \in JobStates
        /\ Counted(c, status).running = c.running /\ Counted(c, status).total = c.total
        /\ Counted(c, status).ok = n /\ Counted(c, status).failed = c.failed
        /\ Counted(c, status).consecutive = 0
    BY <1>1, <2>1, <2>2 DEF JobStates
  <2> QED
    BY <1>1, <2>1, <2>3
<1>3. CASE status \notin {"SUCCESS", "PARTIAL", "SKIPPED_DUPLICATE"}
  <2>1. PICK n : n = c.failed + 1
    OBVIOUS
  <2>2. PICK m : m = c.consecutive + 1
    OBVIOUS
  <2>3. Counted(c, status) = [c EXCEPT !.last = "FAILED", !.consecutive = m, !.failed = n]
    BY <1>3, <2>1, <2>2 DEF Counted
  <2>4. /\ Counted(c, status) \in JobStates
        /\ Counted(c, status).running = c.running /\ Counted(c, status).total = c.total
        /\ Counted(c, status).ok = c.ok /\ Counted(c, status).failed = n
        /\ Counted(c, status).consecutive = m
    BY <1>1, <2>1, <2>2, <2>3 DEF JobStates
  <2> QED
    BY <1>1, <2>1, <2>2, <2>4
<1> QED
  BY <1>2, <1>3

LEMMA CountKeeps ==
  ASSUME IInv, NEW r \in Runs, Count(r)
  PROVE  IInv'
<1>1. PICK j : j = run[r].job
  OBVIOUS
<1>2. /\ run[r].step = "count"
      /\ job' = [job EXCEPT ![j] = Counted(job[j], run[r].status)]
      /\ run' = [run EXCEPT ![r].step = "release"]
      /\ UNCHANGED <<registry, seen, store, evicted, forsaken, now, begun>>
  BY <1>1 DEF Count
<1>3. /\ run[r] \in Executions /\ j \in Jobs /\ j # NoJob
  BY <1>1, <1>2 DEF IInv, TypeOK, JobsInv, ThreadsBusy, Executions
<1>4. job[j] \in JobStates /\ begun \in 0..MaxRuns /\ MaxRuns \in Nat
  BY <1>3, IntakeAssumption DEF IInv, TypeOK
<1> DEFINE e == [run[r] EXCEPT !.step = "release"]
<1>5. /\ e \in Executions /\ e.step = "release" /\ e.job = j /\ e.rest = run[r].rest
      /\ e.duplicates = run[r].duplicates
  BY <1>1, <1>3 DEF Executions, Steps
<1>6. run' = [run EXCEPT ![r] = e]
  BY <1>2 DEF IInv, TypeOK
<1> HIDE DEF e
<1>7. /\ run' \in [Runs -> Executions] /\ run'[r] = e
      /\ \A q \in Runs : q # r => run'[q] = run[q]
  BY <1>5, <1>6 DEF IInv, TypeOK
<1>8. IsFiniteSet(Uncounted(j)) /\ r \in Uncounted(j)
  BY <1>1, <1>2, FS_Subset, IntakeAssumption DEF Uncounted
<1>9. /\ Cardinality(Uncounted(j)) \in Nat
      /\ Cardinality(Uncounted(j) \ {r}) \in Nat
      /\ Cardinality(Uncounted(j) \ {r}) = Cardinality(Uncounted(j)) - 1
  BY <1>8, FS_RemoveElement, FS_CardinalityType
<1>10. /\ job[j].total = job[j].ok + job[j].failed + Cardinality(Uncounted(j))
       /\ job[j].total <= begun /\ job[j].consecutive <= job[j].failed
  BY <1>3 DEF IInv, JobsInv, Counters, CountedOnce
<1>11. job[j].ok \in Nat /\ job[j].failed \in Nat /\ job[j].total \in Nat
  BY <1>4 DEF JobStates
<1>12. job[j].ok + job[j].failed < MaxRuns
  BY <1>4, <1>9, <1>10, <1>11
<1>13. PICK s : s = Counted(job[j], run[r].status)
  OBVIOUS
<1>14. /\ s \in JobStates /\ s.running = job[j].running /\ s.total = job[j].total
       /\ s.ok + s.failed = job[j].ok + job[j].failed + 1 /\ s.consecutive <= s.failed
  BY <1>4, <1>10, <1>12, <1>13, CountedTyped
<1>15. job' \in [Jobs -> JobStates] /\ job'[j] = s /\ \A k \in Jobs : k # j => job'[k] = job[k]
  BY <1>2, <1>3, <1>13, <1>14 DEF IInv, TypeOK
<1>16. TypeOK'
  BY <1>2, <1>7, <1>15 DEF IInv, TypeOK
<1>17. ThreadsBusy' /\ Addressed'
  BY <1>1, <1>2, <1>3, <1>5, <1>7 DEF IInv, JobsInv, ThreadsBusy, Addressed
<1>18. Counters'
  <2>1. Uncounted(j)' = Uncounted(j) \ {r}
    BY <1>5, <1>7 DEF Uncounted
  <2>2. \A k \in Jobs : k # j => Uncounted(k)' = Uncounted(k)
    BY <1>1, <1>5, <1>7 DEF Uncounted
  <2>3. s.ok \in Nat /\ s.failed \in Nat
    BY <1>14 DEF JobStates
  <2>4. s.total = s.ok + s.failed + Cardinality(Uncounted(j)')
    BY <1>9, <1>10, <1>11, <1>14, <2>1, <2>3
  <2>5. CountedOnce'
    BY <1>15, <2>2, <2>4 DEF IInv, JobsInv, Counters, CountedOnce
  <2>6. \A k \in Jobs : job'[k].total <= begun' /\ job'[k].consecutive <= job'[k].failed
    BY <1>2, <1>10, <1>14, <1>15 DEF IInv, JobsInv, Counters
  <2> QED
    BY <2>5, <2>6 DEF Counters
<1>19. FlagMeansRun'
  <2>1. \A k \in Jobs : job'[k].running = job[k].running
    BY <1>14, <1>15
  <2>2. \A q \in Runs : run'[q].job = run[q].job
    BY <1>1, <1>5, <1>7
  <2> QED
    BY <2>1, <2>2 DEF IInv, JobsInv, FlagMeansRun
<1>20. LedgerInv'
  <2>1. \A q \in Runs : Holding(q)' = Holding(q)
    BY <1>2, <1>5, <1>7 DEF Holding
  <2> QED
    BY <1>2, <2>1, LedgerUntouched DEF IInv
<1>21. DuplicatesFounded'
  BY <1>5, <1>7 DEF IInv, DuplicatesFounded
<1> QED
  BY <1>16, <1>17, <1>18, <1>19, <1>20, <1>21 DEF IInv, JobsInv

LEMMA ReleaseKeeps ==
  ASSUME IInv, NEW r \in Runs, Release(r)
  PROVE  IInv'
<1>1. PICK j : j = run[r].job
  OBVIOUS
<1>2. /\ run[r].step = "release" /\ run' = [run EXCEPT ![r] = Idle]
      /\ job' = [job EXCEPT ![j].running = FALSE]
      /\ UNCHANGED <<registry, seen, store, evicted, forsaken, now, begun>>
  BY <1>1 DEF Release
<1>3. j \in Jobs /\ job[j] \in JobStates
  BY <1>1, <1>2 DEF IInv, TypeOK, JobsInv, ThreadsBusy, Executions
<1> DEFINE s == [job[j] EXCEPT !.running = FALSE]
<1>4. /\ s \in JobStates /\ s.running = FALSE /\ s.total = job[j].total /\ s.ok = job[j].ok
      /\ s.failed = job[j].failed /\ s.consecutive = job[j].consecutive
  BY <1>3 DEF JobStates
<1>5. job' = [job EXCEPT ![j] = s]
  BY <1>2 DEF IInv, TypeOK
<1> HIDE DEF s
<1>6. job' \in [Jobs -> JobStates] /\ job'[j] = s /\ \A k \in Jobs : k # j => job'[k] = job[k]
  BY <1>3, <1>4, <1>5 DEF IInv, TypeOK
<1>7. /\ run' \in [Runs -> Executions] /\ run'[r] = Idle
      /\ \A q \in Runs : q # r => run'[q] = run[q]
  BY <1>2, IdleTyped DEF IInv, TypeOK
<1>8. /\ Idle.step = "idle" /\ Idle.job = NoJob /\ Idle.rest = <<>> /\ Idle.duplicates = {}
      /\ DOMAIN <<>> = {}
  BY DEF Idle
<1>9. TypeOK'
  BY <1>2, <1>6, <1>7 DEF IInv, TypeOK
<1>10. ThreadsBusy' /\ Addressed'
  BY <1>7, <1>8 DEF IInv, JobsInv, ThreadsBusy, Addressed
<1>11. Counters'
  <2>1. \A k \in Jobs : Uncounted(k)' = Uncounted(k)
    BY <1>2, <1>7, <1>8 DEF Uncounted
  <2> QED
    BY <1>2, <1>4, <1>6, <2>1 DEF IInv, JobsInv, Counters, CountedOnce
<1>12. FlagMeansRun'
  <2> SUFFICES ASSUME NEW k \in Jobs, job'[k].running
               PROVE  \E q \in Runs : run'[q].job = k
    BY DEF FlagMeansRun
  <2>1. k # j /\ job[k].running
    BY <1>4, <1>6
  <2>2. PICK q \in Runs : run[q].job = k
    BY <2>1 DEF IInv, JobsInv, FlagMeansRun
  <2> QED
    BY <1>1, <1>7, <2>1, <2>2
<1>13. LedgerInv'
  <2>1. \A q \in Runs : Holding(q)' = Holding(q)
    BY <1>2, <1>7, <1>8 DEF Holding
  <2> QED
    BY <1>2, <2>1, LedgerUntouched DEF IInv
<1>14. DuplicatesFounded'
  BY <1>7, <1>8 DEF IInv, DuplicatesFounded
<1> QED
  BY <1>9, <1>10, <1>11, <1>12, <1>13, <1>14 DEF IInv, JobsInv

LEMMA TickKeeps ==
  ASSUME IInv, Tick
  PROVE  IInv'
<1>1. /\ now < MaxTime /\ now' = now + 1
      /\ UNCHANGED <<registry, job, run, seen, store, evicted, forsaken, begun>>
  BY DEF Tick
<1>2. TypeOK'
  BY <1>1, IntakeAssumption DEF IInv, TypeOK
<1>3. JobsInv'
  BY <1>1, JobsUntouched DEF IInv, JobsInv, ThreadsBusy, Addressed
<1>4. LedgerInv'
  BY <1>1, LedgerUntouched DEF IInv, Holding
<1>5. DuplicatesFounded'
  BY <1>1 DEF IInv, DuplicatesFounded
<1> QED
  BY <1>2, <1>3, <1>4, <1>5 DEF IInv

-----------------------------------------------------------------------------
(* The invariant holds, and what it says                                     *)

LEMMA InitHolds == Init => IInv
<1> SUFFICES ASSUME Init PROVE IInv
  OBVIOUS
<1>1. DOMAIN <<>> = {} /\ <<>> \in Seq(Copies) /\ Len(<<>>) = 0
  BY EmptySeq
<1>2. 0 \in 0..MaxRuns /\ 0 \in 0..MaxTime /\ 0 <= Capacity
  BY IntakeAssumption
<1>3. \A j \in Jobs : job[j] = Fresh
  BY DEF Init
<1>4. Fresh \in JobStates /\ Fresh.running = FALSE
  BY <1>2 DEF Fresh, JobStates
<1>5. TypeOK
  <2>1. registry \in [Ids -> Jobs \cup {NoJob}] /\ \A i \in Ids : registry[i] = NoJob
    BY DEF Init
  <2>2. job \in [Jobs -> JobStates]
    BY <1>4 DEF Init
  <2>3. run \in [Runs -> Executions]
    BY IdleTyped DEF Init
  <2>4. seen \in [Fingerprints -> {Unseen} \cup [until : Nat, original : Copies]]
    BY DEF Init
  <2> QED
    BY <1>1, <1>2, <2>1, <2>2, <2>3, <2>4 DEF Init, TypeOK
<1>6. \A r \in Runs : run[r] = Idle
  BY DEF Init
<1>7. /\ Idle.step = "idle" /\ Idle.job = NoJob /\ Idle.rest = <<>> /\ Idle.duplicates = {}
  BY DEF Idle
<1>8. ThreadsBusy /\ Addressed
  BY <1>1, <1>6, <1>7 DEF ThreadsBusy, Addressed
<1>9. Counters
  <2>1. \A j \in Jobs : Uncounted(j) = {}
    BY <1>6, <1>7 DEF Uncounted
  <2>2. Cardinality({}) = 0
    BY FS_EmptySet
  <2>3. \A j \in Jobs : job[j].total = 0 /\ job[j].ok = 0 /\ job[j].failed = 0
                         /\ job[j].consecutive = 0
    BY <1>3 DEF Fresh
  <2>4. begun = 0
    BY DEF Init
  <2>5. CountedOnce
    <3> SUFFICES ASSUME NEW j \in Jobs
                 PROVE  job[j].total = job[j].ok + job[j].failed + Cardinality(Uncounted(j))
      BY DEF CountedOnce
    <3>1. Cardinality(Uncounted(j)) = 0
      BY <2>1, <2>2
    <3> QED
      BY <2>3, <3>1
  <2> QED
    BY <2>3, <2>4, <2>5 DEF Counters
<1>10. FlagMeansRun
  BY <1>3, <1>4 DEF FlagMeansRun
<1>11. \A r \in Runs : Holding(r) = <<>>
  BY <1>6, <1>7 DEF Holding
<1>12. store = <<>> /\ \A f \in Fingerprints : seen[f] = Unseen
  BY DEF Init
<1>13. SeenStandsFor /\ OriginalsKept
  BY <1>12 DEF SeenStandsFor, OriginalsKept
<1>14. AllCovered
  BY <1>1, <1>11, <1>12 DEF AllCovered, Covered
<1>15. AllDistinct
  BY <1>1, <1>11, <1>12 DEF AllDistinct, DistinctIn, DistinctAcross
<1>16. DuplicatesFounded
  BY <1>6, <1>7 DEF DuplicatesFounded
<1> QED
  BY <1>5, <1>8, <1>9, <1>10, <1>13, <1>14, <1>15, <1>16 DEF IInv, JobsInv, LedgerInv

LEMMA NextKeeps == IInv /\ [Next]_vars => IInv'
<1> SUFFICES ASSUME IInv, [Next]_vars PROVE IInv'
  OBVIOUS
<1>1. CASE \E j \in Jobs : RegisterJob(j)
  BY <1>1, RegisterKeeps
<1>2. CASE \E i \in Ids : UnregisterJob(i) \/ RequestCancel(i) \/ SkipCancelled(i)
  BY <1>2, UnregisterKeeps, RequestCancelKeeps, SkipCancelledKeeps
<1>3. CASE \E r \in Runs, i \in Ids : Execute(r, i)
  BY <1>3, ExecuteKeeps
<1>4. ASSUME NEW r \in Runs, Step(r) PROVE IInv'
  <2>1. CASE FetchFails(r)
    BY <2>1, FetchFailsKeeps
  <2>2. CASE Fetch(r)
    BY <2>2, FetchKeeps
  <2>3. CASE Record(r)
    BY <2>3, RecordDuplicateKeeps, RecordFreshKeeps
  <2>4. CASE StoreBatch(r)
    BY <2>4, StoreBatchKeeps
  <2>5. CASE StorageFails(r)
    BY <2>5, StorageFailsKeeps
  <2>6. CASE Count(r)
    BY <2>6, CountKeeps
  <2>7. CASE Release(r)
    BY <2>7, ReleaseKeeps
  <2> QED
    BY <1>4, <2>1, <2>2, <2>3, <2>4, <2>5, <2>6, <2>7 DEF Step
<1>5. CASE Tick
  BY <1>5, TickKeeps
<1>6. CASE UNCHANGED vars
  <2>1. /\ UNCHANGED <<registry, job, run, seen, store, evicted, forsaken, begun, now>>
    BY <1>6 DEF vars
  <2>2. TypeOK'
    BY <2>1 DEF IInv, TypeOK
  <2>3. JobsInv'
    BY <2>1, JobsUntouched DEF IInv, JobsInv, ThreadsBusy, Addressed
  <2>4. LedgerInv'
    BY <2>1, LedgerUntouched DEF IInv, Holding
  <2>5. DuplicatesFounded'
    BY <2>1 DEF IInv, DuplicatesFounded
  <2> QED
    BY <2>2, <2>3, <2>4, <2>5 DEF IInv
<1> QED
  BY <1>1, <1>2, <1>3, <1>4, <1>5, <1>6 DEF Next

\* What every operation of the jobs and every step of an execution preserves.
THEOREM Invariance == Spec => []IInv
  BY InitHolds, NextKeeps, PTL DEF Spec

\* The registry, the counters, the ledger and the store are of their types, and
\* the store never holds more than its capacity.
THEOREM TypeCorrect == Spec => []TypeOK
<1>1. IInv => TypeOK
  BY DEF IInv
<1> QED
  BY <1>1, Invariance, PTL

\* Whatever interleaving of executions, the store holds no report twice within
\* a time to live.
THEOREM NoReportStoredTwice == Spec => []StoredOnce
<1>1. IInv => StoredOnce
  <2> SUFFICES ASSUME IInv, NEW i \in DOMAIN store, NEW k \in DOMAIN store, i < k,
                      SameReport(store[i], store[k])
               PROVE  FarApart(store[i], store[k])
    BY DEF StoredOnce, FarApart
  <2>1. i \in Int /\ k \in Int
    BY LenProperties DEF IInv, TypeOK
  <2>2. i # k
    BY <2>1
  <2> QED
    BY <2>2 DEF IInv, LedgerInv, AllDistinct, DistinctIn
<1> QED
  BY <1>1, Invariance, PTL

\* A report is discarded only for one recorded less than a time to live before,
\* and what a live fingerprint stands for is accounted for.
THEOREM NothingDiscardedInVain == Spec => []DiscardedIsKept
<1>1. IInv => DiscardedIsKept
  <2> SUFFICES ASSUME IInv PROVE DiscardedIsKept
    OBVIOUS
  <2>1. \A r \in Runs : \A d \in run[r].duplicates :
          SameReport(d.copy, d.of) /\ d.copy.at < d.of.at + Ttl
    BY DEF IInv, DuplicatesFounded
  <2>2. ASSUME NEW f \in Fingerprints, now < seen[f].until
        PROVE  \/ seen[f].original \in Range(store) \cup evicted \cup forsaken
               \/ \E r \in Runs :
                    run[r].step = "record" /\ seen[f].original \in Range(run[r].accepted)
    <3>1. now \in Nat
      BY DEF IInv, TypeOK
    <3>2. seen[f] # Unseen
      BY <2>2, <3>1 DEF Unseen
    <3>3. Range(<<>>) = {}
      BY DEF Range
    <3>4. \A r \in Runs : seen[f].original \in Range(Holding(r))
            => run[r].step = "record" /\ seen[f].original \in Range(run[r].accepted)
      BY <3>3 DEF Holding
    <3> QED
      BY <3>2, <3>4 DEF IInv, LedgerInv, OriginalsKept
  <2> QED
    BY <2>1, <2>2 DEF DiscardedIsKept
<1> QED
  BY <1>1, Invariance, PTL

\* A job is shown as running only while some thread executes it.
THEOREM FlagComesDown == Spec => []FlagMeansRun
<1>1. IInv => FlagMeansRun
  BY DEF IInv, JobsInv
<1> QED
  BY <1>1, Invariance, PTL

\* The counters of a job add up to its executions, overlapping ones included.
THEOREM EveryExecutionCounted == Spec => []CountedOnce
<1>1. IInv => CountedOnce
  BY DEF IInv, JobsInv, Counters
<1> QED
  BY <1>1, Invariance, PTL
=============================================================================

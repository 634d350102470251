------------------------------ MODULE EventIntake ------------------------------
(* Scheduled fetches of a provider and what becomes of the events they      *)
(* bring: the job registry and execute_job (integrations/boundaries.py), the *)
(* body of IngestionService.ingest after the fetch (integrations/service.py),*)
(* the ledger of fingerprints (integrations/idempotency.py) and the bounded  *)
(* raw store.  The fetch itself, with its breaker, limiter and retries, is   *)
(* the module Ingestion; here it brings a batch or fails.                    *)
(*                                                                           *)
(* Every lock of the code is one atomic step; between two steps of a run any *)
(* other run, request or tick of the clock may come.                         *)
EXTENDS Integers, Sequences, FiniteSets, Functions

CONSTANTS
  Runs,       \* the threads that execute jobs
  Jobs,       \* job descriptors: [id, org, provider]
  Enabled,    \* the descriptors whose enabled flag is set
  Batches,    \* the batches a fetch may bring, sequences of events
  Ttl,        \* ticks a fingerprint is remembered for
  Capacity,   \* events the raw store holds
  MaxTime,    \* bound on the clock
  MaxRuns     \* bound on the executions of jobs

None == "none"

NoJob == [id |-> None, org |-> None, provider |-> None]

Events == UNION {Range(b) : b \in Batches}

ASSUME IntakeAssumption ==
  /\ IsFiniteSet(Runs) /\ Enabled \subseteq Jobs /\ NoJob \notin Jobs
  /\ Ttl \in Nat \ {0} /\ Capacity \in Nat \ {0} /\ MaxTime \in Nat /\ MaxRuns \in Nat
  /\ \A b \in Batches : b \in Seq(Range(b))

Ids == {j.id : j \in Jobs}

VARIABLES
  registry,   \* job id -> the registered descriptor, or NoJob
  job,        \* descriptor -> its flags and counters
  run,        \* thread -> the execution it is in
  seen,       \* fingerprint -> until when it counts, and the copy it was recorded for
  store,      \* the raw events kept, oldest first
  evicted,    \* history: copies the store dropped to make room
  forsaken,   \* history: copies recorded as seen whose storage failed
  begun,      \* executions begun so far, which MaxRuns bounds
  now

vars == <<registry, job, run, seen, store, evicted, forsaken, begun, now>>

-----------------------------------------------------------------------------
(* Fingerprints *)

\* compute_fingerprint: by the provider's event id, or else by the content.
Fingerprint(org, e) ==
  [org |-> IF org # None THEN org ELSE e.org,
   provider |-> e.provider,
   by |-> IF e.id # None THEN "event_id" ELSE "payload",
   value |-> IF e.id # None THEN e.id ELSE e.content]

Fingerprints == {Fingerprint(o, e) : o \in {j.org : j \in Jobs}, e \in Events}

\* The copy of an event that a run holds, with the time it was recorded at.
Copy(org, e) ==
  [event |-> e, org |-> IF e.org = None THEN org ELSE e.org, at |-> now]

Copies == [event : Events, org : {None} \cup {j.org : j \in Jobs} \cup {e.org : e \in Events},
           at : 0..MaxTime]

NoCopy == [event |-> [provider |-> None, id |-> None, content |-> None, org |-> None],
           org |-> None, at |-> 0]

Unseen == [until |-> 0, original |-> NoCopy]

\* A slip: an entry lapses a tick before its time.
LivesShort(f) == now + 1 < seen[f].until

Live(f) == now < seen[f].until

-----------------------------------------------------------------------------
(* The job registry *)

Fresh == [running |-> FALSE, cancel |-> FALSE, total |-> 0, ok |-> 0, failed |-> 0,
          consecutive |-> 0, last |-> None]

Idle == [step |-> "idle", job |-> NoJob, rest |-> <<>>, accepted |-> <<>>,
         duplicates |-> {}, status |-> None]

Init ==
  /\ registry = [i \in Ids |-> NoJob]
  /\ job = [j \in Jobs |-> Fresh]
  /\ run = [r \in Runs |-> Idle]
  /\ seen = [f \in Fingerprints |-> Unseen]
  /\ store = <<>> /\ evicted = {} /\ forsaken = {}
  /\ begun = 0 /\ now = 0

\* A descriptor of the same id is replaced; a run under way keeps its own.
RegisterJob(j) ==
  /\ registry' = [registry EXCEPT ![j.id] = j]
  /\ UNCHANGED <<job, run, seen, store, evicted, forsaken, now, begun>>

UnregisterJob(i) ==
  /\ registry[i] # NoJob
  /\ registry' = [registry EXCEPT ![i] = NoJob]
  /\ UNCHANGED <<job, run, seen, store, evicted, forsaken, now, begun>>

RequestCancel(i) ==
  /\ registry[i] # NoJob
  /\ job' = [job EXCEPT ![registry[i]].cancel = TRUE]
  /\ UNCHANGED <<registry, run, seen, store, evicted, forsaken, now, begun>>

\* execute_job under its first lock: a pending cancellation is used up ...
SkipCancelled(i) ==
  /\ registry[i] # NoJob /\ registry[i] \in Enabled
  /\ job[registry[i]].cancel
  /\ job' = [job EXCEPT ![registry[i]].cancel = FALSE, ![registry[i]].last = "CANCELLED"]
  /\ UNCHANGED <<registry, run, seen, store, evicted, forsaken, now, begun>>

\* ... or the run begins, whether or not another run of the job is under way.
Execute(r, i) ==
  /\ run[r] = Idle
  /\ registry[i] # NoJob /\ registry[i] \in Enabled
  /\ ~job[registry[i]].cancel
  /\ begun < MaxRuns /\ begun' = begun + 1
  /\ job' = [job EXCEPT ![registry[i]].running = TRUE, ![registry[i]].total = @ + 1]
  /\ run' = [run EXCEPT ![r] = [Idle EXCEPT !.step = "fetch", !.job = registry[i]]]
  /\ UNCHANGED <<registry, seen, store, evicted, forsaken, now>>

-----------------------------------------------------------------------------
(* The body of ingest *)

\* The fetch fails, or the circuit or the limiter refuses it.
FetchFails(r) ==
  /\ run[r].step = "fetch"
  /\ run' = [run EXCEPT ![r].step = "count", ![r].status = "FAILED"]
  /\ UNCHANGED <<registry, job, seen, store, evicted, forsaken, now, begun>>

Fetch(r) ==
  /\ run[r].step = "fetch"
  /\ \E b \in Batches :
       /\ \A e \in Range(b) :
            /\ e.provider = run[r].job.provider
            /\ run[r].job.org # None => e.org \in {None, run[r].job.org}
       /\ run' = [run EXCEPT ![r].step = "record", ![r].rest = b]
  /\ UNCHANGED <<registry, job, seen, store, evicted, forsaken, now, begun>>

\* check_and_record of the next event.
Record(r) ==
  /\ run[r].step = "record" /\ run[r].rest # <<>>
  /\ LET e == Head(run[r].rest)
         c == Copy(run[r].job.org, e)
         f == Fingerprint(run[r].job.org, e)
     IN IF Live(f)
        THEN /\ run' = [run EXCEPT ![r].rest = Tail(@),
                          ![r].duplicates = @ \cup {[copy |-> c, of |-> seen[f].original]}]
             /\ UNCHANGED seen
        ELSE /\ run' = [run EXCEPT ![r].rest = Tail(@), ![r].accepted = Append(@, c)]
             /\ seen' = [seen EXCEPT ![f] = [until |-> now + Ttl, original |-> c]]
  /\ UNCHANGED <<registry, job, store, evicted, forsaken, now, begun>>

\* A slip: the store evicts one event too late.
KeptLate(s) == SubSeq(s, 1 + (IF Len(s) > Capacity + 1 THEN Len(s) - Capacity - 1 ELSE 0), Len(s))

\* The last Capacity entries, since each one stored evicts the oldest of a full store.
Kept(s) == SubSeq(s, 1 + (IF Len(s) > Capacity THEN Len(s) - Capacity ELSE 0), Len(s))

Outcome(r) ==
  IF run[r].duplicates = {} THEN "SUCCESS"
  ELSE IF run[r].accepted = <<>> THEN "SKIPPED_DUPLICATE" ELSE "PARTIAL"

\* A slip: a fetch that brought a duplicate counts as a repeat as a whole.
StoresUnmixed(r) == IF run[r].duplicates = {} THEN run[r].accepted ELSE <<>>

ToStore(r) == run[r].accepted

\* The batch is stored if it has any accepted event.
StoreBatch(r) ==
  /\ run[r].step = "record" /\ run[r].rest = <<>>
  /\ LET all == store \o ToStore(r)
     IN /\ store' = Kept(all)
        /\ evicted' = evicted \cup (Range(all) \ Range(Kept(all)))
  /\ run' = [run EXCEPT ![r].step = "count", ![r].status = Outcome(r)]
  /\ UNCHANGED <<registry, job, seen, forsaken, now, begun>>

\* The storage raises: the run fails, its events stay recorded as seen.
StorageFails(r) ==
  /\ run[r].step = "record" /\ run[r].rest = <<>> /\ run[r].accepted # <<>>
  /\ forsaken' = forsaken \cup Range(run[r].accepted)
  /\ run' = [run EXCEPT ![r].step = "count", ![r].status = "FAILED"]
  /\ UNCHANGED <<registry, job, seen, store, evicted, now, begun>>

-----------------------------------------------------------------------------
(* The end of execute_job *)

Counted(j, status) ==
  IF status \in {"SUCCESS", "PARTIAL", "SKIPPED_DUPLICATE"}
  THEN [j EXCEPT !.last = "SUCCESS", !.consecutive = 0, !.ok = @ + 1]
  ELSE [j EXCEPT !.last = "FAILED", !.consecutive = @ + 1, !.failed = @ + 1]

Count(r) ==
  /\ run[r].step = "count"
  /\ job' = [job EXCEPT ![run[r].job] = Counted(@, run[r].status)]
  /\ run' = [run EXCEPT ![r].step = "release"]
  /\ UNCHANGED <<registry, seen, store, evicted, forsaken, now, begun>>

\* A slip: the flag comes down only after a run that succeeded.
ReleaseIfWell(r) ==
  /\ run[r].step = "release"
  /\ job' = [job EXCEPT ![run[r].job].running = @ /\ run[r].status = "FAILED"]
  /\ run' = [run EXCEPT ![r] = Idle]
  /\ UNCHANGED <<registry, seen, store, evicted, forsaken, now, begun>>

\* finally: the flag comes down, even if another run of the job goes on.
Release(r) ==
  /\ run[r].step = "release"
  /\ job' = [job EXCEPT ![run[r].job].running = FALSE]
  /\ run' = [run EXCEPT ![r] = Idle]
  /\ UNCHANGED <<registry, seen, store, evicted, forsaken, now, begun>>

Tick ==
  /\ now < MaxTime
  /\ now' = now + 1
  /\ UNCHANGED <<registry, job, run, seen, store, evicted, forsaken, begun>>

Step(r) ==
  \/ FetchFails(r) \/ Fetch(r)
  \/ Record(r) \/ StoreBatch(r) \/ StorageFails(r)
  \/ Count(r) \/ Release(r)

Next ==
  \/ \E j \in Jobs : RegisterJob(j)
  \/ \E i \in Ids : UnregisterJob(i) \/ RequestCancel(i) \/ SkipCancelled(i)
  \/ \E r \in Runs, i \in Ids : Execute(r, i)
  \/ \E r \in Runs : Step(r)
  \/ Tick

Spec == Init /\ [][Next]_vars

-----------------------------------------------------------------------------
(* Properties *)

Steps == {"idle", "fetch", "record", "count", "release"}
Statuses == {None, "FAILED", "SUCCESS", "SKIPPED_DUPLICATE", "PARTIAL"}

JobStates == [running : BOOLEAN, cancel : BOOLEAN, total : 0..MaxRuns,
              ok : 0..MaxRuns, failed : 0..MaxRuns, consecutive : 0..MaxRuns,
              last : {None, "SUCCESS", "FAILED", "CANCELLED"}]

Executions == [step : Steps, job : Jobs \cup {NoJob}, rest : Seq(Events),
               accepted : Seq(Copies), duplicates : SUBSET [copy : Copies, of : Copies],
               status : Statuses]

\* The type invariant.
TypeOK ==
  /\ registry \in [Ids -> Jobs \cup {NoJob}]
  /\ \A i \in Ids : registry[i] # NoJob => registry[i].id = i
  /\ job \in [Jobs -> JobStates]
  /\ run \in [Runs -> Executions]
  /\ seen \in [Fingerprints -> {Unseen} \cup [until : Nat, original : Copies]]
  /\ store \in Seq(Copies) /\ Len(store) <= Capacity
  /\ evicted \subseteq Copies /\ forsaken \subseteq Copies
  /\ begun \in 0..MaxRuns /\ now \in 0..MaxTime

\* Two copies are of one report: of the same organisation and provider, under
\* one event id or, without ids, of one content.
SameReport(c, d) ==
  /\ c.org = d.org /\ c.event.provider = d.event.provider
  /\ c.event.id = d.event.id
  /\ c.event.id = None => c.event.content = d.event.content

(* However the runs of the jobs interleave, the raw store never holds one   *)
(* report twice unless the first had been recorded a whole ttl before the   *)
(* second.  (check_and_record holds its lock over look-up and record)       *)
StoredOnce ==
  \A i, k \in DOMAIN store :
    i < k /\ SameReport(store[i], store[k]) =>
      \/ store[i].at + Ttl <= store[k].at
      \/ store[k].at + Ttl <= store[i].at

(* Discarding loses nothing: an event is discarded only for a copy of the   *)
(* same report that the same organisation's fetch recorded less than a ttl  *)
(* before, and as long as a fingerprint makes later copies be discarded,    *)
(* the copy it stands for is in the store, or on its way there, unless the  *)
(* store dropped it for room or its storage failed.  (compute_fingerprint;  *)
(* check_and_record before store_batch in ingest)                           *)
DiscardedIsKept ==
  /\ \A r \in Runs : \A d \in run[r].duplicates :
       SameReport(d.copy, d.of) /\ d.copy.at < d.of.at + Ttl
  /\ \A f \in Fingerprints :
       now < seen[f].until =>
         \/ seen[f].original \in Range(store) \cup evicted \cup forsaken
         \/ \E r \in Runs :
              run[r].step = "record" /\ seen[f].original \in Range(run[r].accepted)

\* The executions under way that the job's counters do not have yet.
Uncounted(j) ==
  {r \in Runs : run[r].job = j /\ run[r].step \in {"fetch", "record", "count"}}

(* Every execution that began is counted once, as a success or a failure,   *)
(* however executions of one job overlap and wherever they fail.  (the       *)
(* counters of execute_job)                                                  *)
CountedOnce ==
  \A j \in Jobs :
    job[j].total = job[j].ok + job[j].failed + Cardinality(Uncounted(j))

(* A job is shown as running only while one of its runs is under way:       *)
(* whatever fails in a run, nobody has to reset the flag by hand.  (the      *)
(* finally of execute_job; the converse does not hold for overlapping runs)  *)
FlagMeansRun ==
  \A j \in Jobs : job[j].running => \E r \in Runs : run[r].job = j
=============================================================================

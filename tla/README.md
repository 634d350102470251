# ChainSentinel: a verification project

ChainSentinel (called RiskWise 2.0 in its own documents) collects signals about
supply chains, reasons about them with a pipeline of agents, and carries out
mitigations (a shipment is rerouted, say) after a human has signed them off.
This directory models, checks and proves things about the parts of the Python
back end, `src/api/app`, in which several actors change the same state, or in
which what happens depends on the order in which things arrive.

Paths below are relative to `src/api/app` unless they start with `docs/`.

## 1. The system

### 1.1 Components, their state and their operations

| Component | State it keeps | Operations | Hard behaviour | What makes it correct |
|---|---|---|---|---|
| Governance tables (`services/governance_services.py`, `agents/approval/persistence.py`) | rows of `recommendations`, `approvals`, `actions`, `verification_results` in PostgreSQL | create and patch a recommendation; sign it off (`create_approval`, `record_human_decision`); create, patch, execute an action; record a result | concurrent requests on the same rows; checks outside the transaction; two rows changed in one operation; row locks taken in sequence | one final decision per recommendation, consistent with its status and contents; actions only of approved recommendations; finalized actions never change; every request is answered |
| Governed action execution (`agents/action/*`, `api/v1/endpoints/actions.py`) | rows of `actions`; the shipment that is moved | `POST /actions/execute` | retries while the first attempt is open; check-then-insert; a change waiting in the session when a later check refuses | a retry is carried out once; the shipment moves only with an action on record |
| Decision persistence (`agents/decision/persistence.py`) | rows of `recommendations` | `save_decision`, an upsert by deterministic id | formulating a decision again while humans decide on it | what was decided stays decided |
| Shipment service (`services/logistics_services.py`) | rows of `shipments` | create, patch, transition | unlocked read-modify-write next to the agent | a delivered shipment is not rerouted |
| Agent graph (`agents/graph.py`, `routing.py`, `edges.py`, `nodes.py`, the agents' `node.py`) | one graph state per run | nodes, routing after each, `/graph/run`, `/graph/approve` | loops, step limit, pause for approval, old answers in a restored state | every run ends; nothing with effects runs unapproved; what is on record is not carried out again |
| Checkpointer (`agents/checkpointer.py`) | a memory cache and rows of the checkpoint table | `save_checkpoint`, `restore_checkpoint` | failed writes, death of the worker, which checkpoint is the latest | resuming never undoes what the run's limits and approvals promise |
| Verification agent (`agents/verification/*`) | one row of `verification_results` per action | collect evidence, judge it, persist the verdict | late and misordered messages; overlapping verifiers; bounded evidence; a window that closes | no success on simulated or estimated evidence alone; a refusal is heard; the verdict follows the evidence |
| Human approval agent (`agents/approval/service.py`) | a request object per call | request, approve, reject, expire | expiry | a decision is final and in time |
| Provider protection (`integrations/circuit_breaker.py`, `rate_limiter.py`, `retry.py`, `service.py`) | state tracker, request windows and cooldowns per provider, in memory | `ingest`, `check_health` | threads between the locked methods; late answers; retries under the protection; clocks | the breaker's state agrees with what happened; limits hold; a provider that recovers is used again |
| Event intake (`integrations/idempotency.py`, `boundaries.py`, `service.py`) | seen fingerprints, raw events, jobs, counters | `check_and_record`, `store_batch`, `execute_job`, `request_cancel` | an event is marked as seen before it is stored; overlapping runs of a job; expiry; a full store | no event is lost, none is stored twice |
| Normalization (`normalization/*`) | a correlator's index per batch | normalise, resolve entities, judge quality, correlate | arrival order; repeated reports; contradicting identifiers and statuses | the best source leads, no observation is lost, corroboration is independent |
| Risk services and engine (`risk_engine/*`, `services/risk_evaluation_service.py`) | assessments, risks, factors, notifications, recommendations | evaluate and persist | two evaluations at once; the previous assessment read outside the transaction; failing transactions | each outcome recorded once, each rise to HIGH or above announced and answered |
| Live map (`services/tracking/*`, `api/v1/endpoints/map.py`, `integrations/worker.py`, the map page) | object cache, subscribers, frames under way, rows of `signals` | provider update, poll, query, prune, subscribe, persist | callbacks that interleave at each await; a capped cache; clients that lag and drop | the cache is never behind, silent vessels leave every map unless every dictionary has forgotten them first |
| Sessions and sign-in (`services/session_service.py`, `oauth_service.py`) | sessions in Redis, or in memory when Redis fails | create, get, rotate, update, delete | fallback per operation; rotation in three calls | a revoked session is dead |
| Request limits (`core/rate_limit.py`) | sliding windows in Redis or in memory | `is_allowed` | fallback | limits hold |
| Inventory (`services/inventory_services.py`) | stock and movement ledger | create, patch, reconcile, move | locked and unlocked writers of one row | stock never negative, ledger explains stock |
| Digital twin, simulation, optimisation, RAG, LLM, ML, evaluation, provider adapters, audit, notifications, CRUD, web | per request, or append-only | solving, text generation, conversion, I/O | numerical or textual rather than concurrent | see 5 |

### 1.2 How they interact

An HTTP request is handled in a worker thread with a unit of work
(`db/unit_of_work.py`) of its own: one SQLAlchemy session, one PostgreSQL
transaction at READ COMMITTED. Handlers share nothing but the tables, so what
interleaves is transactions: `SELECT ... FOR UPDATE` waits for a row lock, a
plain `SELECT` sees what is committed, writes become visible at the commit.

    providers --fetch--> Ingestion --batch--> EventIntake --raw store
        |                                        : (canonical events)
        +--positions--> LiveMap --> signals   Normalization --signals--> RiskEvaluation
                                                                              |
                                              +-- alerts, recommendations <---+
                                              v
    AgentGraph --save_decision--> recommendations <--create_approval / decide-- signatories
                                           |
    action agent <--POST /actions/execute--+---> actions ---> verification_results
         |                                          ^                ^
         +--route--> shipments <--PATCH-- operators +                |
                          shipment_events ----evidence----> verification agent

The dotted line is a call that no code makes: `IngestionService` is given a
normalisation pipeline and never runs it. The ingestion side is in one process:
`IngestionService` calls the breaker, the limiter, the retry policy, a provider
adapter, the deduplication ledger and the storage, from any number of threads.
Each helper has a `threading.Lock` of its own that is held for one method call.
The live map runs on one event loop.

## 2. The modules

| Module | Models | Builds on |
|---|---|---|
| `Governance` | governance tables under concurrent requests | refines `SignOff` |
| `SignOff` | abstract: the life of a recommendation | |
| `ActionExecution` | `POST /actions/execute` next to decisions, sign-offs and shipments | composes the agent with atomic versions of the `Governance` handlers; refines `ActionLedger` |
| `ActionLedger` | abstract: requests, the actions carried out and the route they explain | |
| `AgentGraph` | a run of the agent graph, its checkpoints and its endpoints | |
| `Verification` | evidence, verdicts and the stored result of one action | |
| `Ingestion` | `ingest` and `check_health` around breaker, limiter and retries | refines `CircuitBreaker` |
| `CircuitBreaker` | abstract: the state machine that callers rely on | |
| `EventIntake` | jobs, fingerprints and the raw store around what `Ingestion` fetches | |
| `SignalRules`, `EntityRules` | handlers, identifiers, entity resolution and quality, as operators | |
| `Normalization` | a batch through the pipeline and its correlator | extends `EntityRules`, which extends `SignalRules` |
| `RiskRules` | scores, levels, alerts and recommendations, as operators | |
| `RiskEvaluation` | concurrent evaluations and what they leave in the tables | extends `RiskRules` |
| `LiveMap` | aggregator, providers, clients, cleaner and telemetry worker | |
| `MC...` | instances for TLC | the module they are named after |
| `...Proofs` | theorems | the module they are named after; `ProviderProofs` is about what faces the providers, `Ingestion` and `LiveMap` |

Beside the definitions that model code, the modules hold faulty variants of
some of them, with the fault in a comment: a dropped lock, an off-by-one, a
missing reset. Every property of a run fails when the definition is replaced by
its variant (`PROJECT.json`, "mutants"), so each says something about the code.

### 2.1 Governance

`req[p]` is the open request of worker thread `p`: which handler (`op`), where
it is (`at`) and its arguments. A handler is cut at the points where another
transaction can come between: before the row lock (`"read"`), before the second
row lock of a handler that completes an action (`"rec"`), and before the commit
(`"write"`). `Begin...` reads what the handler reads first, `Lock...` waits for
the row, evaluates the handler's checks and answers with an error if they fail,
`Commit...` and `Insert...` write every row the handler writes. `RollBack` is
the failed transaction of any request. Row locks are not variables: `HoldsRec`
and `HoldsAct` say from where to where a handler holds a row.

`create_action` and `create_verification_result` check outside the transaction
that inserts: in the model, too, they read in one step and insert in another.
The contents of a recommendation are a model value (`content`); a decision
records the contents the row had (`signed`). An id made by `generate_uuid` is
fresh; the deterministic approval id is the pair it is derived from. A row that
is already there under that id fails the insert and with it the whole request.

`SignOff` is the promise: proposed once, settled by at most one decision, then
only from APPROVED to EXECUTED. `Override` in it is there because the code has
it: POST and PATCH may set any status. `RefinesSignOff` maps the decision to
the final row of `approvals`.

### 2.2 ActionExecution

`call[p]` is the open request. `Receive` is the endpoint (status and approval
of the decision), `CheckIdempotency` the first look for an earlier action,
`Execute` the safety policy's look at the shipment and the executor's change,
which stays in the session, `RecordCheck` the second idempotency check with its
three outcomes (replay, conflict, go on), `Commit` the insert of the action and
the commit of the whole session, refused when the primary key is taken. A
replay at `RecordCheck` commits the session as well: the endpoint does.
`BeginSaveDecision`/`CommitSaveDecision` and `BeginUpdateShipment`/
`CommitUpdateShipment` are unlocked read-modify-write requests; the row-locked
governance handlers are atomic here because `Governance` and its proofs cover
their interleavings. The action id is given by the client or derived from
decision and key, without the parameters; the fingerprint covers the parameters
without the key, as in `agents/action/contract.py`.

`ActionLedger` is the promise: callers with at most one request open, a ledger of
actions that only grows, one entry per id, and the shipment's route. A request is
accepted while its decision is approved (`Accept`), then carried out
(`CarryOut`: entry and route in one step), answered from the entry it repeats,
which sends the shipment there again (`Repeat`), or dropped (`Withdraw`);
the shipment's owner moves it, too (`Plan`, `Follow`). The approval may be gone
when an action is carried out, since nothing looks at it a second time, and
`Review` may give and take it at any time, since `save_decision` and the sign-offs
do. `RefinesLedger` maps the ledger to the rows of `actions`, the approved
decisions to what the endpoint would accept now (`Approved`), and an open request to
the row it would insert or the route it would set (`RequestOf`), so the checks
inside a call are stutters.

### 2.3 Ingestion

One provider. A thread's call is a record of where it is (`step`), the circuit
state its first look returned (`seen`) and its retries. Each method of the
breaker and of the limiter is one step, as it holds its lock throughout. The
breaker's methods are operators on a tracker (`Evaluate`, `StatusEvaluate`,
`Success`, `Failure`). `window` is the number of tokens of the last minute, the
length of the limiter's queue. Time is environment steps: `CooldownElapses`,
`WindowSlides`, `RetryAfterPasses`. `ProviderChanges` takes the provider down
and back; while it is down it may fail, throttle (HTTP 429) or raise. The hourly
window has the same code as the minute window and is left out; the processing of
a fetched batch is success or failure (`StorageFails`).

`CircuitBreaker` is the state machine of the first lines of
`integrations/circuit_breaker.py` with what threads make of it: failures are
counted while it is closed, successes from zero in each half-open phase, and any
outcome that comes in counts, whichever call it belongs to. `RefinesCircuit` hides
the calls and the counts that have no meaning in a state: failures recorded while
the circuit is open, and successes outside a half-open phase.

### 2.4 AgentGraph

One run by its run id. `run` is the invocation under way: the node about to run,
who called (`library` for `execute_agent_graph`, or one of the two endpoints)
and the state, reduced to what routing, approval and effects depend on. Each
node is an action that does its work, increments the step count and leaves along
the edge that `Evaluate` (the route evaluator) gives: step limit, errors, the
approval boundary, an explicit route, the default edge, in this order.
`selected_route` is never cleared and survives in the state, as in the code.
`SaveCheckpoint` writes the memory cache and, if the write succeeds, the table;
the latest row is the one with the greatest id as text (`TextKey`), which puts
step 9 after step 10. `Crash` loses the memory. `Resume` restores a state that
may hold the approval of an earlier decision, and adds the caller's route and
answer. `GraphApprove` is `POST /graph/approve`, which builds its own state and
drives approval, action and verification without the graph. What an analysis
node computes is left out, and so is the step budget of LangGraph itself.
`approved` and `dispatched` are history: what humans approved and how often a
candidate was dispatched.

`action_node` only flushes its row, and the endpoint never commits. `flushed` is
that row in the request's open transaction; only `actions` is on record. It gets
there when verification stores a result, whose commit is the whole session's
(`CommitSession`); a verdict that is not stored, or is a replay, commits nothing.
Every other end of an invocation, an ordinary `Return` included, is `get_uow`'s
rollback (`RollBack`), after which a second approval dispatches again. So the
model counts dispatches freely as long as nothing is on record, and
`RecordIsFinal` says what holds from then on. One request at a time has an action
node under way.

### 2.5 LiveMap

Everything runs on one event loop, so an action is what happens between two
awaits that suspend. `latest` is each object's last report, `cache` what the
aggregator holds, `wire` what lies between it and the browsers: the frames of
each providing task, the active clients, their snapshots and what each draws
(`page.tsx`). `HandleProviderUpdate` merges an update and cuts the cache when it
is over `Cap`; `GetObjects` is a REST query, which refreshes the cache from the
providers' own feeds; `Prune` is the stale-object loop with its removal frames;
`IngestCycle` and `PersistCycle` are the telemetry worker, which may suspend
between reading and writing. `now` counts reports, up to the bound `MaxTime`;
`horizon` is the report up to which everything is more than 15 minutes old, and
may advance at any time. The stream keeps `FeedCap` vessels of its own and drops
the others without a message; what is then cut from the cache as well is
`Forgotten`: no cleaner will name it, and a client keeps it. `AgedOut` excuses
exactly that, and a vessel that is evicted again and again. `signals` is the report behind each object's row of the
table, which the worker writes from a frame it may have taken long before
(`RowsAdvance`).

### 2.6 RiskRules and RiskEvaluation

`RiskRules` has the engine as operators: `Assess` from factors to score, level
and driver, `Alerts` and `Recommendations` from an assessment and the one before
it. Contributions are in tenths and scores in hundredths of a point, and the quality
of a factor's evidence is a rank. `Ranked` is a sequence of the factors in which
none beats one before it. The compounding loop leaves of the headroom, at rank
`k`, the part `1 - c / Share(k)`, so `Score` is a quotient of two `Products`: what
is left over what there was. `RiskEvaluation` has the service: `LookUp`
(find_by_fingerprint, in the whole organisation), `Compare` (the previous
assessment, read outside the transaction), `Commit` (assessment, risk, factors,
notifications, recommendations in one transaction, refused when the id exists)
and `Fail` (the transaction is rolled back). The id of an assessment derives
from its signals and the hour. `CreateAssessment` is a person recording a score
of their own.

### 2.7 SignalRules, EntityRules and Normalization

`SignalRules` says which handler takes an event and what kind and status it
gives it, `EntityRules` which entities it resolves to, its quality verdict, its
correlation key and its evidence, `Normalization` how a batch goes through:
`Accept` or `Reject` per event, then per signal `Duplicate`, `First`, `Promote`
or `Corroborate`, and `Return` when the batch is done. A signal is a position in
`signals`, since the merge mutates the signal objects. Simplified: an event's
attributes are its identifiers by kind (the same identifier in the attributes
and in the correlation ids is one); event types are the canonical ones; an MMSI
or ICAO address fills the slot only when it is the one in the place the handler
reads first; units are left out but for the values that make a record invalid.

### 2.8 EventIntake

Three things under locks of their own, and therefore one step each: the job
registry (`Execute`, `SkipCancelled`, `Count`, `Release`), the ledger of
fingerprints (`Record`, one event at a time) and the raw store (`StoreBatch`).
`run[r]` is a thread inside `execute_job`. Descriptors may be replaced and
removed while runs of the old ones are under way. A fetch brings any batch of
its provider or fails; its protection is in `Ingestion`. Events belong to the
job's organisation or name none; a job without an organisation takes the events'
own. `evicted` and `forsaken` are history: copies that a full store dropped and
copies that a failing storage lost; `begun` counts the executions of a run for
the bound `MaxRuns`. `purge_expired` only frees memory, and nobody calls it.
These classes have no user in the application besides `service.py`; they are
modelled as the library they are.

### 2.9 Verification

One executed action of each type. `target` is the row the action was about with
its provenance, `events` what was recorded about the shipment, at most one at
each instant of the window, reported late and in any order (`Report` fills any
instant of the past). A verifier is four statements: read the row
(`CollectState`), read the events and judge (`CollectEvents`), look for the
stored row (`LoadExisting`), insert or update, so two verifiers interleave
anywhere. `Precedence` is the conversion of a provenance label: SIMULATED and
ESTIMATED keep their rank, whatever else is there (the repository's own SYNTHETIC,
nothing at all, any free string of an event) counts as REAL. `Collect` has the
deduplication by raw id, the order by time and the cut to the oldest
`MAX_EVIDENCE_ITEMS`; `Judge`
the six verifiers with the statuses of evidence-free, simulated-only and
contradictory cases. `ChangeTarget` is a person changing the row; `settled` says
that the last run was disturbed by nobody. Assumed: commands carry the action's
own parameters and window, as those of the REST endpoint can and those that
`agents/verification/node.py` makes (lines 135-148: the execution's details stand
in for the parameters) do not; nothing happens within the five seconds before the
action that the collector tolerates; the status of the target's own row is not FAILED;
facilities have no shipment events; no message is dated in the future; results
posted by REST are in `Governance`. An executor whose target is absent succeeds
all the same, as in the code. The reroute verifier without evidence raises and
is recorded as ERROR (`WithoutEvidence`).

## 3. What is checked

### 3.1 Runs

| Run | Shows | Bounds | Time |
|---|---|---|---|
| `governance_tables` | at most one final decision per recommendation, its status follows it, signed contents never change, actions belong to approved recommendations, a completed action's recommendation is EXECUTED, finalized actions are frozen, and the tables implement `SignOff` | 1 recommendation, 1 action, 2 approval ids, 2 contents, 3 requests | 140 s |
| `governance_answered` | requests waiting for row locks are answered: no deadlock, no starvation | 1 content, 2 requests | 40 s |
| `action_retry` | concurrent, failing and repeated calls implement `ActionLedger`: a retry is carried out once, for a decision that was approved, and the shipment moves for a reason | 1 decision, 2 keys, 2 routes, 2 calls, 2 actions | 130 s |
| `agent_resume` | the step budget and the approval of the very decision survive routing, failed checkpoints, crashes, resumption and both endpoints; an action on record stays and is not dispatched again | 2 decisions of one candidate, 4 invocations, 11 steps | 60 s |
| `agent_ends` | every invocation ends, whatever route a caller asks for | 2 invocations, 4 steps, every route | 5 s |
| `verification` | no success when all the evidence is labelled simulated or estimated; no success over a refusal that is among what is read; after an undisturbed run the row is the verdict on the evidence there is | 5 action types, 2 verifiers any number of times, 3 messages, 3 items, window of 3, 0 or 5 earlier events; for a hold and an expedition 2 messages and no earlier events | 105 s |
| `ingestion_breaker` | breaker state and counts agree, and the circuit implements `CircuitBreaker`: it closes only after enough successes of one half-open phase | 3 threads, thresholds of 2, 1 retry | 10 s |
| `ingestion_recovers` | a provider that answers for good gets its circuit closed again | 1 thread | 1 s |
| `intake` | no report stored twice within its ttl, none discarded that is not kept, no job shown as running that is not | 2 threads, 3 descriptors of a job, 4 batches, 2 runs, a store of 2 | 80 s |
| `normalization` | the best source leads in every order, no observation is lost, corroboration is independent, a primary knows what contradicts it | every batch of up to 4 of the reports in `MCNormalization` | 60 s |
| `risk_alerts` | every rise to HIGH or above is announced, an outcome has one record per hour, every alarm an answer | 2 callers, 1 entity and the organisation, 3 payloads, 4 ticks of 3 to the hour | 40 s |
| `live_map` | the cache is never behind, a silent vessel leaves every map unless it is forgotten first | 2 vessels of which the stream keeps 1, 1 aircraft, 1 client, cache of 2 cut to 1, 3 reports | 45 s |

### 3.2 What the code does and a document says otherwise

Building the models meant reading the code next to its documents. Where they
part, the model has what the code does, and no property contradicts it; the
sentences below hold of no run of this project.

| Code | Document |
|---|---|
| two POSTs of a result of one action both find none and both insert (`services/governance_services.py:654`) | "Verification result is 1:1 with action" (line 653) |
| a proposal edited between what the signatory read and the decision is decided as edited (`agents/approval/persistence.py:297`) | "If state changes prior to approval, the decision is invalidated" (`docs/architecture.md:69`) |
| a retry that passed the first check while the first attempt was open moves the shipment again; the second check answers with the old result and the endpoint commits (`agents/action/persistence.py:78`) | "If identical command fingerprint: return existing action result" (line 73) |
| two commands with one key and different action ids are both carried out (`agents/action/persistence.py:62`) | "Row-level lock (`with_for_update`) concurrency protection" (line 7) |
| `save_decision` resets what was decided; after a PATCH it is decided again (`agents/decision/persistence.py:84`) | "finalized approvals (APPROVED or REJECTED) cannot be modified or re-decided" (`agents/approval/persistence.py:12`) |
| every caller passes a half-open circuit (`integrations/circuit_breaker.py:143`) | "HALF_OPEN (single probe permitted)" (line 8) |
| `ingest` ignores what `acquire` returns (`integrations/service.py:261`) | "4. Rate limit enforcement" (line 184) |
| a reroute whose row has the wanted route from a SIMULATED source is VERIFIED once any REAL event is in the window | "SIMULATED evidence can NEVER prove real-world success" (`agents/verification/verifiers.py:15`) |
| a shipment or event labelled SYNTHETIC, or not at all, counts as REAL and makes a verdict VERIFIED (`agents/verification/evidence.py:45-54`) | "Respects source hierarchy: REAL > ESTIMATED > SIMULATED" (`agents/verification/verifiers.py:14`) |
| an action approved through `POST /graph/approve` is flushed (`agents/action/persistence.py:145`) and rolled back (`db/unit_of_work.py:281-283`) unless verification stores a result | "Persist action record, update recommendation status, and create audit log transactionally." (`agents/action/persistence.py:58`) |
| vessels cut by the stream's own cap (`services/tracking/aisstream_provider.py:258-266`) and the cache's are announced to nobody | "checking and broadcasting removal of stale entities (> 15m)" (`services/tracking/aggregator.py:265`) |

Other behaviours that a reader of the code may not expect, each in the models: POST and PATCH put a recommendation
into APPROVED without a decision (`Override`); one decision can be carried out
under several keys; the approval that `/actions/execute` looks at is the first
in no stated order; a shipment may be delivered between the agent's check and
its commit; the late answer to a call from before the circuit opened counts in
its half-open phase; calls refused by the local limiter count as failures of
the provider; a call's retries take no token; `request_cancel` during a run
cancels the next run; an entity whose signals match another entity's gets that
one's assessment as the answer and none of its own; a hold whose row says
ON_HOLD is not in conflict with a release, one that says HELD is; a promoted
signal does not inherit the conflicts of the one it replaces.

### 3.3 Bounds, and why they are enough

- *Governance*: one recommendation and one action, since handlers only relate
  rows of the same recommendation, and two actions of one recommendation meet in
  its row as an action and a decision do (the theorems hold for any number);
  three requests: a holder, a waiter and a reader; two contents, so that an edit
  shows; two approval ids, so that a request for modification comes before a
  decision. `MaxResults` bounds the rows counted per action.
- *ActionExecution*: one decision, two keys, one client id besides the derived
  one, two routes, two calls; `MaxActions = 2` and `MaxSignOffs = 1` are guards
  of the actions that add rows. Two of each let every pair of commands agree or
  differ in each part.
- *AgentGraph*: four invocations are enough to decide and approve, decide
  otherwise, fail or crash, and act; to carry out an action, lose it to a rollback,
  carry it out again with a verification that commits, and approve once more;
  eleven steps let the checkpoints of steps 9 and 10 meet. In `agent_resume`
  callers route to the nodes that decide, approve and act; `agent_ends` has every
  route and two invocations.
- *Ingestion*: thresholds of 2 make "one short of it" and "at it" different
  states; three threads put a late answer, a probe and a new call next to each
  other. Failures are counted up to the threshold, the only value they are
  compared with; the tokens need no bound, the limit is one.
- *EventIntake*: two overlapping runs, a ttl that passes once, a store that
  overflows; batches that repeat an event, revise one, bring one without an id,
  bring none, and name two tenants.
- *Normalization*: four reports let a primary be replaced twice and a third
  report contradict, repeat or confirm each of them; single events take every
  identifier in and out of place through `EntityRules`.
- *RiskEvaluation*: two evaluations overlap within an hour and across its end;
  the payloads are a calm one, a storm and the storm revised.
- *LiveMap*: a cache of two objects is over its cap with the third and cut to one,
  a stream that keeps one vessel drops the other: all the ways in which an object
  can be in one dictionary and not in the next. Vessels are heard, silent and heard
  again. Clients do not affect one another; one that leaves and comes back is two.
- *Verification*: three messages and the row make four items, one more than is
  read, so the last is cut; a history of five earlier events leaves the query,
  which returns six, room for one message; a window of three instants and the time
  after it. A refusal stands before, between and behind confirmations and arrives
  before and after them. The shipment is SIMULATED: one labelled otherwise satisfies
  `EvidenceBehindVerified` by itself; that other labels count as real is seen in
  the confirming message, labelled SYNTHETIC, and in the facilities. A carrier is
  judged as a reroute is and is left out of the instance; the constraint `Bounded`
  gives a hold and an expedition, which `RefusalRespected` does not speak of, two
  messages and no history. The theorems hold for every type and all messages.

`CHECK_DEADLOCK FALSE` is set where the bounds, or final rows, leave nothing to
be done (Governance, ActionExecution, AgentGraph, EventIntake, RiskEvaluation,
LiveMap, Verification). Ingestion and Normalization never stop and are checked
for deadlock. Symmetry is only used in runs without liveness, over sets of
interchangeable model values.

### 3.4 Fairness

- *Governance* (`FairSpec`): weak fairness of each request's next step (a
  worker thread runs its handler to the end) and strong fairness of its lock
  steps, because PostgreSQL queues waiters for a row lock. Nothing makes a new
  request arrive.
- *AgentGraph* (`FairSpec`): `invoke` runs the nodes of an invocation without
  waiting for anything; nothing makes one begin.
- *Ingestion* (`FairSpec`): threads run, the schedule asks for the provider
  again, the clocks advance. Nothing is assumed of the provider, and of the
  health check only that one that began ends. `Recovers` is checked for one
  caller and `success_threshold = 1`. It is false with two callers or a higher
  threshold: calls that the local limiter refuses are recorded as failures and
  trip a half-open circuit again and again. This is a limit of the code, listed
  as a hazard, not of the model.
- *LiveMap* (`FairSpec`): the loop's tasks go on: frames under way are sent, a
  broken connection is noticed, the cleaner and the telemetry worker run again.
  Nothing is assumed of providers, queries or clients.

## 4. What is proved

All theorems are checked by TLAPS for every value of the constants that the
modules' assumptions admit: any number of requests, rows, threads, verifiers.

| Module | Theorems |
|---|---|
| `GovernanceProofs` | `Invariance`, `TypeCorrect`, `OneDecision`, `SignatureKept`, `ContentKept`, `ActionsApproved`, `CompletionKept`, `ActionFinality`, `Refinement` |
| `ActionExecutionProofs` | `TypeCorrect`, `RetrySafety`, `RouteSafety`, `Refinement` |
| `AgentGraphProofs` | `Invariance`, `TypeCorrect`, `BudgetKept`, `ApprovedOnly`, `RecordKept`, `WaitingNotCompleted`, `BoundaryKept` |
| `ProviderProofs` | `TypeCorrect`, `BreakerSafety`, `ProbeSafety`, `CircuitRefinement`, `TokenSafety`; `MapTypeCorrect`, `CacheNeverBehind`, `RowsNeverGoBack` |
| `RiskEvaluationProofs` | `Invariance`, `TypeCorrect`, `OutcomeRecordedOnce`, `HighRiskIsAnnounced`, `AlarmsAreAnswered`, `ScoreWithinBounds`, `NoFactorDiluted` |
| `NormalizationProofs` | `Invariance`, `TypeCorrect`, `BestLeads`, `EvidenceComplete`, `CorroborationIndependent`, `DisagreementKnown` |
| `EventIntakeProofs` | `Invariance`, `TypeCorrect`, `NoReportStoredTwice`, `NothingDiscardedInVain`, `FlagComesDown`, `EveryExecutionCounted` |
| `VerificationProofs` | `TypeCorrect`, `VerifiedIsFounded`, `VerdictUpToDate`, `RefusalStands` |

The arguments:

- *Governance*: `Inv`, defined in `Governance`, is inductive: type correctness; a
  row has at most one holder (`LocksExclusive`); what a request has found out about
  its rows still holds while it holds them (`CheckedRec`, `CheckedAct`); rows that
  refer to a recommendation refer to an existing one; and the properties
  themselves. Without the `Checked...` parts a commit could not be shown to find the
  row as it was locked. Each action has a lemma. `Refinement` shows that each step
  maps to a step of `SignOff` or to a stutter, `DecisionOf` staying the same unless
  a final row is added.
- *ActionExecution*: type correctness is inductive; a retry has the id of its first
  attempt, and an insert needs a fresh id; only `Commit` and a replay write a route,
  and both have an action on record for the call. `Refinement` needs no stronger
  invariant: every handler but the last two steps of a call either keeps the request
  as `ActionLedger` sees it or closes it (`RequestSteps`, `AnsweredOnly`), a write to
  one decision's rows changes at most what may be requested of it
  (`ApprovedChange`), and of an executed decision only the signatures can keep it
  approved (`ApprovedOnceExecuted`).
- *AgentGraph*: every state, in memory or in a checkpoint, is `Sound` (an approval
  in it is one that a human gave) and within the budget of its node and of the
  number of invocations so far; a flushed action was approved, is of a
  candidate with nothing on record, and lies in the open transaction of the approve
  endpoint (`ActionsOK`). For `RecordKept`, a node records at most what is flushed
  (`NodeRecords`), and nothing is flushed for a candidate that has a record.
- *Ingestion*: every method of the breaker maps a `Sound` tracker (closed exactly
  below the threshold, no successes outside a half-open phase) to a sound one, so
  that no interleaving of the calls around it matters; `CircuitRefinement` adds
  that the successes stay below their threshold.
- *LiveMap*: the cache, the providers' dictionaries and the frame the worker holds
  each have an object where it was reported; what the worker holds is ahead of the
  rows it will write.
- *RiskEvaluation*: nothing is locked, so nothing rests on what was read being still
  the last. Tables only grow, every evaluation has a time of its own (`OwnTime`), the
  derived identifier is a key (`Keyed`), and an entity's evaluation is compared with an
  assessment of the same entity (`OwnPrevious`).
- *Normalization*: a correlated signal is never forgotten; the signals under a key
  grow by the one whose turn it is, and each of the three ways in keeps what the
  index says of the others.
- *EventIntake*: `JobsInv` counts executions through overlapping runs; `LedgerInv`
  says that a fingerprint stands for the copy that was recorded under it, and that
  this copy is kept, in the hands of a run, evicted or forsaken.
- *Verification*: evidence is only added and the label of a row does not change, so
  what counted as real when it was read is on record when the verdict is written
  (`VerifiedIsFounded`); nobody else runs while an undisturbed run is under way
  (`Undisturbed`), so its verdict is on the present evidence; the oldest reports pass
  the query, the duplicates' removal and the bound (`ReportRead`), so a refusal among
  them is judged (`RefusalStands`).

`WaitingNotCompleted`, `BoundaryKept`, `RetrySafety`, `RouteSafety`, `ProbeSafety`,
`TokenSafety`, `RowsNeverGoBack`, `EveryExecutionCounted`, `ScoreWithinBounds`,
`NoFactorDiluted` and the `Invariance` theorems state formulas that no run
checks as such; the modules define most of them next to the properties.
`RetrySafety` and `RouteSafety` say of the tables what `RefinesLedger`, which
`action_retry` checks, says of the ledger; `ProbeSafety` says of the tracker what
`RefinesCircuit` says of the circuit. `MapTypeCorrect` and `CacheNeverBehind` state
`TypeOK` and `CacheCurrent` of `LiveMap` through the instance `Map`. The inductive
invariants were model-checked on the instances of the runs before they were
proved.

The assumptions of the modules say what their comments say of the constants:
which sets are disjoint, which bounds are numbers, and that a payload's factors
are factors (`AreFactors`: a finite set, contributions between 0 and 1 as
`risk_engine/contract.py` declares them). No assumption is about the result of an
operator. The theorems of `ProviderProofs` about `LiveMap` name the two of its
assumptions that they need.

`ScoreWithinBounds` and `NoFactorDiluted` are inductions over data: over the rank,
and over the size of the set. The induction theorems of the library take
an operator as a parameter, which the provers cannot instantiate; the proofs take
instead the smallest rank or size at which the claim fails (`WFMin`) and derive a
smaller one.

Every safety property that a run checks is a theorem. Only model-checked is
liveness (`LockWaitersAnswered`, `Ends`, `Recovers`, `AgedOut`), which is out of
the prover's reach.

## 5. What is not modelled

Left out of modelled components: audit rows, list and get operations, tenant
checks, the JSON payload that the agents embed into rows, `reset` of the breaker
and the limiter (used by tests), the hourly window, the texts of alerts,
recommendations and verdicts, and the other columns of every row.

Modelled, but not promised: two verifiers that update one row write the columns
that differ from what they had loaded, so `verified` and the status packed into
`observation_summary` can come from different runs. `Update` in `Verification` has
this, and the column can disagree with the verdict. `EvidenceBehindVerified` speaks
of the column; `VerdictIsCurrent` and `RefusalRespected` compare the verdict only.

Components not modelled are in `PROJECT.json` with the reason:

- simulation, digital twin, optimisation, RAG, LLM, ML and evaluation (a good
  third of the code) are numerical or textual algorithms on one request's data,
  which TLC could only run on toy inputs and which keep nothing between calls;
- provider adapters are HTTP and field mapping; what they return is an input of
  `Ingestion`, `EventIntake`, `Normalization` and `LiveMap`;
- the CRUD endpoints and repositories read and write single rows;
- sessions and request limits depend on what Redis does when it fails, which the
  repository does not state;
- inventory repeats the row-lock discipline of the governance services with sums
  over a ledger; it is the first thing to add.

The map in `PROJECT.json` therefore covers about a tenth of the back end's
lines: the parts with state that several actors change, and the rules that
decide what is written there.

## 6. What is left to do

In this order:

1. `Inventory`: stock and ledger, locked and unlocked writers, with the theorem
   that locked writers keep the ledger's sum.
2. `Sessions`, once the guarantees under an outage of Redis are stated.

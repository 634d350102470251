---------------------------- MODULE RiskEvaluation ----------------------------
(***************************************************************************)
(* Evaluations of risk by concurrent requests, and what they leave in the  *)
(* tables: assessments, their parent risks, the rows of their factors, the *)
(* alerts (notifications) and the recommendations.  An evaluation reads in *)
(* three statements of a READ COMMITTED session and then writes in one     *)
(* transaction; nothing is locked.  A result whose fingerprint is on       *)
(* record already is answered with that record, and nothing is written.    *)
(***************************************************************************)
EXTENDS RiskRules

CONSTANTS
  Callers,      \* request threads
  Entities,     \* scope_entity_id of the requests, one scope
  Whole,        \* a request without scope_entity_id
  Payloads,     \* [signals, factors, conflicts, limits] a request may carry
  PersonScores, \* scores people record with POST /risk-assessments
  Ticks,        \* the ticks of the clock in an hour
  MaxNow        \* bound: ticks

\* What an evaluation finds.
Result(p) == Assess(p.factors, p.conflicts, p.limits)

ASSUME RiskAssumption ==
  /\ Whole \notin Entities /\ Ticks \in Nat \ {0} /\ MaxNow \in Nat
  /\ \A p \in Payloads : /\ p.signals # "none"
                         /\ IsFiniteSet(p.factors) /\ AreFactors(p.factors)
  /\ PersonScores \subseteq 0..FullScore

VARIABLES
  now,          \* the clock: every evaluation reads a time of its own
  records,      \* risk_assessments
  risks,        \* risks: what each is titled after, and its score
  owner,        \* risk_factors: the risk each factor's row hangs under, or 0
  notices,      \* notifications of category RISK_ALERT
  advice,       \* recommendations
  job           \* by caller: the evaluation it is running

tables == <<records, risks, owner, notices, advice>>
vars == <<now, tables, job>>

Scopes == Entities \cup {Whole}
Factors == UNION {p.factors : p \in Payloads}

\* The score and level of the assessment, not its entity, are part of this.
Fingerprint(p) ==
  <<p.signals, {f.id : f \in p.factors}, Result(p).score>>

\* A slip: an identifier of the instant lets one outcome be recorded twice.
IdentifierMutant(signals, at) == <<signals, at>>

\* Signals and hour: neither the entity nor the outcome is part of this.
Identifier(signals, at) == <<signals, at \div Ticks>>

Engine(r) == r.signals # "none"

\* Later than every other of them.  No two are of the same time.
Latest(S) == {r \in S : \A q \in S : q.at <= r.at}

Titled(e) == {i \in DOMAIN risks : risks[i].title = e}

Idle == [stage |-> "idle", entity |-> Whole, payload |-> CHOOSE p \in Payloads : TRUE,
         risk |-> 0, at |-> 0, previous |-> {}]

TypeOK ==
  /\ now \in 0..MaxNow
  /\ \A r \in records :
       /\ r.entity \in Scopes /\ r.risk \in DOMAIN risks /\ r.at \in 1..now
       /\ r.id = IF Engine(r) THEN Identifier(r.signals, r.at) ELSE <<"none", r.at>>
       /\ r.found.score \in 0..FullScore
  /\ risks \in Seq([title : Scopes, score : 0..FullScore])
  /\ owner \in [{f.id : f \in Factors} -> 0..Len(risks)]
  /\ \A n \in notices \cup advice : \E r \in records : r.id = n.assessment
  /\ \A c \in Callers : /\ job[c].stage \in {"idle", "look", "compare", "write"}
                        /\ job[c].previous \subseteq records
                        /\ Cardinality(job[c].previous) <= 1

-----------------------------------------------------------------------------
\* POST /risk-assessments/evaluate, up to the end of the engine's pipeline.
Request(c) ==
  /\ job[c] = Idle /\ now < MaxNow
  /\ now' = now + 1
  /\ \E e \in Scopes, p \in Payloads, i \in 0..Len(risks) :
       job' = [job EXCEPT ![c] =
                 [stage |-> "look", entity |-> e, payload |-> p, risk |-> i,
                  at |-> now + 1, previous |-> {}]]
  /\ UNCHANGED tables

\* find_by_fingerprint: a hit is the answer, whatever entity it was found for.
LookUp(c) ==
  LET hits == {r \in records : r.print = Fingerprint(job[c].payload)}
  IN /\ job[c].stage = "look"
     /\ IF hits = {}
        THEN job' = [job EXCEPT ![c].stage = "compare"]
        ELSE job' = [job EXCEPT ![c] = Idle]
     /\ UNCHANGED <<now, tables>>

\* A slip: the entity's evaluation is compared with any entity's last one.
ComparedMutant(j) ==
  IF j.risk # 0 THEN {r \in records : r.risk = j.risk} ELSE {r \in records : Engine(r)}

\* get_latest_for_risk, get_latest_for_entity or get_latest_for_org.
Compared(j) ==
  IF j.risk # 0 THEN {r \in records : r.risk = j.risk}
  ELSE {r \in records : Engine(r) /\ (j.entity # Whole => r.entity = j.entity)}

Compare(c) ==
  /\ job[c].stage = "compare"
  /\ job' = [job EXCEPT ![c].stage = "write",
                        ![c].previous = Latest(Compared(job[c]))]
  /\ UNCHANGED <<now, tables>>

Stamped(S, id) == {[assessment |-> id, of |-> x] : x \in S}

\* One transaction, with the parent risk at i; j is the evaluation.
Write(c, j, i) ==
  LET found == Result(j.payload)
      before == {r.found : r \in j.previous}
      id == Identifier(j.payload.signals, j.at)
  IN /\ records' = records \cup
           {[id |-> id, signals |-> j.payload.signals, entity |-> j.entity,
             risk |-> i, named |-> j.risk = 0, at |-> j.at,
             print |-> Fingerprint(j.payload), found |-> found]}
     /\ risks' = [k \in 1..(IF i > Len(risks) THEN i ELSE Len(risks)) |->
           IF k # i THEN risks[k]
           ELSE [title |-> IF i > Len(risks) THEN j.entity ELSE risks[i].title,
                 score |-> found.score]]
     /\ owner' = [f \in DOMAIN owner |->
           IF \E g \in found.factors : g.id = f THEN i ELSE owner[f]]
     /\ notices' = notices \cup Stamped(Alerts(found, before), id)
     /\ advice' = advice \cup Stamped(Recommendations(found, before), id)

\* The parent is the risk named in the request, or any titled after the
\* entity, or a new one.  An assessment with that primary key is on record
\* already: the insert is refused and the transaction rolled back.
Commit(c) ==
  LET j == job[c]
      taken == \E r \in records : r.id = Identifier(j.payload.signals, j.at)
      parents == IF j.risk # 0 THEN {j.risk}
                 ELSE IF Titled(j.entity) # {} THEN Titled(j.entity)
                 ELSE {Len(risks) + 1}
  IN /\ j.stage = "write"
     /\ IF taken THEN UNCHANGED tables
        ELSE \E i \in parents : Write(c, j, i)
     /\ job' = [job EXCEPT ![c] = Idle]
     /\ UNCHANGED now

\* A slip: the alerts were committed on their own before the assessment.
FailMutant(c) ==
  LET j == job[c]
  IN /\ j.stage = "write"
     /\ notices' = notices \cup
          Stamped(Alerts(Result(j.payload), {r.found : r \in j.previous}),
                  Identifier(j.payload.signals, j.at))
     /\ job' = [job EXCEPT ![c] = Idle]
     /\ UNCHANGED <<now, records, risks, owner, advice>>

\* The request fails before its commit: nothing it wrote is kept.
Fail(c) ==
  /\ job[c] # Idle
  /\ job' = [job EXCEPT ![c] = Idle]
  /\ UNCHANGED <<now, tables>>

\* POST /risk-assessments: a person's own score, without findings.
CreateAssessment(i, score) ==
  /\ now < MaxNow
  /\ now' = now + 1
  /\ records' = records \cup
       {[id |-> <<"none", now + 1>>, signals |-> "none",
         entity |-> Whole, risk |-> i, named |-> FALSE, at |-> now + 1,
         print |-> <<"none", {}, 0>>,
         found |-> [Assess({}, 0, {}) EXCEPT !.score = score, !.level = "NONE"]]}
  /\ UNCHANGED <<risks, owner, notices, advice, job>>

Init ==
  /\ now = 0 /\ records = {} /\ risks = <<>>
  /\ owner = [f \in {g.id : g \in Factors} |-> 0]
  /\ notices = {} /\ advice = {}
  /\ job = [c \in Callers |-> Idle]

Next ==
  \/ \E c \in Callers : Request(c) \/ LookUp(c) \/ Compare(c) \/ Commit(c) \/ Fail(c)
  \/ \E i \in DOMAIN risks, s \in PersonScores : CreateAssessment(i, s)

Spec == Init /\ [][Next]_vars

-----------------------------------------------------------------------------
Told(r, types) ==
  \E n \in notices : n.assessment = r.id /\ n.of.type \in types

\* No entity is found at HIGH or CRITICAL without a notice, at that level, of
\* an assessment of that very entity - however many requests evaluate it at
\* once, whichever commits first, and whatever was refused - as long as its
\* evaluations leave the choice of the risk to the service (an evaluation
\* that names a risk is compared with that risk's last, of any entity).
HighRiskAnnounced ==
  \A e \in Entities :
    LET own == {r \in records : r.entity = e}
    IN (\A r \in own : r.named) =>
       /\ \A r \in own : r.found.score >= High =>
            \E q \in own : Told(q, {"HIGH_RISK_REACHED", "CRITICAL_RISK_REACHED"})
       /\ \A r \in own : r.found.score >= Critical =>
            \E q \in own : Told(q, {"CRITICAL_RISK_REACHED"})

\* The same outcome for the same signals is recorded once within an hour, by
\* however many requests at once ("repeated evaluations with identical
\* signals avoid duplicates", tests/test_phase7_risk_persistence_api.py).
OneRecordPerOutcome ==
  \A r, q \in records :
    Engine(r) /\ r.print = q.print /\ r.at \div Ticks = q.at \div Ticks => r = q

\* Nobody raises an alarm and leaves it without an answer: an assessment with
\* a notice that a level was reached has an escalation on record, and
\* surveillance is recommended for none at HIGH or above.
AlarmsAnswered ==
  \A r \in records :
    LET answers == {a.of.type : a \in {b \in advice : b.assessment = r.id}}
    IN /\ Told(r, {"HIGH_RISK_REACHED", "CRITICAL_RISK_REACHED"}) => "ESCALATE" \in answers
       /\ r.found.score >= High => "MONITOR" \notin answers
=============================================================================

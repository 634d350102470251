------------------------------- MODULE RiskRules -------------------------------
(***************************************************************************)
(* The risk engine's arithmetic and rules, as functions of one assessment  *)
(* and at most one previous assessment: how the factors are ranked and     *)
(* compounded into a score, which alerts a change of score raises, and     *)
(* which operational recommendations follow.                               *)
(*                                                                         *)
(* A factor is a record [id, contribution, severity, confidence, quality,  *)
(* areas]; contributions are tenths, scores hundredths of a point, exact   *)
(* for the three factors an assessment has at most here.  "previous" is a  *)
(* set with at most one assessment.                                        *)
(***************************************************************************)
EXTENDS Integers, FiniteSets, Sequences

FullScore == 10000
Medium == 3000
High == 6000
Critical == 8500
Jump == 1500

Severities == {"LOW", "MEDIUM", "HIGH", "CRITICAL"}
Rank == [LOW |-> 0, MEDIUM |-> 1, HIGH |-> 2, CRITICAL |-> 3]
Areas == {"routing", "inventory", "carrier", "supplier"}
NoDriver == 0

Level(score) ==
  IF score < Medium THEN "LOW"
  ELSE IF score < High THEN "MEDIUM"
  ELSE IF score < Critical THEN "HIGH" ELSE "CRITICAL"

-----------------------------------------------------------------------------
\* A contribution is at most 1, ten tenths.
AreFactors(factors) ==
  \A f \in factors : /\ f.contribution \in 0..10 /\ f.severity \in Severities
                     /\ f.confidence \in Int /\ f.quality \in Int /\ f.id \in Int

Merit(f) == <<f.contribution, Rank[f.severity], f.confidence, f.quality>>

Beats(f, g) ==
  LET m == Merit(f)  n == Merit(g)
  IN \/ \E i \in 1..4 : m[i] > n[i] /\ \A j \in 1..(i - 1) : m[j] = n[j]
     \/ m = n /\ f.id < g.id

\* Of factors that tie, any comes first.
Ranked(factors) ==
  CHOOSE r \in [1..Cardinality(factors) -> factors] :
    \A i, j \in DOMAIN r : i < j => r[i] # r[j] /\ ~Beats(r[j], r[i])

\* The weight of rank k > 1 is 0.5 / (1 + 0.2 (k - 1)): a contribution of c
\* tenths takes the share c / (4 k + 16) of the headroom left.
Share(k) == IF k = 1 THEN 10 ELSE 4 * k + 16

\* By k, the product of the first k numbers of g.
Products(g) ==
  LET p[k \in 0..Len(g)] == IF k = 0 THEN 1 ELSE p[k - 1] * g[k] IN p

Score(factors) ==
  LET ranked == Ranked(factors)
      n == Cardinality(factors)
      left == Products([k \in 1..n |-> Share(k) - ranked[k].contribution])[n]
      whole == Products([k \in 1..n |-> Share(k)])[n]
  IN (20000 * (whole - left) + whole) \div (2 * whole)

Driver(factors) == IF factors = {} THEN NoDriver ELSE Ranked(factors)[1].id

Assess(factors, conflicts, limits) ==
  [score |-> Score(factors), level |-> Level(Score(factors)),
   factors |-> factors, driver |-> Driver(factors),
   conflicts |-> conflicts, limits |-> limits]

-----------------------------------------------------------------------------
(* The alert rules.                                                        *)
Reaches(cur, previous, mark) ==
  cur.score >= mark /\ \A p \in previous : p.score < mark

DriverChanged(cur, p) == p.driver # NoDriver /\ p.driver # cur.driver

\* The comparator is given evidence without its quality: limitations decide.
Degraded(cur, p) ==
  Cardinality(cur.limits \ p.limits) > Cardinality(p.limits \ cur.limits)

Increasing(cur, previous) == \E p \in previous : cur.score > p.score

Transitions(cur, previous) ==
  [CRITICAL_RISK_REACHED |-> Reaches(cur, previous, Critical),
   HIGH_RISK_REACHED |-> cur.score < Critical /\ Reaches(cur, previous, High),
   RISK_LEVEL_INCREASED |-> \E p \in previous :
      p.level \in Severities /\ Rank[cur.level] > Rank[p.level],
   RISK_LEVEL_DECREASED |-> \E p \in previous :
      p.level \in Severities /\ Rank[cur.level] < Rank[p.level],
   RISK_SCORE_INCREASED |-> \E p \in previous : cur.score - p.score >= Jump]

Comparisons(cur, previous) ==
  [RISK_TREND_INCREASING |-> cur.score >= High /\ Increasing(cur, previous),
   PRIMARY_DRIVER_CHANGED |-> cur.score >= Medium
                              /\ \E p \in previous : DriverChanged(cur, p),
   NEW_CONFLICT |-> cur.conflicts > 0 /\ \E p \in previous : p.conflicts = 0,
   QUALITY_DEGRADED |-> \E p \in previous : Degraded(cur, p)]

CriticalFactors(a) == {f.id : f \in {g \in a.factors : g.severity = "CRITICAL"}}

Alerts(cur, previous) ==
  LET changes == Transitions(cur, previous)
      compared == Comparisons(cur, previous)
      raised == {t \in DOMAIN changes : changes[t]} \cup {t \in DOMAIN compared : compared[t]}
      known == UNION {CriticalFactors(p) : p \in previous}
  IN {[type |-> t, factor |-> NoDriver] : t \in raised}
     \cup {[type |-> "CRITICAL_FACTOR_DETECTED", factor |-> f] :
              f \in CriticalFactors(cur) \ known}

-----------------------------------------------------------------------------
(* The recommendation rules.                                               *)
\* What a recommendation is about: the assessment, its conflicts, its trend,
\* or, when positive, a factor.
AllOfIt == 0
OfConflict == -1
OfTrend == -2

Advice(type, priority, key) == [type |-> type, priority |-> priority, key |-> key]

\* A slip: HIGH is kept under surveillance like MEDIUM.
ByLevelMutant(level) ==
  IF level = "CRITICAL"
  THEN {Advice("ESCALATE", "CRITICAL", AllOfIt), Advice("EXPEDITE", "CRITICAL", AllOfIt)}
  ELSE {Advice("MONITOR", level, AllOfIt)}

ByLevel(level) ==
  CASE level = "LOW" -> {Advice("MONITOR", "LOW", AllOfIt)}
    [] level = "MEDIUM" -> {Advice("MONITOR", "MEDIUM", AllOfIt)}
    [] level = "HIGH" -> {Advice("ESCALATE", "HIGH", AllOfIt)}
    [] OTHER -> {Advice("ESCALATE", "CRITICAL", AllOfIt), Advice("EXPEDITE", "CRITICAL", AllOfIt)}

Urgency(f) == IF f.severity \in {"HIGH", "CRITICAL"} THEN f.severity ELSE "MEDIUM"

\* The area whose review a disruption of that area calls for; a carrier is
\* not reviewed for what is an inventory disruption.
Reviews(f, score) ==
  {a \in f.areas : /\ a # "supplier" => score >= Medium
                   /\ a = "carrier" => "inventory" \notin f.areas}

Proposed(cur, previous) ==
  ByLevel(cur.level)
  \cup {Advice("EXPEDITE", "CRITICAL", f) : f \in CriticalFactors(cur)}
  \cup UNION {{Advice(a, Urgency(f), f.id) : a \in Reviews(f, cur.score)} :
                f \in cur.factors}
  \cup (IF cur.conflicts > 0 THEN {Advice("INVESTIGATE", "MEDIUM", OfConflict)} ELSE {})
  \cup (IF cur.score >= High /\ Increasing(cur, previous)
        THEN {Advice("ESCALATE", cur.level, OfTrend)} ELSE {})

Recommendations(cur, previous) ==
  LET all == Proposed(cur, previous)
      review == \E r \in all : r.type \in Areas \cup {"EXPEDITE", "ESCALATE"}
  IN IF review /\ cur.score >= High THEN {r \in all : r.type # "MONITOR"} ELSE all
=============================================================================

------------------------- MODULE RiskEvaluationProofs -------------------------
(***************************************************************************)
(* What evaluations of risk leave in the tables, for any number of         *)
(* callers, entities, payloads and hours.                                  *)
(*                                                                         *)
(* Nothing is locked, so the argument cannot rest on what an evaluation    *)
(* has read being still the last: it rests on the tables only growing, on  *)
(* the time each evaluation has for itself, and on the identifier derived  *)
(* from the signals and the hour being the primary key, which is free of   *)
(* notices and advice until the assessment itself is committed.            *)
(***************************************************************************)
EXTENDS RiskEvaluation, FiniteSetTheorems, WellFoundedInduction, TLAPS

Busy(c) == job[c].stage # "idle"

IsJob(j) == j = [stage |-> j.stage, entity |-> j.entity, payload |-> j.payload,
                 risk |-> j.risk, at |-> j.at, previous |-> j.previous]

(* A caller's job has the fields that EXCEPT relies on and what a request    *)
(* may ask.                                                                  *)
Asked(c) ==
  Busy(c) => /\ job[c].entity \in Scopes /\ job[c].payload \in Payloads
             /\ job[c].risk \in 0..Len(risks) /\ job[c].at \in 1..now

Jobs ==
  /\ job = [c \in Callers |-> job[c]]
  /\ \A c \in Callers : IsJob(job[c]) /\ Asked(c)

(* No two evaluations or records are of the same time.                       *)
OwnTime ==
  /\ \A r, q \in records : r.at = q.at => r = q
  /\ \A c \in Callers : Busy(c) =>
       /\ \A r \in records : r.at # job[c].at
       /\ \A d \in Callers : Busy(d) /\ job[d].at = job[c].at => d = c

(* The identifier is a key, and the fingerprint tells the signals.           *)
Keyed ==
  /\ \A r, q \in records : r.id = q.id => r = q
  /\ \A r \in records : r.print[1] = r.signals

(* An evaluation of an entity is compared with one of the same entity.       *)
OwnPrevious ==
  \A c \in Callers :
    Busy(c) /\ job[c].risk = 0 /\ job[c].entity \in Entities =>
      \A r \in job[c].previous : r.entity = job[c].entity

IInv == /\ TypeOK /\ Jobs /\ OwnTime /\ Keyed /\ OwnPrevious
        /\ HighRiskAnnounced /\ AlarmsAnswered

-----------------------------------------------------------------------------
(* Products                                                                  *)

(* Induction over numbers: the argument is on the smallest counterexample.   *)
LEMMA SmallestNat ==
  ASSUME NEW S, S \subseteq Nat, S # {}
  PROVE  \E m \in S : \A k \in S : m <= k
<1>1. PICK m \in S : \A k \in S : ~(<<k, m>> \in OpToRel(<, Nat))
  BY NatLessThanWellFounded, WFMin
<1>2. \A k \in S : ~(k < m)
  BY <1>1 DEF OpToRel
<1>3. QED
  BY <1>2

(* The equation that Products is to solve.                                   *)
Recursion(p, g, n) == p = [k \in 0..n |-> IF k = 0 THEN 1 ELSE p[k - 1] * g[k]]

(* It has a solution: the shortest list without one could be extended.       *)
LEMMA ProductsExist ==
  ASSUME NEW n \in Nat, NEW g \in [1..n -> Nat]
  PROVE  \E p : Recursion(p, g, n)
<1> DEFINE Bad == {m \in 0..n : ~\E p : Recursion(p, g, m)}
<1>1. n \in 0..n
  OBVIOUS
<1>2. SUFFICES ASSUME Bad # {} PROVE FALSE
  BY <1>1
<1>3. PICK m \in Bad : \A k \in Bad : m <= k
  <2>1. Bad \subseteq Nat
    OBVIOUS
  <2> HIDE DEF Bad
  <2>2. QED
    BY <1>2, <2>1, SmallestNat
<1>4. m # 0
  <2>1. Recursion([k \in 0..0 |-> 1], g, 0)
    BY DEF Recursion
  <2>2. QED
    BY <2>1
<1>5. m - 1 \in 0..n /\ ~(m - 1 \in Bad)
  BY <1>3, <1>4
<1>6. PICK p : Recursion(p, g, m - 1)
  BY <1>5
<1> DEFINE q == [k \in 0..m |-> IF k = m THEN p[m - 1] * g[m] ELSE p[k]]
<1>7. Recursion(q, g, m)
  <2>1. ASSUME NEW k \in 0..m
        PROVE  q[k] = IF k = 0 THEN 1 ELSE q[k - 1] * g[k]
    <3>1. CASE k = m
      BY <1>4, <2>1, <3>1
    <3>2. CASE k # m
      <4>1. k \in 0..(m - 1) /\ q[k] = p[k]
        BY <2>1, <3>2
      <4>2. p[k] = IF k = 0 THEN 1 ELSE p[k - 1] * g[k]
        BY <1>6, <4>1 DEF Recursion
      <4>3. k # 0 => q[k - 1] = p[k - 1]
        BY <2>1, <3>2
      <4>4. QED
        BY <4>1, <4>2, <4>3
    <3>3. QED
      BY <3>1, <3>2
  <2>2. q = [k \in 0..m |-> q[k]]
    OBVIOUS
  <2> HIDE DEF q
  <2>3. QED
    BY <2>1, <2>2 DEF Recursion
<1>8. QED
  BY <1>7

(* So Products is one.                                                       *)
LEMMA ProductsDefined ==
  ASSUME NEW n \in Nat, NEW g \in [1..n -> Nat]
  PROVE  Recursion(Products(g), g, n)
<1>1. Len(g) = n
  OBVIOUS
<1>2. Products(g) = CHOOSE p : Recursion(p, g, n)
  BY <1>1 DEF Products, Recursion
<1>3. QED
  BY <1>2, ProductsExist

(* Each product is the one before it times the next number.                  *)
LEMMA ProductsSteps ==
  ASSUME NEW n \in Nat, NEW g \in [1..n -> Nat]
  PROVE  /\ Products(g)[0] = 1
         /\ \A k \in 1..n : Products(g)[k] = Products(g)[k - 1] * g[k]
<1> DEFINE p == Products(g)
<1>1. p = [k \in 0..n |-> IF k = 0 THEN 1 ELSE p[k - 1] * g[k]]
  BY ProductsDefined DEF Recursion
<1> HIDE DEF p
<1>2. \A k \in 0..n : p[k] = IF k = 0 THEN 1 ELSE p[k - 1] * g[k]
  BY <1>1
<1>3. p[0] = 1 /\ \A k \in 1..n : p[k] = p[k - 1] * g[k]
  BY <1>2
<1>4. QED
  BY <1>3 DEF p

(* Of products the provers know little.                                      *)
LEMMA TimesMonotone ==
  ASSUME NEW a \in Nat, NEW b \in Nat, NEW c \in Nat, NEW d \in Nat, a <= b, c <= d
  PROVE  a * c <= b * d
<1>1. a * c <= b * c
  OBVIOUS
<1>2. b * c <= b * d
  OBVIOUS
<1>3. QED
  BY <1>1, <1>2

LEMMA TimesNat ==
  ASSUME NEW a \in Nat, NEW b \in Nat PROVE a * b \in Nat
OBVIOUS

LEMMA TimesPositive ==
  ASSUME NEW a \in Nat, NEW b \in Nat, a # 0, b # 0 PROVE a * b # 0
OBVIOUS

LEMMA TimesSwap ==
  ASSUME NEW a \in Nat, NEW b \in Nat, NEW c \in Nat
  PROVE  (a * b) * c = (a * c) * b
OBVIOUS

(* Smaller factors, smaller product; and the first factor's share of the     *)
(* product is never regained.                                                *)
LEMMA ProductsCompared ==
  ASSUME NEW n \in Nat, NEW f \in [1..n -> Nat], NEW g \in [1..n -> Nat \ {0}],
         \A k \in 1..n : f[k] <= g[k]
  PROVE  \A k \in 0..n :
           /\ Products(f)[k] \in Nat /\ Products(g)[k] \in Nat \ {0}
           /\ Products(f)[k] <= Products(g)[k]
           /\ k # 0 => Products(f)[k] * g[1] <= Products(g)[k] * f[1]
<1> DEFINE A == Products(f)
           B == Products(g)
           Good(k) == /\ A[k] \in Nat /\ B[k] \in Nat \ {0}
                      /\ A[k] <= B[k]
                      /\ k # 0 => A[k] * g[1] <= B[k] * f[1]
           Bad == {k \in 0..n : ~Good(k)}
<1>1. /\ A[0] = 1 /\ \A k \in 1..n : A[k] = A[k - 1] * f[k]
      /\ B[0] = 1 /\ \A k \in 1..n : B[k] = B[k - 1] * g[k]
  <2>1. g \in [1..n -> Nat]
    OBVIOUS
  <2>2. QED
    BY <2>1, ProductsSteps
<1> HIDE DEF A, B
<1>2. SUFFICES ASSUME Bad # {} PROVE FALSE
  BY DEF A, B
<1>3. PICK k \in Bad : \A j \in Bad : k <= j
  <2>1. Bad \subseteq Nat
    OBVIOUS
  <2> HIDE DEF Bad
  <2>2. QED
    BY <1>2, <2>1, SmallestNat
<1>4. k # 0
  BY <1>1, <1>3
<1>5. k \in 1..n /\ k - 1 \in 0..n /\ Good(k - 1)
  BY <1>3, <1>4
<1> DEFINE a == A[k - 1]
           b == B[k - 1]
           c == f[k]
           d == g[k]
<1>6. /\ a \in Nat /\ b \in Nat /\ b # 0 /\ a <= b
      /\ k # 1 => a * g[1] <= b * f[1]
      /\ A[k] = a * c /\ B[k] = b * d
  BY <1>1, <1>5
<1>7. /\ c \in Nat /\ d \in Nat /\ d # 0 /\ c <= d
      /\ f[1] \in Nat /\ g[1] \in Nat /\ f[1] <= g[1]
  <2>1. 1 \in 1..n
    BY <1>5
  <2>2. QED
    BY <1>5, <2>1
<1>8. k = 1 => a = 1 /\ b = 1 /\ c = f[1] /\ d = g[1]
  BY <1>1
<1> HIDE DEF a, b, c, d
<1>9. A[k] \in Nat /\ B[k] \in Nat
  <2>1. a * c \in Nat /\ b * d \in Nat
    BY <1>6, <1>7, TimesNat
  <2>2. QED
    BY <1>6, <2>1
<1>10. B[k] # 0
  <2>1. b * d # 0
    BY <1>6, <1>7, TimesPositive
  <2>2. QED
    BY <1>6, <2>1
<1>11. A[k] <= B[k]
  <2>1. a * c <= b * d
    BY <1>6, <1>7, TimesMonotone
  <2>2. QED
    BY <1>6, <2>1
<1>12. A[k] * g[1] <= B[k] * f[1]
  <2>1. CASE k = 1
    BY <1>6, <1>7, <1>8, <2>1
  <2>2. CASE k # 1
    <3>1. a * g[1] \in Nat /\ b * f[1] \in Nat
      BY <1>6, <1>7, TimesNat
    <3>2. (a * g[1]) * c <= (b * f[1]) * d
      BY <1>6, <1>7, <2>2, <3>1, TimesMonotone
    <3>3. (a * g[1]) * c = (a * c) * g[1]
      BY <1>6, <1>7, TimesSwap
    <3>4. (b * f[1]) * d = (b * d) * f[1]
      BY <1>6, <1>7, TimesSwap
    <3>5. QED
      BY <1>6, <3>2, <3>3, <3>4
  <2>3. QED
    BY <2>1, <2>2
<1>13. Good(k)
  BY <1>9, <1>10, <1>11, <1>12
<1>14. QED
  BY <1>3, <1>13

-----------------------------------------------------------------------------
(* The ranking                                                               *)

(* The five keys of sort_factors_deterministically, one after the other.     *)
LEMMA BeatsByParts ==
  ASSUME NEW f, NEW g
  PROVE  Beats(f, g) <=>
    \/ f.contribution > g.contribution
    \/ /\ f.contribution = g.contribution
       /\ \/ Rank[f.severity] > Rank[g.severity]
          \/ /\ Rank[f.severity] = Rank[g.severity]
             /\ \/ f.confidence > g.confidence
                \/ /\ f.confidence = g.confidence
                   /\ \/ f.quality > g.quality
                      \/ f.quality = g.quality /\ f.id < g.id
<1> DEFINE m == Merit(f)  n == Merit(g)
<1>1. /\ m[1] = f.contribution /\ m[2] = Rank[f.severity] 
      /\ m[3] = f.confidence /\ m[4] = f.quality
      /\ n[1] = g.contribution /\ n[2] = Rank[g.severity] 
      /\ n[3] = g.confidence /\ n[4] = g.quality
  BY DEF Merit
<1>2. m = n <=> m[1] = n[1] /\ m[2] = n[2] /\ m[3] = n[3] /\ m[4] = n[4]
  BY DEF Merit
<1>3. Beats(f, g) <=> \/ \E i \in 1..4 : m[i] > n[i] /\ \A j \in 1..(i - 1) : m[j] = n[j]
                      \/ m = n /\ f.id < g.id
  BY DEF Beats
<1> HIDE DEF m, n
<1>4. (\E i \in 1..4 : m[i] > n[i] /\ \A j \in 1..(i - 1) : m[j] = n[j])
      <=> \/ m[1] > n[1]
          \/ m[1] = n[1] /\ m[2] > n[2]
          \/ m[1] = n[1] /\ m[2] = n[2] /\ m[3] > n[3]
          \/ m[1] = n[1] /\ m[2] = n[2] /\ m[3] = n[3] /\ m[4] > n[4]
  <2>1. 1..4 = {1, 2, 3, 4}
    OBVIOUS
  <2>2. 1..0 = {} /\ 1..1 = {1} /\ 1..2 = {1, 2} /\ 1..3 = {1, 2, 3}
    OBVIOUS
  <2>3. /\ (\A j \in 1..(1 - 1) : m[j] = n[j]) <=> TRUE
        /\ (\A j \in 1..(2 - 1) : m[j] = n[j]) <=> m[1] = n[1]
        /\ (\A j \in 1..(3 - 1) : m[j] = n[j]) <=> m[1] = n[1] /\ m[2] = n[2]
        /\ (\A j \in 1..(4 - 1) : m[j] = n[j]) <=> m[1] = n[1] /\ m[2] = n[2] /\ m[3] = n[3]
    BY <2>2
  <2> HIDE DEF m, n
  <2>4. QED
    BY <2>1, <2>3
<1>5. QED
  BY <1>1, <1>2, <1>3, <1>4

(* They order factors strictly, and by contribution first.                   *)
LEMMA BeatsOrders ==
  ASSUME NEW S, AreFactors(S)
  PROVE  /\ \A f \in S : ~Beats(f, f)
         /\ \A f, g, h \in S : Beats(f, g) /\ Beats(g, h) => Beats(f, h)
         /\ \A f, g \in S : ~Beats(g, f) => g.contribution <= f.contribution
<1>1. \A f \in S : /\ f.contribution \in Int /\ Rank[f.severity] \in Int
                   /\ f.confidence \in Int /\ f.quality \in Int /\ f.id \in Int
  BY DEF AreFactors, Severities, Rank
<1>2. QED
  BY <1>1, BeatsByParts

(* Some factor beats no other.                                               *)
LEMMA LastExists ==
  ASSUME NEW S, IsFiniteSet(S), S # {}, AreFactors(S)
  PROVE  \E w \in S : \A f \in S : ~Beats(w, f)
<1> DEFINE Lacks(T) == T # {} /\ ~\E w \in T : \A f \in T : ~Beats(w, f)
           Bad == {Cardinality(T) : T \in {U \in SUBSET S : Lacks(U)}}
<1>1. SUFFICES ASSUME Lacks(S) PROVE FALSE
  OBVIOUS
<1>2. \A T \in SUBSET S : IsFiniteSet(T) /\ Cardinality(T) \in Nat
  BY FS_Subset, FS_CardinalityType
<1>3. PICK c \in Bad : \A k \in Bad : c <= k
  <2>1. Bad \subseteq Nat /\ Bad # {}
    BY <1>1, <1>2
  <2> HIDE DEF Bad
  <2>2. QED
    BY <2>1, SmallestNat
<1>4. PICK T \in SUBSET S : Lacks(T) /\ c = Cardinality(T)
  BY <1>3
<1>5. PICK x \in T : TRUE
  BY <1>4
<1> DEFINE U == T \ {x}
<1>6. Cardinality(U) = c - 1 /\ c \in Nat
  BY <1>2, <1>4, <1>5, FS_RemoveElement
<1>7. ~Lacks(U)
  <2>1. ~(c - 1 \in Bad)
    BY <1>3, <1>6
  <2>2. U \in SUBSET S
    BY <1>4
  <2>3. QED
    BY <1>6, <2>1, <2>2
<1>8. /\ \A f \in T : ~Beats(f, f)
      /\ \A f, g, h \in T : Beats(f, g) /\ Beats(g, h) => Beats(f, h)
  BY <1>4, BeatsOrders
<1>9. CASE U = {}
  BY <1>4, <1>5, <1>8, <1>9
<1>10. CASE U # {}
  <2>1. PICK w \in U : \A f \in U : ~Beats(w, f)
    BY <1>7, <1>10
  <2>2. CASE Beats(w, x)
    BY <1>4, <1>5, <1>8, <2>1, <2>2
  <2>3. CASE ~Beats(w, x)
    BY <1>4, <1>5, <1>8, <2>1, <2>3
  <2>4. QED
    BY <2>2, <2>3
<1>11. QED
  BY <1>9, <1>10

IsRanking(r, S) ==
  /\ r \in [1..Cardinality(S) -> S]
  /\ \A i, j \in DOMAIN r : i < j => r[i] # r[j] /\ ~Beats(r[j], r[i])

(* Every finite set of factors can be ranked: the last one behind the rest.  *)
LEMMA RankingExists ==
  ASSUME NEW S, IsFiniteSet(S), AreFactors(S)
  PROVE  \E r : IsRanking(r, S)
<1> DEFINE Lacks(T) == ~\E r : IsRanking(r, T)
           Bad == {Cardinality(T) : T \in {U \in SUBSET S : Lacks(U)}}
<1>1. SUFFICES ASSUME Lacks(S) PROVE FALSE
  OBVIOUS
<1>2. \A T \in SUBSET S : IsFiniteSet(T) /\ Cardinality(T) \in Nat
  BY FS_Subset, FS_CardinalityType
<1>3. PICK c \in Bad : \A k \in Bad : c <= k
  <2>1. Bad \subseteq Nat /\ Bad # {}
    BY <1>1, <1>2
  <2> HIDE DEF Bad
  <2>2. QED
    BY <2>1, SmallestNat
<1>4. PICK T \in SUBSET S : Lacks(T) /\ c = Cardinality(T)
  BY <1>3
<1>5. T # {}
  <2>1. ASSUME T = {} PROVE IsRanking([i \in {} |-> i], T)
    <3>1. Cardinality(T) = 0 /\ 1..0 = {}
      BY <2>1, FS_EmptySet
    <3>2. QED
      BY <2>1, <3>1 DEF IsRanking
  <2>2. QED
    BY <1>4, <2>1
<1>6. PICK w \in T : \A f \in T : ~Beats(w, f)
  <2>1. AreFactors(T) /\ IsFiniteSet(T)
    BY <1>2, <1>4 DEF AreFactors
  <2>2. QED
    BY <1>5, <2>1, LastExists
<1> DEFINE U == T \ {w}
<1>7. Cardinality(U) = c - 1 /\ c \in Nat \ {0}
  <2>1. Cardinality(U) = c - 1 /\ c \in Nat
    BY <1>2, <1>4, <1>6, FS_RemoveElement
  <2>2. c # 0
    BY <1>2, <1>4, <1>5, FS_EmptySet
  <2>3. QED
    BY <2>1, <2>2
<1>8. PICK r : IsRanking(r, U)
  <2>1. ~(c - 1 \in Bad)
    BY <1>3, <1>7
  <2>2. U \in SUBSET S
    BY <1>4
  <2>3. QED
    BY <1>7, <2>1, <2>2
<1>9. /\ r \in [1..(c - 1) -> U]
      /\ \A i, j \in 1..(c - 1) : i < j => r[i] # r[j] /\ ~Beats(r[j], r[i])
  BY <1>7, <1>8 DEF IsRanking
<1> DEFINE q == [i \in 1..c |-> IF i = c THEN w ELSE r[i]]
<1>10. q \in [1..c -> T]
  BY <1>6, <1>7, <1>9
<1>11. \A i \in 1..c : i = c \/ i \in 1..(c - 1)
  BY <1>7
<1>12. \A i, j \in 1..c : i < j => q[i] # q[j] /\ ~Beats(q[j], q[i])
  <2>1. ASSUME NEW i \in 1..c, NEW j \in 1..c, i < j
        PROVE  q[i] # q[j] /\ ~Beats(q[j], q[i])
    <3>1. i \in 1..(c - 1) /\ r[i] \in U /\ q[i] = r[i]
      BY <1>7, <1>9, <2>1
    <3>2. CASE j = c
      BY <1>6, <3>1, <3>2
    <3>3. CASE j # c
      BY <1>9, <1>11, <2>1, <3>1, <3>3
    <3>4. QED
      BY <3>2, <3>3
  <2> HIDE DEF q
  <2>2. QED
    BY <2>1
<1>13. IsRanking(q, T)
  <2>1. DOMAIN q = 1..c
    OBVIOUS
  <2> HIDE DEF q
  <2>2. QED
    BY <1>4, <1>10, <1>12, <2>1 DEF IsRanking
<1>14. QED
  BY <1>4, <1>13

(* So Ranked is a ranking.                                                   *)
LEMMA RankedRanks ==
  ASSUME NEW S, IsFiniteSet(S), AreFactors(S)
  PROVE  IsRanking(Ranked(S), S)
<1>1. \E r \in [1..Cardinality(S) -> S] :
        \A i, j \in DOMAIN r : i < j => r[i] # r[j] /\ ~Beats(r[j], r[i])
  BY RankingExists DEF IsRanking
<1>2. QED
  BY <1>1 DEF Ranked, IsRanking

-----------------------------------------------------------------------------
(* The score                                                                 *)

(* A share of the full score, rounded to hundredths.                         *)
LEMMA RoundedShare ==
  ASSUME NEW a \in Nat, NEW b \in Nat \ {0}, a <= b,
         NEW s, s = (20000 * (b - a) + b) \div (2 * b)
  PROVE  /\ s \in 0..FullScore
         /\ \A c \in 0..10 : 10 * a <= b * (10 - c) => 1000 * c <= s
<1> DEFINE num == 20000 * (b - a) + b
           den == 2 * b
<1>1. den \in Nat \ {0} /\ num \in Nat
  OBVIOUS
<1>2. s \in Int /\ s * den <= num /\ num < (s + 1) * den
  <2>1. s = num \div den
    OBVIOUS
  <2> HIDE DEF num, den
  <2>2. QED
    BY <1>1, <2>1
<1>3. 2 * (s * b) <= num /\ num < 2 * ((s + 1) * b)
  <2>1. s * den = 2 * (s * b) /\ (s + 1) * den = 2 * ((s + 1) * b)
    BY <1>2
  <2>2. QED
    BY <1>2, <2>1
<1>4. s <= 10000
  <2>1. ASSUME s >= 10001 PROVE FALSE
    <3>1. s * b >= 10001 * b
      BY <1>2, <2>1
    <3>2. s * b \in Int
      BY <1>2
    <3>3. QED
      BY <1>3, <3>1, <3>2
  <2>2. QED
    BY <1>2, <2>1
<1>5. s >= 0
  <2>1. ASSUME s <= -1 PROVE FALSE
    <3>1. (s + 1) * b <= 0 /\ (s + 1) * b \in Int
      BY <1>2, <2>1
    <3>2. QED
      BY <1>1, <1>3, <3>1
  <2>2. QED
    BY <1>2, <2>1
<1>6. ASSUME NEW c \in 0..10, 10 * a <= b * (10 - c) PROVE 1000 * c <= s
  <2>1. b * (10 - c) = 10 * b - b * c
    BY <1>6
  <2>2. b * c \in Nat /\ b * c <= 10 * (b - a)
    BY <1>6, <2>1
  <2>3. 2000 * (b * c) + b <= num
    BY <2>2
  <2>4. ASSUME s <= 1000 * c - 1 PROVE FALSE
    <3>1. (s + 1) * b <= (1000 * c) * b
      BY <1>2, <1>6, <2>4
    <3>2. (1000 * c) * b = 1000 * (b * c)
      BY <1>6
    <3>3. (s + 1) * b \in Int
      BY <1>2
    <3>4. QED
      BY <1>3, <2>2, <2>3, <3>1, <3>2, <3>3
  <2>5. QED
    BY <1>2, <1>6, <2>4
<1>7. s <= FullScore /\ FullScore \in Nat
  BY <1>4 DEF FullScore
<1>8. QED
  BY <1>2, <1>5, <1>6, <1>7

(* The headroom left is a product of numbers between 0 and the shares, the   *)
(* first of which is what the highest contribution leaves.                   *)
LEMMA ScoreFacts ==
  ASSUME NEW S, IsFiniteSet(S), AreFactors(S)
  PROVE  /\ Score(S) \in 0..FullScore
         /\ \A f \in S : 1000 * f.contribution <= Score(S)
<1> DEFINE r == Ranked(S)
           n == Cardinality(S)
           lost == [k \in 1..n |-> Share(k) - r[k].contribution]
           all == [k \in 1..n |-> Share(k)]
           a == Products(lost)[n]
           b == Products(all)[n]
<1>1. n \in Nat /\ IsRanking(r, S)
  BY RankedRanks, FS_CardinalityType
<1>2. Score(S) = (20000 * (b - a) + b) \div (2 * b)
  BY DEF Score
<1> HIDE DEF r, n, a, b
<1>3. /\ r \in [1..n -> S]
      /\ \A i, j \in 1..n : i < j => r[i] # r[j] /\ ~Beats(r[j], r[i])
  BY <1>1 DEF IsRanking, n
<1>4. \A k \in 1..n : r[k] \in S /\ r[k].contribution \in 0..10
  BY <1>3 DEF AreFactors
<1>5. \A k \in 1..n : Share(k) \in Nat /\ Share(k) >= 10
  BY <1>1 DEF Share
<1>6. lost \in [1..n -> Nat] /\ all \in [1..n -> Nat \ {0}] /\ \A k \in 1..n : lost[k] <= all[k]
  BY <1>4, <1>5
<1>7. /\ a \in Nat /\ b \in Nat \ {0} /\ a <= b
      /\ n # 0 => a * all[1] <= b * lost[1]
  <2>1. n \in 0..n
    BY <1>1
  <2> HIDE DEF lost, all
  <2>2. QED
    BY <1>1, <1>6, <2>1, ProductsCompared DEF a, b
<1>8. ASSUME NEW f \in S PROVE n # 0 /\ f.contribution <= r[1].contribution
  <2>1. n # 0
    BY FS_EmptySet DEF n
  <2>2. PICK i \in 1..n : r[i] = f
    <3>1. r \in Injection(1..n, S)
      BY <1>1, <1>3 DEF Injection, IsInjective
    <3>2. IsFiniteSet(1..n) /\ Cardinality(1..n) = n
      BY <1>1, FS_Interval
    <3>3. r \in Surjection(1..n, S)
      BY <3>1, <3>2, FS_Injection DEF n
    <3>4. QED
      BY <3>3 DEF Surjection
  <2>3. r[1].contribution >= f.contribution
    BY <1>1, <1>3, <1>4, <2>1, <2>2, BeatsOrders
  <2>4. QED
    BY <2>1, <2>3
<1>9. QED
  <2>1. Score(S) \in 0..FullScore
    BY <1>2, <1>7, RoundedShare
  <2>2. ASSUME NEW f \in S PROVE 1000 * f.contribution <= Score(S)
    <3>1. 1 \in 1..n /\ all[1] = 10 /\ lost[1] = 10 - r[1].contribution /\ r[1].contribution \in 0..10
      BY <1>1, <1>4, <1>8 DEF Share
    <3>2. 10 * a <= b * (10 - r[1].contribution)
      BY <1>7, <1>8, <3>1
    <3>3. 1000 * r[1].contribution <= Score(S)
      BY <1>2, <1>7, <3>1, <3>2, RoundedShare
    <3>4. f.contribution \in 0..10
      BY DEF AreFactors
    <3>5. QED
      <4>1. FullScore \in Nat
        BY DEF FullScore
      <4>2. 1000 * f.contribution <= 1000 * r[1].contribution
        BY <1>8, <3>1, <3>4
      <4>3. QED
        BY <2>1, <3>1, <3>3, <3>4, <4>1, <4>2
  <2>3. QED
    BY <2>1, <2>2

(* The aggregator's score lies between 0 and 100 points for any number of    *)
(* factors: its own cut-off never applies.                                   *)
THEOREM ScoreWithinBounds ==
  ASSUME NEW S, IsFiniteSet(S), AreFactors(S)
  PROVE  Score(S) \in 0..FullScore
BY ScoreFacts

(* No factor is diluted by the others: the score is at least what its        *)
(* contribution alone would make it.                                         *)
THEOREM NoFactorDiluted ==
  ASSUME NEW S, IsFiniteSet(S), AreFactors(S), NEW f \in S
  PROVE  1000 * f.contribution <= Score(S)
BY ScoreFacts

-----------------------------------------------------------------------------
(* The rules                                                                 *)

Scored(S) == \A p \in S : p.score \in 0..FullScore

LEMMA ScoreInt ==
  ASSUME NEW p, p.score \in 0..FullScore
  PROVE  p.score \in Int
<1>1. FullScore \in Nat
  BY DEF FullScore
<1> QED
  BY <1>1

(* An assessment raises the alert of a level when it reaches the level.      *)
LEMMA LevelAlerts ==
  ASSUME NEW cur, NEW previous, NEW t \in {"HIGH_RISK_REACHED", "CRITICAL_RISK_REACHED"}
  PROVE  /\ Transitions(cur, previous)[t] =>
              [type |-> t, factor |-> NoDriver] \in Alerts(cur, previous)
         /\ \A a \in Alerts(cur, previous) : a.type = t => Transitions(cur, previous)[t]
<1>1. PICK changes : changes = Transitions(cur, previous)
  OBVIOUS
<1>2. PICK compared : compared = Comparisons(cur, previous)
  OBVIOUS
<1>3. t \in DOMAIN changes
  BY <1>1 DEF Transitions
<1>4. t \notin DOMAIN compared
  BY <1>2 DEF Comparisons
<1> DEFINE raised == {u \in DOMAIN changes : changes[u]} \cup
                     {u \in DOMAIN compared : compared[u]}
           known == UNION {CriticalFactors(p) : p \in previous}
<1>5. Alerts(cur, previous) =
        {[type |-> u, factor |-> NoDriver] : u \in raised} \cup
        {[type |-> "CRITICAL_FACTOR_DETECTED", factor |-> f] : f \in CriticalFactors(cur) \ known}
  BY <1>1, <1>2 DEF Alerts
<1>6. t \in raised <=> changes[t]
  BY <1>3, <1>4
<1> HIDE DEF raised, known
<1> QED
  BY <1>1, <1>5, <1>6

LEMMA LevelReached ==
  ASSUME NEW cur, NEW previous
  PROVE  /\ Transitions(cur, previous)["CRITICAL_RISK_REACHED"] = Reaches(cur, previous, Critical)
         /\ Transitions(cur, previous)["HIGH_RISK_REACHED"] =
              (cur.score < Critical /\ Reaches(cur, previous, High))
  BY DEF Transitions

(* A rise to HIGH or above is told, as one or the other.                     *)
LEMMA HighTold ==
  ASSUME NEW cur, NEW previous, Scored({cur}), Scored(previous),
         cur.score >= High, \A p \in previous : p.score < High
  PROVE  \E a \in Alerts(cur, previous) :
           a.type \in {"HIGH_RISK_REACHED", "CRITICAL_RISK_REACHED"}
<1>1. cur.score \in Int /\ \A p \in previous : p.score \in Int
  BY ScoreInt DEF Scored
<1>2. CASE cur.score >= Critical
  <2>1. Reaches(cur, previous, Critical)
    BY <1>1, <1>2 DEF Reaches, High, Critical
  <2> QED
    BY <2>1, LevelAlerts, LevelReached
<1>3. CASE ~(cur.score >= Critical)
  <2>1. cur.score < Critical /\ Reaches(cur, previous, High)
    BY <1>1, <1>3 DEF Reaches, Critical
  <2>2. Transitions(cur, previous)["HIGH_RISK_REACHED"]
    BY <2>1 DEF Transitions
  <2>3. [type |-> "HIGH_RISK_REACHED", factor |-> NoDriver] \in Alerts(cur, previous)
    BY <2>2, LevelAlerts
  <2> QED
    BY <2>3
<1> QED
  BY <1>2, <1>3

LEMMA CriticalTold ==
  ASSUME NEW cur, NEW previous, cur.score >= Critical, \A p \in previous : p.score < Critical
  PROVE  \E a \in Alerts(cur, previous) : a.type = "CRITICAL_RISK_REACHED"
<1>1. Reaches(cur, previous, Critical)
  BY DEF Reaches
<1> QED
  BY <1>1, LevelAlerts, LevelReached

(* Only an assessment at HIGH or above is told to have reached a level.      *)
LEMMA ToldIsHigh ==
  ASSUME NEW cur, NEW previous, Scored({cur})
  PROVE  \A a \in Alerts(cur, previous) :
           a.type \in {"HIGH_RISK_REACHED", "CRITICAL_RISK_REACHED"} => cur.score >= High
<1> SUFFICES ASSUME NEW a \in Alerts(cur, previous),
                    a.type \in {"HIGH_RISK_REACHED", "CRITICAL_RISK_REACHED"}
             PROVE  cur.score >= High
  OBVIOUS
<1>1. cur.score \in Int
  BY ScoreInt DEF Scored
<1>2. Transitions(cur, previous)[a.type]
  BY LevelAlerts
<1>3. Reaches(cur, previous, Critical) \/ Reaches(cur, previous, High)
  BY <1>2, LevelReached
<1> QED
  BY <1>1, <1>3 DEF Reaches, High, Critical

(* HIGH and CRITICAL call for an escalation and not for surveillance.        *)
LEMMA HighEscalated ==
  ASSUME NEW cur, NEW previous, Scored({cur}), cur.level = Level(cur.score),
         cur.score >= High
  PROVE  /\ \E a \in Recommendations(cur, previous) : a.type = "ESCALATE"
         /\ \A a \in Recommendations(cur, previous) : a.type # "MONITOR"
<1>1. cur.score \in Int
  BY ScoreInt DEF Scored
<1>2. cur.level \in {"HIGH", "CRITICAL"}
  BY <1>1 DEF Level, Medium, High, Critical
<1>3. \E a \in ByLevel(cur.level) : a.type = "ESCALATE"
  BY <1>2 DEF ByLevel, Advice
<1>4. \E a \in Proposed(cur, previous) : a.type = "ESCALATE"
  BY <1>3 DEF Proposed
<1>5. Recommendations(cur, previous) = {r \in Proposed(cur, previous) : r.type # "MONITOR"}
  BY <1>4 DEF Recommendations
<1> QED
  BY <1>4, <1>5

(* What an evaluation finds has a score, and the level of that score.        *)
LEMMA ResultScored ==
  ASSUME NEW p \in Payloads
  PROVE  Scored({Result(p)}) /\ Result(p).level = Level(Result(p).score)
BY RiskAssumption, ScoreWithinBounds DEF Scored, Result, Assess

-----------------------------------------------------------------------------
(* Jobs                                                                      *)

LEMMA IdleIsJob == IsJob(Idle) /\ Idle.stage = "idle" /\ Idle.previous = {}
  BY DEF IsJob, Idle

LEMMA FewPrevious ==
  ASSUME NEW S, \A r, q \in S : r = q
  PROVE  Cardinality(S) <= 1
<1>1. CASE S = {}
  BY <1>1, FS_EmptySet
<1>2. CASE S # {}
  <2>1. PICK r \in S : S = {r}
    BY <1>2
  <2> QED
    BY <2>1, FS_Singleton
<1> QED
  BY <1>1, <1>2

(* The caller's job is over, and the other jobs are what they were.          *)
LEMMA JobOver ==
  ASSUME Jobs, NEW c \in Callers, job' = [job EXCEPT ![c] = Idle]
  PROVE  /\ job' = [d \in Callers |-> job'[d]]
         /\ job'[c] = Idle /\ ~Busy(c)' /\ IsJob(job'[c])
         /\ \A d \in Callers : d # c => job'[d] = job[d]
<1>1. job' = [d \in Callers |-> IF d = c THEN Idle ELSE job[d]]
  BY DEF Jobs
<1> QED
  BY <1>1, IdleIsJob DEF Busy, IsJob

(* What TypeOK says of the tables and of one job.                            *)
TablesTyped ==
  /\ now \in 0..MaxNow
  /\ \A r \in records :
       /\ r.entity \in Scopes /\ r.risk \in DOMAIN risks /\ r.at \in 1..now
       /\ r.id = IF Engine(r) THEN Identifier(r.signals, r.at) ELSE <<"none", r.at>>
       /\ r.found.score \in 0..FullScore
  /\ risks \in Seq([title : Scopes, score : 0..FullScore])
  /\ owner \in [{f.id : f \in Factors} -> 0..Len(risks)]
  /\ \A n \in notices \cup advice : \E r \in records : r.id = n.assessment

Staged(j) ==
  /\ j.stage \in {"idle", "look", "compare", "write"} /\ j.previous \subseteq records
  /\ Cardinality(j.previous) <= 1

LEMMA TimesInt ==
  ASSUME TypeOK
  PROVE  /\ now \in Nat
         /\ \A r \in records : r.at \in 1..now /\ r.at \in Int
<1>1. now \in Nat
  BY RiskAssumption DEF TypeOK
<1>2. \A t \in 1..now : t \in Int
  BY <1>1
<1>3. \A r \in records : r.at \in 1..now
  BY DEF TypeOK
<1> QED
  BY <1>1, <1>2, <1>3

AllStaged == \A c \in Callers : Staged(job[c])

LEMMA TypeParts == TypeOK <=> TablesTyped /\ AllStaged
  BY DEF TypeOK, TablesTyped, AllStaged, Staged

LEMMA TypePartsNext == TablesTyped' /\ AllStaged' => TypeOK'
  BY TypeParts, PTL

LEMMA IdleStaged == Staged(Idle) /\ Staged(Idle)'
<1>1. Cardinality({}) <= 1
  BY FS_EmptySet
<1> QED
  BY <1>1, IdleIsJob DEF Staged

LEMMA Untouched ==
  ASSUME UNCHANGED tables, HighRiskAnnounced, AlarmsAnswered
  PROVE  HighRiskAnnounced' /\ AlarmsAnswered'
<1>1. HighRiskAnnounced'
  BY DEF tables, HighRiskAnnounced, Told
<1>2. AlarmsAnswered'
  BY DEF tables, AlarmsAnswered, Told
<1> QED
  BY <1>1, <1>2

(* A request that ends without writing.                                      *)
LEMMA EndKeeps ==
  ASSUME IInv, NEW c \in Callers, job' = [job EXCEPT ![c] = Idle], UNCHANGED <<now, tables>>
  PROVE  IInv'
<1>1. /\ job' = [d \in Callers |-> job'[d]]
      /\ job'[c] = Idle /\ ~Busy(c)' /\ IsJob(job'[c])
      /\ \A d \in Callers : d # c => job'[d] = job[d]
  BY JobOver DEF IInv
<1>2. records' = records /\ risks' = risks /\ now' = now
  BY DEF tables
<1>3. HighRiskAnnounced' /\ AlarmsAnswered'
  BY Untouched DEF IInv
<1>4. TypeOK'
  <2>1. TablesTyped'
    <3>1. TablesTyped
      BY TypeParts DEF IInv
    <3> QED
      BY <3>1 DEF TablesTyped, tables
  <2>2. AllStaged'
    <3>1. \A d \in Callers : Staged(job[d])
      BY TypeParts DEF IInv, AllStaged
    <3> QED
      BY <1>1, <1>2, <3>1, IdleStaged DEF AllStaged, Staged
  <2> QED
    BY <2>1, <2>2, TypePartsNext
<1>5. Jobs'
  BY <1>1, <1>2 DEF IInv, Jobs, Asked, Busy
<1>6. OwnTime' /\ Keyed'
  BY <1>1, <1>2 DEF IInv, OwnTime, Keyed, Busy
<1>7. OwnPrevious'
  BY <1>1, <1>2 DEF IInv, OwnPrevious, Busy
<1> QED
  BY <1>3, <1>4, <1>5, <1>6, <1>7 DEF IInv

(* A request that goes on to its next stage.                                 *)
LEMMA AdvanceKeeps ==
  ASSUME IInv, NEW c \in Callers, Busy(c), UNCHANGED <<now, tables>>,
         NEW j, job' = [job EXCEPT ![c] = j], IsJob(j), j.stage \in {"compare", "write"},
         j.entity = job[c].entity, j.payload = job[c].payload, j.risk = job[c].risk,
         j.at = job[c].at, Staged(j),
         j.risk = 0 /\ j.entity \in Entities => \A r \in j.previous : r.entity = j.entity
  PROVE  IInv'
<1>1. /\ job' = [d \in Callers |-> job'[d]] /\ job'[c] = j
      /\ \A d \in Callers : d # c => job'[d] = job[d]
  BY DEF IInv, Jobs
<1>2. records' = records /\ risks' = risks /\ now' = now
  BY DEF tables
<1>3. HighRiskAnnounced' /\ AlarmsAnswered'
  BY Untouched DEF IInv
<1>4. TypeOK'
  <2>1. TablesTyped'
    <3>1. TablesTyped
      BY TypeParts DEF IInv
    <3> QED
      BY <3>1 DEF TablesTyped, tables
  <2>2. AllStaged'
    <3>1. \A d \in Callers : Staged(job[d])
      BY TypeParts DEF IInv, AllStaged
    <3> QED
      BY <1>1, <1>2, <3>1 DEF AllStaged, Staged
  <2> QED
    BY <2>1, <2>2, TypePartsNext
<1>5. Jobs'
  BY <1>1, <1>2 DEF IInv, Jobs, Asked, Busy
<1>6. OwnTime' /\ Keyed'
  BY <1>1, <1>2 DEF IInv, OwnTime, Keyed, Busy
<1>7. OwnPrevious'
  BY <1>1, <1>2 DEF IInv, OwnPrevious, Busy
<1> QED
  BY <1>3, <1>4, <1>5, <1>6, <1>7 DEF IInv

LEMMA RequestKeeps ==
  ASSUME IInv, NEW c \in Callers, Request(c)
  PROVE  IInv'
<1>1. /\ job[c] = Idle /\ now < MaxNow /\ now' = now + 1 /\ UNCHANGED tables
  BY DEF Request
<1>2. PICK e \in Scopes, p \in Payloads, i \in 0..Len(risks) :
        job' = [job EXCEPT ![c] = [stage |-> "look", entity |-> e, payload |-> p, risk |-> i,
                                   at |-> now + 1, previous |-> {}]]
  BY DEF Request
<1> DEFINE j == [stage |-> "look", entity |-> e, payload |-> p, risk |-> i,
                 at |-> now + 1, previous |-> {}]
<1>3. /\ IsJob(j) /\ j.stage = "look" /\ j.entity = e /\ j.payload = p /\ j.risk = i
      /\ j.at = now + 1 /\ j.previous = {}
  BY DEF IsJob
<1>4. /\ job' = [d \in Callers |-> job'[d]] /\ job'[c] = j
      /\ \A d \in Callers : d # c => job'[d] = job[d]
  BY <1>2 DEF IInv, Jobs
<1> HIDE DEF j
<1>5. records' = records /\ risks' = risks
  BY <1>1 DEF tables
<1>6. HighRiskAnnounced' /\ AlarmsAnswered'
  BY <1>1, Untouched DEF IInv
<1>7. TablesTyped /\ AllStaged /\ now \in 0..MaxNow /\ MaxNow \in Nat
  BY TypeParts, RiskAssumption DEF IInv, TablesTyped
<1>8. TypeOK'
  <2>1. TablesTyped'
    <3>1. now' \in 0..MaxNow /\ \A t \in 1..now : t \in 1..now'
      BY <1>1, <1>7
    <3> QED
      BY <1>1, <1>7, <3>1 DEF TablesTyped, tables
  <2>2. AllStaged'
    <3>1. Cardinality({}) <= 1
      BY FS_EmptySet
    <3> QED
      BY <1>3, <1>4, <1>5, <1>7, <3>1 DEF AllStaged, Staged
  <2> QED
    BY <2>1, <2>2, TypePartsNext
<1>9. Jobs'
  <2>1. now + 1 \in 1..now' /\ \A t \in 1..now : t \in 1..now'
    BY <1>1, <1>7
  <2>2. \A d \in Callers : IsJob(job'[d])
    BY <1>3, <1>4 DEF IInv, Jobs
  <2>3. ASSUME NEW d \in Callers PROVE Asked(d)'
    BY <1>2, <1>3, <1>4, <1>5, <2>1 DEF IInv, Jobs, Asked, Busy
  <2> QED
    BY <1>4, <2>2, <2>3 DEF Jobs
<1>10. \A d \in Callers : Busy(d) => job[d].at # now + 1
  BY <1>7 DEF IInv, Jobs, Asked
<1>11. \A r \in records : r.at # now + 1
  <2> SUFFICES ASSUME NEW r \in records PROVE r.at # now + 1
    OBVIOUS
  <2>1. r.at \in 1..now /\ now \in Int
    BY <1>7, TimesInt DEF IInv
  <2> QED
    BY <2>1
<1>12. ~Busy(c)
  BY <1>1, IdleIsJob DEF Busy
<1>13. OwnTime'
  BY <1>3, <1>4, <1>5, <1>10, <1>11, <1>12 DEF IInv, OwnTime, Busy
<1>14. Keyed'
  BY <1>5 DEF IInv, Keyed
<1>15. OwnPrevious'
  BY <1>3, <1>4 DEF IInv, OwnPrevious, Busy
<1> QED
  BY <1>6, <1>8, <1>9, <1>13, <1>14, <1>15 DEF IInv

LEMMA LookUpKeeps ==
  ASSUME IInv, NEW c \in Callers, LookUp(c)
  PROVE  IInv'
<1>1. job[c].stage = "look" /\ Busy(c) /\ UNCHANGED <<now, tables>>
  BY DEF LookUp, Busy
<1>2. CASE job' = [job EXCEPT ![c] = Idle]
  BY <1>1, <1>2, EndKeeps
<1>3. CASE job' = [job EXCEPT ![c].stage = "compare"]
  <2>1. IsJob(job[c]) /\ Staged(job[c])
    BY TypeParts DEF IInv, Jobs, AllStaged
  <2> DEFINE j == [job[c] EXCEPT !.stage = "compare"]
  <2>2. /\ IsJob(j) /\ j.stage = "compare" /\ j.entity = job[c].entity /\ j.at = job[c].at
        /\ j.payload = job[c].payload /\ j.risk = job[c].risk /\ j.previous = job[c].previous
    BY <2>1 DEF IsJob
  <2>3. job' = [job EXCEPT ![c] = j]
    BY <1>3
  <2> HIDE DEF j
  <2>4. Staged(j)
    BY <2>1, <2>2 DEF Staged
  <2>5. j.risk = 0 /\ j.entity \in Entities => \A r \in j.previous : r.entity = j.entity
    BY <1>1, <2>2 DEF IInv, OwnPrevious
  <2> QED
    BY <1>1, <2>2, <2>3, <2>4, <2>5, AdvanceKeeps
<1> QED
  BY <1>2, <1>3 DEF LookUp

LEMMA CompareKeeps ==
  ASSUME IInv, NEW c \in Callers, Compare(c)
  PROVE  IInv'
<1>1. job[c].stage = "compare" /\ Busy(c) /\ UNCHANGED <<now, tables>>
  BY DEF Compare, Busy
<1>2. IsJob(job[c]) /\ Asked(c)
  BY DEF IInv, Jobs
<1>3. PICK S : S = Latest(Compared(job[c]))
  OBVIOUS
<1> DEFINE j == [job[c] EXCEPT !.stage = "write", !.previous = S]
<1>4. /\ IsJob(j) /\ j.stage = "write" /\ j.entity = job[c].entity /\ j.at = job[c].at
      /\ j.payload = job[c].payload /\ j.risk = job[c].risk /\ j.previous = S
  <2>1. PICK k : k = job[c]
    OBVIOUS
  <2>2. j = [stage |-> "write", entity |-> k.entity, payload |-> k.payload, risk |-> k.risk,
             at |-> k.at, previous |-> S]
    <3>1. k = [stage |-> k.stage, entity |-> k.entity, payload |-> k.payload,
               risk |-> k.risk, at |-> k.at, previous |-> k.previous]
      BY <1>2, <2>1 DEF IsJob
    <3>2. j = [k EXCEPT !.stage = "write", !.previous = S]
      BY <2>1
    <3> HIDE DEF j
    <3> QED
      BY <3>1, <3>2
  <2> HIDE DEF j
  <2> QED
    BY <2>1, <2>2 DEF IsJob
<1>5. job' = [job EXCEPT ![c] = j]
  BY <1>2, <1>3 DEF Compare, IInv, Jobs
<1> HIDE DEF j
<1>6. S \subseteq records
  BY <1>3 DEF Latest, Compared
<1>7. Cardinality(S) <= 1
  <2> SUFFICES ASSUME NEW r \in S, NEW q \in S PROVE r = q
    BY FewPrevious
  <2>1. r.at <= q.at /\ q.at <= r.at
    BY <1>3 DEF Latest
  <2>2. r.at \in Int /\ q.at \in Int
    BY <1>6, TimesInt DEF IInv
  <2>3. r.at = q.at
    BY <2>1, <2>2
  <2> QED
    BY <1>6, <2>3 DEF IInv, OwnTime
<1>8. Staged(j)
  BY <1>4, <1>6, <1>7 DEF Staged
<1>9. j.risk = 0 /\ j.entity \in Entities => \A r \in j.previous : r.entity = j.entity
  BY <1>3, <1>4, RiskAssumption DEF Latest, Compared
<1> QED
  BY <1>1, <1>4, <1>5, <1>8, <1>9, AdvanceKeeps

-----------------------------------------------------------------------------
(* Records                                                                   *)

(* No notice or advice is about an assessment that is not on record.         *)
LEMMA NothingAbout ==
  ASSUME TypeOK, NEW id, \A r \in records : r.id # id
  PROVE  \A n \in notices \cup advice : n.assessment # id
  BY DEF TypeOK

LEMMA CreateKeeps ==
  ASSUME IInv, NEW i \in DOMAIN risks, NEW s \in PersonScores, CreateAssessment(i, s)
  PROVE  IInv'
<1> DEFINE n == [id |-> <<"none", now + 1>>, signals |-> "none",
                 entity |-> Whole, risk |-> i, named |-> FALSE, at |-> now + 1,
                 print |-> <<"none", {}, 0>>,
                 found |-> [Assess({}, 0, {}) EXCEPT !.score = s, !.level = "NONE"]]
<1>1. /\ n.id = <<"none", now + 1>> /\ n.signals = "none" /\ n.entity = Whole
      /\ n.risk = i /\ n.at = now + 1 /\ n.print = <<"none", {}, 0>> /\ n.found.score = s
  <2>1. [Assess({}, 0, {}) EXCEPT !.score = s, !.level = "NONE"].score = s
    BY DEF Assess
  <2> QED
    BY <2>1
<1>2. records' = records \cup {n}
  BY DEF CreateAssessment
<1>3. /\ now < MaxNow /\ now' = now + 1 /\ risks' = risks /\ owner' = owner
      /\ notices' = notices /\ advice' = advice /\ job' = job
  BY DEF CreateAssessment
<1> HIDE DEF n
<1>4. TablesTyped /\ AllStaged /\ now \in Nat /\ MaxNow \in Nat
  BY TypeParts, TimesInt, RiskAssumption DEF IInv
<1>5. now' \in 0..MaxNow /\ now + 1 \in 1..now' /\ \A t \in 1..now : t \in 1..now' /\ t # now + 1
  BY <1>3, <1>4
<1>6. \A r \in records : r.at # n.at /\ r.id # n.id
  <2> SUFFICES ASSUME NEW r \in records PROVE r.at # n.at /\ r.id # n.id
    OBVIOUS
  <2>1. r.at # n.at
    BY <1>1, <1>4, <1>5 DEF TablesTyped
  <2>2. CASE Engine(r)
    <3>1. r.id = <<r.signals, r.at \div Ticks>> /\ r.signals # "none"
      BY <1>4, <2>2 DEF TablesTyped, Identifier, Engine
    <3> QED
      BY <1>1, <2>1, <3>1
  <2>3. CASE ~Engine(r)
    <3>1. r.id = <<"none", r.at>>
      BY <1>4, <2>3 DEF TablesTyped
    <3> QED
      BY <1>1, <2>1, <3>1
  <2> QED
    BY <2>1, <2>2, <2>3
<1>7. TypeOK'
  <2>1. TablesTyped'
    <3>1. ~Engine(n)
      BY <1>1 DEF Engine
    <3>2. n.entity \in Scopes /\ n.risk \in DOMAIN risks /\ n.at \in 1..now'
          /\ n.found.score \in 0..FullScore /\ n.id = <<"none", n.at>>
      BY <1>1, <1>5, RiskAssumption DEF Scopes
    <3>3. \A r \in records' :
            /\ r.entity \in Scopes /\ r.risk \in DOMAIN risks /\ r.at \in 1..now'
            /\ r.id = IF Engine(r) THEN Identifier(r.signals, r.at) ELSE <<"none", r.at>>
            /\ r.found.score \in 0..FullScore
      BY <1>2, <1>4, <1>5, <3>1, <3>2 DEF TablesTyped
    <3> QED
      BY <1>2, <1>3, <1>4, <1>5, <3>3 DEF TablesTyped
  <2>2. AllStaged'
    BY <1>2, <1>3, <1>4 DEF AllStaged, Staged
  <2> QED
    BY <2>1, <2>2, TypePartsNext
<1>8. Jobs'
  BY <1>3, <1>5 DEF IInv, Jobs, Asked, Busy
<1>9. \A d \in Callers : Busy(d) => job[d].at # n.at
  BY <1>1, <1>5 DEF IInv, Jobs, Asked
<1>10. OwnTime'
  BY <1>2, <1>3, <1>6, <1>9 DEF IInv, OwnTime, Busy
<1>11. Keyed'
  BY <1>1, <1>2, <1>6 DEF IInv, Keyed
<1>12. OwnPrevious'
  BY <1>3 DEF IInv, OwnPrevious, Busy
<1>13. HighRiskAnnounced'
  <2>1. \A e \in Entities : {r \in records' : r.entity = e} = {r \in records : r.entity = e}
    BY <1>1, <1>2, RiskAssumption
  <2>2. \A q, types : Told(q, types)' = Told(q, types)
    BY <1>3 DEF Told
  <2> QED
    BY <2>1, <2>2 DEF IInv, HighRiskAnnounced
<1>14. AlarmsAnswered'
  <2>1. \A a \in notices \cup advice : a.assessment # n.id
    BY <1>6, NothingAbout DEF IInv
  <2>2. \A q, types : Told(q, types)' = Told(q, types)
    BY <1>3 DEF Told
  <2>3. \A types : ~Told(n, types)
    BY <2>1 DEF Told
  <2>4. {b \in advice : b.assessment = n.id} = {}
    BY <2>1
  <2> QED
    BY <1>2, <1>3, <2>2, <2>3, <2>4 DEF IInv, AlarmsAnswered
<1> QED
  BY <1>7, <1>8, <1>10, <1>11, <1>12, <1>13, <1>14 DEF IInv

LEMMA SeqElements ==
  ASSUME NEW R, NEW q \in Seq(R)
  PROVE  \A x \in 1..Len(q) : q[x] \in R
  OBVIOUS

(* The parent's score is set, or a parent is added.                          *)
LEMMA RisksWritten ==
  ASSUME NEW R, R = [title : Scopes, score : 0..FullScore], risks \in Seq(R),
         NEW i \in 1..(Len(risks) + 1), NEW e \in Scopes, NEW s \in 0..FullScore,
         risks' = [k \in 1..(IF i > Len(risks) THEN i ELSE Len(risks)) |->
                     IF k # i THEN risks[k]
                     ELSE [title |-> IF i > Len(risks) THEN e ELSE risks[i].title,
                           score |-> s]]
  PROVE  /\ risks' \in Seq(R) /\ i \in 1..Len(risks') /\ Len(risks') \in Nat
         /\ 0..Len(risks) \subseteq 0..Len(risks') /\ 1..Len(risks) \subseteq DOMAIN risks'
<1>1. PICK m : m = IF i > Len(risks) THEN i ELSE Len(risks)
  OBVIOUS
<1>2. Len(risks) \in Nat /\ i \in Nat /\ i >= 1
  OBVIOUS
<1>3. m \in Nat /\ i <= m /\ Len(risks) <= m
  BY <1>1, <1>2
<1>4. \A k \in 1..m : k # i => k \in 1..Len(risks)
  BY <1>1, <1>2
<1>5. risks' \in [1..m -> R]
  <2> SUFFICES ASSUME NEW k \in 1..m
               PROVE  (IF k # i THEN risks[k]
                       ELSE [title |-> IF i > Len(risks) THEN e ELSE risks[i].title,
                             score |-> s]) \in R
    BY <1>1
  <2> DEFINE t == IF i > Len(risks) THEN e ELSE risks[i].title
  <2>1. \A x \in 1..Len(risks) : risks[x] \in R
    BY SeqElements
  <2>2. CASE k # i
    BY <1>4, <2>1, <2>2
  <2>3. CASE k = i
    <3>1. t \in Scopes
      <4>1. CASE i > Len(risks)
        BY <4>1
      <4>2. CASE ~(i > Len(risks))
        <5>1. i \in 1..Len(risks)
          BY <1>2, <4>2
        <5>2. risks[i] \in [title : Scopes, score : 0..FullScore]
          BY <2>1, <5>1
        <5> QED
          BY <4>2, <5>2
      <4> QED
        BY <4>1, <4>2
    <3> HIDE DEF t
    <3>2. [title |-> t, score |-> s] \in R
      BY <3>1
    <3> QED
      BY <2>3, <3>2 DEF t
  <2> QED
    BY <2>2, <2>3
<1>6. risks' \in Seq(R) /\ Len(risks') = m /\ DOMAIN risks' = 1..m
  <2>1. PICK q : q = risks'
    OBVIOUS
  <2>2. q \in Seq(R) /\ Len(q) = m /\ DOMAIN q = 1..m
    BY <1>3, <1>5, <2>1
  <2> QED
    BY <2>1, <2>2
<1> QED
  BY <1>2, <1>3, <1>6

LEMMA WriteKeeps ==
  ASSUME IInv, NEW c \in Callers, NEW j, j = job[c], Busy(c),
         \A r \in records : r.id # Identifier(j.payload.signals, j.at),
         NEW i \in 1..(Len(risks) + 1),
         j.risk # 0 => i = j.risk,
         Write(c, j, i), job' = [job EXCEPT ![c] = Idle], now' = now
  PROVE  IInv'
<1>1. PICK F : F = Result(j.payload)
  OBVIOUS
<1>2. PICK B : B = {r.found : r \in j.previous}
  OBVIOUS
<1>3. PICK id : id = Identifier(j.payload.signals, j.at)
  OBVIOUS
<1> DEFINE n == [id |-> id, signals |-> j.payload.signals, entity |-> j.entity,
                 risk |-> i, named |-> j.risk = 0, at |-> j.at,
                 print |-> Fingerprint(j.payload), found |-> F]
<1>4. /\ n.id = id /\ n.signals = j.payload.signals /\ n.entity = j.entity /\ n.risk = i
      /\ n.named = (j.risk = 0) /\ n.at = j.at /\ n.print[1] = j.payload.signals
      /\ n.found = F
  BY DEF Fingerprint
<1>5. /\ records' = records \cup {n}
      /\ owner' = [f \in DOMAIN owner |-> IF \E g \in F.factors : g.id = f THEN i ELSE owner[f]]
      /\ notices' = notices \cup Stamped(Alerts(F, B), id)
      /\ advice' = advice \cup Stamped(Recommendations(F, B), id)
  BY <1>1, <1>2, <1>3 DEF Write
<1>6. risks' = [k \in 1..(IF i > Len(risks) THEN i ELSE Len(risks)) |->
                  IF k # i THEN risks[k]
                  ELSE [title |-> IF i > Len(risks) THEN j.entity ELSE risks[i].title,
                        score |-> F.score]]
  BY <1>1 DEF Write
<1> HIDE DEF n
<1>7. /\ j.entity \in Scopes /\ j.payload \in Payloads /\ j.risk \in 0..Len(risks)
      /\ j.at \in 1..now
  BY DEF IInv, Jobs, Asked
<1>8. /\ job' = [d \in Callers |-> job'[d]]
      /\ job'[c] = Idle /\ ~Busy(c)' /\ IsJob(job'[c])
      /\ \A d \in Callers : d # c => job'[d] = job[d]
  BY JobOver DEF IInv
<1>9. TablesTyped /\ AllStaged /\ now \in Nat
  BY TypeParts, TimesInt DEF IInv
<1>10. /\ Scored({F}) /\ F.level = Level(F.score) /\ F.score \in 0..FullScore
       /\ n.signals # "none"
  <2>1. Scored({F}) /\ F.level = Level(F.score)
    BY <1>1, <1>7, ResultScored
  <2> QED
    BY <1>4, <1>7, <2>1, RiskAssumption DEF Scored
<1>11. /\ risks' \in Seq([title : Scopes, score : 0..FullScore])
       /\ i \in 1..Len(risks') /\ Len(risks') \in Nat
       /\ 0..Len(risks) \subseteq 0..Len(risks') /\ 1..Len(risks) \subseteq DOMAIN risks'
  BY <1>6, <1>7, <1>9, <1>10, RisksWritten DEF TablesTyped
<1>12. j.previous \subseteq records /\ Scored(B)
  <2>1. j.previous \subseteq records
    BY <1>9 DEF AllStaged, Staged
  <2> QED
    BY <1>2, <1>9, <2>1 DEF TablesTyped, Scored
<1>13. \A a \in notices \cup advice : a.assessment # id
  BY <1>3, NothingAbout DEF IInv
<1>14. TypeOK'
  <2>1. TablesTyped'
    <3>1. \A r \in records : r.risk \in DOMAIN risks'
      <4>1. DOMAIN risks = 1..Len(risks)
        BY <1>9 DEF TablesTyped
      <4>2. \A r \in records : r.risk \in DOMAIN risks
        BY <1>9 DEF TablesTyped
      <4> QED
        BY <1>11, <4>1, <4>2
    <3>2. /\ n.entity \in Scopes /\ n.risk \in DOMAIN risks' /\ n.at \in 1..now
          /\ n.id = IF Engine(n) THEN Identifier(n.signals, n.at) ELSE <<"none", n.at>>
          /\ n.found.score \in 0..FullScore
      BY <1>3, <1>4, <1>7, <1>10, <1>11 DEF Engine
    <3>3. \A r \in records' :
            /\ r.entity \in Scopes /\ r.risk \in DOMAIN risks' /\ r.at \in 1..now
            /\ r.id = IF Engine(r) THEN Identifier(r.signals, r.at) ELSE <<"none", r.at>>
            /\ r.found.score \in 0..FullScore
      BY <1>5, <1>9, <3>1, <3>2 DEF TablesTyped
    <3>4. owner' \in [{f.id : f \in Factors} -> 0..Len(risks')]
      <4>1. owner \in [{f.id : f \in Factors} -> 0..Len(risks)] /\ i \in 0..Len(risks')
        BY <1>9, <1>11 DEF TablesTyped
      <4> QED
        BY <1>5, <1>11, <4>1
    <3>5. \A a \in notices' \cup advice' : \E r \in records' : r.id = a.assessment
      BY <1>4, <1>5, <1>9 DEF TablesTyped, Stamped
    <3>6. now' \in 0..MaxNow
      BY <1>9 DEF TablesTyped
    <3> QED
      BY <1>11, <3>3, <3>4, <3>5, <3>6 DEF TablesTyped
  <2>2. AllStaged'
    BY <1>5, <1>8, <1>9, IdleStaged DEF AllStaged, Staged
  <2> QED
    BY <2>1, <2>2, TypePartsNext
<1>15. Jobs'
  <2>1. ASSUME NEW d \in Callers PROVE Asked(d)'
    BY <1>8, <1>11 DEF IInv, Jobs, Asked, Busy
  <2> QED
    BY <1>8, <2>1 DEF IInv, Jobs
<1>16. \A r \in records : r.at # n.at /\ r.id # n.id
  BY <1>3, <1>4 DEF IInv, OwnTime
<1>17. OwnTime'
  BY <1>4, <1>5, <1>8, <1>16 DEF IInv, OwnTime, Busy
<1>18. Keyed'
  BY <1>4, <1>5, <1>16 DEF IInv, Keyed
<1>19. OwnPrevious'
  BY <1>8 DEF IInv, OwnPrevious, Busy
<1>20. \A q, types : Told(q, types) => Told(q, types)'
  BY <1>5 DEF Told
<1>21. ASSUME NEW types, NEW a \in Alerts(F, B), a.type \in types PROVE Told(n, types)'
  <2> DEFINE x == [assessment |-> id, of |-> a]
  <2>1. x \in notices' /\ x.assessment = n.id
    BY <1>4, <1>5 DEF Stamped
  <2>2. x.of.type \in types
    <3>1. x.of = a
      OBVIOUS
    <3> QED
      BY <1>21, <3>1
  <2> HIDE DEF x
  <2> QED
    BY <2>1, <2>2 DEF Told
<1>22. HighRiskAnnounced'
  <2> SUFFICES ASSUME NEW e \in Entities,
                      \A r \in records' : r.entity = e => r.named,
                      NEW r \in records', r.entity = e
               PROVE  /\ r.found.score >= High =>
                           \E q \in records' : q.entity = e
                             /\ Told(q, {"HIGH_RISK_REACHED", "CRITICAL_RISK_REACHED"})'
                      /\ r.found.score >= Critical =>
                           \E q \in records' : q.entity = e
                             /\ Told(q, {"CRITICAL_RISK_REACHED"})'
    BY DEF HighRiskAnnounced
  <2>1. \A q \in records : q.entity = e => q.named
    BY <1>5
  <2>2. ASSUME NEW q \in records, q.entity = e, q.found.score >= High
        PROVE  \E p \in records' : p.entity = e
                 /\ Told(p, {"HIGH_RISK_REACHED", "CRITICAL_RISK_REACHED"})'
    <3>1. \E p \in records : p.entity = e
            /\ Told(p, {"HIGH_RISK_REACHED", "CRITICAL_RISK_REACHED"})
      BY <2>1, <2>2 DEF IInv, HighRiskAnnounced
    <3> QED
      BY <1>5, <1>20, <3>1
  <2>3. ASSUME NEW q \in records, q.entity = e, q.found.score >= Critical
        PROVE  \E p \in records' : p.entity = e /\ Told(p, {"CRITICAL_RISK_REACHED"})'
    <3>1. \E p \in records : p.entity = e /\ Told(p, {"CRITICAL_RISK_REACHED"})
      BY <2>1, <2>3 DEF IInv, HighRiskAnnounced
    <3> QED
      BY <1>5, <1>20, <3>1
  <2>4. CASE r \in records
    BY <2>2, <2>3, <2>4
  <2>5. CASE r = n
    <3>1. n \in records' /\ n.entity = e /\ j.entity = e /\ n.named
      BY <1>4, <2>5
    <3>2. \A p \in j.previous : p \in records /\ p.entity = e
      <4>1. j.risk = 0
        BY <1>4, <3>1
      <4> QED
        BY <1>12, <3>1, <4>1 DEF IInv, OwnPrevious
    <3>3. F.score \in Int /\ \A b \in B : b.score \in Int
      BY <1>10, <1>12, ScoreInt DEF Scored
    <3>4. ASSUME n.found.score >= High
          PROVE  \E q \in records' : q.entity = e
                   /\ Told(q, {"HIGH_RISK_REACHED", "CRITICAL_RISK_REACHED"})'
      <4>1. CASE \E p \in j.previous : p.found.score >= High
        BY <2>2, <3>2, <4>1
      <4>2. CASE ~(\E p \in j.previous : p.found.score >= High)
        <5>1. \A b \in B : b.score < High
          BY <1>2, <3>3, <4>2 DEF High
        <5>2. \E a \in Alerts(F, B) : a.type \in {"HIGH_RISK_REACHED", "CRITICAL_RISK_REACHED"}
          BY <1>4, <1>10, <1>12, <3>4, <5>1, HighTold
        <5> QED
          BY <1>21, <3>1, <5>2
      <4> QED
        BY <4>1, <4>2
    <3>5. ASSUME n.found.score >= Critical
          PROVE  \E q \in records' : q.entity = e /\ Told(q, {"CRITICAL_RISK_REACHED"})'
      <4>1. CASE \E p \in j.previous : p.found.score >= Critical
        BY <2>3, <3>2, <4>1
      <4>2. CASE ~(\E p \in j.previous : p.found.score >= Critical)
        <5>1. \A b \in B : b.score < Critical
          BY <1>2, <3>3, <4>2 DEF Critical
        <5>2. \E a \in Alerts(F, B) : a.type = "CRITICAL_RISK_REACHED"
          BY <1>4, <3>5, <5>1, CriticalTold
        <5> QED
          BY <1>21, <3>1, <5>2
      <4> QED
        BY <4>1, <4>2
    <3> QED
      BY <2>5, <3>4, <3>5
  <2> QED
    BY <1>5, <2>4, <2>5
<1>23. AlarmsAnswered'
  <2>1. ASSUME NEW r \in records
        PROVE  /\ \A types : Told(r, types)' = Told(r, types)
               /\ {b \in advice' : b.assessment = r.id} = {b \in advice : b.assessment = r.id}
    BY <1>4, <1>5, <1>16 DEF Told, Stamped
  <2>2. {b \in advice' : b.assessment = n.id} = Stamped(Recommendations(F, B), id)
    BY <1>4, <1>5, <1>13 DEF Stamped
  <2>3. Told(n, {"HIGH_RISK_REACHED", "CRITICAL_RISK_REACHED"})' => F.score >= High
    <3> SUFFICES ASSUME NEW x \in notices', x.assessment = n.id,
                        x.of.type \in {"HIGH_RISK_REACHED", "CRITICAL_RISK_REACHED"}
                 PROVE  F.score >= High
      BY DEF Told
    <3>1. PICK a \in Alerts(F, B) : x = [assessment |-> id, of |-> a]
      BY <1>4, <1>5, <1>13 DEF Stamped
    <3>2. a.type \in {"HIGH_RISK_REACHED", "CRITICAL_RISK_REACHED"}
      BY <3>1
    <3>3. Scored({F})
      BY <1>10
    <3> QED
      BY <3>2, <3>3, ToldIsHigh
  <2>4. F.score >= High => /\ \E a \in Recommendations(F, B) : a.type = "ESCALATE"
                           /\ \A a \in Recommendations(F, B) : a.type # "MONITOR"
    BY <1>10, HighEscalated
  <2> DEFINE answers == {a.of.type : a \in Stamped(Recommendations(F, B), id)}
  <2>5. F.score >= High => "ESCALATE" \in answers /\ "MONITOR" \notin answers
    <3>1. \A y \in Stamped(Recommendations(F, B), id) : y.of \in Recommendations(F, B)
      BY DEF Stamped
    <3>2. ASSUME NEW a \in Recommendations(F, B) PROVE a.type \in answers
      <4> DEFINE y == [assessment |-> id, of |-> a]
      <4>1. y \in Stamped(Recommendations(F, B), id) /\ y.of = a
        BY DEF Stamped
      <4> HIDE DEF y
      <4> QED
        BY <4>1
    <3> QED
      BY <2>4, <3>1, <3>2
  <2> HIDE DEF answers
  <2>6. {a.of.type : a \in {b \in advice' : b.assessment = n.id}} = answers
    BY <2>2 DEF answers
  <2>7. \A r \in records' :
          LET ofIt == {a.of.type : a \in {b \in advice' : b.assessment = r.id}}
          IN /\ Told(r, {"HIGH_RISK_REACHED", "CRITICAL_RISK_REACHED"})' => "ESCALATE" \in ofIt
             /\ r.found.score >= High => "MONITOR" \notin ofIt
    <3> SUFFICES ASSUME NEW r \in records'
                 PROVE
          LET ofIt == {a.of.type : a \in {b \in advice' : b.assessment = r.id}}
          IN /\ Told(r, {"HIGH_RISK_REACHED", "CRITICAL_RISK_REACHED"})' => "ESCALATE" \in ofIt
             /\ r.found.score >= High => "MONITOR" \notin ofIt
      OBVIOUS
    <3>1. CASE r \in records
      BY <2>1, <3>1 DEF IInv, AlarmsAnswered
    <3>2. CASE r = n
      BY <1>4, <2>3, <2>5, <2>6, <3>2
    <3> QED
      BY <1>5, <3>1, <3>2
  <2> QED
    BY <2>7 DEF AlarmsAnswered
<1> QED
  BY <1>14, <1>15, <1>17, <1>18, <1>19, <1>22, <1>23 DEF IInv

LEMMA CommitKeeps ==
  ASSUME IInv, NEW c \in Callers, Commit(c)
  PROVE  IInv'
<1>1. PICK j : j = job[c]
  OBVIOUS
<1> DEFINE taken == \E r \in records : r.id = Identifier(j.payload.signals, j.at)
           parents == IF j.risk # 0 THEN {j.risk}
                      ELSE IF Titled(j.entity) # {} THEN Titled(j.entity)
                      ELSE {Len(risks) + 1}
<1>2. /\ Busy(c) /\ job' = [job EXCEPT ![c] = Idle] /\ now' = now
      /\ IF taken THEN UNCHANGED tables ELSE \E i \in parents : Write(c, j, i)
  BY <1>1 DEF Commit, Busy
<1>3. Asked(c) /\ risks \in Seq([title : Scopes, score : 0..FullScore])
  BY DEF IInv, Jobs, TypeOK
<1>4. Len(risks) \in Nat /\ DOMAIN risks = 1..Len(risks)
  BY <1>3
<1>5. parents \subseteq 1..(Len(risks) + 1)
  <2>1. j.risk \in 0..Len(risks)
    BY <1>1, <1>2, <1>3 DEF Asked
  <2>2. j.risk # 0 => j.risk \in 1..(Len(risks) + 1)
    BY <1>4, <2>1
  <2>3. Titled(j.entity) \subseteq 1..(Len(risks) + 1)
    BY <1>4 DEF Titled
  <2>4. Len(risks) + 1 \in 1..(Len(risks) + 1)
    BY <1>4
  <2> QED
    BY <2>2, <2>3, <2>4
<1>6. j.risk # 0 => parents = {j.risk}
  OBVIOUS
<1> HIDE DEF parents
<1>7. CASE taken
  BY <1>2, <1>7, EndKeeps
<1>8. CASE ~taken
  <2>1. PICK i \in parents : Write(c, j, i)
    BY <1>2, <1>8
  <2>2. \A r \in records : r.id # Identifier(j.payload.signals, j.at)
    BY <1>8
  <2>3. i \in 1..(Len(risks) + 1) /\ (j.risk # 0 => i = j.risk)
    BY <1>5, <1>6
  <2> HIDE DEF taken
  <2> QED
    BY <1>1, <1>2, <2>1, <2>2, <2>3, WriteKeeps
<1> QED
  BY <1>7, <1>8

LEMMA StutterKeeps ==
  ASSUME IInv, UNCHANGED vars
  PROVE  IInv'
<1>1. UNCHANGED <<now, records, risks, owner, notices, advice, job>>
  BY DEF vars, tables
<1>2. TypeOK'
  BY <1>1 DEF IInv, TypeOK
<1>3. Jobs' /\ OwnTime' /\ Keyed' /\ OwnPrevious'
  BY <1>1 DEF IInv, Jobs, Asked, OwnTime, Keyed, OwnPrevious, Busy
<1>4. HighRiskAnnounced' /\ AlarmsAnswered'
  BY <1>1, Untouched DEF IInv, tables
<1> QED
  BY <1>2, <1>3, <1>4 DEF IInv

LEMMA NextKeeps == IInv /\ [Next]_vars => IInv'
<1> SUFFICES ASSUME IInv, [Next]_vars PROVE IInv'
  OBVIOUS
<1>1. ASSUME NEW c \in Callers, Request(c) PROVE IInv'
  BY <1>1, RequestKeeps
<1>2. ASSUME NEW c \in Callers, LookUp(c) PROVE IInv'
  BY <1>2, LookUpKeeps
<1>3. ASSUME NEW c \in Callers, Compare(c) PROVE IInv'
  BY <1>3, CompareKeeps
<1>4. ASSUME NEW c \in Callers, Commit(c) PROVE IInv'
  BY <1>4, CommitKeeps
<1>5. ASSUME NEW c \in Callers, Fail(c) PROVE IInv'
  BY <1>5, EndKeeps DEF Fail
<1>6. ASSUME NEW i \in DOMAIN risks, NEW s \in PersonScores, CreateAssessment(i, s)
      PROVE  IInv'
  BY <1>6, CreateKeeps
<1>7. CASE UNCHANGED vars
  BY <1>7, StutterKeeps
<1> QED
  BY <1>1, <1>2, <1>3, <1>4, <1>5, <1>6, <1>7 DEF Next

LEMMA InitHolds == Init => IInv
<1> SUFFICES ASSUME Init PROVE IInv
  OBVIOUS
<1>1. \A c \in Callers : job[c] = Idle /\ ~Busy(c)
  BY IdleIsJob DEF Init, Busy
<1>2. TypeOK
  <2>1. Cardinality({}) <= 1
    BY FS_EmptySet
  <2>2. now \in 0..MaxNow
    BY RiskAssumption DEF Init
  <2>3. risks \in Seq([title : Scopes, score : 0..FullScore]) /\ Len(risks) = 0
    BY DEF Init
  <2>4. owner \in [{f.id : f \in Factors} -> 0..Len(risks)]
    BY <2>3 DEF Init
  <2>5. \A c \in Callers : /\ job[c].stage \in {"idle", "look", "compare", "write"}
                           /\ job[c].previous \subseteq records
                           /\ Cardinality(job[c].previous) <= 1
    BY <1>1, <2>1, IdleIsJob
  <2> QED
    BY <2>2, <2>3, <2>4, <2>5 DEF Init, TypeOK
<1>3. Jobs
  BY <1>1, IdleIsJob DEF Init, Jobs, Asked
<1>4. OwnTime /\ Keyed /\ OwnPrevious
  BY <1>1 DEF Init, OwnTime, Keyed, OwnPrevious
<1>5. HighRiskAnnounced /\ AlarmsAnswered
  BY DEF Init, HighRiskAnnounced, AlarmsAnswered
<1> QED
  BY <1>2, <1>3, <1>4, <1>5 DEF IInv

-----------------------------------------------------------------------------
(* The theorems                                                              *)

THEOREM Invariance == Spec => []IInv
BY InitHolds, NextKeeps, PTL DEF Spec

(* Every assessment has a parent, the identifier of its signals and hour,    *)
(* and a score within bounds; every alert and recommendation belongs to an   *)
(* assessment on record; an evaluation is compared with at most one other.   *)
THEOREM TypeCorrect == Spec => []TypeOK
<1>1. IInv => TypeOK
  BY DEF IInv
<1> QED
  BY <1>1, Invariance, PTL

(* However many requests evaluate the same signals at once, the outcome is   *)
(* on record once an hour: the fingerprint is only looked up, unlocked, and  *)
(* it is the derived identifier that refuses the second commit.              *)
THEOREM OutcomeRecordedOnce == Spec => []OneRecordPerOutcome
<1>1. IInv => OneRecordPerOutcome
  <2> SUFFICES ASSUME IInv, NEW r \in records, NEW q \in records, Engine(r),
                      r.print = q.print, r.at \div Ticks = q.at \div Ticks
               PROVE  r = q
    BY DEF OneRecordPerOutcome
  <2>1. r.signals = q.signals
    BY DEF IInv, Keyed
  <2>2. Engine(q)
    BY <2>1 DEF Engine
  <2>3. r.id = Identifier(r.signals, r.at) /\ q.id = Identifier(q.signals, q.at)
    BY <2>2 DEF IInv, TypeOK
  <2>4. r.id = q.id
    BY <2>1, <2>3 DEF Identifier
  <2> QED
    BY <2>4 DEF IInv, Keyed
<1> QED
  BY <1>1, Invariance, PTL

(* An entity found at HIGH or CRITICAL has been announced as such, whatever  *)
(* evaluations of it overlapped, although an alert is decided on what was    *)
(* read before the transaction that writes it.                               *)
THEOREM HighRiskIsAnnounced == Spec => []HighRiskAnnounced
<1>1. IInv => HighRiskAnnounced
  BY DEF IInv
<1> QED
  BY <1>1, Invariance, PTL

(* Who raises the alarm of a level recommends to escalate it, and does not   *)
(* recommend to watch what is HIGH or above.                                 *)
THEOREM AlarmsAreAnswered == Spec => []AlarmsAnswered
<1>1. IInv => AlarmsAnswered
  BY DEF IInv
<1> QED
  BY <1>1, Invariance, PTL
=============================================================================

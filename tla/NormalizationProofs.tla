-------------------------- MODULE NormalizationProofs --------------------------
(* What the correlator promises of a batch, for any master data, any events  *)
(* and any batches of any length: each report is correlated once, an entry   *)
(* is led by the best provenance and keeps every observation.                *)
(*                                                                           *)
(* The argument: a correlated signal is never forgotten, so the signals      *)
(* correlated under a key only grow, by the signal whose turn it is; the     *)
(* three ways to enter it each keep what the index says of the others.       *)
EXTENDS Normalization, FiniteSetTheorems, SequenceTheorems, TLAPS

-----------------------------------------------------------------------------
(* The inductive invariant                                                   *)

Signals == {Signal(e) : e \in Events}

\* The signals are those of events, each with a place for its conflicts, and
\* nothing is correlated before the whole batch is normalised.
Shape ==
  /\ batch \in Seq(Events) /\ signals \in Seq(Signals)
  /\ conflicts \in Seq(SUBSET (Nat \X Nat)) /\ Len(conflicts) = Len(signals)
  /\ stage # "correlating" => at = 0
  /\ corroborated \in Nat

Corroborable ==
  {i \in Correlated : \E j \in Correlated : /\ j < i
                                            /\ KeyOf(j) = KeyOf(i)
                                            /\ Independent(Event(j), Event(i))}

IInv ==
  /\ Shape /\ TypeOK /\ PrimaryIsBest /\ NothingLost
  /\ IndependentlyCorroborated /\ LaterDisagreementKnown

-----------------------------------------------------------------------------
(* Lemmas about the operators of the module                                  *)

LEMMA WeightTyped ==
  ASSUME NEW e \in Events
  PROVE  Weight[e.nature] \in Nat
<1>1. e.nature \in DOMAIN Weight
  BY BatchesAssumption
<1>2. DOMAIN Weight = {"REAL", "ESTIMATED", "SIMULATED"}
  BY DEF Weight
<1> QED
  BY <1>1, <1>2 DEF Weight

LEMMA SignalEvent ==
  ASSUME NEW e
  PROVE  Signal(e).event = e
  BY DEF Signal

LEMMA DisagreeSymmetric ==
  ASSUME NEW e, NEW f
  PROVE  Disagree(e, f) <=> Disagree(f, e)
  BY DEF Disagree

\* Positions up to at are positions of signals, which are of events.
LEMMA PositionTyped ==
  ASSUME Shape, TypeOK
  PROVE  /\ Len(signals) \in Nat /\ at \in Nat
         /\ \A i \in 1..Len(signals) : Event(i) \in Events
         /\ DOMAIN conflicts = 1..Len(signals)
<1>1. Len(signals) \in Nat /\ DOMAIN conflicts = 1..Len(signals)
  BY LenProperties DEF Shape
<1>2. \A i \in 1..Len(signals) : signals[i] \in Signals
  BY ElementOfSeq DEF Shape
<1>3. \A s \in Signals : s.event \in Events
  BY SignalEvent DEF Signals
<1> QED
  BY <1>1, <1>2, <1>3 DEF Event, TypeOK

LEMMA CorrelatedFinite ==
  ASSUME at \in Nat
  PROVE  /\ IsFiniteSet(Correlated) /\ Cardinality(Correlated) \in Nat
         /\ IsFiniteSet(Corroborable) /\ Cardinality(Corroborable) \in Nat
<1>1. IsFiniteSet(1..at)
  BY FS_Interval
<1>2. Correlated \in SUBSET (1..at) /\ Corroborable \in SUBSET Correlated
  BY DEF Correlated, Corroborable
<1>3. IsFiniteSet(Correlated)
  BY <1>1, <1>2, FS_Subset
<1>4. IsFiniteSet(Corroborable)
  BY <1>2, <1>3, FS_Subset
<1> QED
  BY <1>3, <1>4, FS_CardinalityType

\* A batch of which nothing is correlated yet.
Fresh ==
  /\ at = 0 /\ DOMAIN index = {} /\ seen = {} /\ duplicates = 0 /\ corroborated = 0
  /\ stage \in {"idle", "normalizing", "correlating"}
  /\ batch \in Seq(Events) /\ signals \in Seq(Signals)
  /\ conflicts \in Seq(SUBSET (Nat \X Nat)) /\ Len(conflicts) = Len(signals)

\* Before the first signal's turn there is nothing to keep.
LEMMA NothingCorrelated ==
  ASSUME at = 0
  PROVE  Correlated = {} /\ Corroborable = {} /\ \A k : Of(k) = {}
<1>1. 1..0 = {}
  OBVIOUS
<1>2. Correlated = {}
  BY <1>1 DEF Correlated
<1> QED
  BY <1>2 DEF Corroborable, Of

LEMMA FreshCorrelator == Fresh => IInv
<1> SUFFICES ASSUME Fresh PROVE IInv
  OBVIOUS
<1>1. Correlated = {} /\ Corroborable = {} /\ \A k : Of(k) = {}
  BY NothingCorrelated DEF Fresh
<1>2. Cardinality({}) = 0
  BY FS_EmptySet
<1>3. 1..0 = {}
  OBVIOUS
<1>4. Len(signals) \in Nat /\ DOMAIN signals = 1..Len(signals)
      /\ DOMAIN conflicts = 1..Len(conflicts)
  BY LenProperties DEF Fresh
<1>5. Shape
  BY DEF Fresh, Shape
<1>6. TypeOK
  BY <1>1, <1>2, <1>3, <1>4 DEF Fresh, TypeOK
<1>7. PrimaryIsBest /\ NothingLost /\ LaterDisagreementKnown
  BY DEF Fresh, PrimaryIsBest, NothingLost, LaterDisagreementKnown
<1>8. IndependentlyCorroborated
  BY <1>1, <1>2 DEF Fresh, IndependentlyCorroborated, Corroborable
<1> QED
  BY <1>5, <1>6, <1>7, <1>8 DEF IInv

\* While nothing is correlated the correlator is as it was made.
LEMMA NormalizingIsFresh ==
  ASSUME IInv, at = 0
  PROVE  DOMAIN index = {} /\ seen = {} /\ duplicates = 0 /\ corroborated = 0
<1>1. Correlated = {} /\ Corroborable = {}
  BY NothingCorrelated
<1>2. Cardinality({}) = 0 /\ 1..0 = {}
  BY FS_EmptySet
<1>3. corroborated = 0
  BY <1>1, <1>2 DEF IInv, Shape, IndependentlyCorroborated, Corroborable
<1> QED
  BY <1>1, <1>2, <1>3 DEF IInv, TypeOK

-----------------------------------------------------------------------------
(* The normalisation of the batch, which the correlator does not see         *)

LEMMA FreshStays == Fresh' => IInv'
  BY FreshCorrelator, PTL

\* The batch that is being normalised.
LEMMA NormalizingTyped ==
  ASSUME IInv, stage # "correlating"
  PROVE  Fresh
<1>1. at = 0
  BY DEF IInv, Shape
<1> QED
  BY <1>1, NormalizingIsFresh DEF Fresh, IInv, Shape, TypeOK

LEMMA ReceiveKeeps ==
  ASSUME IInv, NEW b \in Batches, Receive(b)
  PROVE  IInv'
<1>1. Fresh /\ b \in Seq(Events)
  BY NormalizingTyped, BatchesAssumption DEF Receive
<1>2. Fresh'
  BY <1>1 DEF Fresh, Receive, Correlator
<1> QED
  BY <1>2, FreshStays

LEMMA AcceptKeeps ==
  ASSUME IInv, Accept
  PROVE  IInv'
<1>1. Fresh
  BY NormalizingTyped DEF Accept
<1>2. Head(batch) \in Events /\ Tail(batch) \in Seq(Events)
  BY <1>1, HeadTailProperties DEF Fresh, Accept
<1>3. PICK s \in Signals : s = Signal(Head(batch))
  BY <1>2 DEF Signals
<1>4. /\ signals' = Append(signals, s) /\ conflicts' = Append(conflicts, {}) /\ batch' = Tail(batch)
      /\ UNCHANGED <<stage, rejected, at, index, seen, duplicates, corroborated>>
  BY <1>3 DEF Accept
<1>5. signals' \in Seq(Signals) /\ Len(signals') = Len(signals) + 1
  BY <1>1, <1>4, AppendProperties DEF Fresh
<1>6. conflicts' \in Seq(SUBSET (Nat \X Nat)) /\ Len(conflicts') = Len(conflicts) + 1
  <2>1. {} \in SUBSET (Nat \X Nat)
    OBVIOUS
  <2> QED
    BY <1>1, <1>4, <2>1, AppendProperties DEF Fresh
<1>7. Fresh'
  BY <1>1, <1>2, <1>4, <1>5, <1>6 DEF Fresh
<1> QED
  BY <1>7, FreshStays

LEMMA RejectKeeps ==
  ASSUME IInv, Reject
  PROVE  IInv'
<1>1. Fresh
  BY NormalizingTyped DEF Reject
<1>2. Tail(batch) \in Seq(Events)
  BY <1>1, HeadTailProperties DEF Fresh, Reject
<1>3. Fresh'
  BY <1>1, <1>2 DEF Fresh, Reject, Correlator
<1> QED
  BY <1>3, FreshStays

LEMMA NormalizedKeeps ==
  ASSUME IInv, Normalized
  PROVE  IInv'
<1>1. Fresh
  BY NormalizingTyped DEF Normalized
<1>2. Fresh'
  BY <1>1 DEF Fresh, Normalized, Correlator
<1> QED
  BY <1>2, FreshStays

LEMMA ReturnKeeps ==
  ASSUME Return
  PROVE  IInv'
<1>1. <<>> \in Seq(Events) /\ <<>> \in Seq(Signals) /\ <<>> \in Seq(SUBSET (Nat \X Nat))
  BY EmptySeq
<1>2. DOMAIN <<>> = {}
  OBVIOUS
<1>3. Fresh'
  BY <1>1, <1>2 DEF Fresh, Return
<1> QED
  BY <1>3, FreshStays

-----------------------------------------------------------------------------
(* The turn of a signal                                                      *)

LEMMA TurnTaken ==
  ASSUME IInv, Turn, at' = Incoming, UNCHANGED <<stage, batch, signals>>,
         NEW n, n = Incoming
  PROVE  /\ n \in 1..Len(signals) /\ n \in Nat /\ n \notin Correlated
         /\ \A i \in Correlated : i \in 1..Len(signals) /\ i < n
         /\ \A i : KeyOf(i)' = KeyOf(i) /\ Event(i)' = Event(i)
         /\ Correlated' = IF Reported THEN Correlated ELSE Correlated \cup {n}
         /\ at' \in 0..Len(signals) /\ at' = at + 1 /\ at \in Nat
         /\ stage' \in {"idle", "normalizing", "correlating"}
         /\ stage' # "correlating" => at' = 0
         /\ batch' \in Seq(Events) /\ signals' \in Seq(Signals)
<1>1. /\ at \in 0..Len(signals) /\ Len(signals) \in Nat /\ at < Len(signals)
      /\ seen = {DedupId(Event(i)) : i \in 1..at}
  BY PositionTyped DEF IInv, TypeOK, Turn
<1>2. /\ n = at + 1 /\ at' = at + 1
  BY DEF Incoming
<1>3. n \in 1..Len(signals) /\ n \in Nat /\ at' \in 0..Len(signals) /\ at \in Nat
  BY <1>1, <1>2
<1>4. n \notin Correlated /\ \A i \in Correlated : i \in 1..Len(signals) /\ i < n
  BY <1>1, <1>2 DEF Correlated
<1>5. \A i : KeyOf(i)' = KeyOf(i) /\ Event(i)' = Event(i)
  BY DEF KeyOf, Event
<1>6. Reported <=> \E j \in 1..(n - 1) : DedupId(Event(j)) = DedupId(Event(n))
  <2>1. n - 1 = at
    BY <1>2, <1>3
  <2>2. Reported <=> DedupId(Event(n)) \in {DedupId(Event(i)) : i \in 1..at}
    BY <1>1 DEF Reported
  <2> QED
    BY <2>1, <2>2
<1>7. Correlated' = {i \in 1..n : \A j \in 1..(i - 1) : DedupId(Event(j)) # DedupId(Event(i))}
  BY <1>2, <1>5 DEF Correlated
<1>8. 1..n = (1..at) \cup {n}
  BY <1>2, <1>3
<1>9. Correlated' = IF Reported THEN Correlated ELSE Correlated \cup {n}
  BY <1>6, <1>7, <1>8 DEF Correlated
<1>10. stage = "correlating" /\ batch \in Seq(Events) /\ signals \in Seq(Signals)
  BY DEF IInv, Shape, Turn
<1> QED
  BY <1>2, <1>3, <1>4, <1>5, <1>9, <1>10

\* A report that was seen changes nothing but the count of duplicates.
LEMMA DuplicateKeeps ==
  ASSUME IInv, Duplicate
  PROVE  IInv'
<1>1. PICK n : n = Incoming
  OBVIOUS
<1>2. /\ Turn /\ Reported /\ at' = Incoming /\ duplicates' = duplicates + 1
      /\ UNCHANGED <<stage, batch, signals, rejected, index, seen, conflicts, corroborated>>
  BY DEF Duplicate
<1>3. /\ n \in 1..Len(signals) /\ n \in Nat
      /\ \A i : KeyOf(i)' = KeyOf(i) /\ Event(i)' = Event(i)
      /\ Correlated' = Correlated
      /\ at' \in 0..Len(signals) /\ at' = at + 1 /\ at \in Nat
      /\ stage' \in {"idle", "normalizing", "correlating"}
      /\ stage' # "correlating" => at' = 0
      /\ batch' \in Seq(Events) /\ signals' \in Seq(Signals)
  BY <1>1, <1>2, TurnTaken
<1>4. \A k : Of(k)' = Of(k)
  BY <1>3 DEF Of
<1>5. Shape'
  BY <1>2, <1>3 DEF IInv, Shape
<1>6. TypeOK'
  <2>1. seen' = {DedupId(Event(i)') : i \in 1..at'}
    <3>1. 1..at' = (1..at) \cup {n} /\ DedupId(Event(n)) \in seen
      BY <1>1, <1>2, <1>3 DEF Incoming, Reported
    <3>2. seen = {DedupId(Event(i)) : i \in 1..at}
      BY DEF IInv, TypeOK
    <3> QED
      BY <1>2, <1>3, <3>1, <3>2
  <2>2. duplicates' = at' - Cardinality(Correlated')
    <3>1. duplicates = at - Cardinality(Correlated) /\ Cardinality(Correlated) \in Nat
      BY <1>3, CorrelatedFinite DEF IInv, TypeOK
    <3> QED
      BY <1>2, <1>3, <3>1
  <2>3. DOMAIN index' = {KeyOf(i)' : i \in Correlated'}
    BY <1>2, <1>3 DEF IInv, TypeOK
  <2>4. \A k \in DOMAIN index' : index'[k].primary \in Of(k)'
    BY <1>2, <1>4 DEF IInv, TypeOK
  <2> QED
    BY <1>2, <1>3, <2>1, <2>2, <2>3, <2>4 DEF IInv, TypeOK
<1>7. PrimaryIsBest'
  BY <1>2, <1>3, <1>4 DEF IInv, PrimaryIsBest
<1>8. NothingLost'
  BY <1>2, <1>3, <1>4 DEF IInv, NothingLost
<1>9. IndependentlyCorroborated'
  BY <1>2, <1>3 DEF IInv, IndependentlyCorroborated
<1>10. LaterDisagreementKnown'
  BY <1>2, <1>3, <1>4 DEF IInv, LaterDisagreementKnown
<1> QED
  BY <1>5, <1>6, <1>7, <1>8, <1>9, <1>10 DEF IInv

\* A new report, entered under its key with a primary of the best provenance,
\* all the evidence and its later disagreements.
LEMMA EnteredKeeps ==
  ASSUME IInv, Turn, ~Reported, at' = Incoming, See,
         UNCHANGED <<stage, batch, signals, duplicates>>,
         NEW n, n = Incoming, NEW p, NEW u,
         Enter([primary |-> p, support |-> u]),
         p \in Of(KeyOf(n)) \cup {n},
         u \cup {Evidence(Event(p))} = {Evidence(Event(i)) : i \in Of(KeyOf(n)) \cup {n}},
         \A i \in Of(KeyOf(n)) \cup {n} : Weight[Event(i).nature] <= Weight[Event(p).nature],
         conflicts' \in Seq(SUBSET (Nat \X Nat)), Len(conflicts') = Len(conflicts),
         \A i \in DOMAIN conflicts : conflicts[i] \subseteq conflicts'[i],
         \A i \in Of(KeyOf(n)) \cup {n} :
           i > p /\ Disagree(Event(i), Event(p)) => <<p, i>> \in conflicts'[p],
         \/ corroborated' = corroborated
         \/ /\ corroborated' = corroborated + 1
            /\ \E j \in Correlated : KeyOf(j) = KeyOf(n) /\ Independent(Event(j), Event(n))
  PROVE  IInv'
<1>1. /\ n \in 1..Len(signals) /\ n \in Nat /\ n \notin Correlated
      /\ \A i \in Correlated : i \in 1..Len(signals) /\ i < n
      /\ \A i : KeyOf(i)' = KeyOf(i) /\ Event(i)' = Event(i)
      /\ Correlated' = Correlated \cup {n}
      /\ at' \in 0..Len(signals) /\ at' = at + 1 /\ at \in Nat
      /\ stage' \in {"idle", "normalizing", "correlating"}
      /\ stage' # "correlating" => at' = 0
      /\ batch' \in Seq(Events) /\ signals' \in Seq(Signals)
  BY TurnTaken
<1>2. PICK key : key = KeyOf(n)
  OBVIOUS
<1>3. /\ Of(key)' = Of(key) \cup {n}
      /\ \A k : k # key => Of(k)' = Of(k)
  BY <1>1, <1>2 DEF Of
<1>4. PICK entry : entry = [primary |-> p, support |-> u]
  OBVIOUS
<1>5. /\ DOMAIN index' = DOMAIN index \cup {key}
      /\ index'[key] = entry
      /\ \A k \in DOMAIN index : k # key => index'[k] = index[k]
  BY <1>2, <1>4 DEF Enter
<1>6. entry.primary = p /\ entry.support = u
  BY <1>4
<1>7. \A k \in DOMAIN index' : k = key \/ (k \in DOMAIN index /\ k # key)
  BY <1>5
<1>8. Len(conflicts') = Len(signals') /\ corroborated \in Nat /\ corroborated' \in Nat
  BY DEF IInv, Shape
<1>9. Shape'
  BY <1>1, <1>8 DEF Shape
<1>10. TypeOK'
  <2>1. seen' = {DedupId(Event(i)') : i \in 1..at'}
    <3>1. 1..at' = (1..at) \cup {n} /\ seen' = seen \cup {DedupId(Event(n))}
      BY <1>1 DEF Incoming, See
    <3>2. seen = {DedupId(Event(i)) : i \in 1..at}
      BY DEF IInv, TypeOK
    <3> QED
      BY <1>1, <3>1, <3>2
  <2>2. duplicates' = at' - Cardinality(Correlated')
    <3>1. /\ duplicates = at - Cardinality(Correlated) /\ Cardinality(Correlated) \in Nat
          /\ IsFiniteSet(Correlated)
      BY <1>1, CorrelatedFinite DEF IInv, TypeOK
    <3>2. Cardinality(Correlated') = Cardinality(Correlated) + 1
      BY <1>1, <3>1, FS_AddElement
    <3> QED
      BY <1>1, <3>1, <3>2
  <2>3. DOMAIN index' = {KeyOf(i)' : i \in Correlated'}
    <3>1. DOMAIN index = {KeyOf(i) : i \in Correlated}
      BY DEF IInv, TypeOK
    <3> QED
      BY <1>1, <1>2, <1>5, <3>1
  <2>4. \A k \in DOMAIN index' : index'[k].primary \in Of(k)'
    BY <1>2, <1>3, <1>5, <1>6, <1>7 DEF IInv, TypeOK
  <2>5. DOMAIN conflicts' = DOMAIN signals'
    BY <1>1, <1>8, LenProperties
  <2> QED
    BY <1>1, <2>1, <2>2, <2>3, <2>4, <2>5 DEF IInv, TypeOK
<1>11. PrimaryIsBest'
  <2> SUFFICES ASSUME NEW k \in DOMAIN index', NEW i \in Of(k)'
               PROVE  Weight[Event(i).nature] <= Weight[Event(index'[k].primary).nature]
    BY <1>1 DEF PrimaryIsBest
  <2>1. CASE k = key
    BY <1>2, <1>3, <1>5, <1>6, <2>1
  <2>2. CASE k # key
    BY <1>3, <1>5, <1>7, <2>2 DEF IInv, PrimaryIsBest
  <2> QED
    BY <2>1, <2>2
<1>12. NothingLost'
  <2> SUFFICES ASSUME NEW k \in DOMAIN index'
               PROVE  index'[k].support \cup {Evidence(Event(index'[k].primary))}
                        = {Evidence(Event(i)) : i \in Of(k)'}
    BY <1>1 DEF NothingLost
  <2>1. CASE k = key
    BY <1>2, <1>3, <1>5, <1>6, <2>1
  <2>2. CASE k # key
    BY <1>3, <1>5, <1>7, <2>2 DEF IInv, NothingLost
  <2> QED
    BY <2>1, <2>2
<1>13. LaterDisagreementKnown'
  <2> SUFFICES ASSUME NEW k \in DOMAIN index', NEW i \in Of(k)',
                      i > index'[k].primary, Disagree(Event(i), Event(index'[k].primary))
               PROVE  <<index'[k].primary, i>> \in conflicts'[index'[k].primary]
    BY <1>1 DEF LaterDisagreementKnown
  <2>1. CASE k = key
    BY <1>2, <1>3, <1>5, <1>6, <2>1
  <2>2. CASE k # key
    <3>1. k \in DOMAIN index /\ i \in Of(k) /\ index'[k] = index[k]
      BY <1>3, <1>5, <1>7, <2>2
    <3>2. <<index[k].primary, i>> \in conflicts[index[k].primary]
      BY <3>1 DEF IInv, LaterDisagreementKnown
    <3>3. index[k].primary \in DOMAIN conflicts
      <4>1. index[k].primary \in Correlated
        BY <3>1 DEF IInv, TypeOK, Of
      <4> QED
        BY <1>1, <4>1, PositionTyped DEF IInv
    <3> QED
      BY <3>1, <3>2, <3>3
  <2> QED
    BY <2>1, <2>2
<1>14. IndependentlyCorroborated'
  <2>1. Corroborable \subseteq Corroborable'
    BY <1>1 DEF Corroborable
  <2>2. n \notin Corroborable
    BY <1>1 DEF Corroborable
  <2>3. Corroborable' \subseteq Corroborable \cup {n}
    <3> SUFFICES ASSUME NEW i \in Corroborable', i # n PROVE i \in Corroborable
      OBVIOUS
    <3>1. i \in Correlated
      BY <1>1 DEF Corroborable
    <3>2. PICK j \in Correlated' : j < i /\ KeyOf(j) = KeyOf(i) /\ Independent(Event(j), Event(i))
      BY <1>1 DEF Corroborable
    <3>3. j # n
      BY <1>1, <3>1, <3>2
    <3> QED
      BY <1>1, <3>1, <3>2, <3>3 DEF Corroborable
  <2>4. /\ IsFiniteSet(Corroborable) /\ Cardinality(Corroborable) \in Nat
        /\ corroborated <= Cardinality(Corroborable)
    BY <1>1, CorrelatedFinite DEF IInv, IndependentlyCorroborated, Corroborable
  <2>5. Cardinality(Corroborable \cup {n}) = Cardinality(Corroborable) + 1
    BY <2>2, <2>4, FS_AddElement
  <2>6. CASE n \in Corroborable'
    <3>1. Corroborable' = Corroborable \cup {n}
      BY <2>1, <2>3, <2>6
    <3>2. corroborated' <= Cardinality(Corroborable')
      BY <1>8, <2>4, <2>5, <3>1
    <3> QED
      BY <3>2 DEF IndependentlyCorroborated, Corroborable
  <2>7. CASE n \notin Corroborable'
    <3>1. Corroborable' = Corroborable
      BY <2>1, <2>3, <2>7
    <3>2. ~ \E j \in Correlated : KeyOf(j) = KeyOf(n) /\ Independent(Event(j), Event(n))
      BY <1>1, <2>7 DEF Corroborable
    <3>3. corroborated' <= Cardinality(Corroborable')
      BY <2>4, <3>1, <3>2
    <3> QED
      BY <3>3 DEF IndependentlyCorroborated, Corroborable
  <2> QED
    BY <2>6, <2>7
<1> QED
  BY <1>9, <1>10, <1>11, <1>12, <1>13, <1>14 DEF IInv

\* The first report of a key leads its entry.
LEMMA FirstKeeps ==
  ASSUME IInv, First
  PROVE  IInv'
<1>1. PICK n : n = Incoming
  OBVIOUS
<1>2. /\ Turn /\ ~Reported /\ at' = Incoming /\ See /\ KeyOf(n) \notin DOMAIN index
      /\ Enter([primary |-> n, support |-> {}])
      /\ UNCHANGED <<stage, batch, signals, rejected, conflicts, duplicates, corroborated>>
  BY <1>1 DEF First, Known
<1>3. n \in 1..Len(signals) /\ n \in Nat
  BY <1>1, <1>2, TurnTaken
<1>4. Of(KeyOf(n)) = {}
  BY <1>2 DEF IInv, TypeOK, Of
<1>5. Weight[Event(n).nature] \in Nat
  BY <1>3, PositionTyped, WeightTyped DEF IInv
<1>6. \A i \in Of(KeyOf(n)) \cup {n} : Weight[Event(i).nature] <= Weight[Event(n).nature]
  BY <1>4, <1>5
<1>7. {} \cup {Evidence(Event(n))} = {Evidence(Event(i)) : i \in Of(KeyOf(n)) \cup {n}}
  BY <1>4
<1>8. \A i \in Of(KeyOf(n)) \cup {n} : ~(i > n)
  BY <1>3, <1>4
<1>9. conflicts' \in Seq(SUBSET (Nat \X Nat))
  BY <1>2 DEF IInv, Shape
<1> QED
  BY <1>1, <1>2, <1>6, <1>7, <1>8, <1>9, EnteredKeeps

\* The disagreement of two signals is written on both, over what is there.
LEMMA Recorded ==
  ASSUME IInv, NEW i \in DOMAIN conflicts, NEW j \in DOMAIN conflicts, Record(i, j)
  PROVE  /\ conflicts' \in Seq(SUBSET (Nat \X Nat)) /\ Len(conflicts') = Len(conflicts)
         /\ \A k \in DOMAIN conflicts : conflicts[k] \subseteq conflicts'[k]
         /\ Disagree(Event(j), Event(i)) => <<i, j>> \in conflicts'[i]
<1> DEFINE T == SUBSET (Nat \X Nat)
           a == conflicts[i] \cup {<<i, j>>}
           first == [conflicts EXCEPT ![i] = a]
           b == first[j] \cup {<<i, j>>}
           both == [first EXCEPT ![j] = b]
<1>1. conflicts \in Seq(T) /\ DOMAIN conflicts = 1..Len(conflicts) /\ i \in Nat /\ j \in Nat
  BY LenProperties DEF IInv, Shape
<1>2. a \in T
  BY <1>1, ElementOfSeq
<1> HIDE DEF T
<1>3. /\ first \in Seq(T) /\ Len(first) = Len(conflicts)
      /\ \A k \in 1..Len(conflicts) : first[k] = IF k = i THEN a ELSE conflicts[k]
  <2> HIDE DEF a
  <2> QED
    BY <1>1, <1>2, ExceptSeq
<1> HIDE DEF first
<1>4. b \in T
  <2>1. first[j] \in T
    BY <1>1, <1>3, ElementOfSeq
  <2> QED
    BY <1>1, <2>1 DEF T
<1>5. /\ both \in Seq(T) /\ Len(both) = Len(conflicts)
      /\ \A k \in 1..Len(conflicts) : both[k] = IF k = j THEN b ELSE first[k]
  <2> HIDE DEF b
  <2> QED
    BY <1>1, <1>3, <1>4, ExceptSeq
<1>6. conflicts' = IF Disagree(Event(i), Event(j)) THEN both ELSE conflicts
  BY DEF Record, first
<1> HIDE DEF both
<1>7. CASE Disagree(Event(i), Event(j))
  <2>1. \A k \in DOMAIN conflicts : conflicts[k] \subseteq both[k]
    BY <1>1, <1>3, <1>5
  <2>2. <<i, j>> \in both[i]
    BY <1>1, <1>3, <1>5
  <2> QED
    BY <1>5, <1>6, <1>7, <2>1, <2>2 DEF T
<1>8. CASE ~Disagree(Event(i), Event(j))
  BY <1>1, <1>6, <1>8, DisagreeSymmetric DEF T
<1> QED
  BY <1>7, <1>8

\* The signal a newcomer meets, and what the index says of it.
LEMMA ExistingKnown ==
  ASSUME IInv, Turn, Known, at' = Incoming, UNCHANGED <<stage, batch, signals>>,
         NEW n, n = Incoming, NEW x, x = Existing
  PROVE  /\ x \in Of(KeyOf(n)) /\ x \in Correlated /\ KeyOf(x) = KeyOf(n)
         /\ x < n /\ x \in Nat /\ n \in Nat
         /\ x \in DOMAIN conflicts /\ n \in DOMAIN conflicts
         /\ \A i \in Of(KeyOf(n)) \cup {n} : i \in Nat /\ i <= n
         /\ \A i \in Of(KeyOf(n)) \cup {n} : Weight[Event(i).nature] \in Nat
         /\ \A i \in Of(KeyOf(n)) :
              Weight[Event(i).nature] <= Weight[Event(x).nature]
         /\ Support(n) \cup {Evidence(Event(x))} = {Evidence(Event(i)) : i \in Of(KeyOf(n))}
         /\ \A i \in Of(KeyOf(n)) :
              i > x /\ Disagree(Event(i), Event(x)) => <<x, i>> \in conflicts[x]
<1>1. KeyOf(n) \in DOMAIN index /\ x = index[KeyOf(n)].primary
  BY DEF Known, Existing
<1>2. /\ n \in 1..Len(signals) /\ n \in Nat
      /\ \A i \in Correlated : i \in 1..Len(signals) /\ i < n
  BY TurnTaken
<1>3. x \in Of(KeyOf(n)) /\ x \in Correlated /\ KeyOf(x) = KeyOf(n)
  BY <1>1 DEF IInv, TypeOK, Of
<1>4. /\ \A i \in Of(KeyOf(n)) \cup {n} : i \in 1..Len(signals) /\ i \in Nat /\ i <= n
  BY <1>2 DEF Of
<1>5. \A i \in Of(KeyOf(n)) \cup {n} : Weight[Event(i).nature] \in Nat
  BY <1>4, PositionTyped, WeightTyped DEF IInv
<1>6. \A i \in Of(KeyOf(n)) : Weight[Event(i).nature] <= Weight[Event(x).nature]
  BY <1>1 DEF IInv, PrimaryIsBest
<1>7. Support(n) \cup {Evidence(Event(x))} = {Evidence(Event(i)) : i \in Of(KeyOf(n))}
  BY <1>1 DEF IInv, NothingLost, Support
<1>8. \A i \in Of(KeyOf(n)) : i > x /\ Disagree(Event(i), Event(x)) => <<x, i>> \in conflicts[x]
  BY <1>1 DEF IInv, LaterDisagreementKnown
<1>9. DOMAIN conflicts = 1..Len(signals)
  BY PositionTyped DEF IInv
<1> QED
  BY <1>2, <1>3, <1>4, <1>5, <1>6, <1>7, <1>8, <1>9

LEMMA Corroborates ==
  ASSUME IInv, Turn, Known, at' = Incoming, UNCHANGED <<stage, batch, signals>>, Count,
         NEW n, n = Incoming
  PROVE  \/ corroborated' = corroborated
         \/ /\ corroborated' = corroborated + 1
            /\ \E j \in Correlated : KeyOf(j) = KeyOf(n) /\ Independent(Event(j), Event(n))
<1>1. PICK x : x = Existing
  OBVIOUS
<1>2. x \in Correlated /\ KeyOf(x) = KeyOf(n)
  BY <1>1, ExistingKnown
<1> QED
  BY <1>1, <1>2 DEF Count

\* A newcomer of a better provenance takes over, with all that was gathered.
LEMMA PromoteKeeps ==
  ASSUME IInv, Promote
  PROVE  IInv'
<1>1. PICK n : n = Incoming
  OBVIOUS
<1>2. PICK x : x = Existing
  OBVIOUS
<1>3. PICK u : u = Support(n) \cup {Evidence(Event(x))}
  OBVIOUS
<1>4. /\ Turn /\ ~Reported /\ Known /\ at' = Incoming /\ See /\ Record(x, n) /\ Count
      /\ Outranks(n, x) /\ Enter([primary |-> n, support |-> u])
      /\ UNCHANGED <<stage, batch, signals, rejected, duplicates>>
  BY <1>1, <1>2, <1>3 DEF Promote, Promoted
<1>5. /\ x \in Of(KeyOf(n)) /\ x \in DOMAIN conflicts /\ n \in DOMAIN conflicts /\ n \in Nat
      /\ \A i \in Of(KeyOf(n)) \cup {n} : i \in Nat /\ i <= n
      /\ \A i \in Of(KeyOf(n)) \cup {n} : Weight[Event(i).nature] \in Nat
      /\ \A i \in Of(KeyOf(n)) : Weight[Event(i).nature] <= Weight[Event(x).nature]
      /\ u = {Evidence(Event(i)) : i \in Of(KeyOf(n))}
  BY <1>1, <1>2, <1>3, <1>4, ExistingKnown
<1>6. \A i \in Of(KeyOf(n)) \cup {n} : Weight[Event(i).nature] <= Weight[Event(n).nature]
  <2>1. Weight[Event(x).nature] < Weight[Event(n).nature]
    BY <1>4, <1>5 DEF Outranks
  <2> QED
    BY <1>5, <2>1
<1>7. u \cup {Evidence(Event(n))} = {Evidence(Event(i)) : i \in Of(KeyOf(n)) \cup {n}}
  BY <1>5
<1>8. \A i \in Of(KeyOf(n)) \cup {n} : ~(i > n)
  BY <1>5
<1>9. /\ conflicts' \in Seq(SUBSET (Nat \X Nat)) /\ Len(conflicts') = Len(conflicts)
      /\ \A k \in DOMAIN conflicts : conflicts[k] \subseteq conflicts'[k]
  BY <1>4, <1>5, Recorded
<1>10. \/ corroborated' = corroborated
       \/ /\ corroborated' = corroborated + 1
          /\ \E j \in Correlated : KeyOf(j) = KeyOf(n) /\ Independent(Event(j), Event(n))
  BY <1>1, <1>4, Corroborates
<1> QED
  BY <1>1, <1>4, <1>6, <1>7, <1>8, <1>9, <1>10, EnteredKeeps

\* Any other newcomer joins the evidence of the primary, which hears of its
\* disagreement.
LEMMA CorroborateKeeps ==
  ASSUME IInv, Corroborate
  PROVE  IInv'
<1>1. PICK n : n = Incoming
  OBVIOUS
<1>2. PICK x : x = Existing
  OBVIOUS
<1>3. PICK u : u = Support(n) \cup {Evidence(Event(n))}
  OBVIOUS
<1>4. /\ Turn /\ ~Reported /\ Known /\ at' = Incoming /\ See /\ Record(x, n) /\ Count
      /\ ~Outranks(n, x) /\ Enter([primary |-> x, support |-> u])
      /\ UNCHANGED <<stage, batch, signals, rejected, duplicates>>
  BY <1>1, <1>2, <1>3 DEF Corroborate
<1>5. /\ x \in Of(KeyOf(n)) /\ x \in DOMAIN conflicts /\ n \in DOMAIN conflicts /\ n \in Nat
      /\ \A i \in Of(KeyOf(n)) \cup {n} : Weight[Event(i).nature] \in Nat
      /\ \A i \in Of(KeyOf(n)) : Weight[Event(i).nature] <= Weight[Event(x).nature]
      /\ Support(n) \cup {Evidence(Event(x))} = {Evidence(Event(i)) : i \in Of(KeyOf(n))}
      /\ \A i \in Of(KeyOf(n)) :
           i > x /\ Disagree(Event(i), Event(x)) => <<x, i>> \in conflicts[x]
  BY <1>1, <1>2, <1>4, ExistingKnown
<1>6. \A i \in Of(KeyOf(n)) \cup {n} : Weight[Event(i).nature] <= Weight[Event(x).nature]
  <2>1. Weight[Event(n).nature] <= Weight[Event(x).nature]
    BY <1>4, <1>5 DEF Outranks
  <2> QED
    BY <1>5, <2>1
<1>7. u \cup {Evidence(Event(x))} = {Evidence(Event(i)) : i \in Of(KeyOf(n)) \cup {n}}
  BY <1>3, <1>5
<1>8. /\ conflicts' \in Seq(SUBSET (Nat \X Nat)) /\ Len(conflicts') = Len(conflicts)
      /\ \A k \in DOMAIN conflicts : conflicts[k] \subseteq conflicts'[k]
      /\ Disagree(Event(n), Event(x)) => <<x, n>> \in conflicts'[x]
  BY <1>4, <1>5, Recorded
<1>9. \A i \in Of(KeyOf(n)) \cup {n} :
        i > x /\ Disagree(Event(i), Event(x)) => <<x, i>> \in conflicts'[x]
  BY <1>5, <1>8
<1>10. \/ corroborated' = corroborated
       \/ /\ corroborated' = corroborated + 1
          /\ \E j \in Correlated : KeyOf(j) = KeyOf(n) /\ Independent(Event(j), Event(n))
  BY <1>1, <1>4, Corroborates
<1> QED
  BY <1>1, <1>4, <1>5, <1>6, <1>7, <1>8, <1>9, <1>10, EnteredKeeps

-----------------------------------------------------------------------------
(* The invariant holds, and what it says                                     *)

LEMMA InitHolds == Init => IInv
<1> SUFFICES ASSUME Init PROVE IInv
  OBVIOUS
<1>1. /\ <<>> \in Seq(Events) /\ <<>> \in Seq(Signals) /\ <<>> \in Seq(SUBSET (Nat \X Nat))
      /\ DOMAIN <<>> = {}
  BY EmptySeq
<1>2. Fresh
  BY <1>1 DEF Init, Fresh
<1> QED
  BY <1>2, FreshCorrelator

LEMMA NextKeeps == IInv /\ [Next]_vars => IInv'
<1> SUFFICES ASSUME IInv, [Next]_vars PROVE IInv'
  OBVIOUS
<1>1. CASE \E b \in Batches : Receive(b)
  BY <1>1, ReceiveKeeps
<1>2. CASE Accept
  BY <1>2, AcceptKeeps
<1>3. CASE Reject
  BY <1>3, RejectKeeps
<1>4. CASE Normalized
  BY <1>4, NormalizedKeeps
<1>5. CASE Duplicate
  BY <1>5, DuplicateKeeps
<1>6. CASE First
  BY <1>6, FirstKeeps
<1>7. CASE Promote
  BY <1>7, PromoteKeeps
<1>8. CASE Corroborate
  BY <1>8, CorroborateKeeps
<1>9. CASE Return
  BY <1>9, ReturnKeeps
<1>10. CASE UNCHANGED vars
  <2>1. UNCHANGED <<stage, batch, signals, at, index, seen, conflicts, duplicates, corroborated>>
    BY <1>10 DEF vars
  <2>2. \A i : KeyOf(i)' = KeyOf(i) /\ Event(i)' = Event(i)
    BY <2>1 DEF KeyOf, Event
  <2>3. Correlated' = Correlated
    BY <2>1, <2>2 DEF Correlated
  <2>4. \A k : Of(k)' = Of(k)
    BY <2>2, <2>3 DEF Of
  <2>5. Shape' /\ TypeOK'
    BY <2>1, <2>2, <2>3, <2>4 DEF IInv, Shape, TypeOK
  <2>6. PrimaryIsBest' /\ NothingLost' /\ LaterDisagreementKnown'
    BY <2>1, <2>2, <2>4 DEF IInv, PrimaryIsBest, NothingLost, LaterDisagreementKnown
  <2>7. IndependentlyCorroborated'
    BY <2>1, <2>2, <2>3 DEF IInv, IndependentlyCorroborated
  <2> QED
    BY <2>5, <2>6, <2>7 DEF IInv
<1> QED
  BY <1>1, <1>2, <1>3, <1>4, <1>5, <1>6, <1>7, <1>8, <1>9, <1>10 DEF Next

\* What every event normalised and every signal correlated preserves.
THEOREM Invariance == Spec => []IInv
  BY InitHolds, NextKeeps, PTL DEF Spec

\* The index has an entry for each key correlated, led by a signal of the key,
\* and the duplicates are the signals that are not the first of their report.
THEOREM TypeCorrect == Spec => []TypeOK
<1>1. IInv => TypeOK
  BY DEF IInv
<1> QED
  BY <1>1, Invariance, PTL

\* No report correlated under a key is of a better provenance than its primary.
THEOREM BestLeads == Spec => []PrimaryIsBest
<1>1. IInv => PrimaryIsBest
  BY DEF IInv
<1> QED
  BY <1>1, Invariance, PTL

\* Primary and support of an entry are the observations correlated under its key.
THEOREM EvidenceComplete == Spec => []NothingLost
<1>1. IInv => NothingLost
  BY DEF IInv
<1> QED
  BY <1>1, Invariance, PTL

\* A signal corroborates only after an independent one under its key, and once.
THEOREM CorroborationIndependent == Spec => []IndependentlyCorroborated
<1>1. IInv => IndependentlyCorroborated
  BY DEF IInv
<1> QED
  BY <1>1, Invariance, PTL

\* What disagrees with the primary after it is recorded on the primary.
THEOREM DisagreementKnown == Spec => []LaterDisagreementKnown
<1>1. IInv => LaterDisagreementKnown
  BY DEF IInv
<1> QED
  BY <1>1, Invariance, PTL
=============================================================================

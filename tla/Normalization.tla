----------------------------- MODULE Normalization -----------------------------
(***************************************************************************)
(* The normalisation pipeline on one batch after another: each event is    *)
(* normalised on its own, then a correlator that starts empty for the      *)
(* batch drops the reports it has seen and merges the signals that share a *)
(* key under the most trustworthy of them.                                 *)
(*                                                                         *)
(* A signal is the position of its event in "signals": the merge mutates   *)
(* the signal objects themselves, so a position stands for an object.      *)
(***************************************************************************)
EXTENDS EntityRules

CONSTANTS
  Events,  \* the canonical events there may be
  Batches  \* the batches that may arrive: sequences of events

ASSUME BatchesAssumption ==
  /\ \A e \in Events : e.nature \in DOMAIN Weight
  /\ Batches \subseteq Seq(Events)

VARIABLES
  stage,         \* "idle", "normalizing" or "correlating"
  batch,         \* the events of the batch still to be normalised
  signals,       \* signals made so far
  rejected,      \* number of events without a signal
  at,            \* number of signals correlated so far
  index,         \* key -> [primary, support]
  seen,          \* reports the correlator has seen
  conflicts,     \* per signal, the disagreements recorded on it: <<a, b>>
  duplicates, corroborated

vars == <<stage, batch, signals, rejected, at, index, seen, conflicts,
          duplicates, corroborated>>

Correlator == <<at, index, seen, conflicts, duplicates, corroborated>>

Event(i) == signals[i].event
KeyOf(i) == Key(signals[i])

Init ==
  /\ stage = "idle"
  /\ batch = <<>> /\ signals = <<>> /\ rejected = 0
  /\ at = 0 /\ index = <<>> /\ seen = {} /\ conflicts = <<>>
  /\ duplicates = 0 /\ corroborated = 0

-----------------------------------------------------------------------------
(* finalize_batch begins. *)
Receive(b) ==
  /\ stage = "idle"
  /\ stage' = "normalizing"
  /\ batch' = b
  /\ UNCHANGED <<signals, rejected, Correlator>>

(* normalize_event on the next event: an event that cannot be normalised  *)
(* is rejected alone.                                                      *)
Accept ==
  /\ stage = "normalizing" /\ batch # <<>>
  /\ Verdict(Head(batch)) # "INVALID"
  /\ signals' = Append(signals, Signal(Head(batch)))
  /\ conflicts' = Append(conflicts, {})
  /\ batch' = Tail(batch)
  /\ UNCHANGED <<stage, rejected, at, index, seen, duplicates, corroborated>>

Reject ==
  /\ stage = "normalizing" /\ batch # <<>>
  /\ Verdict(Head(batch)) = "INVALID"
  /\ rejected' = rejected + 1
  /\ batch' = Tail(batch)
  /\ UNCHANGED <<stage, signals, Correlator>>

(* A batch without signals is not correlated. *)
Normalized ==
  /\ stage = "normalizing" /\ batch = <<>> /\ signals # <<>>
  /\ stage' = "correlating"
  /\ UNCHANGED <<batch, signals, rejected, Correlator>>

-----------------------------------------------------------------------------
(* correlate_signal on the next signal. *)
Incoming == at + 1

Turn ==
  stage = "correlating" /\ at < Len(signals)

Existing == index[KeyOf(Incoming)].primary

Known == KeyOf(Incoming) \in DOMAIN index

\* A slip: reports are told apart by their canonical id.
ReportedMutant == \E d \in seen : d[3] = Event(Incoming).id

Reported == DedupId(Event(Incoming)) \in seen

Enter(entry) ==
  index' = [k \in DOMAIN index \cup {KeyOf(Incoming)} |->
              IF k = KeyOf(Incoming) THEN entry ELSE index[k]]

See == seen' = seen \cup {DedupId(Event(Incoming))}

\* A report that was seen is dropped, whatever it says now.
Duplicate ==
  /\ Turn /\ Reported
  /\ at' = Incoming
  /\ duplicates' = duplicates + 1
  /\ UNCHANGED <<stage, batch, signals, rejected, index, seen, conflicts, corroborated>>

First ==
  /\ Turn /\ ~Reported /\ ~Known
  /\ at' = Incoming
  /\ See
  /\ Enter([primary |-> Incoming, support |-> {}])
  /\ UNCHANGED <<stage, batch, signals, rejected, conflicts, duplicates, corroborated>>

\* A slip: an estimate is as good as a measurement.
OutranksMutant(i, j) ==
  Weight[Event(i).nature] > Weight[Event(j).nature] /\ Event(j).nature # "ESTIMATED"

Outranks(i, j) == Weight[Event(i).nature] > Weight[Event(j).nature]

\* A slip: the disagreement is written on the newcomer alone.
RecordMutant(i, j) ==
  conflicts' = IF Disagree(Event(i), Event(j))
               THEN [conflicts EXCEPT ![j] = @ \cup {<<i, j>>}]
               ELSE conflicts

\* The disagreement is written on both signals.
Record(i, j) ==
  conflicts' = IF Disagree(Event(i), Event(j))
               THEN [conflicts EXCEPT ![i] = @ \cup {<<i, j>>}, ![j] = @ \cup {<<i, j>>}]
               ELSE conflicts

\* A slip: any other provider corroborates.
CountMutant ==
  corroborated' = IF Event(Existing).provider # Event(Incoming).provider
                  THEN corroborated + 1 ELSE corroborated

Count ==
  corroborated' = IF Independent(Event(Existing), Event(Incoming))
                  THEN corroborated + 1 ELSE corroborated

Support(i) == index[KeyOf(i)].support

\* A slip: the displaced primary does not join the evidence.
PromotedMutant == [primary |-> Incoming, support |-> Support(Incoming)]

\* The newcomer takes over with the evidence gathered so far, the displaced
\* primary included; the conflicts of earlier merges stay with the displaced.
Promoted == [primary |-> Incoming, support |-> Support(Incoming) \cup {Evidence(Event(Existing))}]

Promote ==
  /\ Turn /\ ~Reported /\ Known
  /\ Outranks(Incoming, Existing)
  /\ at' = Incoming
  /\ See
  /\ Record(Existing, Incoming)
  /\ Count
  /\ Enter(Promoted)
  /\ UNCHANGED <<stage, batch, signals, rejected, duplicates>>

Corroborate ==
  /\ Turn /\ ~Reported /\ Known
  /\ ~Outranks(Incoming, Existing)
  /\ at' = Incoming
  /\ See
  /\ Record(Existing, Incoming)
  /\ Count
  /\ Enter([primary |-> Existing, support |-> Support(Incoming) \cup {Evidence(Event(Incoming))}])
  /\ UNCHANGED <<stage, batch, signals, rejected, duplicates>>

(* The result is returned; the correlator goes with it. *)
Return ==
  /\ \/ stage = "correlating" /\ at = Len(signals)
     \/ stage = "normalizing" /\ batch = <<>> /\ signals = <<>>
  /\ stage' = "idle"
  /\ batch' = <<>> /\ signals' = <<>> /\ rejected' = 0
  /\ at' = 0 /\ index' = <<>> /\ seen' = {} /\ conflicts' = <<>>
  /\ duplicates' = 0 /\ corroborated' = 0

Next ==
  \/ \E b \in Batches : Receive(b)
  \/ Accept \/ Reject \/ Normalized
  \/ Duplicate \/ First \/ Promote \/ Corroborate \/ Return

Spec == Init /\ [][Next]_vars

-----------------------------------------------------------------------------
(* Properties.                                                             *)

\* The signals correlated so far that are the first report under their name.
Correlated == {i \in 1..at : \A j \in 1..(i - 1) : DedupId(Event(j)) # DedupId(Event(i))}

Of(key) == {i \in Correlated : KeyOf(i) = key}

\* The correlator's state is what its index promises: an entry per key of a
\* correlated signal, led by a signal of that key.
TypeOK ==
  /\ stage \in {"idle", "normalizing", "correlating"}
  /\ at \in 0..Len(signals)
  /\ DOMAIN conflicts = DOMAIN signals
  /\ DOMAIN index = {KeyOf(i) : i \in Correlated}
  /\ \A k \in DOMAIN index : index[k].primary \in Of(k)
  /\ seen = {DedupId(Event(i)) : i \in 1..at}
  /\ duplicates = at - Cardinality(Correlated)

\* Whatever the order in which sources report an event, it is led by a signal
\* of the best provenance: no signal correlated under the key outranks it.
PrimaryIsBest ==
  \A k \in DOMAIN index : \A i \in Of(k) :
     Weight[Event(i).nature] <= Weight[Event(index[k].primary).nature]

\* No observation is lost in the merges: the evidence of an entry and its
\* primary are exactly the observations correlated under its key.
NothingLost ==
  \A k \in DOMAIN index :
     index[k].support \cup {Evidence(Event(index[k].primary))}
       = {Evidence(Event(i)) : i \in Of(k)}

\* Corroboration counts a real-world signal at most once, and only when
\* another provider's real-world signal was there before it.
IndependentlyCorroborated ==
  corroborated <= Cardinality(
     {i \in Correlated : \E j \in Correlated : /\ j < i
                                               /\ KeyOf(j) = KeyOf(i)
                                               /\ Independent(Event(j), Event(i))})

\* A primary knows every later signal of its key that disagrees with it.
LaterDisagreementKnown ==
  \A k \in DOMAIN index : \A i \in Of(k) :
     LET p == index[k].primary
     IN i > p /\ Disagree(Event(i), Event(p)) => <<p, i>> \in conflicts[p]
=============================================================================

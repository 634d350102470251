---------------------------- MODULE MCNormalization ----------------------------
(* Batches of up to MaxBatch reports of one port closure (and of what may be *)
(* taken for it), and single events that give every identifier there is.    *)
EXTENDS Normalization, TLC

CONSTANT MaxBatch

Entry(type, org, by, value, id) ==
  [type |-> type, org |-> org, by |-> by, value |-> value, id |-> id, callsign |-> None]

MCRegistry ==
  {Entry("PORT", Shared, "id", "p1", "p1"), Entry("PORT", Shared, "alias", "code", "p1"),
   Entry("VESSEL", Shared, "imo", "v1", "v1"), Entry("VESSEL", Shared, "mmsi", "v1", "v1"),
   Entry("VESSEL", Shared, "mmsi", "v2", "v2"),
   [Entry("AIRCRAFT", Shared, "icao24", "a1", "a1") EXCEPT !.callsign = "c1"]}
  \cup {Entry(t, "o1", "id", "x1", "x1") : t \in Chain \ {"PORT"}}
  \cup {Entry(t, "o1", "alias", "code", "x2") :
          t \in {"SHIPMENT", "SUPPLIER", "WAREHOUSE", "CARRIER"}}

Name(type, by, value) == [type |-> type, by |-> by, value |-> value, form |-> "clean"]

Closure ==
  [id |-> "e1", ref |-> "r1", org |-> "o1", provider |-> "ais", nature |-> "REAL",
   type |-> "PORT_CLOSURE", said |-> {"DISRUPTED"}, severity |-> "HIGH", hour |-> 1,
   place |-> "berth", incident |-> None, early |-> FALSE, forecast |-> FALSE,
   half |-> FALSE, quality |-> "VALID", negative |-> FALSE, absurd |-> FALSE,
   names |-> {Name("PORT", "id", "p1")}]

By(id, provider, nature) ==
  [Closure EXCEPT !.id = id, !.ref = None, !.provider = provider, !.nature = nature]

\* The closure, its revision an hour later and its reports by other sources.
Reports ==
  {Closure,
   [Closure EXCEPT !.id = "e2", !.hour = 2],
   [Closure EXCEPT !.id = "e3", !.org = "o2"],
   [By("e4", "harbour", "REAL") EXCEPT !.severity = "LOW", !.half = TRUE],
   By("e5", "news", "ESTIMATED"),
   [By("e6", "model", "SIMULATED") EXCEPT !.said = {}],
   [By("e7", "ais", "SIMULATED") EXCEPT !.names = {Name("PORT", "alias", "code")}],
   [By("e9", "news", "REAL") EXCEPT !.early = TRUE]}

Odd(id, type, names) ==
  [By(id, "feed", "REAL") EXCEPT !.type = type, !.names = names]

Spaced(n) == [n EXCEPT !.form = "spaced"]

\* Vessels and aircraft under agreeing, contradictory and unknown identifiers.
Assets ==
  {Odd("a1", t, imo \cup mmsi) :
     t \in {"VESSEL_DELAY", "NEWS_EVENT"},
     imo \in {{}, {Name("VESSEL", "imo", "v1")}, {Spaced(Name("VESSEL", "imo", "v1"))},
              {Name("VESSEL", "imo", "v9")}},
     mmsi \in {{}, {Name("VESSEL", "mmsi", "v1")}, {Name("VESSEL", "mmsi", "v2")},
               {[Name("VESSEL", "mmsi", "v1") EXCEPT !.form = "bad"]}}}
  \cup {Odd("a2", t, {Name("AIRCRAFT", "icao24", i), Name("AIRCRAFT", "callsign", c)}) :
          t \in {"FLIGHT_DELAY", "AIRPORT_DISRUPTION"}, i \in {"a1", "a9"}, c \in {"c1", "c2"}}

\* Every kind of entity by its id and by its alias, in and out of place.
Given(k, by, i, c) == {Name(k, by, i), Name(k, "alias", c)}

Links ==
  {[Odd("l1", t, names) EXCEPT !.org = o, !.said = {"ACTIVE", "DELAYED"}] :
     t \in {"SHIPMENT_STATUS", "PORT_DELAY", "RAIL_DISRUPTION"}, o \in {"o1", "o2"},
     names \in {Given(k, "attribute", i, c) :
                  k \in Chain, i \in {"x1", "p1", "x9"}, c \in {"code", "other"}}
               \cup {Given(k, "id", i, c) :
                  k \in Chain \ Uncorrelated, i \in {"x1", "p1", "x9"}, c \in {"code", "other"}}}

Measured ==
  {[Odd("m1", t, {Name("ROUTE", "id", "x1")}) EXCEPT
      !.negative = n, !.absurd = a, !.early = TRUE, !.forecast = f] :
     t \in {"STORM", "ROAD_CLOSURE", "TRAIN_DELAY", "ETA_CHANGE", "EARTHQUAKE", "CUSTOM"},
     n \in BOOLEAN, a \in BOOLEAN, f \in BOOLEAN}

MCEvents == Reports \cup Assets \cup Links \cup Measured

MCBatches == UNION {[1..n -> Reports] : n \in 0..MaxBatch} \cup {<<e>> : e \in MCEvents}
=============================================================================

------------------------------ MODULE EntityRules ------------------------------
(***************************************************************************)
(* Which entities a signal is linked to, how good it is, and under which   *)
(* key it meets the signals of other sources.                              *)
(***************************************************************************)
EXTENDS SignalRules

Named(e, type, by) ==
  {n \in e.names : n.type = type /\ n.by = by}

Values(e, type, by) == {n.value : n \in Named(e, type, by)}

\* Most master data belongs to an organisation; ports, vessels and aircraft
\* are shared.
Found(org, type, by, values) ==
  {r \in Registry : /\ r.type = type /\ r.by = by /\ r.value \in values
                    /\ r.org \in {org, Shared}}

Reference(type, by, id, confidence) ==
  [type |-> type, by |-> by, id |-> id, confidence |-> confidence,
   conflict |-> FALSE]

Linked(type, by, records, confidence) ==
  {Reference(type, by, r.id, confidence) : r \in records}

Unlinked(type, by, values, confidence) ==
  IF values = {} THEN {} ELSE {Reference(type, by, None, confidence)}

-----------------------------------------------------------------------------
(* The links of the supply chain: the internal id first, then the alias.   *)

FirstGiven(sets) ==
  LET given == {i \in DOMAIN sets : sets[i] # {}}
  IN IF given = {} THEN {} ELSE sets[CHOOSE i \in given : \A j \in given : i <= j]

\* The correlation of a canonical event has no field for these.
Uncorrelated == {"WAREHOUSE", "SUPPLIER_SITE", "FACTORY"}

\* Where the handler looks for an id.  Ocean and rail handlers look further
\* than the correlation: a UN/LOCODE may stand where a port id belongs.
Places(domain, type) ==
  CASE type \in Uncorrelated -> <<>>
    [] <<domain, type>> = <<"OCEAN", "PORT">> -> <<"id", "attribute", "alias">>
    [] <<domain, type>> = <<"RAIL", "ROUTE">> -> <<"id", "attribute">>
    [] OTHER -> <<"id">>

FirstOf(e, type, places) ==
  FirstGiven([i \in DOMAIN places |-> Values(e, type, places[i])])

\* The slot the handler fills.
Filled(e, type) == FirstOf(e, type, Places(Domain(e), type))

InternalId(e, type) == FirstGiven(<<Filled(e, type), Values(e, type, "attribute")>>)

\* Facilities and routes have no alias; a port is not reported as unknown by
\* its id, nor a carrier at all.
ById(type, ids, found) ==
  IF found # {} THEN Linked(type, "id", found, "EXACT")
  ELSE IF type \in {"PORT", "CARRIER"} THEN {}
  ELSE Unlinked(type, "id", ids, "UNRESOLVED")

ByAlias(e, type) ==
  LET usable == {n \in Named(e, type, "alias") : type = "PORT" => n.form # "bad"}
      values == {n.value : n \in usable}
      found == Found(e.org, type, "alias", values)
  IN IF found # {} THEN Linked(type, "alias", found, "VERIFIED")
     ELSE IF type \in {"SHIPMENT", "PORT"}
          THEN Unlinked(type, "alias", values, "UNRESOLVED") ELSE {}

\* The alias counts when the id finds nothing.
Resolved(e, type, ids) ==
  LET found == Found(e.org, type, "id", ids)
  IN ById(type, ids, found) \cup
     (IF type \in Facilities \/ found # {} THEN {} ELSE ByAlias(e, type))

ChainReferences(e, type) == Resolved(e, type, InternalId(e, type))

-----------------------------------------------------------------------------
(* Transit assets.                                                         *)
Readable(e, type, by) == {n \in Named(e, type, by) : n.form # "bad"}

Asset(e, type, by) ==
  Found(e.org, type, by, {n.value : n \in Readable(e, type, by)})

Ids(records) == {r.id : r \in records}

VesselConflict(e) ==
  /\ Asset(e, "VESSEL", "imo") # {}
  /\ Asset(e, "VESSEL", "mmsi") # {}
  /\ Ids(Asset(e, "VESSEL", "imo")) # Ids(Asset(e, "VESSEL", "mmsi"))

\* The IMO number is preferred: the MMSI counts when the IMO finds nothing.
VesselReferences(e) ==
  LET byImo == Asset(e, "VESSEL", "imo")
      byMmsi == Asset(e, "VESSEL", "mmsi")
      unknown(by) == Unlinked("VESSEL", by, Readable(e, "VESSEL", by), "STRONG")
  IN IF VesselConflict(e)
     THEN {[Reference("VESSEL", "imo", None, "UNRESOLVED") EXCEPT !.conflict = TRUE]}
     ELSE IF byImo # {} THEN Linked("VESSEL", "imo", byImo, "EXACT")
     ELSE unknown("imo") \cup
          (IF byMmsi # {} THEN Linked("VESSEL", "mmsi", byMmsi, "VERIFIED")
           ELSE unknown("mmsi"))

Callsigns(e) == {n.value : n \in Readable(e, "AIRCRAFT", "callsign")}

AircraftConflict(e) ==
  \E r \in Asset(e, "AIRCRAFT", "icao24"), c \in Callsigns(e) :
     r.callsign # None /\ r.callsign # c

AircraftReferences(e) ==
  LET found == Asset(e, "AIRCRAFT", "icao24")
  IN IF AircraftConflict(e)
     THEN {[l EXCEPT !.conflict = TRUE] :
             l \in Linked("AIRCRAFT", "icao24", found, "UNRESOLVED")}
     ELSE IF found # {} THEN Linked("AIRCRAFT", "icao24", found, "EXACT")
     ELSE Unlinked("AIRCRAFT", "icao24", Readable(e, "AIRCRAFT", "icao24"), "STRONG")
          \cup Unlinked("AIRCRAFT", "callsign", Callsigns(e), "WEAK")

VehicleReferences(e) ==
  Unlinked("VEHICLE", "id", Values(e, "VEHICLE", "id"), "STRONG")

References(e) ==
  UNION {ChainReferences(e, type) : type \in Chain}
  \cup VesselReferences(e) \cup AircraftReferences(e) \cup VehicleReferences(e)

\* The id kept in a slot: what the handler put there, verified or not, and
\* only failing that the entity found.
Slot(e, type) ==
  FirstGiven(<<Filled(e, type), Ids(ChainReferences(e, type)) \ {None}>>)

Contradictory(e) == \E r \in References(e) : r.conflict

-----------------------------------------------------------------------------
(* The quality checks.                                                     *)

\* Inner spaces, which the resolver removes, are an error to the validator;
\* it looks at the identifiers that led to a reference.
Malformed(e) ==
  \E r \in References(e) :
     /\ <<r.type, r.by>> \in {<<"VESSEL", "imo">>, <<"VESSEL", "mmsi">>}
     /\ \E n \in Named(e, r.type, r.by) : n.form = "spaced"

\* A time ahead of the reception is an error unless a state is reported or
\* the event is a forecast.
TooEarly(e) ==
  e.early /\ Handler(e.type).kind # "STATUS_UPDATE" /\ ~e.forecast

Invalid(e) ==
  \/ e.quality = "INVALID"
  \/ HandlerRaises(e)
  \/ e.absurd /\ DelayRead(e)
  \/ TooEarly(e)
  \/ Malformed(e)

Unrelated(e) == \A type \in Chain : Slot(e, type) = {}

Verdict(e) ==
  IF Invalid(e) THEN "INVALID"
  ELSE IF e.quality = "PARTIAL" \/ e.half \/ Contradictory(e) \/ Unrelated(e)
  THEN "PARTIAL" ELSE "VALID"

-----------------------------------------------------------------------------
(* Correlation: the key of the physical event, and the name under which a  *)
(* source reports it.                                                      *)
KeyEntity(e) ==
  LET chain == <<"SHIPMENT", "SUPPLIER", "PORT", "ROUTE">>
  IN FirstGiven([i \in 1..4 |-> Slot(e, chain[i])] \o
                <<Values(e, "VESSEL", "mmsi"), Values(e, "AIRCRAFT", "icao24"),
                  Values(e, "VEHICLE", "id"), {"unlinked"}>>)

\* The signal made of an event: [event, quality, handler, entity].
Signal(e) ==
  [event |-> e, quality |-> Verdict(e), handler |-> Handler(e.type),
   entity |-> KeyEntity(e)]

Key(s) ==
  <<s.event.org, s.handler, s.event.type, s.entity, s.event.place, s.event.hour,
    s.event.incident>>

DedupId(e) == <<e.org, e.provider, IF e.ref # None THEN e.ref ELSE e.id>>

Evidence(e) == [source |-> e.provider, id |-> e.id, ref |-> e.ref]

Disagree(e, f) == Status(e) # Status(f) \/ e.severity # f.severity

Independent(e, f) ==
  /\ e.provider # f.provider
  /\ e.nature \in {"REAL", "ESTIMATED"}
  /\ f.nature \in {"REAL", "ESTIMATED"}
=============================================================================

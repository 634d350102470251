------------------------------ MODULE SignalRules ------------------------------
(***************************************************************************)
(* What normalisation makes of one canonical event: the domain handler     *)
(* that takes it, the entities it is linked to, the verdict of the quality *)
(* checks and the key under which signals of several sources meet.         *)
(*                                                                         *)
(* An event is a record                                                    *)
(*   id, ref     canonical id and the provider's own id (or None)          *)
(*   org, provider, nature                                                 *)
(*   type, said  the event type and the status classes its words match     *)
(*   severity, hour, place, incident                                       *)
(*   early       it happens over five minutes after it was received        *)
(*   forecast, half (one coordinate only), quality (given upstream)        *)
(*   negative    a negative measurement                                    *)
(*   absurd      a delay beyond 1e14                                       *)
(*   names       set of [type, by, value, form]: the identifiers it gives, *)
(*               "id" in its correlation (of the entities that it has a    *)
(*               field for), "attribute" for an internal id                *)
(*               in its attributes, "alias" for a tracking number, a code  *)
(*               or a UN/LOCODE; vessels by "imo" and "mmsi", aircraft by  *)
(*               "icao24" and "callsign"; at most one of a type and a by.  *)
(* A "spaced" identifier has inner spaces; a "bad" one has the wrong       *)
(* length.  Optional values are sets of at most one.                       *)
(***************************************************************************)
EXTENDS Integers, Sequences, FiniteSets

CONSTANT
  Registry  \* master data: records [type, org, by, value, id, callsign]

None == "none"
Shared == "shared"

Facilities == {"SUPPLIER_SITE", "FACTORY", "ROUTE"}
Chain == {"SHIPMENT", "SUPPLIER", "WAREHOUSE", "PORT", "CARRIER"} \cup Facilities

Weight == [REAL |-> 3, ESTIMATED |-> 2, SIMULATED |-> 1]

-----------------------------------------------------------------------------
(* The handlers: each takes some event types and says what kind of signal  *)
(* they are.                                                               *)
Kinds(type, delays, disruptions, congestions, otherwise) ==
  IF type \in delays THEN "DELAY"
  ELSE IF type \in disruptions THEN "DISRUPTION"
  ELSE IF type \in congestions THEN "CONGESTION" ELSE otherwise

Weather == {"WEATHER_ALERT", "STORM", "FLOOD", "CYCLONE", "EXTREME_WEATHER"}
WeatherKind(type) == Kinds(type, {}, {"STORM", "FLOOD"}, {}, "HAZARD")

Road == {"ROAD_INCIDENT", "ROAD_CLOSURE", "TRAFFIC_CONGESTION"}
RoadKind(type) ==
  Kinds(type, {}, {"ROAD_CLOSURE"}, {"TRAFFIC_CONGESTION"}, "INCIDENT")

Ocean == {"VESSEL_LOCATION", "VESSEL_DELAY", "MARITIME_INCIDENT",
          "PORT_CONGESTION", "PORT_CLOSURE", "PORT_DELAY"}
OceanKind(type) ==
  Kinds(type, {"VESSEL_DELAY", "PORT_DELAY"}, {"MARITIME_INCIDENT", "PORT_CLOSURE"},
        {"PORT_CONGESTION"}, "STATUS_UPDATE")

Air == {"FLIGHT_DELAY", "FLIGHT_CANCELLATION", "AIRPORT_DISRUPTION"}
AirKind(type) ==
  Kinds(type, {"FLIGHT_DELAY"}, {"FLIGHT_CANCELLATION"}, {}, "STATUS_UPDATE")

Rail == {"TRAIN_DELAY", "RAIL_DISRUPTION"}
RailKind(type) == Kinds(type, {"TRAIN_DELAY"}, {"RAIL_DISRUPTION"}, {}, "DELAY")

Logistics == {"PARCEL_STATUS", "DELIVERY_DELAY", "SHIPMENT_STATUS",
              "SHIPMENT_DELAY", "ETA_CHANGE", "LOCATION_UPDATE"}
LogisticsKind(type) ==
  Kinds(type, {"DELIVERY_DELAY", "SHIPMENT_DELAY"}, {}, {}, "STATUS_UPDATE")

Intelligence == {"NEWS_EVENT", "GEOPOLITICAL_EVENT"}
Geological == {"EARTHQUAKE", "TSUNAMI", "NATURAL_DISASTER"}

Handler(type) ==
  CASE type \in Weather -> [domain |-> "WEATHER", kind |-> WeatherKind(type)]
    [] type \in Road -> [domain |-> "ROAD", kind |-> RoadKind(type)]
    [] type \in Ocean -> [domain |-> "OCEAN", kind |-> OceanKind(type)]
    [] type \in Air -> [domain |-> "AIR", kind |-> AirKind(type)]
    [] type \in Rail -> [domain |-> "RAIL", kind |-> RailKind(type)]
    [] type \in Logistics -> [domain |-> "LOGISTICS", kind |-> LogisticsKind(type)]
    [] type \in Intelligence -> [domain |-> "INTELLIGENCE", kind |-> "INCIDENT"]
    [] type \in Geological -> [domain |-> "GEOLOGICAL", kind |-> "HAZARD"]
    [] OTHER -> [domain |-> "GENERAL", kind |-> "CUSTOM"]

Domain(e) == Handler(e.type).domain

\* The measurement record refuses a negative speed or distance; the other
\* handlers read neither.
HandlerRaises(e) == e.negative /\ Domain(e) \in {"WEATHER", "ROAD", "OCEAN", "AIR"}

\* The delay is not read by the weather, news and geological handlers.
DelayRead(e) == Domain(e) \notin {"WEATHER", "INTELLIGENCE", "GEOLOGICAL"}

StatusOrder == <<"DELAYED", "CANCELLED", "DISRUPTED", "RESOLVED", "ACTIVE">>

\* No words at all mean ACTIVE; words of no class mean UNKNOWN.
Status(e) ==
  LET matched == {i \in 1..5 : StatusOrder[i] \in e.said}
  IN IF e.said = {} THEN "ACTIVE"
     ELSE IF matched = {} THEN "UNKNOWN"
     ELSE StatusOrder[CHOOSE i \in matched : \A j \in matched : i <= j]
=============================================================================

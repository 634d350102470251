-------------------------------- MODULE LiveMap --------------------------------
(***************************************************************************)
(* The live map: providers that stream or poll positions, the aggregator's *)
(* cache, the frames it sends to connected clients, the loop that prunes   *)
(* what has not been heard of for 15 minutes, and the worker that writes   *)
(* the cache to the signals table.  All of it runs on one event loop: an   *)
(* action is what runs between two awaits that really suspend, and no lock *)
(* is ever contended, because no holder suspends.                          *)
(***************************************************************************)
EXTENDS Naturals, FiniteSets, FiniteSetsExt

CONSTANTS
  Vessels,        \* streamed by AISStreamProvider
  Aircraft,       \* polled by AircraftTrackingProvider
  Refused,        \* objects whose signal the database refuses
  Clients,        \* WebSocket clients
  Cap, Keep,      \* 3,500 and 3,000: when the cache is cut, and to what
  FeedCap,        \* 3,000: the vessels AISStreamProvider keeps
  MaxTime         \* bound: reports

Objects == Vessels \cup Aircraft
Tasks == {"stream", "poll", "cleaner"}

ASSUME ConstantsAssumption ==
  /\ Vessels \cap Aircraft = {} /\ Refused \subseteq Objects
  /\ Cap \in Nat /\ Keep \in 0..Cap /\ FeedCap \in Nat /\ MaxTime \in Nat
  /\ IsFiniteSet(Objects) /\ IsFiniteSet(Clients)

VARIABLES
  now,          \* the time of the last report; 0 stands for "never"
  horizon,      \* reports up to this time are more than 15 minutes old
  latest,       \* when each object was last reported
  feed,         \* the provider's own dictionary: last_seen by object, or 0
  probing,      \* the aircraft provider is DISCONNECTED: health checks call it
  cache,        \* _objects_cache: last_seen by object, or 0
  broadcast,    \* by task: the frame it is sending, and to whom it is yet to
  active,       \* _active_clients
  conn,         \* by client: its connection
  snapshot,     \* by client: the initial snapshot it is owed
  view,         \* by client: what the frames sent to it so far draw
  inHand,       \* the worker's frame of the cache, or NoFrame
  signals       \* signals table: last_seen of each object's row, or 0

clock == <<now, horizon>>
wire == <<broadcast, active, conn, snapshot, view>>
vars == <<clock, latest, feed, probing, cache, wire, inHand, signals>>

Times == 0..MaxTime
Picture == [Objects -> Times]
Blank == [o \in Objects |-> 0]
Idle == [kind |-> "idle", at |-> Blank, left |-> {}]
NoFrame == [o \in Objects |-> MaxTime + 1]

Frames == [kind : {"position_update", "remove"}, at : Picture, left : SUBSET Clients]

TypeOK ==
  /\ now \in Times /\ horizon \in 0..now
  /\ latest \in Picture /\ feed \in Picture /\ cache \in Picture
  /\ probing \in BOOLEAN
  /\ broadcast \in [Tasks -> Frames \cup {Idle}]
  /\ active \subseteq Clients
  /\ conn \in [Clients -> {"off", "snapshot", "on", "gone"}]
  /\ snapshot \in [Clients -> Picture] /\ view \in [Clients -> Picture]
  /\ inHand \in Picture \cup {NoFrame}
  /\ signals \in Picture

Seen(picture) == {o \in Objects : picture[o] # 0}

-----------------------------------------------------------------------------
(* LiveMapAggregator *)

(* The items of g over those of f.                                         *)
Over(g, f) == [o \in Objects |-> IF g[o] # 0 THEN g[o] ELSE f[o]]

Only(f, kept) == [o \in Objects |-> IF o \in kept THEN f[o] ELSE 0]

(* Beyond cap objects, the keep most recently seen; of equals, any.        *)
Cuts(f, cap, keep) ==
  IF Cardinality(Seen(f)) <= cap THEN {f}
  ELSE {Only(f, kept) : kept \in
          {k \in kSubset(keep, Seen(f)) : \A o \in k, p \in Seen(f) \ k : f[o] >= f[p]}}

(* broadcast copies the clients and sends to one after the other.          *)
Broadcast(t, kind, at) ==
  broadcast' = IF active = {} THEN broadcast
               ELSE [broadcast EXCEPT ![t] = [kind |-> kind, at |-> at, left |-> active]]

Draw(picture, frame) ==
  IF frame.kind = "remove"
  THEN [o \in Objects |-> IF frame.at[o] # 0 THEN 0 ELSE picture[o]]
  ELSE Over(frame.at, picture)

Send(t, c) ==
  /\ c \in broadcast[t].left
  /\ LET left == broadcast[t].left \ {c} IN
     broadcast' = [broadcast EXCEPT ![t] = IF left = {} THEN Idle ELSE [@ EXCEPT !.left = left]]
  /\ \/ /\ conn[c] \in {"snapshot", "on"}
        /\ view' = [view EXCEPT ![c] = Draw(@, broadcast[t])]
        /\ UNCHANGED active
     \/ /\ conn[c] \in {"gone", "off"}
        /\ active' = active \ {c}
        /\ UNCHANGED view
  /\ UNCHANGED <<clock, latest, feed, probing, cache, conn, snapshot, inHand, signals>>

HandleProviderUpdateMutant(t, objs) ==   \* keeps what the cache has
  LET fresh == [o \in Objects |-> IF o \in objs THEN now + 1 ELSE 0] IN
  /\ cache' \in Cuts(Over(cache, fresh), Cap, Keep)
  /\ Broadcast(t, "position_update", fresh)
HandleProviderUpdate(t, objs) ==
  LET fresh == [o \in Objects |-> IF o \in objs THEN now + 1 ELSE 0] IN
  /\ cache' \in Cuts(Over(fresh, cache), Cap, Keep)
  /\ Broadcast(t, "position_update", fresh)

(* A vessel's frame arrives on the stream.                                 *)
VesselReports(o) ==
  /\ broadcast["stream"] = Idle
  /\ now < MaxTime
  /\ now' = now + 1
  /\ \E vessels \in Cuts([Only(feed, Vessels) EXCEPT ![o] = now + 1], FeedCap, FeedCap) :
       feed' = Over(vessels, Only(feed, Aircraft))
  /\ latest' = [latest EXCEPT ![o] = now + 1]
  /\ HandleProviderUpdate("stream", {o})
  /\ UNCHANGED <<horizon, probing, active, conn, snapshot, view, inHand, signals>>

(* A poll replaces the provider's dictionary; it may also fail.            *)
AircraftPolled(objs) ==
  /\ broadcast["poll"] = Idle
  /\ now < MaxTime
  /\ now' = now + 1
  /\ feed' = [o \in Objects |-> IF o \in Aircraft THEN IF o \in objs THEN now + 1 ELSE 0
                                ELSE feed[o]]
  /\ latest' = [o \in Objects |-> IF o \in objs THEN now + 1 ELSE latest[o]]
  /\ probing' = FALSE
  /\ IF objs = {} THEN UNCHANGED <<cache, broadcast>> ELSE HandleProviderUpdate("poll", objs)
  /\ UNCHANGED <<horizon, active, conn, snapshot, view, inHand, signals>>

PollFails ==
  /\ broadcast["poll"] = Idle
  /\ probing' = FALSE
  /\ UNCHANGED <<clock, latest, feed, cache, wire, inHand, signals>>

(* get_objects: what the providers hold now overwrites the cache.          *)
Refreshed == Over(feed, cache)

GetObjects ==
  /\ cache' = Refreshed
  /\ UNCHANGED <<clock, latest, feed, probing, wire, inHand, signals>>

(* _stale_evaluation_loop                                                  *)
PruneMutant ==   \* tells nobody
  /\ LET stale == {o \in Seen(cache) : cache[o] <= horizon} IN
     stale # {} /\ cache' = Only(cache, Objects \ stale)
  /\ UNCHANGED <<clock, latest, feed, probing, wire, inHand, signals>>
Prune ==
  /\ broadcast["cleaner"] = Idle
  /\ LET stale == {o \in Seen(cache) : cache[o] <= horizon} IN
     /\ stale # {}
     /\ cache' = Only(cache, Objects \ stale)
     /\ Broadcast("cleaner", "remove", Only(cache, stale))
  /\ UNCHANGED <<clock, latest, feed, probing, active, conn, snapshot, view, inHand, signals>>

-----------------------------------------------------------------------------
(* websocket_map_live *)

(* The health checks that follow get_objects suspend while the aircraft    *)
(* provider is being probed; otherwise the snapshot goes out at once.      *)
Connect(c) ==
  /\ conn[c] = "off" /\ c \notin active
  /\ \A t \in Tasks : broadcast[t] = Idle \/ c \notin broadcast[t].left
  /\ active' = active \cup {c}
  /\ cache' = Refreshed
  /\ IF probing
     THEN /\ conn' = [conn EXCEPT ![c] = "snapshot"]
          /\ snapshot' = [snapshot EXCEPT ![c] = Refreshed]
          /\ UNCHANGED view
     ELSE /\ conn' = [conn EXCEPT ![c] = "on"]
          /\ view' = [view EXCEPT ![c] = Refreshed]
          /\ UNCHANGED snapshot
  /\ UNCHANGED <<clock, latest, feed, probing, broadcast, inHand, signals>>

SendSnapshot(c) ==
  /\ conn[c] = "snapshot"
  /\ conn' = [conn EXCEPT ![c] = "on"]
  /\ view' = [view EXCEPT ![c] = snapshot[c]]
  /\ snapshot' = [snapshot EXCEPT ![c] = Blank]
  /\ UNCHANGED <<clock, latest, feed, probing, cache, broadcast, active, inHand, signals>>

(* The connection breaks; the handler notices when it next waits for it.   *)
Drop(c) ==
  /\ conn[c] \in {"snapshot", "on"}
  /\ conn' = [conn EXCEPT ![c] = "gone"]
  /\ snapshot' = [snapshot EXCEPT ![c] = Blank]
  /\ view' = [view EXCEPT ![c] = Blank]
  /\ UNCHANGED <<clock, latest, feed, probing, cache, broadcast, active, inHand, signals>>

Unregister(c) ==
  /\ conn[c] = "gone"
  /\ conn' = [conn EXCEPT ![c] = "off"]
  /\ active' = active \ {c}
  /\ UNCHANGED <<clock, latest, feed, probing, cache, broadcast, snapshot, view, inHand, signals>>

-----------------------------------------------------------------------------
(* TelemetryIngestionWorker *)

(* The rows of one cycle, in one transaction that blocks the event loop: a *)
(* row refused leaves the session unusable, and nothing is committed.      *)
Persisted(frame) ==
  IF \E o \in Refused : frame[o] # 0 /\ signals[o] = 0 THEN signals ELSE Over(frame, signals)

IngestCycle ==
  /\ inHand = NoFrame
  /\ cache' = Refreshed
  /\ IF probing
     THEN inHand' = Refreshed /\ UNCHANGED signals
     ELSE signals' \in {Persisted(Refreshed), signals} /\ UNCHANGED inHand
  /\ UNCHANGED <<clock, latest, feed, probing, wire>>

PersistCycleMutant ==   \* with no frame in hand, too, and row by row
  /\ signals' = Over(inHand, signals)
  /\ inHand' = NoFrame
  /\ UNCHANGED <<clock, latest, feed, probing, cache, wire>>
PersistCycle ==
  /\ inHand # NoFrame
  /\ signals' \in {Persisted(inHand), signals}
  /\ inHand' = NoFrame
  /\ UNCHANGED <<clock, latest, feed, probing, cache, wire>>

-----------------------------------------------------------------------------
(* Time passes; no frame takes 15 minutes to send.                         *)
Age ==
  /\ \E h \in horizon + 1 .. now :
       /\ \A t \in Tasks : broadcast[t] # Idle /\ broadcast[t].kind = "position_update" =>
            \A o \in Seen(broadcast[t].at) : broadcast[t].at[o] > h
       /\ horizon' = h
  /\ UNCHANGED <<now, latest, feed, probing, cache, wire, inHand, signals>>

Init ==
  /\ now = 0 /\ horizon = 0
  /\ latest = Blank /\ feed = Blank /\ cache = Blank
  /\ probing \in BOOLEAN
  /\ broadcast = [t \in Tasks |-> Idle]
  /\ active = {}
  /\ conn = [c \in Clients |-> "off"]
  /\ snapshot = [c \in Clients |-> Blank] /\ view = [c \in Clients |-> Blank]
  /\ inHand = NoFrame
  /\ signals = Blank

Deliver == \E t \in Tasks, c \in Clients : Send(t, c)

Next ==
  \/ \E o \in Vessels : VesselReports(o)
  \/ \E objs \in SUBSET Aircraft : AircraftPolled(objs)
  \/ PollFails \/ GetObjects \/ Prune \/ Age
  \/ Deliver
  \/ \E c \in Clients : Connect(c) \/ SendSnapshot(c) \/ Drop(c) \/ Unregister(c)
  \/ IngestCycle \/ PersistCycle

Spec == Init /\ [][Next]_vars

(* Sends return, the handlers go on, and the two loops keep waking up.     *)
FairSpec ==
  /\ Spec
  /\ \A t \in Tasks, c \in Clients : WF_vars(Send(t, c))
  /\ \A c \in Clients : WF_vars(SendSnapshot(c)) /\ WF_vars(Unregister(c))
  /\ WF_vars(Prune) /\ WF_vars(IngestCycle) /\ WF_vars(PersistCycle)

-----------------------------------------------------------------------------
(* Properties *)

(* Although queries, polls and the stream write one cache, it never shows  *)
(* an object where it was before its last report.                          *)
CacheCurrent == \A o \in Seen(cache) : cache[o] = latest[o]

(* The worker may write a frame that it took before the latest reports: it  *)
(* never puts a row of the signals table back to an earlier sighting.       *)
RowsAdvance == [][\A o \in Objects : signals'[o] >= signals[o]]_vars

(* A vessel not heard of for 15 minutes leaves every client's map, although *)
(* queries bring it back into the cache and snapshots and updates cross    *)
(* its removal on the way, unless the caps have evicted it from the feed   *)
(* and from the cache before the cleaner could name it, or evict it from   *)
(* the cache again and again.                                              *)
Stale(o) == latest[o] <= horizon
Forgotten(o) == feed[o] = 0 /\ cache[o] = 0
Shows(c, o) == conn[c] = "on" /\ view[c][o] # 0
Evict(o) == now' # now /\ cache[o] # 0 /\ cache'[o] = 0
AgedOut ==
  \A c \in Clients, o \in Vessels :
    \/ []<><<Evict(o)>>_vars
    \/ Stale(o) ~> (~Stale(o) \/ Forgotten(o) \/ ~Shows(c, o))
=============================================================================

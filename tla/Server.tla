------------------------------- MODULE Server -------------------------------
(***************************************************************************)
(* The game server's process around its zones: the world configuration and *)
(* its validation (game_data), the start of the zone threads               *)
(* (spawn_zone_threads), the loop of each thread as the rest of the server *)
(* sees it, the event channel all zones share, the coordinator that turns  *)
(* telemetry into the admin snapshot, the watch channel that publishes it, *)
(* and a dashboard page fed through it (admin::handle_ws).                 *)
(*                                                                         *)
(* Who lives depends on who holds a sender: a zone's thread ends when the  *)
(* senders of its inbox are gone, the coordinator when those of the event  *)
(* channel are, and both also when the process exits.                      *)
(***************************************************************************)
EXTENDS Integers, Sequences, FiniteSets, FiniteSetsExt

CONSTANTS
    Configs,        \* world configurations the server may be started with
    Capacity,       \* slots of the event channel (1024)
    EntityInterval, \* ticks between two entity snapshots (4)
    MaxTicks,       \* bounds the ticks of a zone
    MaxPlayers      \* bounds the players of a zone

ASSUME BoundsAssumption ==
    /\ Capacity \in Nat \ {0} /\ EntityInterval \in Nat \ {0}
    /\ MaxTicks \in Nat /\ MaxPlayers \in Nat
\* The zones of a configuration are a list.
ASSUME ConfigsAssumption ==
    \A c \in Configs : Len(c.zones) \in Nat /\ DOMAIN c.zones = 1 .. Len(c.zones)
------------------------------------------------------------------------------
(* The world configuration.                                                *)

Distinct(s) == \A i, j \in DOMAIN s : s[i].id = s[j].id => i = j

ValidCreatures(c) ==
    /\ Distinct(c.creatures)
    /\ \A i \in DOMAIN c.creatures :
        /\ c.creatures[i].max_health # 0
        /\ c.creatures[i].level # 0
        /\ c.creatures[i].move_speed >= 0

CreatureIds(c) == {c.creatures[i].id : i \in DOMAIN c.creatures}

(* validate_world_config returns Ok. *)
\* Mutant: duplicate zone ids are accepted.
ValidWithTwins(c) ==
    /\ ValidCreatures(c)
    /\ \A i \in DOMAIN c.zones :
        /\ c.zones[i].named /\ c.zones[i].aoi_radius > 0
        /\ c.zones[i].spawns \subseteq CreatureIds(c)
ValidWorldConfig(c) ==
    /\ ValidCreatures(c)
    /\ Distinct(c.zones)
    /\ \A i \in DOMAIN c.zones :
        /\ c.zones[i].named
        /\ c.zones[i].aoi_radius > 0
        /\ c.zones[i].spawns \subseteq CreatureIds(c)

(* What a started zone relies on, whatever validate_world_config does:     *)
(* spawn_initial_creatures leaves out a spawn of an unknown creature, and  *)
(* the map of inboxes has one place per zone id.                           *)
Spawned(c, k) == c.zones[k].spawns \cap CreatureIds(c)

DefaultWorldConfig ==
    LET creature(i, l, h, v) == [id |-> i, level |-> l, max_health |-> h, move_speed |-> v]
        zone(i, aoi, spawns) == [id |-> i, named |-> TRUE, aoi_radius |-> aoi, spawns |-> spawns]
    IN [creatures |-> <<creature(1, 3, 120, 5), creature(2, 5, 200, 4), creature(3, 25, 2000, 0)>>,
        zones |-> <<zone(1, 150, {1, 2, 3}), zone(2, 100, {}), zone(3, 175, {}), zone(4, 200, {})>>]

(* "The returned config always passes validate_world_config." *)
ASSUME DefaultIsValid == ValidWorldConfig(DefaultWorldConfig)
------------------------------------------------------------------------------
VARIABLES
    config,
    stage,      \* of main: "validate", "spawn", "running", "exiting", "ended"
    thread,     \* per zone of config: "none", "running", "ended", "panicked"
    tick,       \* ticks a zone has done
    players,    \* players in a zone at its last tick
    spawned,    \* creature ids of a zone's spawns
    inboxOf,    \* zone_inboxes: which zone's inbox has the sender for an id
    mainSends,  \* spawn_zone_threads still holds zone_event_tx
    events,     \* the event channel
    dropped,    \* zones whose last telemetry found the channel full
    coordinator,\* "none", "running", "ended", or "dropped" with the runtime
    telemetry,  \* zone_telemetry, by zone id: the last update taken
    entities,   \* zone_entity_snapshots, by zone id
    published,  \* the value in the watch channel
    page,       \* a dashboard page: "closed", "behind" or "current"
    shown       \* what it shows

startup == <<config, stage, spawned, inboxOf, mainSends>>
zones == <<thread, tick, players>>
feed == <<coordinator, telemetry, entities, published>>
dashboard == <<page, shown>>
vars == <<startup, zones, events, dropped, feed, dashboard>>

Zones == DOMAIN config.zones
IdOf(k) == config.zones[k].id
ZoneIds == {IdOf(k) : k \in Zones}

Nothing == [tick |-> 0, players |-> 0]
Empty == [i \in {} |-> Nothing]
Report(kind, k, t, p) == [kind |-> kind, zone |-> IdOf(k), tick |-> t, players |-> p]

(* AdminSnapshot, without durations and rates *)
Snapshot(zs, es) ==
    [connected |-> MapThenSumSet(LAMBDA i : zs[i].players, DOMAIN zs),
     zones |-> zs, entities |-> es]

Init ==
    /\ config \in Configs
    /\ stage = "validate"
    /\ thread = [k \in Zones |-> "none"]
    /\ tick = [k \in Zones |-> 0]
    /\ players = [k \in Zones |-> 0]
    /\ spawned = [k \in Zones |-> {}]
    /\ inboxOf = [i \in {} |-> 0]
    /\ mainSends = TRUE
    /\ events = <<>> /\ dropped = {}
    /\ coordinator = "none"
    /\ telemetry = Empty /\ entities = Empty
    /\ published = Snapshot(Empty, Empty)   \* AdminSnapshot::default()
    /\ page = "closed" /\ shown = published
------------------------------------------------------------------------------
(* main and spawn_zone_threads.                                            *)

Validate ==
    /\ stage = "validate"
    /\ stage' = IF ValidWorldConfig(config) THEN "spawn" ELSE "ended"
    /\ UNCHANGED <<config, spawned, inboxOf, mainSends, zones, events, dropped, feed, dashboard>>

Started == {k \in Zones : thread[k] # "none"}

(* One round of the loop: the sender that is replaced is dropped. *)
SpawnZone ==
    /\ stage = "spawn" /\ Started # Zones
    /\ LET k == Cardinality(Started) + 1 IN
        /\ thread' = [thread EXCEPT ![k] = "running"]
        /\ spawned' = [spawned EXCEPT ![k] = Spawned(config, k)]
        /\ inboxOf' = [i \in DOMAIN inboxOf \cup {IdOf(k)} |->
                        IF i = IdOf(k) THEN k ELSE inboxOf[i]]
    /\ UNCHANGED <<config, stage, mainSends, tick, players, events, dropped, feed, dashboard>>

(* drop(zone_event_tx), then the tasks that hold the inboxes are spawned.  *)
\* Mutant: the sender is kept.
SenderKept == TRUE
SenderAfterSpawn == FALSE

Run ==
    /\ stage = "spawn" /\ Started = Zones
    /\ stage' = "running"
    /\ mainSends' = SenderAfterSpawn
    /\ coordinator' = "running"
    /\ UNCHANGED <<config, spawned, inboxOf, zones, events, dropped,
                   telemetry, entities, published, dashboard>>

(* main returns, on Ctrl+C or because the system refuses a thread or a    *)
(* port.  The runtime drops its tasks, and with them the inboxes; the zone *)
(* threads are not joined.                                                 *)
MainReturns ==
    /\ stage \in {"spawn", "running"}
    /\ stage' = "exiting"
    /\ inboxOf' = [i \in {} |-> 0]
    /\ coordinator' = IF coordinator = "running" THEN "dropped" ELSE coordinator
    /\ page' = "closed"
    /\ UNCHANGED <<config, spawned, mainSends, zones, events, dropped,
                   telemetry, entities, published, shown>>

ProcessEnds ==
    /\ stage = "exiting"
    /\ stage' = "ended"
    /\ UNCHANGED <<config, spawned, inboxOf, mainSends, zones, events, dropped, feed, dashboard>>
------------------------------------------------------------------------------
(* The zone threads.                                                       *)

Alive == stage \in {"spawn", "running", "exiting"}

(* The listener and the router never end by themselves: a sender in the    *)
(* map is held as long as the runtime lives.                               *)
Connected(k) == IdOf(k) \in DOMAIN inboxOf /\ inboxOf[IdOf(k)] = k

(* try_recv says Disconnected. *)
ZoneEnds(k) ==
    /\ Alive /\ thread[k] = "running" /\ ~Connected(k)
    /\ thread' = [thread EXCEPT ![k] = "ended"]
    /\ UNCHANGED <<startup, tick, players, events, dropped, feed, dashboard>>

(* try_send of one event *)
Offer(es, e) == IF Len(es) < Capacity THEN Append(es, e) ELSE es

(* A tick: players come and go, every EntityInterval-th tick offers the    *)
(* entities, every tick the telemetry.                                     *)
Tick(k) ==
    /\ Alive /\ thread[k] = "running" /\ Connected(k)
    /\ tick[k] < MaxTicks
    /\ tick' = [tick EXCEPT ![k] = @ + 1]
    /\ \E p \in 0 .. MaxPlayers :
        LET t == tick[k] + 1
            first == IF t % EntityInterval = 0
                     THEN Offer(events, Report("entities", k, t, p)) ELSE events
            both == Offer(first, Report("telemetry", k, t, p))
        IN /\ players' = [players EXCEPT ![k] = p]
           /\ events' = both
           /\ dropped' = IF both = first THEN dropped \cup {k} ELSE dropped \ {k}
    /\ UNCHANGED <<startup, thread, feed, dashboard>>

ZonePanics(k) ==
    /\ Alive /\ thread[k] = "running"
    /\ thread' = [thread EXCEPT ![k] = "panicked"]
    /\ UNCHANGED <<startup, tick, players, events, dropped, feed, dashboard>>
------------------------------------------------------------------------------
(* The coordinator.                                                        *)

Put(f, i, v) == [j \in DOMAIN f \cup {i} |-> IF j = i THEN v ELSE f[j]]

Publishes(zs, es) ==
    /\ published' = Snapshot(zs, es)
    /\ page' = IF page = "closed" THEN page ELSE "behind"

TakeTelemetry ==
    /\ stage = "running" /\ coordinator = "running"
    /\ events # <<>> /\ Head(events).kind = "telemetry"
    /\ events' = Tail(events)
    /\ LET e == Head(events) IN
        telemetry' = Put(telemetry, e.zone, [tick |-> e.tick, players |-> e.players])
    /\ Publishes(telemetry', entities)
    /\ UNCHANGED <<startup, zones, dropped, coordinator, entities, shown>>

(* An entity snapshot waits for the next telemetry to be published. *)
TakeEntities ==
    /\ stage = "running" /\ coordinator = "running"
    /\ events # <<>> /\ Head(events).kind = "entities"
    /\ events' = Tail(events)
    /\ LET e == Head(events) IN
        entities' = Put(entities, e.zone, [tick |-> e.tick, players |-> e.players])
    /\ UNCHANGED <<startup, zones, dropped, coordinator, telemetry, published, dashboard>>

(* Disconnected: no zone holds a sender, and all was taken. *)
CoordinatorEnds ==
    /\ stage = "running" /\ coordinator = "running"
    /\ events = <<>> /\ ~mainSends
    /\ \A k \in Zones : thread[k] # "running"
    /\ coordinator' = "ended"
    /\ UNCHANGED <<startup, zones, events, dropped, telemetry, entities, published, dashboard>>
------------------------------------------------------------------------------
(* A dashboard page.                                                       *)

(* The current value at once, also before there is any telemetry *)
PageOpens ==
    /\ stage \in {"spawn", "running"} /\ page = "closed"
    /\ page' = "current" /\ shown' = published
    /\ UNCHANGED <<startup, zones, events, dropped, feed>>

(* changed(): the latest value, those before it are skipped. *)
PageUpdates ==
    /\ stage \in {"spawn", "running"} /\ page = "behind"
    /\ page' = "current" /\ shown' = published
    /\ UNCHANGED <<startup, zones, events, dropped, feed>>

(* The browser is gone, or the coordinator dropped its watch sender. *)
PageCloses ==
    /\ stage \in {"spawn", "running"} /\ page # "closed"
    /\ page' = "closed"
    /\ UNCHANGED <<startup, zones, events, dropped, feed, shown>>

Coordinate == TakeTelemetry \/ TakeEntities \/ CoordinatorEnds

Next ==
    \/ Validate \/ SpawnZone \/ Run \/ MainReturns \/ ProcessEnds
    \/ \E k \in Zones : Tick(k) \/ ZoneEnds(k) \/ ZonePanics(k)
    \/ TakeTelemetry \/ TakeEntities \/ CoordinatorEnds
    \/ PageOpens \/ PageUpdates \/ PageCloses

Spec == Init /\ [][Next]_vars

(* The coordinator polls, and a page's task is woken by a change. *)
FairSpec == Spec /\ WF_vars(Coordinate) /\ WF_vars(PageUpdates)
------------------------------------------------------------------------------
(* What is known of zones, by zone id *)
IsFeed(f) ==
    /\ DOMAIN f \subseteq ZoneIds
    /\ f \in [DOMAIN f -> [tick : 0 .. MaxTicks, players : 0 .. MaxPlayers]]

Reports == [kind : {"telemetry", "entities"}, zone : ZoneIds,
            tick : 0 .. MaxTicks, players : 0 .. MaxPlayers]

(* The variables hold values of their types. *)
TypeOK ==
    /\ config \in Configs
    /\ stage \in {"validate", "spawn", "running", "exiting", "ended"}
    /\ thread \in [Zones -> {"none", "running", "ended", "panicked"}]
    /\ tick \in [Zones -> 0 .. MaxTicks]
    /\ players \in [Zones -> 0 .. MaxPlayers]
    /\ spawned \in [Zones -> SUBSET CreatureIds(config)]
    /\ events \in Seq(Reports) /\ Len(events) <= Capacity
    /\ DOMAIN inboxOf \subseteq ZoneIds
    /\ IsFeed(telemetry) /\ IsFeed(entities)
    /\ IsFeed(published.zones) /\ IsFeed(published.entities)
    /\ IsFeed(shown.zones) /\ IsFeed(shown.entities)
    /\ coordinator \in {"none", "running", "ended", "dropped"}
    /\ page \in {"closed", "behind", "current"}

(* Every zone of a server that runs can be reached by its id, has all its  *)
(* spawns, and its thread ends before main returns only by a panic.  So    *)
(* does the coordinator: it never ends first, as run_zone_loop's comment   *)
(* has it, but only after the last zone.                                   *)
WorldIsWhole ==
    /\ \A k \in Zones : thread[k] = "ended" => stage \in {"exiting", "ended"}
    /\ stage = "running" =>
        \A k \in Zones : /\ inboxOf[IdOf(k)] = k
                         /\ spawned[k] = config.zones[k].spawns
    /\ coordinator = "ended" => \A k \in Zones : thread[k] # "running"

(* When the coordinator has taken all events, it has the counts of the     *)
(* last tick of every zone whose last telemetry found room, and publishes  *)
(* them; a panicked zone keeps its last counts.                            *)
FeedIsTrue ==
    stage = "running" /\ events = <<>> =>
        /\ \A k \in Zones : tick[k] > 0 /\ k \notin dropped =>
            telemetry[IdOf(k)] = [tick |-> tick[k], players |-> players[k]]
        /\ published.zones = telemetry

(* f is not older than g. *)
NotOlder(f, g) == \A i \in DOMAIN g : i \in DOMAIN f /\ f[i].tick >= g[i].tick

(* Only zones of a valid configuration are started, one after the other,   *)
(* and as long as main runs each has its inbox in the map; the coordinator *)
(* comes after them.                                                       *)
StartupShape ==
    /\ stage \in {"spawn", "running", "exiting"} => ValidWorldConfig(config)
    /\ stage \in {"validate", "spawn"} => coordinator = "none"
    /\ stage = "validate" => Started = {}
    /\ stage = "spawn" => Started = 1 .. Cardinality(Started)
    /\ stage = "running" => Started = Zones
    /\ stage \in {"spawn", "running"} => \A k \in Started :
        Connected(k) /\ spawned[k] = config.zones[k].spawns

(* What the coordinator has taken of a kind *)
Taken(kind) == IF kind = "telemetry" THEN telemetry ELSE entities

(* The reports of a zone are in the channel in the order of its ticks, and *)
(* newer than what the coordinator has taken of it.                        *)
ReportsInOrder ==
    \A i \in DOMAIN events : LET e == events[i] IN
        /\ e.zone \in DOMAIN Taken(e.kind) => Taken(e.kind)[e.zone].tick < e.tick
        /\ \A j \in 1 .. i - 1 :
            events[j].zone = e.zone /\ events[j].kind = e.kind => events[j].tick < e.tick

(* None is of a tick the zone has not done, and its last telemetry, unless *)
(* it was dropped, is in the channel or has been taken.                    *)
LastIsKnown ==
    \A k \in Zones :
        /\ \A i \in DOMAIN events : events[i].zone = IdOf(k) => events[i].tick <= tick[k]
        /\ \A kind \in {"telemetry", "entities"} :
            IdOf(k) \in DOMAIN Taken(kind) => Taken(kind)[IdOf(k)].tick <= tick[k]
        /\ tick[k] > 0 /\ k \notin dropped =>
            \/ /\ IdOf(k) \in DOMAIN telemetry
               /\ telemetry[IdOf(k)] = [tick |-> tick[k], players |-> players[k]]
            \/ \E i \in DOMAIN events :
                events[i] = Report("telemetry", k, tick[k], players[k])

(* A page shows nothing newer than what is published, and that is the      *)
(* telemetry taken last and entities that were taken before it.            *)
FeedShape ==
    /\ published.zones = telemetry
    /\ NotOlder(entities, published.entities)
    /\ page # "closed" => /\ NotOlder(published.zones, shown.zones)
                          /\ NotOlder(published.entities, shown.entities)

(* All of them at once; by induction they need each other. *)
IInv ==
    /\ TypeOK /\ StartupShape /\ WorldIsWhole
    /\ ReportsInOrder /\ LastIsKnown /\ FeedShape /\ FeedIsTrue

(* Neither the published snapshot nor an open page ever goes back to an    *)
(* earlier tick of a zone, although events are dropped, values skipped and *)
(* zones mixed in one channel.                                             *)
FeedNeverGoesBack ==
    [][/\ NotOlder(published'.zones, published.zones)
       /\ NotOlder(published'.entities, published.entities)
       /\ page # "closed" => /\ NotOlder(shown'.zones, shown.zones)
                             /\ NotOlder(shown'.entities, shown.entities)]_vars

(* The coordinator ends when the last zone has panicked, since nobody else *)
(* holds a sender of the event channel, and an open page gets to see that  *)
(* something new was published.                                            *)
FeedCatchesUp ==
    /\ (stage = "running" /\ \A k \in Zones : thread[k] = "panicked")
            ~> (stage # "running" \/ coordinator = "ended")
    /\ page = "behind" ~> page # "behind"
=============================================================================

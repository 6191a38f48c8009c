----------------------------- MODULE ServerProofs -----------------------------
(***************************************************************************)
(* The server around its zones, for every world configuration, every       *)
(* capacity of the event channel and every interval of entity snapshots:   *)
(* the zones of a running server are whole and reachable, and what the     *)
(* dashboard is fed is true and never goes back in time.                   *)
(***************************************************************************)
EXTENDS Server, FiniteSetTheorems, SequenceTheorems, TLAPS

(* The configuration never changes, and with it the names it gives. *)
LEMMA ConfigStays ==
    ASSUME [Next]_vars
    PROVE  /\ config' = config /\ Zones' = Zones /\ ZoneIds' = ZoneIds
           /\ Reports' = Reports /\ \A k : IdOf(k)' = IdOf(k)
  <1>1. config' = config
    BY DEF Next, vars, startup, Validate, SpawnZone, Run, MainReturns, ProcessEnds, Tick,
           ZoneEnds, ZonePanics, TakeTelemetry, TakeEntities, CoordinatorEnds, PageOpens,
           PageUpdates, PageCloses
  <1> QED
    BY <1>1 DEF Zones, ZoneIds, IdOf, Reports

(* Zones of a valid configuration differ in their ids. *)
LEMMA IdsDiffer ==
    ASSUME ValidWorldConfig(config), NEW j \in Zones, NEW k \in Zones, IdOf(j) = IdOf(k)
    PROVE  j = k
  BY DEF ValidWorldConfig, Distinct, Zones, IdOf

(* The parts of a published snapshot. *)
LEMMA SnapshotParts ==
    ASSUME NEW zs, NEW es
    PROVE  Snapshot(zs, es).zones = zs /\ Snapshot(zs, es).entities = es
  BY DEF Snapshot

(* try_send appends an event or leaves the channel as it is. *)
LEMMA Offered ==
    ASSUME NEW R, NEW es \in Seq(R), NEW e \in R, Len(es) <= Capacity
    PROVE  /\ Offer(es, e) \in Seq(R) /\ Len(Offer(es, e)) <= Capacity
           /\ \/ Offer(es, e) = es
              \/ Offer(es, e) = Append(es, e) /\ Offer(es, e) # es
  <1>1. Append(es, e) \in Seq(R) /\ Len(Append(es, e)) = Len(es) + 1 /\ Len(es) \in Nat
    BY AppendProperties
  <1> QED
    BY <1>1, BoundsAssumption DEF Offer

(* insert of a report keeps a map of reports. *)
LEMMA PutFeed ==
    ASSUME NEW f, IsFeed(f), NEW i \in ZoneIds,
           NEW v \in [tick : 0 .. MaxTicks, players : 0 .. MaxPlayers]
    PROVE  /\ IsFeed(Put(f, i, v)) /\ DOMAIN Put(f, i, v) = DOMAIN f \cup {i}
           /\ Put(f, i, v)[i] = v
           /\ \A j \in DOMAIN f : j # i => Put(f, i, v)[j] = f[j]
  BY DEF IsFeed, Put

(* A map is as old as itself, and age is transitive. *)
LEMMA AsOld ==
    ASSUME NEW f, NEW g, NEW h, IsFeed(f), IsFeed(g), IsFeed(h)
    PROVE  /\ NotOlder(f, f)
           /\ NotOlder(f, g) /\ NotOlder(g, h) => NotOlder(f, h)
  <1>1. /\ \A i \in DOMAIN f : f[i].tick \in Int
        /\ \A i \in DOMAIN g : g[i].tick \in Int
        /\ \A i \in DOMAIN h : h[i].tick \in Int
    BY DEF IsFeed
  <1> QED
    BY <1>1 DEF NotOlder

(* What a tick does to the channel: it offers the entities, if they are    *)
(* due, and the telemetry.                                                 *)
LEMMA TickParts ==
    ASSUME TypeOK, NEW k \in Zones, Tick(k)
    PROVE  \E p \in 0 .. MaxPlayers : \E first \in Seq(Reports) :
             /\ tick[k] + 1 \in 0 .. MaxTicks
             /\ tick' = [tick EXCEPT ![k] = @ + 1] /\ players' = [players EXCEPT ![k] = p]
             /\ \A kind \in {"telemetry", "entities"} : Report(kind, k, tick[k] + 1, p) \in Reports
             /\ first = events \/ first = Append(events, Report("entities", k, tick[k] + 1, p))
             /\ events' \in Seq(Reports) /\ Len(events') <= Capacity
             /\ \/ events' = first /\ dropped' = dropped \cup {k}
                \/ /\ events' = Append(first, Report("telemetry", k, tick[k] + 1, p))
                   /\ dropped' = dropped \ {k}
             /\ UNCHANGED <<startup, thread, feed, dashboard>>
  <1>1. PICK p \in 0 .. MaxPlayers :
          LET t == tick[k] + 1
              first == IF t % EntityInterval = 0
                       THEN Offer(events, Report("entities", k, t, p)) ELSE events
              both == Offer(first, Report("telemetry", k, t, p))
          IN /\ players' = [players EXCEPT ![k] = p]
             /\ events' = both
             /\ dropped' = IF both = first THEN dropped \cup {k} ELSE dropped \ {k}
    BY DEF Tick
  <1> DEFINE t == tick[k] + 1
             first == IF t % EntityInterval = 0
                      THEN Offer(events, Report("entities", k, t, p)) ELSE events
             both == Offer(first, Report("telemetry", k, t, p))
  <1>2. tick[k] \in 0 .. MaxTicks /\ tick[k] < MaxTicks /\ t \in 0 .. MaxTicks
    BY BoundsAssumption DEF TypeOK, Tick
  <1>3. IdOf(k) \in ZoneIds
    BY DEF ZoneIds
  <1>4. \A kind \in {"telemetry", "entities"} : Report(kind, k, t, p) \in Reports
    BY <1>2, <1>3 DEF Report, Reports
  <1>5. /\ first \in Seq(Reports) /\ Len(first) <= Capacity
        /\ first = events \/ first = Append(events, Report("entities", k, t, p))
    <2>1. events \in Seq(Reports) /\ Len(events) <= Capacity
      BY DEF TypeOK
    <2> DEFINE E == Report("entities", k, t, p)
               o == Offer(events, E)
    <2>2. E \in Reports
      BY <1>4
    <2> HIDE DEF E
    <2>3. o \in Seq(Reports) /\ Len(o) <= Capacity /\ (o = events \/ o = Append(events, E))
      BY <2>1, <2>2, Offered
    <2>4. first = o \/ first = events
      BY DEF E
    <2> HIDE DEF o, first, t
    <2> QED
      BY <2>1, <2>3, <2>4 DEF E
  <1>6. /\ both \in Seq(Reports) /\ Len(both) <= Capacity
        /\ \/ both = first
           \/ both = Append(first, Report("telemetry", k, t, p)) /\ both # first
    BY <1>4, <1>5, Offered
  <1>7. /\ events' = both /\ players' = [players EXCEPT ![k] = p]
        /\ dropped' = IF both = first THEN dropped \cup {k} ELSE dropped \ {k}
    BY <1>1
  <1>8. /\ tick' = [tick EXCEPT ![k] = @ + 1]
        /\ UNCHANGED <<startup, thread, feed, dashboard>>
    BY DEF Tick
  <1> HIDE DEF first, both
  <1>9. \/ events' = first /\ dropped' = dropped \cup {k}
        \/ /\ events' = Append(first, Report("telemetry", k, t, p))
           /\ dropped' = dropped \ {k}
    BY <1>6, <1>7
  <1> QED
    BY <1>2, <1>4, <1>5, <1>6, <1>7, <1>8, <1>9

(* What the coordinator takes. *)
LEMMA TakenParts ==
    ASSUME TypeOK, TakeTelemetry \/ TakeEntities
    PROVE  LET e == Head(events)
               v == [tick |-> e.tick, players |-> e.players]
           IN /\ events \in Seq(Reports) /\ events # <<>>
              /\ e \in Reports /\ v \in [tick : 0 .. MaxTicks, players : 0 .. MaxPlayers]
              /\ e.zone \in ZoneIds
              /\ events' = Tail(events) /\ events' \in Seq(Reports)
              /\ Len(events') = Len(events) - 1
              /\ \/ /\ TakeTelemetry /\ e.kind = "telemetry"
                    /\ telemetry' = Put(telemetry, e.zone, v) /\ entities' = entities
                    /\ published'.zones = telemetry' /\ published'.entities = entities
                 \/ /\ TakeEntities /\ e.kind = "entities"
                    /\ entities' = Put(entities, e.zone, v) /\ telemetry' = telemetry
                    /\ published' = published
              /\ UNCHANGED <<startup, zones, dropped, coordinator, shown>>
  <1> DEFINE e == Head(events)
             v == [tick |-> e.tick, players |-> e.players]
  <1>1. events \in Seq(Reports) /\ events # <<>> /\ events' = Tail(events)
    BY DEF TypeOK, TakeTelemetry, TakeEntities
  <1>2. e \in Reports /\ events' \in Seq(Reports) /\ Len(events') = Len(events) - 1
    BY <1>1, HeadTailProperties
  <1>3. v \in [tick : 0 .. MaxTicks, players : 0 .. MaxPlayers] /\ e.zone \in ZoneIds
    BY <1>2 DEF Reports
  <1>4. CASE TakeTelemetry
    <2>1. /\ e.kind = "telemetry" /\ telemetry' = Put(telemetry, e.zone, v)
          /\ entities' = entities /\ published' = Snapshot(telemetry', entities)
          /\ UNCHANGED <<startup, zones, dropped, coordinator, shown>>
      BY <1>4 DEF TakeTelemetry, Publishes
    <2> QED
      BY <1>1, <1>2, <1>3, <1>4, <2>1, SnapshotParts
  <1>5. CASE TakeEntities
    <2>1. /\ e.kind = "entities" /\ entities' = Put(entities, e.zone, v)
          /\ telemetry' = telemetry /\ published' = published
          /\ UNCHANGED <<startup, zones, dropped, coordinator, shown>>
      BY <1>5 DEF TakeEntities, dashboard
    <2> QED
      BY <1>1, <1>2, <1>3, <1>5, <2>1
  <1> QED
    BY <1>4, <1>5
------------------------------------------------------------------------------
(* Types and the start.                                                    *)

(* The zone that is started next is the first that is not. *)
LEMMA NextToStart ==
    ASSUME TypeOK, StartupShape, SpawnZone
    PROVE  LET k == Cardinality(Started) + 1 IN
           /\ k \in Zones /\ k \notin Started
           /\ Started \cup {k} = 1 .. Cardinality(Started \cup {k})
  <1> DEFINE n == Cardinality(Started)
             k == n + 1
             m == Len(config.zones)
  <1>1. Zones = 1 .. m /\ m \in Nat
    BY ConfigsAssumption DEF TypeOK, Zones
  <1>2. Started \subseteq 1 .. m /\ IsFiniteSet(1 .. m)
    BY <1>1, FS_Interval DEF Started
  <1>3. n \in Nat
    BY <1>2, FS_Subset, FS_CardinalityType
  <1>4. Started = 1 .. n /\ Started # 1 .. m
    BY <1>1 DEF StartupShape, SpawnZone
  <1> HIDE DEF n, m
  <1>5. n < m
    BY <1>1, <1>2, <1>3, <1>4
  <1>6. k \in Zones /\ k \notin Started /\ Started \cup {k} = 1 .. k
    BY <1>1, <1>3, <1>4, <1>5
  <1>7. Cardinality(1 .. k) = k
    <2>1. 1 \in Int /\ k \in Int /\ ~(1 > k) /\ k - 1 + 1 = k
      BY <1>3
    <2> HIDE DEF k
    <2> QED
      BY <2>1, FS_Interval
  <1> QED
    BY <1>6, <1>7 DEF n

(* Every step of main, the zones and the coordinator keeps the types. *)
LEMMA TypeStep ==
    ASSUME TypeOK, StartupShape, [Next]_vars
    PROVE  TypeOK'
  <1>c. /\ config' = config /\ Zones' = Zones /\ ZoneIds' = ZoneIds /\ Reports' = Reports
        /\ \A k : IdOf(k)' = IdOf(k)
    BY ConfigStays
  <1>t. /\ events \in Seq(Reports) /\ Len(events) <= Capacity
        /\ thread \in [Zones -> {"none", "running", "ended", "panicked"}]
        /\ tick \in [Zones -> 0 .. MaxTicks] /\ players \in [Zones -> 0 .. MaxPlayers]
        /\ IsFeed(telemetry) /\ IsFeed(entities)
        /\ IsFeed(published.zones) /\ IsFeed(published.entities)
        /\ IsFeed(shown.zones) /\ IsFeed(shown.entities)
        /\ Len(events) \in Nat
    BY DEF TypeOK
  <1>u. ASSUME UNCHANGED <<tick, players, events, telemetry, entities, published, shown>>,
               thread' \in [Zones -> {"none", "running", "ended", "panicked"}],
               stage' \in {"validate", "spawn", "running", "exiting", "ended"},
               DOMAIN inboxOf' \subseteq ZoneIds,
               spawned' \in [Zones -> SUBSET CreatureIds(config)],
               coordinator' \in {"none", "running", "ended", "dropped"},
               page' \in {"closed", "behind", "current"}
        PROVE  TypeOK'
    BY <1>c, <1>u DEF TypeOK, IsFeed
  <1>1. CASE UNCHANGED vars
    BY <1>1, <1>u DEF vars, startup, zones, feed, dashboard, TypeOK
  <1>2. CASE Validate \/ Run \/ MainReturns \/ ProcessEnds \/ CoordinatorEnds \/ PageCloses
    BY <1>2, <1>u DEF Validate, Run, MainReturns, ProcessEnds, CoordinatorEnds, PageCloses,
                      startup, zones, feed, dashboard, TypeOK
  <1>3. CASE SpawnZone
    <2> DEFINE k == Cardinality(Started) + 1
    <2>1. k \in Zones
      BY <1>3, NextToStart
    <2>2. /\ thread' = [thread EXCEPT ![k] = "running"]
          /\ DOMAIN inboxOf' = DOMAIN inboxOf \cup {IdOf(k)}
          /\ spawned' = [spawned EXCEPT ![k] = Spawned(config, k)]
          /\ UNCHANGED <<stage, tick, players, events, feed, dashboard>>
      BY <1>3 DEF SpawnZone
    <2> HIDE DEF k
    <2>5. spawned' \in [Zones -> SUBSET CreatureIds(config)]
      BY <2>1, <2>2 DEF Spawned, TypeOK
    <2>3. DOMAIN inboxOf' \subseteq ZoneIds
      BY <2>1, <2>2 DEF TypeOK, ZoneIds
    <2>4. thread' \in [Zones -> {"none", "running", "ended", "panicked"}]
      BY <1>t, <2>2
    <2> QED
      BY <1>u, <2>2, <2>3, <2>4, <2>5 DEF feed, dashboard, TypeOK
  <1>4. ASSUME NEW k \in Zones, ZoneEnds(k) \/ ZonePanics(k) PROVE TypeOK'
    BY <1>4, <1>t, <1>u DEF ZoneEnds, ZonePanics, startup, feed, dashboard, TypeOK
  <1>5. ASSUME NEW k \in Zones, Tick(k) PROVE TypeOK'
    <2>1. PICK p \in 0 .. MaxPlayers :
            /\ tick[k] + 1 \in 0 .. MaxTicks
            /\ tick' = [tick EXCEPT ![k] = @ + 1] /\ players' = [players EXCEPT ![k] = p]
            /\ events' \in Seq(Reports) /\ Len(events') <= Capacity
            /\ UNCHANGED <<startup, thread, feed, dashboard>>
      BY <1>5, TickParts
    <2>2. tick' \in [Zones -> 0 .. MaxTicks] /\ players' \in [Zones -> 0 .. MaxPlayers]
      BY <1>t, <2>1
    <2> QED
      BY <1>c, <2>1, <2>2 DEF TypeOK, IsFeed, startup, feed, dashboard
  <1>6. CASE TakeTelemetry \/ TakeEntities
    <2> DEFINE e == Head(events)
               v == [tick |-> e.tick, players |-> e.players]
    <2>1. /\ v \in [tick : 0 .. MaxTicks, players : 0 .. MaxPlayers] /\ e.zone \in ZoneIds
          /\ events' \in Seq(Reports) /\ Len(events') = Len(events) - 1
          /\ \/ /\ telemetry' = Put(telemetry, e.zone, v) /\ entities' = entities
                /\ published'.zones = telemetry' /\ published'.entities = entities
             \/ /\ entities' = Put(entities, e.zone, v) /\ telemetry' = telemetry
                /\ published' = published
          /\ UNCHANGED <<startup, zones, dropped, coordinator, shown>>
      BY <1>6, TakenParts
    <2>2. page' \in {"closed", "behind", "current"}
      BY <1>6 DEF TakeTelemetry, TakeEntities, Publishes, dashboard, TypeOK
    <2>3. IsFeed(Put(telemetry, e.zone, v)) /\ IsFeed(Put(entities, e.zone, v))
      BY <1>t, <2>1, PutFeed
    <2> HIDE DEF e, v
    <2>4. /\ IsFeed(telemetry') /\ IsFeed(entities')
          /\ IsFeed(published'.zones) /\ IsFeed(published'.entities)
          /\ IsFeed(shown'.zones) /\ IsFeed(shown'.entities)
      BY <1>t, <2>1, <2>3
    <2>5. Len(events') <= Capacity
      BY <1>t, <2>1, BoundsAssumption
    <2> QED
      BY <1>c, <2>1, <2>2, <2>4, <2>5 DEF TypeOK, IsFeed, startup, zones
  <1>7. CASE PageOpens \/ PageUpdates
    <2>1. /\ shown' = published /\ page' = "current"
          /\ UNCHANGED <<startup, zones, events, dropped, feed>>
      BY <1>7 DEF PageOpens, PageUpdates
    <2> QED
      BY <1>c, <2>1 DEF TypeOK, IsFeed, startup, zones, feed
  <1> QED
    BY <1>1, <1>2, <1>3, <1>4, <1>5, <1>6, <1>7 DEF Next

(* The zones of a running server are whole, and end by a panic alone. *)
LEMMA StartStep ==
    ASSUME TypeOK, StartupShape, WorldIsWhole, [Next]_vars
    PROVE  StartupShape' /\ WorldIsWhole'
  <1>c. /\ config' = config /\ Zones' = Zones
        /\ \A k : IdOf(k)' = IdOf(k)
    BY ConfigStays
  <1>v. ValidWorldConfig(config)' <=> ValidWorldConfig(config)
    BY <1>c
  <1>t. thread \in [Zones -> {"none", "running", "ended", "panicked"}]
    BY DEF TypeOK
  <1>u. ASSUME UNCHANGED <<stage, thread, spawned, inboxOf, coordinator>>
        PROVE  StartupShape' /\ WorldIsWhole'
    BY <1>c, <1>u DEF StartupShape, WorldIsWhole, Started, Connected
  <1>1. CASE UNCHANGED vars
    BY <1>1, <1>u DEF vars, startup, zones, feed
  <1>2. CASE Validate
    <2>1. /\ stage = "validate" /\ Started = {} /\ coordinator = "none"
          /\ stage' = IF ValidWorldConfig(config) THEN "spawn" ELSE "ended"
          /\ UNCHANGED <<thread, spawned, inboxOf, coordinator>>
      BY <1>2 DEF Validate, StartupShape, zones, feed
    <2>2. Started' = {} /\ Cardinality({}) = 0 /\ 1 .. 0 = {}
      BY <1>c, <2>1, FS_EmptySet DEF Started
    <2>3. \A k \in Zones : thread[k] = "none"
      BY <2>1 DEF Started
    <2> QED
      BY <1>c, <2>1, <2>2, <2>3 DEF StartupShape, WorldIsWhole
  <1>3. CASE SpawnZone
    <2> DEFINE k == Cardinality(Started) + 1
    <2>1. k \in Zones /\ k \notin Started
          /\ Started \cup {k} = 1 .. Cardinality(Started \cup {k})
      BY <1>3, NextToStart
    <2>2. /\ stage = "spawn" /\ stage' = stage /\ coordinator = "none"
          /\ coordinator' = coordinator
          /\ thread' = [thread EXCEPT ![k] = "running"]
          /\ spawned' = [spawned EXCEPT ![k] = Spawned(config, k)]
          /\ inboxOf' = [i \in DOMAIN inboxOf \cup {IdOf(k)} |->
                          IF i = IdOf(k) THEN k ELSE inboxOf[i]]
      BY <1>3 DEF SpawnZone, StartupShape, feed
    <2> HIDE DEF k
    <2>3. Started' = Started \cup {k}
      BY <1>c, <1>t, <2>1, <2>2 DEF Started
    <2>4. ValidWorldConfig(config) /\ \A j \in Started : IdOf(j) # IdOf(k)
      BY <2>1, <2>2, IdsDiffer DEF StartupShape, Started
    <2>5. \A j \in Started \cup {k} : IdOf(j) \in DOMAIN inboxOf' /\ inboxOf'[IdOf(j)] = j
      BY <2>2, <2>4 DEF StartupShape, Connected
    <2>6. \A j \in Started \cup {k} : spawned'[j] = config.zones[j].spawns
      <3>1. Spawned(config, k) = config.zones[k].spawns
        BY <2>1, <2>4 DEF ValidWorldConfig, Spawned, Zones
      <3>2. \A j \in Started : spawned[j] = config.zones[j].spawns /\ j # k
        BY <2>1, <2>2 DEF StartupShape
      <3>3. DOMAIN spawned = Zones
        BY DEF TypeOK
      <3> QED
        BY <2>1, <2>2, <3>1, <3>2, <3>3
    <2> QED
      BY <1>c, <1>t, <2>1, <2>2, <2>3, <2>4, <2>5, <2>6
         DEF StartupShape, WorldIsWhole, Connected, Started
  <1>4. CASE Run
    <2>1. /\ stage = "spawn" /\ Started = Zones /\ stage' = "running"
          /\ coordinator' = "running" /\ UNCHANGED <<thread, spawned, inboxOf>>
      BY <1>4 DEF Run, zones
    <2> QED
      BY <1>c, <1>v, <2>1 DEF StartupShape, WorldIsWhole, Connected, Started
  <1>5. CASE MainReturns
    <2>1. /\ stage \in {"spawn", "running"} /\ stage' = "exiting"
          /\ coordinator' = "dropped" \/ coordinator' = coordinator
          /\ UNCHANGED <<thread, spawned>>
      BY <1>5 DEF MainReturns, zones
    <2> QED
      BY <1>c, <1>v, <2>1 DEF StartupShape, WorldIsWhole
  <1>6. CASE ProcessEnds
    <2>1. /\ stage = "exiting" /\ stage' = "ended"
          /\ UNCHANGED <<thread, spawned, coordinator>>
      BY <1>6 DEF ProcessEnds, zones, feed
    <2> QED
      BY <1>c, <2>1 DEF StartupShape, WorldIsWhole
  <1>7. ASSUME NEW k \in Zones, ZoneEnds(k) \/ ZonePanics(k)
        PROVE  StartupShape' /\ WorldIsWhole'
    <2>1. /\ thread[k] = "running" /\ Alive
          /\ \/ thread' = [thread EXCEPT ![k] = "panicked"]
             \/ ~Connected(k) /\ thread' = [thread EXCEPT ![k] = "ended"]
          /\ UNCHANGED <<stage, spawned, inboxOf, coordinator>>
      BY <1>7 DEF ZoneEnds, ZonePanics, startup, feed
    <2>2. Started' = Started
      BY <1>c, <1>t, <2>1 DEF Started
    <2>3. StartupShape'
      BY <1>c, <1>v, <2>1, <2>2 DEF StartupShape, Connected
    <2>4. ~Connected(k) => stage = "exiting"
      BY <2>1 DEF StartupShape, Started, Alive
    <2> QED
      BY <1>c, <1>t, <2>1, <2>3, <2>4 DEF WorldIsWhole
  <1>8. ASSUME NEW k \in Zones, Tick(k) PROVE StartupShape' /\ WorldIsWhole'
    BY <1>8, <1>u DEF Tick, startup, feed
  <1>9. CASE CoordinatorEnds
    <2>1. /\ stage = "running" /\ coordinator' = "ended"
          /\ \A k \in Zones : thread[k] # "running"
          /\ UNCHANGED <<stage, thread, spawned, inboxOf>>
      BY <1>9 DEF CoordinatorEnds, startup, zones
    <2> QED
      BY <1>c, <1>v, <2>1 DEF StartupShape, WorldIsWhole, Started, Connected
  <1>10. CASE TakeTelemetry \/ TakeEntities \/ PageOpens \/ PageUpdates \/ PageCloses
    BY <1>10, <1>u DEF TakeTelemetry, TakeEntities, PageOpens, PageUpdates, PageCloses,
                       startup, zones, feed
  <1> QED
    BY <1>1, <1>2, <1>3, <1>4, <1>5, <1>6, <1>7, <1>8, <1>9, <1>10 DEF Next
------------------------------------------------------------------------------
(* The reports.                                                            *)

(* ReportsInOrder of any channel *)
InOrder(es) ==
    \A i \in DOMAIN es : LET e == es[i] IN
        /\ e.zone \in DOMAIN Taken(e.kind) => Taken(e.kind)[e.zone].tick < e.tick
        /\ \A j \in 1 .. i - 1 :
            es[j].zone = e.zone /\ es[j].kind = e.kind => es[j].tick < e.tick

(* The elements of a channel with one more report, and with one less. *)
LEMMA OneMore ==
    ASSUME NEW R, NEW es \in Seq(R), NEW e \in R
    PROVE  /\ Append(es, e) \in Seq(R) /\ Len(es) \in Nat
           /\ DOMAIN es = 1 .. Len(es) /\ DOMAIN Append(es, e) = 1 .. Len(es) + 1
           /\ \A i \in DOMAIN es : i \in DOMAIN Append(es, e) /\ Append(es, e)[i] = es[i]
           /\ Len(es) + 1 \in DOMAIN Append(es, e) /\ Append(es, e)[Len(es) + 1] = e
           /\ \A i \in DOMAIN Append(es, e) : i \in DOMAIN es \/ i = Len(es) + 1
  <1> DEFINE r == Append(es, e)
  <1>1. /\ r \in Seq(R) /\ Len(r) = Len(es) + 1 /\ Len(es) \in Nat
        /\ \A i \in 1 .. Len(es) : r[i] = es[i]
        /\ r[Len(es) + 1] = e
    BY AppendProperties
  <1>2. DOMAIN es = 1 .. Len(es) /\ DOMAIN r = 1 .. Len(es) + 1
    BY <1>1
  <1> HIDE DEF r
  <1>3. /\ \A i \in DOMAIN es : i \in DOMAIN r /\ r[i] = es[i]
        /\ Len(es) + 1 \in DOMAIN r
        /\ \A i \in DOMAIN r : i \in DOMAIN es \/ i = Len(es) + 1
    BY <1>1, <1>2
  <1> QED
    BY <1>1, <1>2, <1>3 DEF r

(* The elements of the event channel before and after the first is taken. *)
LEMMA OneLess ==
    ASSUME NEW R, NEW es \in Seq(R), es # <<>>
    PROVE  /\ Head(es) = es[1] /\ 1 \in DOMAIN es
           /\ \A i \in DOMAIN Tail(es) :
                i \in Nat /\ i > 0 /\ i + 1 \in DOMAIN es /\ Tail(es)[i] = es[i + 1]
           /\ \A i \in DOMAIN es \ {1} : i - 1 \in DOMAIN Tail(es) /\ Tail(es)[i - 1] = es[i]
  <1> DEFINE r == Tail(es)
  <1>1. /\ Head(es) = es[1] /\ r \in Seq(R)
        /\ Len(es) \in Nat \ {0} /\ Len(r) = Len(es) - 1
        /\ \A i \in 1 .. Len(r) : r[i] = es[i + 1]
    BY HeadTailProperties
  <1>2. DOMAIN es = 1 .. Len(es) /\ DOMAIN r = 1 .. Len(es) - 1
    BY <1>1
  <1>3. \A i \in 1 .. Len(es) - 1 : r[i] = es[i + 1]
    BY <1>1
  <1> HIDE DEF r
  <1>4. 1 \in DOMAIN es
    BY <1>1, <1>2
  <1>5. \A i \in DOMAIN r : i \in Nat /\ i > 0 /\ i + 1 \in DOMAIN es /\ r[i] = es[i + 1]
    BY <1>1, <1>2, <1>3
  <1>6. ASSUME NEW i \in DOMAIN es \ {1} PROVE i - 1 \in DOMAIN r /\ r[i - 1] = es[i]
    <2>1. i \in Nat /\ i - 1 \in 1 .. Len(es) - 1 /\ (i - 1) + 1 = i
      BY <1>1, <1>2
    <2>2. r[i - 1] = es[(i - 1) + 1]
      BY <1>3, <2>1
    <2> QED
      BY <1>2, <2>1, <2>2
  <1> QED
    BY <1>1, <1>4, <1>5, <1>6 DEF r

(* Ticks are numbers. *)
LEMMA TicksAreNumbers ==
    ASSUME TypeOK
    PROVE  /\ \A i \in DOMAIN events : events[i] \in Reports /\ events[i].tick \in Int
           /\ \A kind \in {"telemetry", "entities"} : \A z \in DOMAIN Taken(kind) :
                Taken(kind)[z].tick \in Int
           /\ \A k \in Zones : tick[k] \in Int
  <1>1. ASSUME NEW i \in DOMAIN events PROVE events[i] \in Reports
    <2>1. events \in Seq(Reports) /\ i \in 1 .. Len(events)
      BY DEF TypeOK
    <2> QED
      BY <2>1, ElementOfSeq
  <1>2. \A x \in Reports : x.tick \in Int
    BY DEF Reports
  <1>3. \A kind \in {"telemetry", "entities"} : \A z \in DOMAIN Taken(kind) :
          Taken(kind)[z].tick \in Int
    BY DEF Taken, TypeOK, IsFeed
  <1>4. \A k \in Zones : tick[k] \in Int
    BY DEF TypeOK
  <1> QED
    BY <1>1, <1>2, <1>3, <1>4

(* A report of a later tick than all of its kind and zone may be added. *)
LEMMA ReportAdded ==
    ASSUME NEW es \in Seq(Reports), NEW e \in Reports, InOrder(es),
           e.zone \in DOMAIN Taken(e.kind) => Taken(e.kind)[e.zone].tick < e.tick,
           \A i \in DOMAIN es : es[i].zone = e.zone /\ es[i].kind = e.kind => es[i].tick < e.tick
    PROVE  InOrder(Append(es, e))
  <1> DEFINE r == Append(es, e)
  <1>1. /\ DOMAIN es = 1 .. Len(es) /\ DOMAIN r = 1 .. Len(es) + 1 /\ Len(es) \in Nat
        /\ \A i \in DOMAIN es : r[i] = es[i]
        /\ r[Len(es) + 1] = e
    BY OneMore
  <1> HIDE DEF r
  <1>2. ASSUME NEW i \in 1 .. Len(es) + 1
        PROVE  /\ r[i].zone \in DOMAIN Taken(r[i].kind) =>
                    Taken(r[i].kind)[r[i].zone].tick < r[i].tick
               /\ \A j \in 1 .. i - 1 :
                    r[j].zone = r[i].zone /\ r[j].kind = r[i].kind => r[j].tick < r[i].tick
    <2>1. CASE i \in DOMAIN es
      <3>1. r[i] = es[i] /\ \A j \in 1 .. i - 1 : r[j] = es[j]
        BY <1>1, <2>1
      <3> QED
        BY <2>1, <3>1 DEF InOrder
    <2>2. CASE i = Len(es) + 1
      <3>1. r[i] = e /\ \A j \in 1 .. i - 1 : j \in DOMAIN es /\ r[j] = es[j]
        BY <1>1, <2>2
      <3> QED
        BY <3>1
    <2> QED
      BY <1>1, <2>1, <2>2
  <1>3. InOrder(r)
    BY <1>1, <1>2 DEF InOrder
  <1> QED
    BY <1>3 DEF r

(* A tick reports later than all before it, and what it is not given room  *)
(* for is marked as dropped.                                               *)
LEMMA ReportsOfTick ==
    ASSUME TypeOK, StartupShape, ReportsInOrder, LastIsKnown, [Next]_vars,
           NEW k \in Zones, Tick(k)
    PROVE  ReportsInOrder' /\ LastIsKnown'
  <1>c. /\ Zones' = Zones /\ \A j : IdOf(j)' = IdOf(j)
    BY ConfigStays
  <1>t. /\ events \in Seq(Reports) /\ tick \in [Zones -> 0 .. MaxTicks]
        /\ players \in [Zones -> 0 .. MaxPlayers]
    BY DEF TypeOK
  <1>v. \A j \in Zones : IdOf(j) = IdOf(k) => j = k
    BY IdsDiffer DEF Tick, Alive, StartupShape
  <1> DEFINE t == tick[k] + 1
             E(p) == Report("entities", k, t, p)
             T(p) == Report("telemetry", k, t, p)
  <1>1. PICK p \in 0 .. MaxPlayers, first \in Seq(Reports) :
             /\ t \in 0 .. MaxTicks
             /\ tick' = [tick EXCEPT ![k] = @ + 1] /\ players' = [players EXCEPT ![k] = p]
             /\ \A kind \in {"telemetry", "entities"} : Report(kind, k, t, p) \in Reports
             /\ first = events \/ first = Append(events, E(p))
             /\ \/ events' = first /\ dropped' = dropped \cup {k}
                \/ events' = Append(first, T(p)) /\ dropped' = dropped \ {k}
             /\ UNCHANGED <<startup, thread, feed, dashboard>>
    BY TickParts
  <1>2. /\ E(p) \in Reports /\ E(p).kind = "entities" /\ E(p).zone = IdOf(k) /\ E(p).tick = t
        /\ T(p) \in Reports /\ T(p).kind = "telemetry" /\ T(p).zone = IdOf(k) /\ T(p).tick = t
        /\ T(p) = Report("telemetry", k, t, p)
    BY <1>1 DEF Report
  <1>3. /\ \A i \in DOMAIN events : events[i].zone = IdOf(k) => events[i].tick < t
        /\ \A kind \in {"telemetry", "entities"} :
             IdOf(k) \in DOMAIN Taken(kind) => Taken(kind)[IdOf(k)].tick < t
    <2>1. \A i \in DOMAIN events : events[i].zone = IdOf(k) => events[i].tick < t
      <3>1. \A i \in DOMAIN events : events[i].zone = IdOf(k) => events[i].tick <= tick[k]
        BY DEF LastIsKnown
      <3> QED
        BY <3>1, TicksAreNumbers
    <2>2. ASSUME NEW kind \in {"telemetry", "entities"}, IdOf(k) \in DOMAIN Taken(kind)
          PROVE  Taken(kind)[IdOf(k)].tick < t
      <3>1. Taken(kind)[IdOf(k)].tick <= tick[k]
        BY <2>2 DEF LastIsKnown
      <3> QED
        BY <2>2, <3>1, TicksAreNumbers
    <2> QED
      BY <2>1, <2>2
  <1>t2. t = tick[k] + 1
    OBVIOUS
  <1> HIDE DEF E, T, t
  <1>4. /\ InOrder(first)
        /\ \A i \in DOMAIN first :
             \/ i \in DOMAIN events /\ first[i] = events[i]
             \/ first[i] = E(p)
        /\ \A i \in DOMAIN events : i \in DOMAIN first /\ first[i] = events[i]
    <2>1. InOrder(events)
      BY DEF ReportsInOrder, InOrder
    <2>2. CASE first = events
      BY <2>1, <2>2
    <2>3. CASE first = Append(events, E(p))
      <3>1. InOrder(first)
        BY <1>t, <1>2, <1>3, <2>1, <2>3, ReportAdded
      <3> QED
        BY <1>t, <1>2, <2>3, <3>1, OneMore
    <2> QED
      BY <1>1, <2>2, <2>3
  <1>5. /\ InOrder(events')
        /\ \A i \in DOMAIN events' :
             \/ i \in DOMAIN events /\ events'[i] = events[i]
             \/ events'[i] = E(p)
             \/ events'[i] = T(p)
        /\ \A i \in DOMAIN events : i \in DOMAIN events' /\ events'[i] = events[i]
        /\ k \in dropped' \/ \E i \in DOMAIN events' : events'[i] = T(p)
        /\ dropped' \ {k} = dropped \ {k}
    <2>1. CASE events' = first /\ dropped' = dropped \cup {k}
      BY <1>4, <2>1
    <2>2. CASE events' = Append(first, T(p)) /\ dropped' = dropped \ {k}
      <3>1. \A i \in DOMAIN first : first[i].zone = T(p).zone /\ first[i].kind = T(p).kind
                => first[i].tick < T(p).tick
        BY <1>2, <1>3, <1>4
      <3>2. InOrder(events')
        BY <1>2, <1>3, <1>4, <2>2, <3>1, ReportAdded
      <3>3. /\ \A i \in DOMAIN first : i \in DOMAIN events' /\ events'[i] = first[i]
            /\ \E i \in DOMAIN events' : events'[i] = T(p)
            /\ \A i \in DOMAIN events' : i \in DOMAIN first \/ events'[i] = T(p)
        BY <1>1, <1>2, <2>2, OneMore
      <3> QED
        BY <1>4, <2>2, <3>2, <3>3
    <2> QED
      BY <1>1, <2>1, <2>2
  <1>6. ReportsInOrder'
    BY <1>1, <1>5 DEF ReportsInOrder, InOrder, Taken, feed
  <1>7. LastIsKnown'
    <2> SUFFICES ASSUME NEW j \in Zones
                 PROVE  /\ \A i \in DOMAIN events' :
                              events'[i].zone = IdOf(j) => events'[i].tick <= tick'[j]
                        /\ \A kind \in {"telemetry", "entities"} :
                              IdOf(j) \in DOMAIN Taken(kind) =>
                                Taken(kind)[IdOf(j)].tick <= tick'[j]
                        /\ tick'[j] > 0 /\ j \notin dropped' =>
                             \/ /\ IdOf(j) \in DOMAIN telemetry
                                /\ telemetry[IdOf(j)] = [tick |-> tick'[j], players |-> players'[j]]
                             \/ \E i \in DOMAIN events' :
                                 events'[i] = Report("telemetry", j, tick'[j], players'[j])
      BY <1>1, <1>c DEF LastIsKnown, Taken, feed, Report
    <2>1. CASE j = k
      <3>1. tick'[j] = t /\ players'[j] = p
        BY <1>t, <1>t2, <1>1, <2>1
      <3>2. \A i \in DOMAIN events' : events'[i].zone = IdOf(j) => events'[i].tick <= t
        <4>1. t \in Int /\ \A i \in DOMAIN events : events[i].tick \in Int
          BY <1>1, TicksAreNumbers
        <4> QED
          BY <1>2, <1>3, <1>5, <2>1, <4>1
      <3>3. \A kind \in {"telemetry", "entities"} : IdOf(j) \in DOMAIN Taken(kind) =>
              Taken(kind)[IdOf(j)].tick <= t
        <4>1. t \in Int /\ \A kind \in {"telemetry", "entities"} : \A z \in DOMAIN Taken(kind) :
                Taken(kind)[z].tick \in Int
          BY <1>1 DEF Taken, TypeOK, IsFeed
        <4> QED
          BY <1>3, <2>1, <4>1
      <3> QED
        BY <1>2, <1>5, <2>1, <3>1, <3>2, <3>3
    <2>2. CASE j # k
      <3>1. /\ tick'[j] = tick[j] /\ players'[j] = players[j] /\ IdOf(j) # IdOf(k)
            /\ j \in dropped' <=> j \in dropped
        BY <1>t, <1>v, <1>1, <1>5, <2>2
      <3>2. \A i \in DOMAIN events' : events'[i].zone = IdOf(j) =>
              i \in DOMAIN events /\ events'[i] = events[i]
        BY <1>2, <1>5, <3>1
      <3>3. /\ \A i \in DOMAIN events : events[i].zone = IdOf(j) => events[i].tick <= tick[j]
            /\ \A kind \in {"telemetry", "entities"} :
                 IdOf(j) \in DOMAIN Taken(kind) => Taken(kind)[IdOf(j)].tick <= tick[j]
            /\ tick[j] > 0 /\ j \notin dropped =>
                 \/ /\ IdOf(j) \in DOMAIN telemetry
                    /\ telemetry[IdOf(j)] = [tick |-> tick[j], players |-> players[j]]
                 \/ \E i \in DOMAIN events :
                     events[i] = Report("telemetry", j, tick[j], players[j])
        BY DEF LastIsKnown
      <3> QED
        BY <1>5, <3>1, <3>2, <3>3
    <2> QED
      BY <2>1, <2>2
  <1> QED
    BY <1>6, <1>7

(* What is taken was the oldest of its kind and zone in the channel. *)
LEMMA ReportTaken ==
    ASSUME TypeOK, ReportsInOrder, LastIsKnown, [Next]_vars, TakeTelemetry \/ TakeEntities
    PROVE  /\ ReportsInOrder' /\ LastIsKnown'
           /\ NotOlder(telemetry', telemetry) /\ NotOlder(entities', entities)
  <1>c. /\ Zones' = Zones /\ \A j : IdOf(j)' = IdOf(j)
    BY ConfigStays
  <1> DEFINE e == Head(events)
             v == [tick |-> e.tick, players |-> e.players]
             es == events'
             K == e.kind
             O == IF K = "telemetry" THEN "entities" ELSE "telemetry"
             After(kind) == IF kind = "telemetry" THEN telemetry' ELSE entities'
  <1>1. /\ events \in Seq(Reports) /\ events # <<>>
        /\ v \in [tick : 0 .. MaxTicks, players : 0 .. MaxPlayers] /\ e.zone \in ZoneIds
        /\ es = Tail(events)
        /\ \/ K = "telemetry" /\ telemetry' = Put(telemetry, e.zone, v) /\ entities' = entities
           \/ K = "entities" /\ entities' = Put(entities, e.zone, v) /\ telemetry' = telemetry
        /\ UNCHANGED <<startup, zones, dropped, coordinator, shown>>
    BY TakenParts
  <1>v. v.tick = e.tick /\ v.players = e.players
    OBVIOUS
  <1>2. /\ e = events[1] /\ 1 \in DOMAIN events
        /\ \A i \in DOMAIN es : i \in Nat /\ i > 0 /\ i + 1 \in DOMAIN events /\ es[i] = events[i + 1]
        /\ \A i \in DOMAIN events \ {1} : i - 1 \in DOMAIN es /\ es[i - 1] = events[i]
    BY <1>1, OneLess
  <1> HIDE DEF es, v
  <1>3. IsFeed(Taken(K)) /\ IsFeed(Taken(O))
    BY DEF TypeOK, Taken
  <1>4. /\ After(K) = Put(Taken(K), e.zone, v) /\ After(O) = Taken(O)
        /\ \A kind \in {"telemetry", "entities"} : kind = K \/ kind = O
        /\ K \in {"telemetry", "entities"} /\ O \in {"telemetry", "entities"}
    BY <1>1 DEF Taken
  <1>5. /\ DOMAIN Put(Taken(K), e.zone, v) = DOMAIN Taken(K) \cup {e.zone}
        /\ Put(Taken(K), e.zone, v)[e.zone] = v
        /\ \A z \in DOMAIN Taken(K) : z # e.zone => Put(Taken(K), e.zone, v)[z] = Taken(K)[z]
    <2> DEFINE f == Taken(K)
               y == e.zone
    <2>1. IsFeed(f) /\ y \in ZoneIds /\ v \in [tick : 0 .. MaxTicks, players : 0 .. MaxPlayers]
      BY <1>1, <1>3
    <2> HIDE DEF f, y
    <2>2. /\ DOMAIN Put(f, y, v) = DOMAIN f \cup {y} /\ Put(f, y, v)[y] = v
          /\ \A z \in DOMAIN f : z # y => Put(f, y, v)[z] = f[z]
      BY <2>1, PutFeed
    <2> QED
      BY <2>2 DEF f, y
  <1>6. e.zone \in DOMAIN Taken(K) => Taken(K)[e.zone].tick < e.tick
    BY <1>2 DEF ReportsInOrder
  <1>7. ASSUME NEW kind \in {"telemetry", "entities"}
        PROVE  /\ DOMAIN Taken(kind) \subseteq DOMAIN After(kind)
               /\ \A z \in DOMAIN After(kind) :
                    \/ kind = K /\ z = e.zone /\ After(kind)[z] = v
                    \/ /\ z \in DOMAIN Taken(kind) /\ After(kind)[z] = Taken(kind)[z]
                       /\ kind # K \/ z # e.zone
    BY <1>4, <1>5
  <1>n. /\ \A i \in DOMAIN events : events[i] \in Reports /\ events[i].tick \in Int
        /\ \A kind \in {"telemetry", "entities"} : \A z \in DOMAIN Taken(kind) :
             Taken(kind)[z].tick \in Int
        /\ \A k \in Zones : tick[k] \in Int
    BY TicksAreNumbers
  <1>r. \A x \in Reports : x.kind \in {"telemetry", "entities"}
    BY DEF Reports
  <1>a. After("telemetry") = telemetry' /\ After("entities") = entities'
    OBVIOUS
  <1> HIDE DEF e, K, O, After
  <1>8. ReportsInOrder'
    <2> SUFFICES ASSUME NEW i \in DOMAIN es
                 PROVE  /\ es[i].zone \in DOMAIN After(es[i].kind) =>
                              After(es[i].kind)[es[i].zone].tick < es[i].tick
                        /\ \A j \in 1 .. i - 1 :
                              es[j].zone = es[i].zone /\ es[j].kind = es[i].kind =>
                                es[j].tick < es[i].tick
      BY DEF ReportsInOrder, es, Taken, After
    <2> DEFINE x == events[i + 1]
    <2>1. /\ i \in Nat /\ i + 1 \in DOMAIN events /\ es[i] = x /\ 1 \in 1 .. (i + 1) - 1
          /\ \A j \in 1 .. i - 1 : j + 1 \in 1 .. (i + 1) - 1
      BY <1>2
    <2>2. /\ x.zone \in DOMAIN Taken(x.kind) => Taken(x.kind)[x.zone].tick < x.tick
          /\ \A j \in 1 .. (i + 1) - 1 :
               events[j].zone = x.zone /\ events[j].kind = x.kind => events[j].tick < x.tick
      BY <2>1 DEF ReportsInOrder
    <2>3. x.kind \in {"telemetry", "entities"}
      BY <1>n, <1>r, <2>1
    <2> HIDE DEF x
    <2>4. x.zone \in DOMAIN After(x.kind) => After(x.kind)[x.zone].tick < x.tick
      <3>1. e.kind = x.kind /\ e.zone = x.zone => e.tick < x.tick
        BY <1>2, <2>1, <2>2
      <3> QED
        BY <1>7, <1>v, <2>2, <2>3, <3>1 DEF K
    <2>5. ASSUME NEW j \in 1 .. i - 1, es[j].zone = x.zone, es[j].kind = x.kind
          PROVE  es[j].tick < x.tick
      <3>1. j \in DOMAIN es
        <4>1. j + 1 \in DOMAIN events \ {1} /\ (j + 1) - 1 = j
          BY <1>1, <2>1
        <4> QED
          BY <1>2, <4>1
      <3>2. es[j] = events[j + 1]
        BY <1>2, <3>1
      <3> QED
        BY <2>1, <2>2, <2>5, <3>2
    <2> QED
      BY <2>1, <2>4, <2>5
  <1>9. LastIsKnown'
    <2> SUFFICES ASSUME NEW j \in Zones
                 PROVE  /\ \A i \in DOMAIN es : es[i].zone = IdOf(j) => es[i].tick <= tick[j]
                        /\ \A kind \in {"telemetry", "entities"} :
                              IdOf(j) \in DOMAIN After(kind) =>
                                After(kind)[IdOf(j)].tick <= tick[j]
                        /\ tick[j] > 0 /\ j \notin dropped =>
                             \/ /\ IdOf(j) \in DOMAIN telemetry'
                                /\ telemetry'[IdOf(j)] = [tick |-> tick[j], players |-> players[j]]
                             \/ \E i \in DOMAIN es :
                                 es[i] = Report("telemetry", j, tick[j], players[j])
      BY <1>1, <1>c DEF LastIsKnown, es, zones, Report, Taken, After
    <2>1. /\ \A i \in DOMAIN events : events[i].zone = IdOf(j) => events[i].tick <= tick[j]
          /\ \A kind \in {"telemetry", "entities"} :
               IdOf(j) \in DOMAIN Taken(kind) => Taken(kind)[IdOf(j)].tick <= tick[j]
          /\ tick[j] > 0 /\ j \notin dropped =>
               \/ /\ IdOf(j) \in DOMAIN telemetry
                  /\ telemetry[IdOf(j)] = [tick |-> tick[j], players |-> players[j]]
               \/ \E i \in DOMAIN events :
                   events[i] = Report("telemetry", j, tick[j], players[j])
      BY DEF LastIsKnown
    <2>2. \A i \in DOMAIN es : es[i].zone = IdOf(j) => es[i].tick <= tick[j]
      BY <1>2, <2>1
    <2>3. ASSUME NEW kind \in {"telemetry", "entities"}, IdOf(j) \in DOMAIN After(kind)
          PROVE  After(kind)[IdOf(j)].tick <= tick[j]
      <3>1. e.zone = IdOf(j) => e.tick <= tick[j]
        BY <1>2, <2>1
      <3> QED
        BY <1>7, <1>v, <2>1, <2>3, <3>1
    <2>4. ASSUME tick[j] > 0, j \notin dropped
          PROVE  \/ /\ IdOf(j) \in DOMAIN telemetry'
                    /\ telemetry'[IdOf(j)] = [tick |-> tick[j], players |-> players[j]]
                 \/ \E i \in DOMAIN es : es[i] = Report("telemetry", j, tick[j], players[j])
      <3>t. Taken("telemetry") = telemetry /\ After("telemetry") = telemetry'
        BY <1>a DEF Taken
      <3>1. CASE /\ IdOf(j) \in DOMAIN telemetry
                 /\ telemetry[IdOf(j)] = [tick |-> tick[j], players |-> players[j]]
        <4>1. telemetry[IdOf(j)].tick = tick[j]
          BY <3>1
        <4>2. ~(K = "telemetry" /\ e.zone = IdOf(j))
          <5> SUFFICES ASSUME K = "telemetry", e.zone = IdOf(j) PROVE FALSE
            OBVIOUS
          <5>1. tick[j] < e.tick
            BY <1>6, <3>1, <3>t, <4>1
          <5>2. e.tick <= tick[j] /\ e.tick \in Int /\ tick[j] \in Int
            BY <1>2, <1>n, <2>1
          <5> QED
            BY <5>1, <5>2
        <4>3. IdOf(j) \in DOMAIN telemetry' /\ telemetry'[IdOf(j)] = telemetry[IdOf(j)]
          BY <1>7, <3>1, <3>t, <4>2
        <4> QED
          BY <3>1, <4>3
      <3>2. ASSUME NEW i \in DOMAIN events,
                   events[i] = Report("telemetry", j, tick[j], players[j])
            PROVE  \/ /\ IdOf(j) \in DOMAIN telemetry'
                      /\ telemetry'[IdOf(j)] = [tick |-> tick[j], players |-> players[j]]
                   \/ \E h \in DOMAIN es : es[h] = Report("telemetry", j, tick[j], players[j])
        <4>1. CASE i = 1
          <5>1. /\ K = "telemetry" /\ e.zone = IdOf(j)
                /\ v = [tick |-> tick[j], players |-> players[j]]
            BY <1>2, <3>2, <4>1 DEF Report, K, v
          <5>2. /\ IdOf(j) \in DOMAIN Put(Taken(K), e.zone, v)
                /\ Put(Taken(K), e.zone, v)[IdOf(j)] = v
            BY <1>5, <5>1
          <5> QED
            BY <1>4, <3>t, <5>1, <5>2
        <4>2. CASE i # 1
          BY <1>2, <3>2, <4>2
        <4> QED
          BY <4>1, <4>2
      <3> QED
        BY <2>1, <2>4, <3>1, <3>2
    <2> QED
      BY <2>2, <2>3, <2>4
  <1>10. NotOlder(telemetry', telemetry) /\ NotOlder(entities', entities)
    <2>1. ASSUME NEW kind \in {"telemetry", "entities"}
          PROVE  NotOlder(After(kind), Taken(kind))
      <3> SUFFICES ASSUME NEW z \in DOMAIN Taken(kind)
                   PROVE  z \in DOMAIN After(kind) /\ After(kind)[z].tick >= Taken(kind)[z].tick
        BY DEF NotOlder
      <3>1. e.tick \in Int /\ Taken(kind)[z].tick \in Int
        BY <1>2, <1>n
      <3> QED
        BY <1>6, <1>7, <1>v, <3>1
    <2>2. /\ Taken("telemetry") = telemetry /\ After("telemetry") = telemetry'
          /\ Taken("entities") = entities /\ After("entities") = entities'
      BY <1>a DEF Taken
    <2> QED
      BY <2>1, <2>2
  <1> QED
    BY <1>8, <1>9, <1>10

(* The reports of a zone stay in the order of its ticks in the channel,    *)
(* and the coordinator never knows of a later one than was sent.           *)
LEMMA ReportsStep ==
    ASSUME TypeOK, StartupShape, ReportsInOrder, LastIsKnown, [Next]_vars
    PROVE  ReportsInOrder' /\ LastIsKnown'
  <1>c. /\ Zones' = Zones /\ \A j : IdOf(j)' = IdOf(j)
    BY ConfigStays
  <1>u. ASSUME UNCHANGED <<events, tick, players, dropped, telemetry, entities>>
        PROVE  ReportsInOrder' /\ LastIsKnown'
    BY <1>c, <1>u DEF ReportsInOrder, LastIsKnown, Taken, Report
  <1>1. CASE \E k \in Zones : Tick(k)
    BY <1>1, ReportsOfTick
  <1>2. CASE TakeTelemetry \/ TakeEntities
    BY <1>2, ReportTaken
  <1>3. CASE \E k \in Zones : ZoneEnds(k) \/ ZonePanics(k)
    BY <1>3, <1>u DEF ZoneEnds, ZonePanics, feed
  <1>4. CASE Validate \/ SpawnZone \/ Run \/ MainReturns \/ ProcessEnds \/ CoordinatorEnds
             \/ PageOpens \/ PageUpdates \/ PageCloses \/ UNCHANGED vars
    BY <1>4, <1>u
       DEF Validate, SpawnZone, Run, MainReturns, ProcessEnds, CoordinatorEnds, PageOpens,
           PageUpdates, PageCloses, vars, zones, feed
  <1> QED
    BY <1>1, <1>2, <1>3, <1>4 DEF Next
------------------------------------------------------------------------------
(* The dashboard.                                                          *)

(* No step publishes or shows anything older than before. *)
LEMMA FeedStep ==
    ASSUME TypeOK, TypeOK', StartupShape, ReportsInOrder, LastIsKnown, FeedShape, [Next]_vars
    PROVE  /\ FeedShape'
           /\ NotOlder(published'.zones, published.zones)
           /\ NotOlder(published'.entities, published.entities)
           /\ page # "closed" => /\ NotOlder(shown'.zones, shown.zones)
                                 /\ NotOlder(shown'.entities, shown.entities)
  <1>c. /\ Zones' = Zones /\ ZoneIds' = ZoneIds
    BY ConfigStays
  <1>f. /\ IsFeed(telemetry) /\ IsFeed(entities) /\ IsFeed(telemetry') /\ IsFeed(entities')
        /\ IsFeed(published.zones) /\ IsFeed(published.entities)
        /\ IsFeed(shown.zones) /\ IsFeed(shown.entities)
    BY <1>c DEF TypeOK, IsFeed
  <1>s. \A f, g : IsFeed(f) /\ IsFeed(g) => NotOlder(f, f)
    BY AsOld
  <1>1. CASE TakeTelemetry \/ TakeEntities
    <2>1. /\ NotOlder(telemetry', telemetry) /\ NotOlder(entities', entities)
      BY <1>1, ReportTaken
    <2>2. /\ shown' = shown
          /\ \/ /\ entities' = entities
                /\ published'.zones = telemetry' /\ published'.entities = entities
             \/ telemetry' = telemetry /\ published' = published
      BY <1>1, TakenParts
    <2>3. page' = "closed" <=> page = "closed"
      BY <1>1 DEF TakeTelemetry, TakeEntities, Publishes, dashboard
    <2>4. NotOlder(published'.zones, published.zones)
      BY <1>f, <1>s, <2>1, <2>2 DEF FeedShape
    <2>5. NotOlder(published'.entities, published.entities)
      BY <1>f, <1>s, <2>2 DEF FeedShape
    <2>6. published'.zones = telemetry'
      BY <2>2 DEF FeedShape
    <2>7. NotOlder(entities', published'.entities)
      <3>1. CASE published'.entities = entities
        BY <2>1, <3>1
      <3>2. CASE published' = published
        BY <1>f, <2>1, <3>2, AsOld DEF FeedShape
      <3> QED
        BY <2>2, <3>1, <3>2
    <2>8. ASSUME page # "closed"
          PROVE  /\ NotOlder(published'.zones, shown.zones)
                 /\ NotOlder(published'.entities, shown.entities)
      <3>1. /\ NotOlder(published.zones, shown.zones)
            /\ NotOlder(published.entities, shown.entities)
        BY <2>8 DEF FeedShape
      <3>2. IsFeed(published'.zones) /\ IsFeed(published'.entities)
        BY <1>f, <2>2
      <3> QED
        BY <1>f, <2>4, <2>5, <3>1, <3>2, AsOld
    <2>9. FeedShape'
      BY <2>2, <2>3, <2>6, <2>7, <2>8 DEF FeedShape, NotOlder
    <2> QED
      BY <1>f, <1>s, <2>2, <2>4, <2>5, <2>9
  <1>2. CASE PageOpens \/ PageUpdates
    <2>1. /\ shown' = published /\ page \in {"closed", "behind"}
          /\ UNCHANGED <<published, telemetry, entities>>
          /\ page # "closed" => PageUpdates
      BY <1>2 DEF PageOpens, PageUpdates, feed
    <2>2. NotOlder(published.zones, published.zones)
          /\ NotOlder(published.entities, published.entities)
      BY <1>f, <1>s
    <2>3. FeedShape'
      BY <2>1, <2>2 DEF FeedShape, NotOlder
    <2> QED
      BY <2>1, <2>2, <2>3 DEF FeedShape
  <1>3. ASSUME UNCHANGED <<telemetry, entities, published, shown>>,
               page' = "closed" \/ page' = page
        PROVE  /\ FeedShape'
               /\ NotOlder(published'.zones, published.zones)
               /\ NotOlder(published'.entities, published.entities)
               /\ page # "closed" => /\ NotOlder(shown'.zones, shown.zones)
                                     /\ NotOlder(shown'.entities, shown.entities)
    <2>1. FeedShape'
      BY <1>3 DEF FeedShape, NotOlder
    <2> QED
      BY <1>f, <1>s, <1>3, <2>1
  <1>4. CASE \E k \in Zones : Tick(k) \/ ZoneEnds(k) \/ ZonePanics(k)
    BY <1>3, <1>4 DEF Tick, ZoneEnds, ZonePanics, feed, dashboard
  <1>5. CASE Validate \/ SpawnZone \/ Run \/ MainReturns \/ ProcessEnds \/ CoordinatorEnds
             \/ PageCloses \/ UNCHANGED vars
    BY <1>3, <1>5
       DEF Validate, SpawnZone, Run, MainReturns, ProcessEnds, CoordinatorEnds, PageCloses,
           vars, feed, dashboard
  <1> QED
    BY <1>1, <1>2, <1>4, <1>5 DEF Next

(* When the channel is empty the coordinator has what is known. *)
LEMMA KnownIsTrue ==
    ASSUME TypeOK, LastIsKnown, FeedShape
    PROVE  FeedIsTrue
  BY DEF LastIsKnown, FeedShape, FeedIsTrue

(* Server IInv: a zone of a running server is reached by its id, has all   *)
(* its spawns and ends by a panic alone, and when the coordinator has      *)
(* taken all events it has the counts of the last tick that found room.    *)
THEOREM ServerInvariance == Spec => []IInv
  <1>1. ASSUME Init PROVE IInv
    <2>1. /\ config \in Configs /\ stage = "validate" /\ coordinator = "none"
          /\ thread = [k \in Zones |-> "none"] /\ tick = [k \in Zones |-> 0]
          /\ players = [k \in Zones |-> 0] /\ spawned = [k \in Zones |-> {}]
          /\ DOMAIN inboxOf = {} /\ events = <<>>
          /\ telemetry = Empty /\ entities = Empty
          /\ published = Snapshot(Empty, Empty) /\ page = "closed" /\ shown = published
      BY <1>1 DEF Init
    <2>2. published.zones = Empty /\ published.entities = Empty
      BY <2>1, SnapshotParts
    <2>3. DOMAIN Empty = {} /\ IsFeed(Empty)
      BY DEF Empty, IsFeed
    <2>4. events \in Seq(Reports) /\ Len(events) = 0 /\ DOMAIN events = {}
      BY <2>1
    <2>5. TypeOK
      BY <2>1, <2>2, <2>3, <2>4, BoundsAssumption DEF TypeOK
    <2>6. Started = {}
      BY <2>1 DEF Started
    <2>7. StartupShape /\ WorldIsWhole
      BY <2>1, <2>6 DEF StartupShape, WorldIsWhole
    <2>8. ReportsInOrder
      BY <2>4 DEF ReportsInOrder
    <2>9. LastIsKnown
      BY <2>1, <2>3, <2>4 DEF LastIsKnown, Taken
    <2>10. FeedShape
      BY <2>1, <2>2, <2>3 DEF FeedShape, NotOlder
    <2> QED
      BY <2>5, <2>7, <2>8, <2>9, <2>10, KnownIsTrue DEF IInv
  <1>2. ASSUME IInv, [Next]_vars PROVE IInv'
    <2>1. TypeOK'
      BY <1>2, TypeStep DEF IInv
    <2>2. StartupShape' /\ WorldIsWhole'
      BY <1>2, StartStep DEF IInv
    <2>3. ReportsInOrder' /\ LastIsKnown'
      BY <1>2, ReportsStep DEF IInv
    <2>4. FeedShape'
      BY <1>2, <2>1, FeedStep DEF IInv
    <2>5. FeedIsTrue'
      BY <2>3, <2>4 DEF LastIsKnown, FeedShape, FeedIsTrue
    <2> QED
      BY <2>1, <2>2, <2>3, <2>4, <2>5 DEF IInv
  <1> QED
    BY <1>1, <1>2, PTL DEF Spec

(* FeedNeverGoesBack: neither what is published nor an open page goes back *)
(* to an earlier tick of a zone.                                           *)
THEOREM FeedNeverGoesBackCorrect == Spec => FeedNeverGoesBack
  <1> DEFINE Ahead ==
        /\ NotOlder(published'.zones, published.zones)
        /\ NotOlder(published'.entities, published.entities)
        /\ page # "closed" => /\ NotOlder(shown'.zones, shown.zones)
                              /\ NotOlder(shown'.entities, shown.entities)
  <1>1. ASSUME IInv, [Next]_vars PROVE [Ahead]_vars
    <2>1. TypeOK'
      BY <1>1, TypeStep DEF IInv
    <2> QED
      BY <1>1, <2>1, FeedStep DEF IInv
  <1>2. Spec => [][Ahead]_vars
    BY <1>1, ServerInvariance, PTL DEF Spec
  <1> QED
    BY <1>2 DEF FeedNeverGoesBack
=============================================================================

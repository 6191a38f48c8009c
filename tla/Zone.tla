-------------------------------- MODULE Zone --------------------------------
(***************************************************************************)
(* The simulation of one zone: the commands that its thread drains from    *)
(* the inbox, and the stages of a tick, each a loop over entities.  Four   *)
(* structures describe an entity and have to agree: the ECS world, the map *)
(* from ids to ECS handles, the spatial index, and the snapshot channels.  *)
(*                                                                         *)
(* Positions are pairs <<x, z>> on a grid and a velocity is the distance   *)
(* made in one tick.  The thread is alone with its structures; only the    *)
(* far ends of the snapshot channels belong to somebody else.  What a tick *)
(* sends to the coordinator does not change the zone and is left out.      *)
(***************************************************************************)
EXTENDS SpatialIndex, FiniteSets

CONSTANTS
    PlayerIds,    \* ids of the sessions that enter this zone
    ZoneId,
    Partition,    \* 1_000_000: the mob ids of a zone start at ZoneId * Partition
    MaxSpawned,   \* bounds the creatures spawned
    Handles,      \* ECS handles: bounds the entities alive
    Area,         \* bounds the positions
    Entries,      \* the positions of stored characters, at which players enter
    Aoi,          \* aoi_radius
    Directions,   \* of a MoveInput: parallel to an axis, or zero
    Speeds,       \* of a MoveInput
    MaxSpeed,     \* MAX_PLAYER_SPEED
    NumSpawns,    \* spawn points
    SpawnPos, WanderRadius, RespawnTicks, MoveSpeed,  \* of a spawn point
    Wanders,      \* the spawn points of creatures with AiBehavior::Wander
    Pauses,       \* durations drawn at random for AiState::Idle
    Dt,           \* duration of a tick
    NewTarget, NewPause,  \* the sentinels -1.0 and -2.0 of step_ai
    Arrival,      \* a creature this near to its target has arrived
    Forever,      \* f32::MAX, which stays f32::MAX when Dt is subtracted
    NoSpawn, NoTarget

ASSUME PlacesAssumption == Area \subseteq Int \X Int /\ Aoi \in Nat /\ Arrival \in Int
ASSUME EntriesAssumption == Entries \subseteq Area
ASSUME IdsAssumption == PlayerIds \subseteq Nat /\ ZoneId \in Nat /\ Partition \in Nat
ASSUME InputAssumption == Directions \subseteq Int \X Int /\ Speeds \subseteq Int /\ MaxSpeed \in Nat
ASSUME SpawnsAssumption ==
    /\ NumSpawns \in Nat
    /\ 1 .. NumSpawns \subseteq Handles
    /\ NoSpawn \notin 1 .. NumSpawns
    /\ SpawnPos \in [1 .. NumSpawns -> Area]
    /\ RespawnTicks \in [1 .. NumSpawns -> Int]
    /\ MoveSpeed \in [1 .. NumSpawns -> Nat]
    /\ WanderRadius \in [1 .. NumSpawns -> Nat]
ASSUME NoTargetAssumption == NoTarget \notin Int \X Int
ASSUME TimesAssumption ==
    Pauses \subseteq Int /\ Dt \in Int /\ NewTarget \in Int /\ NewPause \in Int

VARIABLES
    stage,        \* where the zone thread stands in run_zone_loop
    todo,         \* what the loop of this stage has still to visit
    world,        \* the ECS: from handles to entities
    entityMap,    \* from ids to handles
    index,        \* the spatial index
    connections,  \* from player ids to snapshot channels: "room", "full" or "gone"
    respawns,     \* pending_respawns, by the id of the creature that died
    nextMob,      \* next_mob_entity_id
    entered       \* the player ids admitted so far

structures == <<world, entityMap, index, connections>>
vars == <<stage, todo, structures, respawns, nextMob, entered>>

Spawns == 1 .. NumSpawns

MobBase == ZoneId * Partition

Zero == <<0, 0>>

Entity(id, s, p, rest) ==
    [id |-> id, spawn |-> s, pos |-> p, vel |-> Zero, rest |-> rest, target |-> NoTarget]

IsCreature(h) == world[h].spawn # NoSpawn

\* The first pause is drawn from another range than the later ones; the model
\* does not tell the ranges apart.
Rests(s) == IF s \in Wanders THEN Pauses ELSE {Forever}

\* spawn_initial_creatures, in the order of the spawn points.
Init ==
    /\ stage = "drain"
    /\ todo = {}
    /\ \E rest \in [Spawns -> Pauses \cup {Forever}] :
          /\ \A s \in Spawns : rest[s] \in Rests(s)
          /\ world = [s \in Spawns |-> Entity(MobBase + s - 1, s, SpawnPos[s], rest[s])]
    /\ nextMob = MobBase + NumSpawns
    /\ entityMap = [e \in MobBase .. nextMob - 1 |-> e - MobBase + 1]
    /\ index = IndexOf([e \in MobBase .. nextMob - 1 |-> SpawnPos[e - MobBase + 1]])
    /\ connections = <<>>
    /\ respawns = <<>>
    /\ entered = {}
------------------------------------------------------------------------------
(***************************************************************************)
(* Steps shared by the handlers.                                           *)
(***************************************************************************)
\* World::spawn, and the entries of the new entity in the map and the index.
Spawn(entity) ==
    LET h == CHOOSE h \in Handles : h \notin DOMAIN world IN
    /\ DOMAIN world # Handles
    /\ world' = Put(world, h, entity)
    /\ entityMap' = Put(entityMap, entity.id, h)
    /\ index' = Insert(index, entity.id, entity.pos)

Despawn(e) ==
    /\ world' = Drop(world, entityMap[e])
    /\ entityMap' = Drop(entityMap, e)
    /\ index' = Remove(index, e)

RemoveEntity(e) ==
    /\ IF e \in DOMAIN entityMap
       THEN Despawn(e)
       ELSE UNCHANGED <<world, entityMap, index>>
    /\ connections' = Drop(connections, e)

Sign(n) == IF n > 0 THEN 1 ELSE IF n < 0 THEN -1 ELSE 0

Capped(speed) == IF speed < MaxSpeed THEN speed ELSE MaxSpeed

\* Vec2::normalize times the capped speed, for a direction along an axis.
Velocity(d, speed) == <<Sign(d[1]) * Capped(speed), Sign(d[2]) * Capped(speed)>>

\* One step; the model's world ends at Area, where the code's has no end.
Moved(p, v) ==
    LET q == <<p[1] + v[1], p[2] + v[2]>> IN IF q \in Area THEN q ELSE p
------------------------------------------------------------------------------
(***************************************************************************)
(* Between two ticks: commands from the inbox, and kill_creature.          *)
(***************************************************************************)
PlayerEnter(p, at) ==
    /\ stage = "drain"
    /\ p \in PlayerIds \ entered
    /\ entered' = entered \cup {p}
    /\ Spawn(Entity(p, NoSpawn, at, 0))
    /\ connections' = Put(connections, p, "room")
    /\ UNCHANGED <<stage, todo, respawns, nextMob>>

PlayerLeave(p) ==
    /\ stage = "drain"
    /\ RemoveEntity(p)
    /\ UNCHANGED <<stage, todo, respawns, nextMob, entered>>

\* A MoveInput of a player who is not there, or no longer, changes nothing.
MoveInput(p, d, speed) ==
    /\ stage = "drain"
    /\ p \in DOMAIN entityMap
    /\ world' = [world EXCEPT ![entityMap[p]].vel = Velocity(d, speed)]
    /\ UNCHANGED <<stage, todo, entityMap, index, connections, respawns, nextMob, entered>>

\* Mutant: the first spawn point is taken for that of the creature.
ScheduledAtFirst(e) == Put(respawns, e, [spawn |-> 1, timer |-> RespawnTicks[1]])

Scheduled(e) ==
    LET s == world[entityMap[e]].spawn
    IN Put(respawns, e, [spawn |-> s, timer |-> RespawnTicks[s]])

KillCreature(e) ==
    /\ stage = "drain"
    /\ e \in DOMAIN entityMap
    /\ IsCreature(entityMap[e])
    /\ nextMob + Cardinality(DOMAIN respawns) < MobBase + MaxSpawned
    /\ Despawn(e)
    /\ respawns' = Scheduled(e)
    /\ UNCHANGED <<stage, todo, connections, nextMob, entered>>
------------------------------------------------------------------------------
(***************************************************************************)
(* A tick.  A stage collects what it has to visit and then visits it, in   *)
(* an order that the ECS or a hash map decides.                            *)
(***************************************************************************)
Stage(from, to, next) ==
    /\ stage = from
    /\ todo = {}
    /\ stage' = to
    /\ todo' = next

Visit(current, x) ==
    /\ stage = current
    /\ x \in todo
    /\ todo' = todo \ {x}
    /\ UNCHANGED stage

\* step_movement.
StartTick ==
    /\ Stage("drain", "move", {h \in DOMAIN world : world[h].vel # Zero})
    /\ UNCHANGED <<structures, respawns, nextMob, entered>>

Move(h) ==
    LET e == world[h].id
        old == world[h].pos
        new == Moved(old, world[h].vel)
    IN /\ Visit("move", h)
       /\ IF e \in DOMAIN entityMap
          THEN /\ world' = [world EXCEPT ![entityMap[e]].pos = new]
               /\ index' = Update(index, e, old, new)
          ELSE UNCHANGED <<world, index>>
       /\ UNCHANGED <<entityMap, connections, respawns, nextMob, entered>>

\* step_ai.
StartAi ==
    /\ Stage("move", "ai", {h \in DOMAIN world : IsCreature(h)})
    /\ UNCHANGED <<structures, respawns, nextMob, entered>>

\* The points within the wander radius r of p, along the row of p.
Around(p, r) == {<<p[1] + d, p[2]>> : d \in 1 - r .. r - 1}

\* Mutant: around the place the creature has come to.
TargetsFromHere(c) == Around(c.pos, WanderRadius[c.spawn])

\* pick_wander_target.
Targets(c) == Around(SpawnPos[c.spawn], WanderRadius[c.spawn])

\* The unit vector from p to q times the speed of the creature.
Toward(p, q, s) == <<Sign(q[1] - p[1]) * MoveSpeed[s], Sign(q[2] - p[2]) * MoveSpeed[s]>>

Pausing(c, rest) == [c EXCEPT !.rest = rest, !.target = NoTarget, !.vel = Zero]

Walking(c, t) ==
    [c EXCEPT !.rest = 0, !.target = t,
              !.vel = IF t = c.pos THEN @ ELSE Toward(c.pos, t, c.spawn)]

\* What an idle creature's timer becomes: NewTarget asks for a target.  Below the
\* sentinels the model's timer stops, which bounds it.
NextRest(c) ==
    LET rest == IF c.rest = Forever \/ c.rest < NewPause THEN c.rest ELSE c.rest - Dt IN
    IF rest # Forever /\ rest <= 0 /\ c.spawn \in Wanders /\ WanderRadius[c.spawn] > 0
    THEN NewTarget ELSE rest

\* Mutant: arrival is at the very target, which a creature may step over.
ArrivedExactly(c) == c.pos = c.target

Arrived(c) == Within(c.pos, c.target, Arrival - 1)

\* The entities that c may become.  A sentinel is replaced by a random value.
AiSteps(c) ==
    IF c.target # NoTarget
    THEN IF Arrived(c) THEN {Pausing(c, r) : r \in Pauses} ELSE {Walking(c, c.target)}
    ELSE CASE NextRest(c) = NewTarget -> {Walking(c, t) : t \in Targets(c)}
           [] NextRest(c) = NewPause -> {Pausing(c, r) : r \in Pauses}
           [] OTHER -> {Pausing(c, NextRest(c))}

Ai(h) ==
    /\ Visit("ai", h)
    /\ \E c \in AiSteps(world[h]) : world' = [world EXCEPT ![h] = c]
    /\ UNCHANGED <<entityMap, index, connections, respawns, nextMob, entered>>

\* gen_range(0.0..wander_radius) panics on an empty range, and ends the thread.
AiPanics(h) ==
    /\ stage = "ai"
    /\ h \in todo
    /\ world[h].target = NoTarget
    /\ NextRest(world[h]) = NewTarget
    /\ WanderRadius[world[h].spawn] = 0
    /\ stage' = "panicked"
    /\ UNCHANGED <<todo, structures, respawns, nextMob, entered>>

\* Mutant: timers do not run.
TimerStopped(r) == r

TimerStep(r) == [r EXCEPT !.timer = @ - 1]

\* step_timers: an entry whose time is up leaves respawns when it is visited.
StartTimers ==
    LET stepped == [e \in DOMAIN respawns |-> TimerStep(respawns[e])] IN
    /\ Stage("ai", "timers", {e \in DOMAIN stepped : stepped[e].timer <= 0})
    /\ respawns' = stepped
    /\ UNCHANGED <<structures, nextMob, entered>>

\* Mutant: the creature comes back under its old id.
ReusedId(e) == e

FreshId(e) == nextMob

\* spawn_creature; validate_world_config has checked that its definition exists.
Respawn(e) ==
    LET s == respawns[e].spawn IN
    /\ Visit("timers", e)
    /\ nextMob' = nextMob + 1
    /\ respawns' = Drop(respawns, e)
    /\ \E rest \in Rests(s) : Spawn(Entity(FreshId(e), s, SpawnPos[s], rest))
    /\ UNCHANGED <<connections, entered>>

\* Mutant: a channel that has hung up counts as full.
HungUpNever == {}

HungUp == {p \in DOMAIN connections : connections[p] = "gone"}

\* dispatch_snapshots: try_send to every player, then visit those who hung up.
Dispatch ==
    /\ Stage("timers", "prune", HungUp)
    /\ connections' = [p \in DOMAIN connections |->
                          IF connections[p] = "room" THEN "full" ELSE connections[p]]
    /\ UNCHANGED <<world, entityMap, index, respawns, nextMob, entered>>

Prune(p) ==
    /\ Visit("prune", p)
    /\ RemoveEntity(p)
    /\ UNCHANGED <<respawns, nextMob, entered>>

EndTick ==
    /\ Stage("prune", "drain", {})
    /\ UNCHANGED <<structures, respawns, nextMob, entered>>
------------------------------------------------------------------------------
(***************************************************************************)
(* The far end of a snapshot channel.                                      *)
(***************************************************************************)
ChannelChanges(p) ==
    /\ p \in DOMAIN connections
    /\ connections[p] # "gone"
    /\ \E c \in {"room", "gone"} : connections' = [connections EXCEPT ![p] = c]
    /\ UNCHANGED <<stage, todo, world, entityMap, index, respawns, nextMob, entered>>
------------------------------------------------------------------------------
Command ==
    \/ \E p \in PlayerIds :
          \/ \E at \in Entries : PlayerEnter(p, at)
          \/ PlayerLeave(p)
          \/ \E d \in Directions, speed \in Speeds : MoveInput(p, d, speed)
    \/ \E e \in DOMAIN entityMap : KillCreature(e)

Tick ==
    \/ StartTick
    \/ \E h \in todo : Move(h)
    \/ StartAi
    \/ \E h \in todo : Ai(h) \/ AiPanics(h)
    \/ StartTimers
    \/ \E e \in todo : Respawn(e)
    \/ Dispatch
    \/ \E p \in todo : Prune(p)
    \/ EndTick

Next == Command \/ Tick \/ \E p \in PlayerIds : ChannelChanges(p)

Spec == Init /\ [][Next]_vars

\* The zone thread ticks on.
FairSpec == Spec /\ WF_vars(Tick)
------------------------------------------------------------------------------
(***************************************************************************)
(* Properties.                                                             *)
(***************************************************************************)
Ids == PlayerIds \cup {e \in Nat : e >= MobBase}

Entities ==
    [id : Ids, spawn : Spawns \cup {NoSpawn}, pos : Area, vel : Int \X Int,
     rest : Int \cup {Forever}, target : (Int \X Int) \cup {NoTarget}]

\* A function on a part of S.
PartialFcn(f, S, T) == DOMAIN f \subseteq S /\ f \in [DOMAIN f -> T]

TypeOK ==
    /\ stage \in {"drain", "move", "ai", "timers", "prune", "panicked"}
    /\ stage = "move" => todo \subseteq DOMAIN world
    /\ stage = "ai" => todo \subseteq {h \in DOMAIN world : IsCreature(h)}
    /\ stage = "timers" => todo \subseteq DOMAIN respawns
    /\ stage = "prune" => todo \subseteq PlayerIds
    /\ PartialFcn(world, Handles, Entities)
    /\ PartialFcn(entityMap, Ids, Handles)
    /\ PartialFcn(connections, PlayerIds, {"room", "full", "gone"})
    /\ PartialFcn(respawns, Ids, [spawn : Spawns, timer : Int])
    /\ nextMob \in Nat
    /\ entered \subseteq PlayerIds

Position == [e \in DOMAIN entityMap |-> world[entityMap[e]].pos]

\* Handles and ids name the same entities, one to one ...
MapAgrees ==
    /\ \A e \in DOMAIN entityMap :
          entityMap[e] \in DOMAIN world /\ world[entityMap[e]].id = e
    /\ \A h \in DOMAIN world :
          world[h].id \in DOMAIN entityMap /\ entityMap[world[h].id] = h

\* ... the index holds each of them once, in the cell of its position ...
IndexAgrees == index = IndexOf(Position)

\* ... and the players among them are those who have a snapshot channel.
ConnectionsAgree ==
    DOMAIN connections = {world[h].id : h \in {h \in DOMAIN world : ~ IsCreature(h)}}

\* The four structures that describe an entity agree at every step of every
\* command and tick: no ghost, no entity that nobody can see or move, no player
\* without snapshots.
Agreement == MapAgrees /\ IndexAgrees /\ ConnectionsAgree

\* An id is fresh when its entity appears, which is what keeps the map one to one:
\* a creature's comes from the counter, a player's from the listener, and the id of
\* a creature that died names nobody any more.
Fresh ==
    /\ nextMob >= MobBase
    /\ \A e \in DOMAIN entityMap :
          IF IsCreature(entityMap[e]) THEN e \in MobBase .. nextMob - 1 ELSE e \in entered
    /\ DOMAIN respawns \subseteq (MobBase .. nextMob - 1) \ DOMAIN entityMap

IInv == TypeOK /\ Agreement /\ Fresh

\* The ids of players stay below those of creatures: the listener has not yet
\* counted to MobBase.
Partitioned == \A p \in PlayerIds : p \in Nat /\ p < MobBase

\* build_snapshot for player p, as entries of the index.
Snapshot(p) ==
    LET here == world[entityMap[p]].pos
        candidates == QueryRadius(index, here, Aoi)
    IN Restrict(candidates,
                {x \in DOMAIN candidates :
                    /\ x[2] \in DOMAIN entityMap
                    /\ Within(here, world[entityMap[x[2]]].pos, Aoi)})

\* A snapshot holds the player and whoever is within the radius, each once, and
\* nobody else, whatever has moved, died or left before.
SnapshotExact ==
    \A p \in DOMAIN connections :
        LET here == world[entityMap[p]].pos
            near == {h \in DOMAIN world : Within(here, world[h].pos, Aoi)}
        IN Snapshot(p) = SetToBag({<<CellOf(world[h].pos), world[h].id>> : h \in near})

Alive(s) == {h \in DOMAIN world : world[h].spawn = s}
Pending(s) == {e \in DOMAIN respawns : respawns[e].spawn = s}

\* A spawn point has one creature, alive or waiting to come back: kills and
\* respawns neither lose nor multiply creatures.
CreaturesKept ==
    \A s \in Spawns :
        \/ \E h \in DOMAIN world : Alive(s) = {h} /\ Pending(s) = {}
        \/ \E e \in DOMAIN respawns : Pending(s) = {e} /\ Alive(s) = {}

\* A wandering creature stays near its spawn point: within the wander radius and
\* one step that it may go too far.
WanderersStayNear ==
    \A h \in DOMAIN world : IsCreature(h) =>
        LET s == world[h].spawn
        IN Within(SpawnPos[s], world[h].pos, WanderRadius[s] + MoveSpeed[s])

\* On the row of spawn point s, and no further from it than r.
OnRow(s, p, r) == p[2] = SpawnPos[s][2] /\ p[1] - SpawnPos[s][1] \in -r .. r

\* Creature c and its target are near its spawn point, and it walks only to a target.
NearSpawn(c) ==
    /\ OnRow(c.spawn, c.pos, WanderRadius[c.spawn] + MoveSpeed[c.spawn])
    /\ c.target = NoTarget => c.vel = Zero
    /\ c.target # NoTarget => OnRow(c.spawn, c.target, WanderRadius[c.spawn])

HeadsForTarget(c) == c.vel = Zero \/ c.vel = Toward(c.pos, c.target, c.spawn)

\* The velocity of h may have been chosen at another place than where h stands:
\* h has moved, and its AI has not looked at it since.
HasMoved(h) ==
    \/ stage = "move" /\ h \notin todo
    \/ stage = "ai" /\ h \in todo
    \/ stage = "panicked"

\* What keeps a creature near its spawn point: when it moves, it stands still or
\* heads from where it is for a target within its radius.
WalksStraight ==
    \A h \in DOMAIN world : IsCreature(h) =>
        NearSpawn(world[h]) /\ (HasMoved(h) \/ HeadsForTarget(world[h]))

\* What a zone promises about its entities, without its structures.
Table == INSTANCE EntityTable WITH
    Places <- Area,
    where <- Position,
    used <- entered \cup MobBase .. nextMob - 1

ImplementsEntityTable == Table!Spec

\* As long as the zone's thread runs, a creature that has died comes back.
DeadReturn ==
    \A e \in MobBase .. MobBase + MaxSpawned - 1 :
        e \in DOMAIN respawns ~> e \notin DOMAIN respawns \/ stage = "panicked"

\* The creatures of spawn point s move, and by less than the diameter of the
\* circle in which they have arrived: they cannot step over it.
CanArrive(s) == 0 < MoveSpeed[s] /\ MoveSpeed[s] < 2 * Arrival

\* A wandering creature whose step is neither zero nor too long (CanArrive)
\* arrives, on the tick that a respawn or a kill falls into as on any other: it
\* does not walk on for ever or run up and down around its target.  Of the speeds
\* that validate_world_config lets through the claim leaves out 0 and those from
\* 40 units a second on, with which a creature may walk for ever.
WanderersArrive ==
    LET Walks(h) == h \in DOMAIN world /\ world[h].target # NoTarget
    IN \A h \in Handles :
          Walks(h) /\ CanArrive(world[h].spawn) ~> ~ Walks(h) \/ stage = "panicked"

\* A player whose connection task has gone leaves the zone, without a
\* PlayerLeave.
HungUpLeave ==
    \A p \in PlayerIds :
        p \in DOMAIN connections /\ connections[p] = "gone" ~>
            p \notin DOMAIN entityMap \/ stage = "panicked"
=============================================================================

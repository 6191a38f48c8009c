----------------------------- MODULE ZoneProofs -----------------------------
(***************************************************************************)
(* The operations of the spatial index keep it the index of the positions, *)
(* and the structures of a zone agree, for every world, and implement the  *)
(* table of entities; kills and respawns keep one creature for each spawn  *)
(* point, and the AI keeps it near.  The theorems of the zone are about    *)
(* one whose player ids stay below its creature ids (Partitioned).         *)
(***************************************************************************)
EXTENDS Zone, TLAPS

\* Inserting an absent entity gives the index of the positions with it.
THEOREM InsertIndex ==
    ASSUME NEW pos, NEW e, NEW p, e \notin DOMAIN pos
    PROVE  Insert(IndexOf(pos), e, p) = IndexOf(Put(pos, e, p))
<1> DEFINE new == Put(pos, e, p)
<1>1. /\ DOMAIN new = DOMAIN pos \cup {e}
      /\ new[e] = p
      /\ \A x \in DOMAIN pos : new[x] = pos[x]
  BY DEF Put
<1>2. BagAdd(IndexOf(pos).cells, <<CellOf(p), e>>) = IndexOf(new).cells
  <2> DEFINE S == {<<CellOf(pos[x]), x>> : x \in DOMAIN pos}
  <2>1. <<CellOf(p), e>> \notin S
    OBVIOUS
  <2>2. {<<CellOf(new[x]), x>> : x \in DOMAIN new} = S \cup {<<CellOf(p), e>>}
    BY <1>1
  <2>3. IndexOf(pos).cells = [x \in S |-> 1]
    BY DEF IndexOf, SetToBag
  <2>4. IndexOf(new).cells = [x \in S \cup {<<CellOf(p), e>>} |-> 1]
    BY <2>2 DEF IndexOf, SetToBag
  <2> HIDE DEF S, new
  <2> QED BY <2>1, <2>3, <2>4 DEF BagAdd
<1>3. Put(IndexOf(pos).entityCells, e, CellOf(p)) = IndexOf(new).entityCells
  BY <1>1 DEF IndexOf, Put
<1> QED BY <1>2, <1>3 DEF Insert, IndexOf

\* Removing an entity, present or not, gives the index of the positions without it.
THEOREM RemoveIndex ==
    ASSUME NEW pos, NEW e
    PROVE  Remove(IndexOf(pos), e) = IndexOf(Drop(pos, e))
<1> DEFINE new == Drop(pos, e)
<1>1. /\ DOMAIN new = DOMAIN pos \ {e}
      /\ \A x \in DOMAIN new : new[x] = pos[x]
  BY DEF Drop, Restrict
<1> DEFINE S == {<<CellOf(pos[x]), x>> : x \in DOMAIN pos}
           T == {<<CellOf(new[x]), x>> : x \in DOMAIN new}
<1>2. /\ IndexOf(pos).cells = [x \in S |-> 1]
      /\ IndexOf(new).cells = [x \in T |-> 1]
  BY DEF IndexOf, SetToBag
<1>3. CASE e \in DOMAIN pos
  <2>1. T = S \ {<<CellOf(pos[e]), e>>}
    BY <1>1
  <2>2. BagRemoveAll(IndexOf(pos).cells, <<CellOf(pos[e]), e>>) = IndexOf(new).cells
    <3> HIDE DEF S, T, new
    <3> QED BY <1>2, <2>1 DEF BagRemoveAll
  <2>3. IndexOf(pos).entityCells[e] = CellOf(pos[e]) /\ e \in DOMAIN IndexOf(pos).entityCells
    BY <1>3 DEF IndexOf
  <2>4. Drop(IndexOf(pos).entityCells, e) = IndexOf(new).entityCells
    BY <1>1 DEF IndexOf, Drop, Restrict
  <2> QED BY <2>2, <2>3, <2>4 DEF Remove, IndexOf
<1>4. CASE e \notin DOMAIN pos
  <2>1. DOMAIN new = DOMAIN pos /\ \A x \in DOMAIN pos : new[x] = pos[x]
    BY <1>1, <1>4
  <2>2. S = T
    BY <2>1
  <2>3. IndexOf(pos).entityCells = IndexOf(new).entityCells
    BY <2>1 DEF IndexOf
  <2>4. Remove(IndexOf(pos), e) = IndexOf(pos)
    BY <1>4 DEF Remove, IndexOf
  <2>5. IndexOf(pos).cells = IndexOf(new).cells
    <3> HIDE DEF S, T, new
    <3> QED BY <1>2, <2>2
  <2> QED BY <2>3, <2>4, <2>5 DEF IndexOf
<1> QED BY <1>3, <1>4

\* Updating an entity that is told its old position gives the index of the new
\* positions.
THEOREM UpdateIndex ==
    ASSUME NEW pos, NEW e \in DOMAIN pos, NEW p
    PROVE  Update(IndexOf(pos), e, pos[e], p) = IndexOf(Put(pos, e, p))
<1> DEFINE new == Put(pos, e, p)
<1>1. /\ DOMAIN new = DOMAIN pos
      /\ new[e] = p
      /\ \A x \in DOMAIN pos \ {e} : new[x] = pos[x]
  BY DEF Put
<1> DEFINE S == {<<CellOf(pos[x]), x>> : x \in DOMAIN pos}
           T == {<<CellOf(new[x]), x>> : x \in DOMAIN new}
<1>2. /\ IndexOf(pos).cells = [x \in S |-> 1]
      /\ IndexOf(new).cells = [x \in T |-> 1]
  BY DEF IndexOf, SetToBag
<1>3. T = (S \ {<<CellOf(pos[e]), e>>}) \cup {<<CellOf(p), e>>}
  BY <1>1
<1>4. CASE CellOf(pos[e]) = CellOf(p)
  <2>1. \A x \in DOMAIN pos : CellOf(new[x]) = CellOf(pos[x])
    BY <1>1, <1>4
  <2>2. IndexOf(pos).entityCells = IndexOf(new).entityCells
    BY <1>1, <2>1 DEF IndexOf
  <2>3. S = T
    BY <1>1, <2>1
  <2>4. IndexOf(pos).cells = IndexOf(new).cells
    <3> HIDE DEF S, T, new
    <3> QED BY <1>2, <2>3
  <2> QED BY <1>4, <2>2, <2>4 DEF Update, IndexOf
<1>5. CASE CellOf(pos[e]) # CellOf(p)
  <2> DEFINE cells == BagRemoveAll(IndexOf(pos).cells, <<CellOf(pos[e]), e>>)
  <2>1. cells = [x \in S \ {<<CellOf(pos[e]), e>>} |-> 1]
    <3> HIDE DEF S
    <3> QED BY <1>2 DEF BagRemoveAll
  <2>2. <<CellOf(p), e>> \notin S \ {<<CellOf(pos[e]), e>>}
    BY <1>5
  <2>3. BagAdd(cells, <<CellOf(p), e>>) = IndexOf(new).cells
    <3> HIDE DEF cells, S, T, new
    <3> QED BY <1>2, <1>3, <2>1, <2>2 DEF BagAdd
  <2>4. Put(IndexOf(pos).entityCells, e, CellOf(p)) = IndexOf(new).entityCells
    BY <1>1 DEF IndexOf, Put
  <2>5. Update(IndexOf(pos), e, pos[e], p)
          = [cells |-> BagAdd(cells, <<CellOf(p), e>>),
             entityCells |-> Put(IndexOf(pos).entityCells, e, CellOf(p))]
    BY <1>5 DEF Update, Insert, IndexOf
  <2> QED BY <2>3, <2>4, <2>5 DEF IndexOf
<1> QED BY <1>4, <1>5

\* Division by the cell size is monotonic, for negative coordinates too.
LEMMA DivMonotonic ==
    ASSUME NEW a \in Int, NEW b \in Int, a <= b
    PROVE  a \div CellSize <= b \div CellSize
<1> DEFINE m == a \div CellSize
           n == b \div CellSize
<1>1. CellSize \in Int /\ CellSize > 0
  BY CellSizeAssumption
<1>2. m \in Int /\ CellSize * m <= a /\ a < CellSize * (m + 1)
  BY <1>1
<1>3. n \in Int /\ CellSize * n <= b /\ b < CellSize * (n + 1)
  BY <1>1
<1> HIDE DEF m, n
<1>4. CellSize * m < CellSize * (n + 1)
  <2>1. CellSize * m \in Int /\ CellSize * (n + 1) \in Int
    BY <1>1, <1>2, <1>3
  <2> QED BY <1>2, <1>3, <2>1
<1>5. SUFFICES m <= n
  BY DEF m, n
<1>6. CASE m >= n + 1
  <2>1. CellSize * m >= CellSize * (n + 1)
    BY <1>1, <1>2, <1>3, <1>6
  <2>2. CellSize * m \in Int /\ CellSize * (n + 1) \in Int
    BY <1>1, <1>2, <1>3
  <2> QED BY <1>4, <2>1, <2>2
<1> QED BY <1>2, <1>3, <1>6

\* A leg of a right triangle is no longer than what bounds the hypotenuse.
LEMMA LegBound ==
    ASSUME NEW x \in Int, NEW y \in Int, NEW r \in Nat, x * x + y * y <= r * r
    PROVE  -r <= x /\ x <= r
<1>1. x * x \in Int /\ y * y \in Int /\ r * r \in Int /\ y * y >= 0
  OBVIOUS
<1>2. x * x <= r * r
  BY <1>1
<1>3. CASE x >= r + 1
  <2>1. x * x >= (r + 1) * (r + 1)
    BY <1>3
  <2>2. (r + 1) * (r + 1) = r * r + 2 * r + 1
    OBVIOUS
  <2> QED BY <1>1, <1>2, <2>1, <2>2
<1>4. CASE x <= -r - 1
  <2>1. x * x >= (r + 1) * (r + 1)
    BY <1>4
  <2>2. (r + 1) * (r + 1) = r * r + 2 * r + 1
    OBVIOUS
  <2> QED BY <1>1, <1>2, <2>1, <2>2
<1> QED BY <1>3, <1>4

\* The cells that a query visits hold every point within the radius: with the
\* index in agreement, no entity near a player is missed.
THEOREM OverlappedCoversCircle ==
    ASSUME NEW p \in Int \X Int, NEW q \in Int \X Int, NEW r \in Nat, Within(p, q, r)
    PROVE  CellOf(q) \in Overlapped(p, r)
<1> DEFINE x == q[1] - p[1]
           y == q[2] - p[2]
<1>1. x \in Int /\ y \in Int /\ x * x + y * y <= r * r /\ y * y + x * x <= r * r
  BY DEF Within
<1> HIDE DEF x, y
<1>2. -r <= x /\ x <= r /\ -r <= y /\ y <= r
  BY <1>1, LegBound
<1>3. /\ p[1] - r <= q[1] /\ q[1] <= p[1] + r
      /\ p[2] - r <= q[2] /\ q[2] <= p[2] + r
  BY <1>2 DEF x, y
<1>4. \A c, d \in Int : c <= d => c \div CellSize <= d \div CellSize
  BY DivMonotonic
<1>5. \A c \in Int : c \div CellSize \in Int
  BY CellSizeAssumption
<1>6. q[1] \div CellSize \in (p[1] - r) \div CellSize .. (p[1] + r) \div CellSize
  BY <1>3, <1>4, <1>5
<1>7. q[2] \div CellSize \in (p[2] - r) \div CellSize .. (p[2] + r) \div CellSize
  BY <1>3, <1>4, <1>5
<1> QED BY <1>6, <1>7 DEF CellOf, Overlapped
------------------------------------------------------------------------------

\* A partial function extended by a point of its domain and range is still one.
LEMMA PutPartial ==
    ASSUME NEW f, NEW S, NEW T, PartialFcn(f, S, T), NEW k \in S, NEW v \in T
    PROVE  PartialFcn(Put(f, k, v), S, T)
BY DEF PartialFcn, Put

\* A partial function without a point is still one.
LEMMA DropPartial ==
    ASSUME NEW f, NEW S, NEW T, PartialFcn(f, S, T), NEW k
    PROVE  PartialFcn(Drop(f, k), S, T)
BY DEF PartialFcn, Drop, Restrict

\* An entity of the code's three kinds of spawn is well typed.
LEMMA EntityType ==
    ASSUME NEW id \in Ids, NEW s \in Spawns \cup {NoSpawn}, NEW p \in Area,
           NEW rest \in Int \cup {Forever}
    PROVE  /\ Entity(id, s, p, rest) \in Entities
           /\ Entity(id, s, p, rest).id = id
           /\ Entity(id, s, p, rest).spawn = s
           /\ Entity(id, s, p, rest).pos = p
BY DEF Entity, Entities, Zero

\* The initial world is in agreement.
LEMMA InitIInv == Init => IInv
<1> SUFFICES ASSUME Init PROVE IInv
  OBVIOUS
<1> USE DEF Spawns
<1> DEFINE S == 1 .. NumSpawns
           B == MobBase
<1>1. B \in Nat /\ NumSpawns \in Nat /\ S \subseteq Handles /\ nextMob = B + NumSpawns
  BY IdsAssumption, SpawnsAssumption DEF Init, MobBase
<1>2. PICK rest \in [S -> Pauses \cup {Forever}] :
         world = [s \in S |-> Entity(B + s - 1, s, SpawnPos[s], rest[s])]
  BY DEF Init
<1>3. \A s \in S : /\ B + s - 1 \in Ids
                   /\ SpawnPos[s] \in Area
                   /\ rest[s] \in Int \cup {Forever}
  <2> SUFFICES ASSUME NEW s \in S
               PROVE  B + s - 1 \in Ids /\ SpawnPos[s] \in Area /\ rest[s] \in Int \cup {Forever}
    OBVIOUS
  <2>1. s \in Int /\ s >= 1
    BY <1>1
  <2>2. B + s - 1 \in Nat /\ B + s - 1 >= B
    BY <1>1, <2>1
  <2>3. SpawnPos[s] \in Area
    BY SpawnsAssumption
  <2>4. rest[s] \in Pauses \cup {Forever}
    OBVIOUS
  <2> QED BY <2>2, <2>3, <2>4, TimesAssumption DEF Ids
<1>4. \A s \in S : /\ world[s] \in Entities
                   /\ world[s].id = B + s - 1
                   /\ world[s].spawn = s
                   /\ world[s].pos = SpawnPos[s]
  <2> SUFFICES ASSUME NEW s \in S
               PROVE  /\ world[s] \in Entities
                      /\ world[s].id = B + s - 1
                      /\ world[s].spawn = s
                      /\ world[s].pos = SpawnPos[s]
    OBVIOUS
  <2>1. world[s] = Entity(B + s - 1, s, SpawnPos[s], rest[s])
    BY <1>2
  <2>2. s \in Spawns \cup {NoSpawn} /\ B + s - 1 \in Ids /\ SpawnPos[s] \in Area
          /\ rest[s] \in Int \cup {Forever}
    BY <1>3
  <2> HIDE DEF Spawns, S, B
  <2> QED BY <2>1, <2>2 DEF Entity, Entities, Zero
<1>5. DOMAIN world = S
  BY <1>2
<1>6. DOMAIN entityMap = B .. nextMob - 1 /\ \A e \in B .. nextMob - 1 : entityMap[e] = e - B + 1
  BY DEF Init
<1>7. \A e \in B .. nextMob - 1 : e - B + 1 \in S /\ e \in Ids /\ B + (e - B + 1) - 1 = e
  BY <1>1 DEF Ids
<1>8. \A s \in S : B + s - 1 \in B .. nextMob - 1 /\ (B + s - 1) - B + 1 = s
  BY <1>1
<1> HIDE DEF B
<1>9. TypeOK
  <2>1. PartialFcn(world, Handles, Entities)
    BY <1>1, <1>2, <1>4, <1>5 DEF PartialFcn
  <2>2. PartialFcn(entityMap, Ids, Handles)
    <3>1. entityMap = [e \in B .. nextMob - 1 |-> e - B + 1]
      BY DEF Init, B
    <3> QED BY <3>1, <1>1, <1>7 DEF PartialFcn
  <2>3. /\ PartialFcn(connections, PlayerIds, {"room", "full", "gone"})
        /\ PartialFcn(respawns, Ids, [spawn : Spawns, timer : Int])
    BY DEF Init, PartialFcn
  <2>4. nextMob \in Nat
    BY <1>1
  <2> QED BY <2>1, <2>2, <2>3, <2>4 DEF TypeOK, Init
<1>10. MapAgrees
  BY <1>4, <1>5, <1>6, <1>7, <1>8 DEF MapAgrees
<1>11. IndexAgrees
  <2>1. \A e \in B .. nextMob - 1 : world[entityMap[e]].pos = SpawnPos[e - B + 1]
    BY <1>4, <1>6, <1>7
  <2>2. Position = [e \in B .. nextMob - 1 |-> SpawnPos[e - B + 1]]
    BY <2>1, <1>6 DEF Position
  <2> QED BY <2>2 DEF Init, IndexAgrees, B
<1>12. ConnectionsAgree
  <2>1. \A h \in DOMAIN world : IsCreature(h)
    BY <1>4, <1>5, SpawnsAssumption DEF IsCreature
  <2> QED BY <2>1 DEF Init, ConnectionsAgree
<1>13. Fresh
  <2>1. \A e \in DOMAIN entityMap : IsCreature(entityMap[e]) /\ e \in B .. nextMob - 1
    BY <1>4, <1>6, <1>7, SpawnsAssumption DEF IsCreature
  <2>2. nextMob >= MobBase /\ DOMAIN respawns = {}
    BY <1>1 DEF Init, B
  <2> QED BY <2>1, <2>2 DEF Fresh, B
<1> QED BY <1>9, <1>10, <1>11, <1>12, <1>13 DEF IInv, Agreement
------------------------------------------------------------------------------
\* The players of the world, as ConnectionsAgree sees them.
Players == {world[h].id : h \in {h \in DOMAIN world : ~ IsCreature(h)}}

\* What a step needs to keep of the structures.
Shape ==
    /\ PartialFcn(world, Handles, Entities)
    /\ PartialFcn(entityMap, Ids, Handles)
    /\ MapAgrees
    /\ IndexAgrees

\* The invariant gives the shape of the three structures of an entity.
LEMMA IInvShape == IInv => Shape
BY DEF IInv, TypeOK, Agreement, Shape

\* An entity with a new id joins the map, the index and the world.
LEMMA SpawnShape ==
    ASSUME Shape, NEW n \in Entities, n.id \notin DOMAIN entityMap, Spawn(n)
    PROVE  /\ Shape'
           /\ Position' = Put(Position, n.id, n.pos)
           /\ DOMAIN entityMap' = DOMAIN entityMap \cup {n.id}
           /\ \A e \in DOMAIN entityMap :
                 entityMap'[e] = entityMap[e] /\ world'[entityMap'[e]] = world[entityMap[e]]
           /\ world'[entityMap'[n.id]] = n
           /\ DOMAIN world \subseteq DOMAIN world'
           /\ \A h \in DOMAIN world : world'[h] = world[h]
           /\ Players' = IF n.spawn = NoSpawn THEN Players \cup {n.id} ELSE Players
<1> DEFINE h == CHOOSE h \in Handles : h \notin DOMAIN world
<1>1. h \in Handles /\ h \notin DOMAIN world
  <2>1. DOMAIN world \subseteq Handles /\ DOMAIN world # Handles
    BY DEF Shape, PartialFcn, Spawn
  <2> QED BY <2>1
<1>2. /\ world' = Put(world, h, n)
      /\ entityMap' = Put(entityMap, n.id, h)
      /\ index' = Insert(index, n.id, n.pos)
  BY DEF Spawn
<1> HIDE DEF h
<1>3. n.id \in Ids
  BY DEF Entities
<1>4. /\ DOMAIN world' = DOMAIN world \cup {h}
      /\ world'[h] = n
      /\ \A g \in DOMAIN world : world'[g] = world[g]
  BY <1>1, <1>2 DEF Put
<1>5. /\ DOMAIN entityMap' = DOMAIN entityMap \cup {n.id}
      /\ entityMap'[n.id] = h
      /\ \A e \in DOMAIN entityMap : entityMap'[e] = entityMap[e]
  BY <1>2 DEF Put
<1>6. MapAgrees'
  BY <1>1, <1>4, <1>5 DEF Shape, MapAgrees
<1>7. Position' = Put(Position, n.id, n.pos)
  <2>1. \A e \in DOMAIN entityMap : world'[entityMap'[e]].pos = world[entityMap[e]].pos
    BY <1>4, <1>5 DEF Shape, MapAgrees
  <2> QED BY <1>4, <1>5, <2>1 DEF Position, Put
<1>8. IndexAgrees'
  <2>1. n.id \notin DOMAIN Position
    BY DEF Position
  <2>2. index' = Insert(IndexOf(Position), n.id, n.pos)
    BY <1>2 DEF Shape, IndexAgrees
  <2> QED BY <1>7, <2>1, <2>2, InsertIndex DEF IndexAgrees
<1>9. PartialFcn(world, Handles, Entities)' /\ PartialFcn(entityMap, Ids, Handles)'
  BY <1>1, <1>2, <1>3, PutPartial DEF Shape
<1>10. Players' = IF n.spawn = NoSpawn THEN Players \cup {n.id} ELSE Players
  BY <1>1, <1>4 DEF Players, IsCreature
<1>11. \A e \in DOMAIN entityMap : world'[entityMap'[e]] = world[entityMap[e]]
  BY <1>4, <1>5 DEF Shape, MapAgrees
<1> QED BY <1>4, <1>5, <1>6, <1>7, <1>8, <1>9, <1>10, <1>11 DEF Shape

\* An entity leaves the map, the index and the world.
LEMMA DespawnShape ==
    ASSUME Shape, NEW e \in DOMAIN entityMap, Despawn(e)
    PROVE  /\ Shape'
           /\ Position' = Drop(Position, e)
           /\ DOMAIN entityMap' = DOMAIN entityMap \ {e}
           /\ \A d \in DOMAIN entityMap' :
                 entityMap'[d] = entityMap[d] /\ world'[entityMap'[d]] = world[entityMap[d]]
           /\ Players' = Players \ {e}
<1> DEFINE h == entityMap[e]
<1>1. /\ world' = Drop(world, h)
      /\ entityMap' = Drop(entityMap, e)
      /\ index' = Remove(index, e)
  BY DEF Despawn
<1>2. h \in DOMAIN world /\ world[h].id = e
  BY DEF Shape, MapAgrees
<1>3. /\ DOMAIN world' = DOMAIN world \ {h}
      /\ \A g \in DOMAIN world' : world'[g] = world[g]
  BY <1>1 DEF Drop, Restrict
<1>4. /\ DOMAIN entityMap' = DOMAIN entityMap \ {e}
      /\ \A d \in DOMAIN entityMap' : entityMap'[d] = entityMap[d]
  BY <1>1 DEF Drop, Restrict
<1>5. \A d \in DOMAIN entityMap' : entityMap'[d] # h /\ entityMap'[d] \in DOMAIN world'
  BY <1>2, <1>3, <1>4 DEF Shape, MapAgrees
<1>6. \A g \in DOMAIN world' : world[g].id # e
  BY <1>2, <1>3 DEF Shape, MapAgrees
<1> HIDE DEF h
<1>7. MapAgrees'
  BY <1>3, <1>4, <1>5, <1>6 DEF Shape, MapAgrees
<1>8. \A d \in DOMAIN entityMap' : world'[entityMap'[d]] = world[entityMap[d]]
  BY <1>3, <1>4, <1>5
<1>9. Position' = Drop(Position, e)
  BY <1>4, <1>8 DEF Position, Drop, Restrict
<1>10. IndexAgrees'
  BY <1>1, <1>9, RemoveIndex DEF Shape, IndexAgrees
<1>11. PartialFcn(world, Handles, Entities)' /\ PartialFcn(entityMap, Ids, Handles)'
  BY <1>1, DropPartial DEF Shape
<1>12. Players' = Players \ {e}
  <2>1. \A g \in DOMAIN world : g # h => world[g].id # e
    BY <1>3, <1>6
  <2> QED BY <1>2, <1>3, <2>1 DEF Players, IsCreature
<1> QED BY <1>4, <1>7, <1>8, <1>9, <1>10, <1>11, <1>12 DEF Shape

\* An entity changes where it stands, and perhaps its place.
LEMMA ReplaceShape ==
    ASSUME Shape, NEW h \in DOMAIN world, NEW c \in Entities,
           c.id = world[h].id, c.spawn = world[h].spawn,
           world' = [world EXCEPT ![h] = c],
           entityMap' = entityMap,
           index' = Update(index, c.id, world[h].pos, c.pos)
    PROVE  /\ Shape'
           /\ Position' = Put(Position, c.id, c.pos)
           /\ c.id \in DOMAIN entityMap
           /\ DOMAIN world' = DOMAIN world
           /\ \A g \in DOMAIN world : IsCreature(g)' = IsCreature(g)
           /\ Players' = Players
<1>1. /\ DOMAIN world' = DOMAIN world
      /\ world'[h] = c
      /\ \A g \in DOMAIN world : g # h => world'[g] = world[g]
  OBVIOUS
<1>2. c.id \in DOMAIN entityMap /\ entityMap[c.id] = h
  BY DEF Shape, MapAgrees
<1>3. \A g \in DOMAIN world : world'[g].id = world[g].id /\ world'[g].spawn = world[g].spawn
  BY <1>1
<1>4. MapAgrees'
  BY <1>1, <1>3 DEF Shape, MapAgrees
<1>5. Position' = Put(Position, c.id, c.pos)
  <2>1. \A e \in DOMAIN entityMap : e # c.id => entityMap[e] # h /\ entityMap[e] \in DOMAIN world
    BY DEF Shape, MapAgrees
  <2>2. \A e \in DOMAIN entityMap :
           world'[entityMap[e]].pos = IF e = c.id THEN c.pos ELSE world[entityMap[e]].pos
    BY <1>1, <1>2, <2>1
  <2> QED BY <1>2, <2>2 DEF Position, Put
<1>6. IndexAgrees'
  <2>1. c.id \in DOMAIN Position /\ Position[c.id] = world[h].pos
    BY <1>2 DEF Position
  <2>2. index' = Update(IndexOf(Position), c.id, Position[c.id], c.pos)
    BY <2>1 DEF Shape, IndexAgrees
  <2> QED BY <1>5, <2>1, <2>2, UpdateIndex DEF IndexAgrees
<1>7. PartialFcn(world, Handles, Entities)'
  BY <1>1 DEF Shape, PartialFcn
<1>8. PartialFcn(entityMap, Ids, Handles)'
  BY DEF Shape, PartialFcn
<1>9. \A g \in DOMAIN world : IsCreature(g)' = IsCreature(g)
  BY <1>3 DEF IsCreature
<1>10. Players' = Players
  BY <1>1, <1>3, <1>9 DEF Players
<1> QED BY <1>1, <1>2, <1>4, <1>5, <1>6, <1>7, <1>8, <1>9, <1>10 DEF Shape

\* An entity that stays in place leaves the positions and the index alone.
LEMMA InPlace ==
    ASSUME Shape, NEW h \in DOMAIN world, NEW c \in Entities,
           c.id = world[h].id, c.pos = world[h].pos
    PROVE  /\ Update(index, c.id, world[h].pos, c.pos) = index
           /\ Put(Position, c.id, c.pos) = Position
<1>1. c.id \in DOMAIN entityMap /\ entityMap[c.id] = h
  BY DEF Shape, MapAgrees
<1>2. c.id \in DOMAIN Position /\ Position[c.id] = c.pos
  BY <1>1 DEF Position
<1> QED BY <1>2 DEF Update, Put, Position

\* A change of the AI's fields keeps an entity's type, id, spawn point and place.
LEMMA FieldTypes ==
    ASSUME NEW c \in Entities
    PROVE  /\ \A r \in Int \cup {Forever} :
                 LET w == [c EXCEPT !.rest = r]
                 IN /\ w \in Entities /\ w.id = c.id /\ w.spawn = c.spawn /\ w.pos = c.pos
                    /\ w.vel = c.vel
           /\ \A t \in (Int \X Int) \cup {NoTarget} :
                 LET w == [c EXCEPT !.target = t]
                 IN /\ w \in Entities /\ w.id = c.id /\ w.spawn = c.spawn /\ w.pos = c.pos
                    /\ w.vel = c.vel
           /\ \A v \in Int \X Int :
                 LET w == [c EXCEPT !.vel = v]
                 IN w \in Entities /\ w.id = c.id /\ w.spawn = c.spawn /\ w.pos = c.pos
BY DEF Entities

\* What the AI makes of a creature is that creature, in its place.
LEMMA AiStepType ==
    ASSUME NEW c \in Entities, c.spawn # NoSpawn, NEW d \in AiSteps(c)
    PROVE  d \in Entities /\ d.id = c.id /\ d.spawn = c.spawn /\ d.pos = c.pos
<1>1. /\ c.pos \in Int \X Int /\ c.spawn \in Spawns
      /\ c.rest \in Int \cup {Forever} /\ c.target \in (Int \X Int) \cup {NoTarget}
  BY PlacesAssumption DEF Entities
<1>2. ASSUME NEW t \in Int \X Int
      PROVE  LET w == Walking(c, t)
             IN w \in Entities /\ w.id = c.id /\ w.spawn = c.spawn /\ w.pos = c.pos
  <2>1. MoveSpeed[c.spawn] \in Int
    BY <1>1, SpawnsAssumption DEF Spawns
  <2>2. \A n \in Int : Sign(n) \in {-1, 0, 1}
    BY DEF Sign
  <2>3. \A n \in {-1, 0, 1}, m \in Int : n * m \in Int
    OBVIOUS
  <2>4. Toward(c.pos, t, c.spawn) \in Int \X Int
    BY <1>1, <2>1, <2>2, <2>3 DEF Toward
  <2> DEFINE v == IF t = c.pos THEN c.vel ELSE Toward(c.pos, t, c.spawn)
             a == [c EXCEPT !.rest = 0]
             b == [a EXCEPT !.target = t]
  <2>5. v \in Int \X Int
    BY <2>4 DEF Entities
  <2>6. a \in Entities /\ a.id = c.id /\ a.spawn = c.spawn /\ a.pos = c.pos
    BY FieldTypes
  <2>7. b \in Entities /\ b.id = c.id /\ b.spawn = c.spawn /\ b.pos = c.pos
    <3> HIDE DEF a
    <3> QED BY <2>6, FieldTypes
  <2>8. Walking(c, t) = [b EXCEPT !.vel = v]
    BY DEF Walking
  <2> HIDE DEF b, v
  <2> QED BY <2>5, <2>7, <2>8, FieldTypes
<1>3. ASSUME NEW r \in Int \cup {Forever}
      PROVE  LET w == Pausing(c, r)
             IN w \in Entities /\ w.id = c.id /\ w.spawn = c.spawn /\ w.pos = c.pos
  <2> DEFINE a == [c EXCEPT !.rest = r]
             b == [a EXCEPT !.target = NoTarget]
  <2>1. a \in Entities /\ a.id = c.id /\ a.spawn = c.spawn /\ a.pos = c.pos
    BY FieldTypes
  <2>2. b \in Entities /\ b.id = c.id /\ b.spawn = c.spawn /\ b.pos = c.pos
    <3> HIDE DEF a
    <3> QED BY <2>1, FieldTypes
  <2>3. Pausing(c, r) = [b EXCEPT !.vel = Zero]
    BY DEF Pausing
  <2>4. Zero \in Int \X Int
    BY DEF Zero
  <2> HIDE DEF b
  <2> QED BY <2>2, <2>3, <2>4, FieldTypes
<1>4. NextRest(c) \in Int \cup {Forever}
  BY <1>1, TimesAssumption DEF NextRest
<1>5. Targets(c) \subseteq Int \X Int
  <2>1. /\ SpawnPos[c.spawn] \in Int \X Int
        /\ WanderRadius[c.spawn] \in Nat
    BY <1>1, SpawnsAssumption, PlacesAssumption DEF Spawns
  <2> QED BY <2>1 DEF Targets, Around
<1>6. Pauses \subseteq Int \cup {Forever}
  BY TimesAssumption
<1>7. \/ \E t \in Int \X Int : d = Walking(c, t)
      \/ \E r \in Int \cup {Forever} : d = Pausing(c, r)
  <2>1. CASE c.target # NoTarget
    BY <1>1, <1>6, <2>1 DEF AiSteps
  <2>2. CASE c.target = NoTarget
    BY <1>4, <1>5, <1>6, <2>2 DEF AiSteps
  <2> QED BY <2>1, <2>2
<1> QED BY <1>2, <1>3, <1>7
------------------------------------------------------------------------------
\* What remains of the inductive invariant beside the shape.
StageType ==
    /\ stage \in {"drain", "move", "ai", "timers", "prune", "panicked"}
    /\ stage = "move" => todo \subseteq DOMAIN world
    /\ stage = "ai" => todo \subseteq {h \in DOMAIN world : IsCreature(h)}
    /\ stage = "timers" => todo \subseteq DOMAIN respawns
    /\ stage = "prune" => todo \subseteq PlayerIds

OthersType ==
    /\ PartialFcn(connections, PlayerIds, {"room", "full", "gone"})
    /\ PartialFcn(respawns, Ids, [spawn : Spawns, timer : Int])
    /\ nextMob \in Nat
    /\ entered \subseteq PlayerIds

\* The invariant splits into parts that the steps disturb separately.
LEMMA IInvParts ==
    IInv <=> Shape /\ StageType /\ OthersType /\ DOMAIN connections = Players /\ Fresh
BY DEF IInv, TypeOK, Agreement, ConnectionsAgree, Shape, StageType, OthersType, Players

\* The parts, after a step, make up the invariant.
LEMMA IInvPartsAfter ==
    ASSUME Shape', StageType', OthersType', DOMAIN connections' = Players', Fresh'
    PROVE  IInv'
BY DEF IInv, TypeOK, Agreement, ConnectionsAgree, Shape, StageType, OthersType, Players

\* No entity has an id that is still to be given away.
LEMMA FreshIds ==
    ASSUME Partitioned, IInv
    PROVE  /\ \A p \in PlayerIds \ entered : p \notin DOMAIN entityMap
           /\ nextMob \notin DOMAIN entityMap
           /\ nextMob \in Ids
<1>1. MobBase \in Nat /\ nextMob \in Nat /\ nextMob >= MobBase
  BY IdsAssumption DEF MobBase, IInv, TypeOK, Fresh
<1>2. \A e \in DOMAIN entityMap : e \in MobBase .. nextMob - 1 \/ e \in entered
  BY DEF IInv, Fresh
<1>3. \A p \in PlayerIds : p \in Nat /\ p < MobBase
  BY DEF Partitioned
<1>4. entered \subseteq PlayerIds
  BY DEF IInv, TypeOK
<1> QED BY <1>1, <1>2, <1>3, <1>4 DEF Ids

\* remove_entity, present or not.
LEMMA RemoveParts ==
    ASSUME IInv, NEW p \in PlayerIds, RemoveEntity(p),
           UNCHANGED <<respawns, nextMob, entered>>
    PROVE  /\ Shape'
           /\ OthersType'
           /\ DOMAIN connections' = Players'
           /\ Fresh'
           /\ p \in DOMAIN entityMap => Position' = Drop(Position, p)
           /\ p \notin DOMAIN entityMap => Position' = Position
<1>1. Shape /\ OthersType /\ DOMAIN connections = Players /\ Fresh
  BY IInvParts
<1>2. DOMAIN connections' = DOMAIN connections \ {p}
  BY DEF RemoveEntity, Drop, Restrict
<1>3. OthersType'
  <2>1. PartialFcn(connections, PlayerIds, {"room", "full", "gone"})'
    BY <1>1, DropPartial DEF OthersType, RemoveEntity
  <2> QED BY <1>1, <2>1 DEF OthersType
<1>4. CASE p \in DOMAIN entityMap
  <2>1. Despawn(p)
    BY <1>4 DEF RemoveEntity
  <2>2. /\ Shape'
        /\ Position' = Drop(Position, p)
        /\ DOMAIN entityMap' = DOMAIN entityMap \ {p}
        /\ \A d \in DOMAIN entityMap' :
              entityMap'[d] = entityMap[d] /\ world'[entityMap'[d]] = world[entityMap[d]]
        /\ Players' = Players \ {p}
    BY <1>1, <1>4, <2>1, DespawnShape
  <2>3. Fresh'
    BY <1>1, <2>2 DEF Fresh, IsCreature
  <2> QED BY <1>1, <1>2, <1>3, <1>4, <2>2, <2>3
<1>5. CASE p \notin DOMAIN entityMap
  <2>1. UNCHANGED <<world, entityMap, index>>
    BY <1>5 DEF RemoveEntity
  <2>2. Players' = Players /\ Shape' /\ Position' = Position /\ Fresh'
    BY <1>1, <2>1 DEF Players, IsCreature, Shape, MapAgrees, IndexAgrees, Position, Fresh
  <2>3. p \notin Players
    BY <1>1, <1>5 DEF Players, Shape, MapAgrees
  <2> QED BY <1>1, <1>2, <1>3, <1>5, <2>2, <2>3
<1> QED BY <1>4, <1>5

\* An entity of the world is replaced by one with its id and spawn point.
LEMMA ReplaceParts ==
    ASSUME IInv, NEW h \in DOMAIN world, NEW c \in Entities,
           c.id = world[h].id, c.spawn = world[h].spawn,
           world' = [world EXCEPT ![h] = c],
           index' = Update(index, c.id, world[h].pos, c.pos),
           UNCHANGED <<entityMap, connections, respawns, nextMob, entered>>
    PROVE  /\ Shape'
           /\ OthersType'
           /\ DOMAIN connections' = Players'
           /\ Fresh'
           /\ Position' = Put(Position, c.id, c.pos)
           /\ c.id \in DOMAIN entityMap
           /\ DOMAIN world' = DOMAIN world
           /\ \A g \in DOMAIN world : IsCreature(g)' = IsCreature(g)
<1>1. Shape /\ OthersType /\ DOMAIN connections = Players /\ Fresh
  BY IInvParts
<1>2. /\ Shape'
      /\ Position' = Put(Position, c.id, c.pos)
      /\ c.id \in DOMAIN entityMap
      /\ DOMAIN world' = DOMAIN world
      /\ \A g \in DOMAIN world : IsCreature(g)' = IsCreature(g)
      /\ Players' = Players
  BY <1>1, ReplaceShape
<1>3. \A e \in DOMAIN entityMap : entityMap[e] \in DOMAIN world
  BY <1>1 DEF Shape, MapAgrees
<1>4. Fresh'
  BY <1>1, <1>2, <1>3 DEF Fresh
<1>5. OthersType'
  BY <1>1 DEF OthersType, PartialFcn
<1> QED BY <1>1, <1>2, <1>4, <1>5

\* admit_player keeps the structures in agreement: the listener's id is new.
LEMMA PlayerEnterIInv ==
    ASSUME Partitioned, IInv, NEW p, NEW at \in Entries, PlayerEnter(p, at)
    PROVE  IInv' /\ p \notin entered /\ Position' = Put(Position, p, at)
<1> DEFINE n == Entity(p, NoSpawn, at, 0)
<1>1. Shape /\ StageType /\ OthersType /\ DOMAIN connections = Players /\ Fresh
  BY IInvParts
<1>2. p \in PlayerIds /\ p \in Ids /\ p \notin DOMAIN entityMap
  BY FreshIds DEF PlayerEnter, Ids
<1>3. n \in Entities /\ n.id = p /\ n.spawn = NoSpawn /\ n.pos = at
  BY <1>2, EntriesAssumption, EntityType
<1>4. Spawn(n) /\ connections' = Put(connections, p, "room") /\ entered' = entered \cup {p}
        /\ UNCHANGED <<stage, todo, respawns, nextMob>> /\ stage = "drain"
  BY DEF PlayerEnter
<1> HIDE DEF n
<1>5. /\ Shape'
      /\ Position' = Put(Position, n.id, n.pos)
      /\ DOMAIN entityMap' = DOMAIN entityMap \cup {n.id}
      /\ \A e \in DOMAIN entityMap :
            entityMap'[e] = entityMap[e] /\ world'[entityMap'[e]] = world[entityMap[e]]
      /\ world'[entityMap'[n.id]] = n
      /\ Players' = IF n.spawn = NoSpawn THEN Players \cup {n.id} ELSE Players
  BY <1>1, <1>2, <1>3, <1>4, SpawnShape
<1>6. DOMAIN connections' = Players'
  BY <1>1, <1>3, <1>4, <1>5 DEF Put
<1>7. OthersType'
  <2>1. PartialFcn(connections, PlayerIds, {"room", "full", "gone"})'
    BY <1>1, <1>2, <1>4, PutPartial DEF OthersType
  <2> QED BY <1>1, <1>2, <1>4, <2>1 DEF OthersType
<1>8. Fresh'
  <2>1. p \in Nat /\ p < MobBase /\ MobBase \in Nat /\ nextMob \in Nat
    BY <1>1, <1>2, IdsAssumption DEF Partitioned, PlayerEnter, OthersType, MobBase
  <2>2. p \notin DOMAIN respawns
    BY <1>1, <2>1 DEF Fresh
  <2> QED BY <1>1, <1>2, <1>3, <1>4, <1>5, <2>2 DEF Fresh, IsCreature
<1>9. StageType'
  BY <1>1, <1>4 DEF StageType
<1>10. p \notin entered
  BY DEF PlayerEnter
<1> QED BY <1>3, <1>5, <1>6, <1>7, <1>8, <1>9, <1>10, IInvPartsAfter

\* kill_creature keeps the structures in agreement, and schedules an old id.
LEMMA KillCreatureIInv ==
    ASSUME IInv, NEW e, KillCreature(e)
    PROVE  IInv' /\ e \in DOMAIN entityMap /\ Position' = Drop(Position, e)
<1> DEFINE s == world[entityMap[e]].spawn
<1>1. Shape /\ StageType /\ OthersType /\ DOMAIN connections = Players /\ Fresh
  BY IInvParts
<1>2. /\ e \in DOMAIN entityMap /\ IsCreature(entityMap[e]) /\ Despawn(e)
      /\ respawns' = Put(respawns, e, [spawn |-> s, timer |-> RespawnTicks[s]])
      /\ stage = "drain"
      /\ UNCHANGED <<stage, todo, connections, nextMob, entered>>
  BY DEF KillCreature, Scheduled
<1>3. /\ Shape'
      /\ Position' = Drop(Position, e)
      /\ DOMAIN entityMap' = DOMAIN entityMap \ {e}
      /\ \A d \in DOMAIN entityMap' :
            entityMap'[d] = entityMap[d] /\ world'[entityMap'[d]] = world[entityMap[d]]
      /\ Players' = Players \ {e}
  BY <1>1, <1>2, DespawnShape
<1>4. s \in Spawns /\ e \in Ids
  <2>1. entityMap[e] \in DOMAIN world /\ world[entityMap[e]] \in Entities /\ e \in Ids
    BY <1>1, <1>2 DEF Shape, MapAgrees, PartialFcn
  <2> QED BY <1>2, <2>1 DEF Entities, IsCreature
<1>5. e \notin Players
  BY <1>1, <1>2 DEF Players, Shape, MapAgrees
<1>6. OthersType'
  <2>1. [spawn |-> s, timer |-> RespawnTicks[s]] \in [spawn : Spawns, timer : Int]
    BY <1>4, SpawnsAssumption DEF Spawns
  <2>2. PartialFcn(respawns, Ids, [spawn : Spawns, timer : Int])'
    BY <1>1, <1>2, <1>4, <2>1, PutPartial DEF OthersType
  <2> QED BY <1>1, <1>2, <2>2 DEF OthersType
<1>7. Fresh'
  <2>1. DOMAIN respawns' = DOMAIN respawns \cup {e}
    BY <1>2 DEF Put
  <2>2. e \in MobBase .. nextMob - 1
    BY <1>1, <1>2 DEF Fresh
  <2> QED BY <1>1, <1>2, <1>3, <2>1, <2>2 DEF Fresh, IsCreature
<1>8. StageType'
  BY <1>1, <1>2 DEF StageType
<1> QED BY <1>1, <1>2, <1>3, <1>5, <1>6, <1>7, <1>8, IInvPartsAfter

\* A respawn keeps the structures in agreement: the counter's id is new.
LEMMA RespawnIInv ==
    ASSUME Partitioned, IInv, NEW e, Respawn(e)
    PROVE  /\ IInv'
           /\ nextMob' = nextMob + 1
           /\ \E p \in Area : Position' = Put(Position, nextMob, p)
<1> DEFINE s == respawns[e].spawn
<1>1. Shape /\ StageType /\ OthersType /\ DOMAIN connections = Players /\ Fresh
  BY IInvParts
<1>2. /\ stage = "timers" /\ e \in todo /\ todo' = todo \ {e}
      /\ nextMob' = nextMob + 1
      /\ respawns' = Drop(respawns, e)
      /\ \E rest \in Rests(s) : Spawn(Entity(nextMob, s, SpawnPos[s], rest))
      /\ UNCHANGED <<stage, connections, entered>>
  BY DEF Respawn, Visit, FreshId
<1>3. e \in DOMAIN respawns
  BY <1>1, <1>2 DEF StageType
<1>4. s \in Spawns /\ SpawnPos[s] \in Area
  BY <1>1, <1>3, SpawnsAssumption DEF OthersType, PartialFcn, Spawns
<1>5. nextMob \in Ids /\ nextMob \notin DOMAIN entityMap /\ nextMob \in Nat
  BY <1>1, FreshIds DEF OthersType
<1>6. PICK rest \in Rests(s) : Spawn(Entity(nextMob, s, SpawnPos[s], rest))
  BY <1>2
<1>7. rest \in Int \cup {Forever}
  BY <1>6, TimesAssumption DEF Rests
<1> DEFINE n == Entity(nextMob, s, SpawnPos[s], rest)
<1>8. n \in Entities /\ n.id = nextMob /\ n.spawn = s /\ n.pos = SpawnPos[s] /\ Spawn(n)
  BY <1>4, <1>5, <1>6, <1>7, EntityType
<1>9. s # NoSpawn
  BY <1>4, SpawnsAssumption DEF Spawns
<1> HIDE DEF n, s
<1>10. /\ Shape'
       /\ Position' = Put(Position, n.id, n.pos)
       /\ DOMAIN entityMap' = DOMAIN entityMap \cup {n.id}
       /\ \A d \in DOMAIN entityMap :
             entityMap'[d] = entityMap[d] /\ world'[entityMap'[d]] = world[entityMap[d]]
       /\ world'[entityMap'[n.id]] = n
       /\ Players' = IF n.spawn = NoSpawn THEN Players \cup {n.id} ELSE Players
  BY <1>1, <1>5, <1>8, SpawnShape
<1>11. OthersType'
  <2>1. PartialFcn(respawns, Ids, [spawn : Spawns, timer : Int])'
    BY <1>1, <1>2, DropPartial DEF OthersType
  <2> QED BY <1>1, <1>2, <2>1 DEF OthersType
<1>12. DOMAIN respawns' = DOMAIN respawns \ {e}
  BY <1>2 DEF Drop, Restrict
<1>13. Fresh'
  <2>1. MobBase \in Nat
    BY IdsAssumption DEF MobBase
  <2>2. nextMob \in MobBase .. nextMob' - 1 /\ MobBase .. nextMob - 1 \subseteq MobBase .. nextMob' - 1
    BY <1>1, <1>2, <1>5, <2>1 DEF Fresh
  <2>3. nextMob' >= MobBase
    BY <1>1, <1>2, <1>5, <2>1 DEF Fresh
  <2>4. ASSUME NEW d \in DOMAIN entityMap'
        PROVE  IF IsCreature(entityMap[d])' THEN d \in MobBase .. nextMob' - 1 ELSE d \in entered'
    <3>1. CASE d = nextMob
      BY <1>8, <1>9, <1>10, <2>2, <3>1 DEF IsCreature
    <3>2. CASE d # nextMob
      BY <1>1, <1>2, <1>8, <1>10, <2>2, <3>2 DEF IsCreature, Fresh
    <3> QED BY <3>1, <3>2
  <2>5. nextMob \notin DOMAIN respawns
    BY <1>1, <1>5, <2>1 DEF Fresh
  <2>6. DOMAIN respawns' \subseteq (MobBase .. nextMob' - 1) \ DOMAIN entityMap'
    BY <1>1, <1>8, <1>10, <1>12, <2>2, <2>5 DEF Fresh
  <2> QED BY <2>3, <2>4, <2>6 DEF Fresh
<1>14. StageType'
  BY <1>1, <1>2, <1>12 DEF StageType
<1>15. DOMAIN connections' = Players'
  BY <1>1, <1>2, <1>8, <1>9, <1>10
<1> QED BY <1>2, <1>4, <1>8, <1>10, <1>11, <1>13, <1>14, <1>15, IInvPartsAfter

\* Leaving and pruning keep the structures in agreement.
LEMMA RemoveIInv ==
    ASSUME IInv, NEW p, (PlayerLeave(p) /\ p \in PlayerIds) \/ Prune(p)
    PROVE  /\ IInv'
           /\ p \in DOMAIN entityMap => Position' = Drop(Position, p)
           /\ p \notin DOMAIN entityMap => Position' = Position
<1>1. StageType
  BY IInvParts
<1>2. p \in PlayerIds /\ RemoveEntity(p) /\ UNCHANGED <<respawns, nextMob, entered>>
  BY <1>1 DEF PlayerLeave, Prune, Visit, StageType
<1>3. StageType'
  BY <1>1 DEF PlayerLeave, Prune, Visit, StageType
<1> QED BY <1>2, <1>3, RemoveParts, IInvPartsAfter

\* A MoveInput changes the velocity of one player and nothing else.
LEMMA MoveInputIInv ==
    ASSUME IInv, NEW p, NEW d \in Directions, NEW speed \in Speeds, MoveInput(p, d, speed)
    PROVE  IInv' /\ Position' = Position
<1> DEFINE h == entityMap[p]
           c == [world[h] EXCEPT !.vel = Velocity(d, speed)]
<1>1. Shape /\ StageType
  BY IInvParts
<1>2. h \in DOMAIN world /\ world[h] \in Entities
  BY <1>1 DEF MoveInput, Shape, MapAgrees, PartialFcn
<1>3. Velocity(d, speed) \in Int \X Int
  <2>1. d \in Int \X Int /\ speed \in Int /\ MaxSpeed \in Int
    BY InputAssumption
  <2>2. Capped(speed) \in Int
    BY <2>1 DEF Capped
  <2>3. \A n \in Int : Sign(n) \in {-1, 0, 1}
    BY DEF Sign
  <2>4. \A n \in {-1, 0, 1}, m \in Int : n * m \in Int
    OBVIOUS
  <2> QED BY <2>1, <2>2, <2>3, <2>4 DEF Velocity
<1>4. c \in Entities /\ c.id = world[h].id /\ c.spawn = world[h].spawn /\ c.pos = world[h].pos
  BY <1>2, <1>3, FieldTypes
<1>5. world' = [world EXCEPT ![h] = c]
  BY <1>2 DEF MoveInput
<1> HIDE DEF c, h
<1>6. index' = Update(index, c.id, world[h].pos, c.pos) /\ Put(Position, c.id, c.pos) = Position
  BY <1>1, <1>2, <1>4, InPlace DEF MoveInput
<1>7. UNCHANGED <<entityMap, connections, respawns, nextMob, entered, stage, todo>> /\ stage = "drain"
  BY DEF MoveInput
<1>8. /\ Shape' /\ OthersType' /\ DOMAIN connections' = Players' /\ Fresh'
      /\ Position' = Put(Position, c.id, c.pos)
  BY <1>2, <1>4, <1>5, <1>6, <1>7, ReplaceParts
<1>9. StageType'
  BY <1>1, <1>7 DEF StageType
<1> QED BY <1>6, <1>8, <1>9, IInvPartsAfter

\* A movement moves the entity in the ECS and the index alike.
LEMMA MoveIInv ==
    ASSUME IInv, NEW h, Move(h)
    PROVE  /\ IInv'
           /\ \E e \in DOMAIN entityMap, p \in Area : Position' = Put(Position, e, p)
<1> DEFINE e == world[h].id
           new == Moved(world[h].pos, world[h].vel)
           c == [world[h] EXCEPT !.pos = new]
<1>1. Shape /\ StageType
  BY IInvParts
<1>2. stage = "move" /\ h \in todo /\ todo' = todo \ {h} /\ stage' = stage
  BY DEF Move, Visit
<1>3. h \in DOMAIN world /\ world[h] \in Entities /\ e \in DOMAIN entityMap /\ entityMap[e] = h
  BY <1>1, <1>2 DEF StageType, Shape, MapAgrees, PartialFcn
<1>4. /\ world' = [world EXCEPT ![h] = c]
      /\ index' = Update(index, e, world[h].pos, new)
      /\ UNCHANGED <<entityMap, connections, respawns, nextMob, entered>>
  BY <1>3 DEF Move
<1>5. new \in Area
  BY <1>3 DEF Moved, Entities
<1>6. c \in Entities /\ c.id = e /\ c.spawn = world[h].spawn /\ c.pos = new
  BY <1>3, <1>5 DEF Entities
<1> HIDE DEF c, e, new
<1>7. index' = Update(index, c.id, world[h].pos, c.pos) /\ c.id = world[h].id
  BY <1>4, <1>6 DEF e
<1>8. /\ Shape' /\ OthersType' /\ DOMAIN connections' = Players' /\ Fresh'
      /\ Position' = Put(Position, c.id, c.pos)
      /\ DOMAIN world' = DOMAIN world
  BY <1>3, <1>4, <1>6, <1>7, ReplaceParts
<1>9. StageType'
  BY <1>1, <1>2, <1>8 DEF StageType
<1> QED BY <1>3, <1>5, <1>6, <1>8, <1>9, IInvPartsAfter

\* A decision of the AI keeps the structures in agreement.
LEMMA AiIInv ==
    ASSUME IInv, NEW h, Ai(h)
    PROVE  IInv' /\ Position' = Position
<1>1. Shape /\ StageType
  BY IInvParts
<1>2. stage = "ai" /\ h \in todo /\ todo' = todo \ {h} /\ stage' = stage
  BY DEF Ai, Visit
<1>3. h \in DOMAIN world /\ world[h] \in Entities /\ world[h].spawn # NoSpawn
  BY <1>1, <1>2 DEF StageType, Shape, PartialFcn, IsCreature
<1>4. PICK c \in AiSteps(world[h]) : world' = [world EXCEPT ![h] = c]
  BY DEF Ai
<1>5. c \in Entities /\ c.id = world[h].id /\ c.spawn = world[h].spawn /\ c.pos = world[h].pos
  BY <1>3, AiStepType
<1>6. UNCHANGED <<entityMap, index, connections, respawns, nextMob, entered>>
  BY DEF Ai
<1>7. index' = Update(index, c.id, world[h].pos, c.pos) /\ Put(Position, c.id, c.pos) = Position
  BY <1>1, <1>3, <1>5, <1>6, InPlace
<1>8. /\ Shape' /\ OthersType' /\ DOMAIN connections' = Players' /\ Fresh'
      /\ Position' = Put(Position, c.id, c.pos)
      /\ DOMAIN world' = DOMAIN world
      /\ \A g \in DOMAIN world : IsCreature(g)' = IsCreature(g)
  BY <1>3, <1>4, <1>5, <1>6, <1>7, ReplaceParts
<1>9. StageType'
  <2>1. stage' = "ai" /\ todo' \subseteq DOMAIN world' /\ \A g \in todo' : IsCreature(g)'
    BY <1>1, <1>2, <1>8 DEF StageType
  <2> QED BY <2>1 DEF StageType
<1> QED BY <1>7, <1>8, <1>9, IInvPartsAfter

\* Steps that leave the structures alone, but for the state of the channels.
LEMMA QuietIInv ==
    ASSUME IInv, UNCHANGED <<world, entityMap, index, nextMob, entered>>,
           DOMAIN connections' = DOMAIN connections,
           DOMAIN respawns' = DOMAIN respawns,
           OthersType', StageType'
    PROVE  IInv' /\ Position' = Position
<1>1. Shape /\ DOMAIN connections = Players /\ Fresh
  BY IInvParts
<1>2. Shape' /\ Players' = Players /\ Position' = Position /\ Fresh'
  BY <1>1 DEF Players, IsCreature, Shape, MapAgrees, IndexAgrees, Position, Fresh
<1> QED BY <1>1, <1>2, IInvPartsAfter

\* The steps of the tick, and of the channels' far ends, that are quiet.
Quiet ==
    \/ StartTick \/ StartAi \/ StartTimers \/ Dispatch \/ EndTick
    \/ \E h \in todo : AiPanics(h)
    \/ \E p \in PlayerIds : ChannelChanges(p)

\* The quiet steps keep the invariant: each sets up the next loop, or a channel.
LEMMA QuietStep ==
    ASSUME IInv, Quiet
    PROVE  IInv' /\ Position' = Position /\ UNCHANGED <<nextMob, entered>>
<1>1. StageType /\ OthersType
  BY IInvParts
<1>2. CASE StartTick \/ StartAi \/ EndTick \/ \E h \in todo : AiPanics(h)
  <2>1. UNCHANGED <<structures, respawns, nextMob, entered>>
    BY <1>2 DEF StartTick, StartAi, EndTick, AiPanics
  <2>2. OthersType'
    BY <1>1, <2>1 DEF OthersType, PartialFcn, structures
  <2>3. StageType'
    BY <1>2, <2>1 DEF StartTick, StartAi, EndTick, AiPanics, Stage, StageType, IsCreature,
                      structures
  <2> QED BY <2>1, <2>2, <2>3, QuietIInv DEF structures
<1>3. CASE StartTimers
  <2>1. UNCHANGED <<structures, nextMob, entered>> /\ DOMAIN respawns' = DOMAIN respawns
    BY <1>3 DEF StartTimers
  <2>2. \A e \in DOMAIN respawns : respawns'[e] \in [spawn : Spawns, timer : Int]
    <3> SUFFICES ASSUME NEW e \in DOMAIN respawns
                 PROVE  respawns'[e] \in [spawn : Spawns, timer : Int]
      OBVIOUS
    <3>1. respawns[e] \in [spawn : Spawns, timer : Int]
      BY <1>1 DEF OthersType, PartialFcn
    <3>2. respawns'[e] = TimerStep(respawns[e])
      BY <1>3 DEF StartTimers
    <3> QED BY <3>1, <3>2 DEF TimerStep
  <2>3. PartialFcn(respawns, Ids, [spawn : Spawns, timer : Int])'
    <3>1. respawns' = [e \in DOMAIN respawns |-> respawns'[e]]
      BY <1>3 DEF StartTimers
    <3> QED BY <1>1, <2>1, <2>2, <3>1 DEF OthersType, PartialFcn
  <2>4. OthersType'
    BY <1>1, <2>1, <2>3 DEF OthersType, PartialFcn, structures
  <2>5. StageType'
    BY <1>3, <2>1 DEF StartTimers, Stage, StageType
  <2> QED BY <2>1, <2>4, <2>5, QuietIInv DEF structures
<1>4. CASE Dispatch
  <2>1. /\ UNCHANGED <<world, entityMap, index, respawns, nextMob, entered>>
        /\ DOMAIN connections' = DOMAIN connections
        /\ \A p \in DOMAIN connections :
              connections'[p] = IF connections[p] = "room" THEN "full" ELSE connections[p]
        /\ connections' = [p \in DOMAIN connections |-> connections'[p]]
    BY <1>4 DEF Dispatch
  <2>2. PartialFcn(connections, PlayerIds, {"room", "full", "gone"})'
    BY <1>1, <2>1 DEF OthersType, PartialFcn
  <2>3. OthersType'
    BY <1>1, <2>1, <2>2 DEF OthersType, PartialFcn
  <2>4. HungUp \subseteq PlayerIds
    BY <1>1 DEF HungUp, OthersType, PartialFcn
  <2>5. StageType'
    BY <1>4, <2>4 DEF Dispatch, Stage, StageType
  <2> QED BY <2>1, <2>3, <2>5, QuietIInv
<1>5. ASSUME NEW p \in PlayerIds, ChannelChanges(p)
      PROVE  IInv' /\ Position' = Position /\ UNCHANGED <<nextMob, entered>>
  <2>1. /\ UNCHANGED <<stage, todo, world, entityMap, index, respawns, nextMob, entered>>
        /\ DOMAIN connections' = DOMAIN connections
    BY <1>5 DEF ChannelChanges
  <2>2. PartialFcn(connections, PlayerIds, {"room", "full", "gone"})'
    BY <1>1, <1>5 DEF OthersType, PartialFcn, ChannelChanges
  <2>3. OthersType'
    BY <1>1, <2>1, <2>2 DEF OthersType, PartialFcn
  <2>4. StageType'
    BY <1>1, <2>1 DEF StageType, IsCreature
  <2> QED BY <2>1, <2>3, <2>4, QuietIInv
<1> QED BY <1>2, <1>3, <1>4, <1>5 DEF Quiet

\* The steps of a zone, in groups that the proofs treat alike.
LEMMA NextCases ==
    Next =>
      \/ \E p \in PlayerIds, at \in Entries : PlayerEnter(p, at)
      \/ \E p : (PlayerLeave(p) /\ p \in PlayerIds) \/ Prune(p)
      \/ \E p \in PlayerIds, d \in Directions, speed \in Speeds : MoveInput(p, d, speed)
      \/ \E e : KillCreature(e)
      \/ \E h : Move(h) \/ Ai(h) \/ Respawn(h)
      \/ Quiet
BY DEF Next, Command, Tick, Quiet

\* The invariant is inductive.
LEMMA StepIInv == Partitioned /\ IInv /\ [Next]_vars => IInv'
<1> SUFFICES ASSUME Partitioned, IInv, [Next]_vars PROVE IInv'
  OBVIOUS
<1>1. ASSUME NEW p \in PlayerIds, NEW at \in Entries, PlayerEnter(p, at) PROVE IInv'
  BY <1>1, PlayerEnterIInv
<1>2. ASSUME NEW p, (PlayerLeave(p) /\ p \in PlayerIds) \/ Prune(p) PROVE IInv'
  BY <1>2, RemoveIInv
<1>3. ASSUME NEW p, NEW d \in Directions, NEW speed \in Speeds, MoveInput(p, d, speed)
      PROVE  IInv'
  BY <1>3, MoveInputIInv
<1>4. ASSUME NEW e, KillCreature(e) PROVE IInv'
  BY <1>4, KillCreatureIInv
<1>5. ASSUME NEW h, Move(h) PROVE IInv'
  BY <1>5, MoveIInv
<1>6. ASSUME NEW h, Ai(h) PROVE IInv'
  BY <1>6, AiIInv
<1>7. ASSUME NEW e, Respawn(e) PROVE IInv'
  BY <1>7, RespawnIInv
<1>8. CASE Quiet
  BY <1>8, QuietStep
<1>9. CASE UNCHANGED vars
  BY <1>9 DEF vars, structures, IInv, TypeOK, PartialFcn, Agreement, MapAgrees, IndexAgrees, Position,
              ConnectionsAgree, IsCreature, Fresh
<1> QED BY <1>1, <1>2, <1>3, <1>4, <1>5, <1>6, <1>7, <1>8, <1>9, NextCases

\* The inductive invariant holds in every reachable state, whatever the zone, as
\* long as the ids of players stay below those of its creatures.
THEOREM ZoneInvariance == Partitioned => (Spec => []IInv)
<1> SUFFICES ASSUME Partitioned PROVE Spec => []IInv
  OBVIOUS
<1>1. IInv /\ [Next]_vars => IInv'
  BY StepIInv
<1> QED BY <1>1, InitIInv, PTL DEF Spec

\* The ECS, the id map, the index and the channels agree: no ghosts, no player
\* without snapshots.
THEOREM AgreementCorrect == Partitioned => (Spec => []Agreement)
<1>1. IInv => Agreement
  BY DEF IInv
<1> QED BY <1>1, ZoneInvariance, PTL

\* With the structures in agreement, a snapshot is exact.
LEMMA SnapshotFromShape == IInv => SnapshotExact
<1> SUFFICES ASSUME IInv, NEW p \in DOMAIN connections
             PROVE  LET near == {h \in DOMAIN world :
                                    Within(world[entityMap[p]].pos, world[h].pos, Aoi)}
                    IN Snapshot(p) = SetToBag({<<CellOf(world[h].pos), world[h].id>> : h \in near})
  BY DEF SnapshotExact
<1> DEFINE here == world[entityMap[p]].pos
           near == {h \in DOMAIN world : Within(here, world[h].pos, Aoi)}
           Want == {<<CellOf(world[h].pos), world[h].id>> : h \in near}
           All == {<<CellOf(Position[e]), e>> : e \in DOMAIN Position}
           Got == {x \in All : /\ x[1] \in Overlapped(here, Aoi)
                               /\ x[2] \in DOMAIN entityMap
                               /\ Within(here, world[entityMap[x[2]]].pos, Aoi)}
<1>1. Shape /\ DOMAIN connections = Players
  BY IInvParts
<1>2. index.cells = [x \in All |-> 1]
  BY <1>1 DEF Shape, IndexAgrees, IndexOf, SetToBag
<1>3. Snapshot(p) = [x \in Got |-> 1]
  <2> HIDE DEF All
  <2>1. QueryRadius(index, here, Aoi)
          = [x \in {x \in All : x[1] \in Overlapped(here, Aoi)} |-> 1]
    BY <1>2 DEF QueryRadius, Restrict
  <2> HIDE DEF here
  <2>2. DOMAIN QueryRadius(index, here, Aoi) = {x \in All : x[1] \in Overlapped(here, Aoi)}
    BY <2>1
  <2>3. Snapshot(p) =
          Restrict(QueryRadius(index, here, Aoi),
                   {x \in DOMAIN QueryRadius(index, here, Aoi) :
                       x[2] \in DOMAIN entityMap /\ Within(here, world[entityMap[x[2]]].pos, Aoi)})
    BY DEF Snapshot, here
  <2> QED BY <2>1, <2>2, <2>3 DEF Restrict
<1>4. \A h \in DOMAIN world : world[h].pos \in Int \X Int
  BY <1>1, PlacesAssumption DEF Shape, PartialFcn, Entities
<1>5. here \in Int \X Int
  <2>1. p \in DOMAIN entityMap /\ entityMap[p] \in DOMAIN world
    BY <1>1 DEF Players, Shape, MapAgrees
  <2> QED BY <1>4, <2>1
<1> HIDE DEF here
<1>6. \A h \in near : CellOf(world[h].pos) \in Overlapped(here, Aoi)
  BY <1>4, <1>5, OverlappedCoversCircle, PlacesAssumption
<1>7. Want \subseteq Got
  <2> SUFFICES ASSUME NEW h \in near
               PROVE  <<CellOf(world[h].pos), world[h].id>> \in Got
    OBVIOUS
  <2>1. world[h].id \in DOMAIN entityMap /\ entityMap[world[h].id] = h
    BY <1>1 DEF Shape, MapAgrees
  <2>2. world[h].id \in DOMAIN Position /\ Position[world[h].id] = world[h].pos
    BY <2>1 DEF Position
  <2>3. <<CellOf(world[h].pos), world[h].id>> \in All
    BY <2>2
  <2> HIDE DEF All
  <2> QED BY <1>6, <2>1, <2>3
<1>8. Got \subseteq Want
  <2> SUFFICES ASSUME NEW x \in Got PROVE x \in Want
    OBVIOUS
  <2>1. PICK e \in DOMAIN Position : x = <<CellOf(Position[e]), e>>
    OBVIOUS
  <2> DEFINE h == entityMap[e]
  <2>2. h \in DOMAIN world /\ world[h].id = e /\ Position[e] = world[h].pos
    BY <1>1 DEF Position, Shape, MapAgrees
  <2>3. h \in near
    BY <2>1, <2>2
  <2> QED BY <2>1, <2>2, <2>3
<1>9. Got = Want
  BY <1>7, <1>8
<1> HIDE DEF Got, Want
<1> QED BY <1>3, <1>9 DEF SetToBag, Want, near, here

\* A snapshot holds exactly the entities within the radius, each once: the grid
\* misses nobody and remembers nobody.
THEOREM SnapshotsCorrect == Partitioned => (Spec => []SnapshotExact)
BY SnapshotFromShape, ZoneInvariance, PTL
------------------------------------------------------------------------------
(***************************************************************************)
(* A spawn point and its creature.                                         *)
(***************************************************************************)
\* A step that changes neither who is alive nor who is to come back keeps both.
LEMMA KeptUnchanged ==
    ASSUME CreaturesKept,
           \A s \in Spawns : Alive(s)' = Alive(s) /\ Pending(s)' = Pending(s)
    PROVE  CreaturesKept'
<1> SUFFICES ASSUME NEW s \in Spawns
             PROVE  \/ \E h \in DOMAIN world' : Alive(s)' = {h} /\ Pending(s)' = {}
                    \/ \E e \in DOMAIN respawns' : Pending(s)' = {e} /\ Alive(s)' = {}
  BY DEF CreaturesKept
<1>1. CASE \E h \in DOMAIN world : Alive(s) = {h} /\ Pending(s) = {}
  <2>1. PICK h : Alive(s)' = {h} /\ Pending(s)' = {}
    BY <1>1
  <2>2. h \in DOMAIN world'
    BY <2>1 DEF Alive
  <2> QED BY <2>1, <2>2
<1>2. CASE \E e \in DOMAIN respawns : Pending(s) = {e} /\ Alive(s) = {}
  <2>1. PICK e : Pending(s)' = {e} /\ Alive(s)' = {}
    BY <1>2
  <2>2. e \in DOMAIN respawns'
    BY <2>1 DEF Pending
  <2> QED BY <2>1, <2>2
<1> QED BY <1>1, <1>2 DEF CreaturesKept

\* World::spawn takes a handle that is not in use.
LEMMA SpawnWorld ==
    ASSUME Shape, NEW n, Spawn(n)
    PROVE  \E h : /\ h \notin DOMAIN world
                  /\ DOMAIN world' = DOMAIN world \cup {h}
                  /\ world'[h] = n
                  /\ \A g \in DOMAIN world : world'[g] = world[g]
<1> DEFINE h == CHOOSE h \in Handles : h \notin DOMAIN world
<1>1. h \notin DOMAIN world
  <2>1. DOMAIN world \subseteq Handles /\ DOMAIN world # Handles
    BY DEF Shape, PartialFcn, Spawn
  <2> QED BY <2>1
<1>2. world' = Put(world, h, n)
  BY DEF Spawn
<1> HIDE DEF h
<1> QED BY <1>1, <1>2 DEF Put

\* A player's id names no creature.
LEMMA PlayerNoCreature ==
    ASSUME Partitioned, IInv, NEW p \in PlayerIds, p \in DOMAIN entityMap
    PROVE  ~ IsCreature(entityMap[p])
<1>1. p \in Nat /\ p < MobBase /\ MobBase \in Nat /\ nextMob \in Nat
  BY IdsAssumption DEF Partitioned, MobBase, IInv, TypeOK
<1> QED BY <1>1 DEF IInv, Fresh

\* A kill leaves the dead creature's spawn point with one respawn, and every
\* other spawn point with what it had.
LEMMA KillKept ==
    ASSUME IInv, CreaturesKept, NEW e, KillCreature(e)
    PROVE  CreaturesKept'
<1> DEFINE h == entityMap[e]
           z == world[h].spawn
<1>1. Shape /\ Fresh
  BY IInvParts
<1>2. /\ e \in DOMAIN entityMap /\ z # NoSpawn
      /\ world' = Drop(world, h)
      /\ respawns' = Put(respawns, e, [spawn |-> z, timer |-> RespawnTicks[z]])
  BY DEF KillCreature, Scheduled, Despawn, IsCreature
<1>3. h \in DOMAIN world /\ z \in Spawns
  BY <1>1, <1>2 DEF Shape, MapAgrees, PartialFcn, Entities
<1>4. e \notin DOMAIN respawns
  BY <1>1, <1>2 DEF Fresh
<1> HIDE DEF h
<1>5. /\ DOMAIN world' = DOMAIN world \ {h}
      /\ \A g \in DOMAIN world' : world'[g] = world[g]
  BY <1>2 DEF Drop, Restrict
<1>6. /\ DOMAIN respawns' = DOMAIN respawns \cup {e}
      /\ respawns'[e].spawn = z
      /\ \A d \in DOMAIN respawns : respawns'[d] = respawns[d]
  BY <1>2, <1>4 DEF Put
<1> HIDE DEF z
<1>7. /\ \A s : Alive(s)' = Alive(s) \ {h}
      /\ \A s : Pending(s)' = IF s = z THEN Pending(s) \cup {e} ELSE Pending(s)
  BY <1>5, <1>6, <1>4 DEF Alive, Pending
<1>8. h \in Alive(z) /\ \A s : s # z => h \notin Alive(s)
  BY <1>3 DEF Alive, z
<1> SUFFICES ASSUME NEW s \in Spawns
             PROVE  \/ \E g \in DOMAIN world' : Alive(s)' = {g} /\ Pending(s)' = {}
                    \/ \E d \in DOMAIN respawns' : Pending(s)' = {d} /\ Alive(s)' = {}
  BY DEF CreaturesKept
<1>9. CASE s = z
  <2>1. Alive(s) = {h} /\ Pending(s) = {}
    BY <1>8, <1>9 DEF CreaturesKept
  <2>2. Pending(s)' = {e} /\ Alive(s)' = {}
    BY <1>7, <1>9, <2>1
  <2> QED BY <1>6, <2>2
<1>10. CASE s # z
  <2>1. Alive(s)' = Alive(s) /\ Pending(s)' = Pending(s)
    BY <1>7, <1>8, <1>10
  <2>2. CASE \E g \in DOMAIN world : Alive(s) = {g} /\ Pending(s) = {}
    <3>1. PICK g \in DOMAIN world : Alive(s) = {g} /\ Pending(s) = {}
      BY <2>2
    <3>2. g # h
      BY <1>8, <1>10, <3>1
    <3> QED BY <1>5, <2>1, <3>1, <3>2
  <2>3. CASE \E d \in DOMAIN respawns : Pending(s) = {d} /\ Alive(s) = {}
    BY <1>6, <2>1, <2>3
  <2> QED BY <2>2, <2>3 DEF CreaturesKept
<1> QED BY <1>9, <1>10

\* A respawn gives its spawn point a creature for what was pending.
LEMMA RespawnKept ==
    ASSUME IInv, CreaturesKept, NEW e, Respawn(e)
    PROVE  CreaturesKept'
<1> DEFINE z == respawns[e].spawn
<1>1. Shape /\ StageType /\ OthersType
  BY IInvParts
<1>2. /\ stage = "timers" /\ e \in todo
      /\ respawns' = Drop(respawns, e)
      /\ \E rest \in Rests(z) : Spawn(Entity(nextMob, z, SpawnPos[z], rest))
  BY DEF Respawn, Visit, FreshId
<1>3. e \in DOMAIN respawns /\ z \in Spawns
  BY <1>1, <1>2 DEF StageType, OthersType, PartialFcn
<1>4. PICK n : Spawn(n) /\ n.spawn = z
  BY <1>2 DEF Entity
<1>5. PICK h : /\ h \notin DOMAIN world
               /\ DOMAIN world' = DOMAIN world \cup {h}
               /\ world'[h] = n
               /\ \A g \in DOMAIN world : world'[g] = world[g]
  BY <1>1, <1>4, SpawnWorld
<1>6. /\ DOMAIN respawns' = DOMAIN respawns \ {e}
      /\ \A d \in DOMAIN respawns' : respawns'[d] = respawns[d]
  BY <1>2 DEF Drop, Restrict
<1>7. e \in Pending(z) /\ \A s : s # z => e \notin Pending(s)
  BY <1>3 DEF Pending
<1> HIDE DEF z
<1>8. /\ \A s : Alive(s)' = IF s = z THEN Alive(s) \cup {h} ELSE Alive(s)
      /\ \A s : Pending(s)' = Pending(s) \ {e}
  BY <1>4, <1>5, <1>6 DEF Alive, Pending
<1> SUFFICES ASSUME NEW s \in Spawns
             PROVE  \/ \E g \in DOMAIN world' : Alive(s)' = {g} /\ Pending(s)' = {}
                    \/ \E d \in DOMAIN respawns' : Pending(s)' = {d} /\ Alive(s)' = {}
  BY DEF CreaturesKept
<1>9. CASE s = z
  <2>1. Pending(s) = {e} /\ Alive(s) = {}
    BY <1>7, <1>9 DEF CreaturesKept
  <2>2. Alive(s)' = {h} /\ Pending(s)' = {}
    BY <1>8, <1>9, <2>1
  <2> QED BY <1>5, <2>2
<1>10. CASE s # z
  <2>1. Alive(s)' = Alive(s) /\ Pending(s)' = Pending(s)
    BY <1>7, <1>8, <1>10
  <2>2. CASE \E g \in DOMAIN world : Alive(s) = {g} /\ Pending(s) = {}
    BY <1>5, <2>1, <2>2
  <2>3. CASE \E d \in DOMAIN respawns : Pending(s) = {d} /\ Alive(s) = {}
    <3>1. PICK d \in DOMAIN respawns : Pending(s) = {d} /\ Alive(s) = {}
      BY <2>3
    <3>2. d # e
      BY <1>7, <1>10, <3>1
    <3> QED BY <1>6, <2>1, <3>1, <3>2
  <2> QED BY <2>2, <2>3 DEF CreaturesKept
<1> QED BY <1>9, <1>10

\* Steps that keep the spawn point of whoever is there, and what is to come back.
LEMMA SameSpawnsKept ==
    ASSUME CreaturesKept,
           DOMAIN world' = DOMAIN world,
           \A h \in DOMAIN world : world'[h].spawn = world[h].spawn,
           DOMAIN respawns' = DOMAIN respawns,
           \A e \in DOMAIN respawns : respawns'[e].spawn = respawns[e].spawn
    PROVE  CreaturesKept'
<1>1. \A s \in Spawns : Alive(s)' = Alive(s) /\ Pending(s)' = Pending(s)
  BY DEF Alive, Pending
<1> QED BY <1>1, KeptUnchanged

\* Players come and go without a spawn point.
LEMMA PlayersKept ==
    ASSUME Partitioned, IInv, CreaturesKept, NEW p,
           \/ p \in PlayerIds /\ \E at \in Entries : PlayerEnter(p, at)
           \/ p \in PlayerIds /\ PlayerLeave(p)
           \/ Prune(p)
    PROVE  CreaturesKept'
<1>1. Shape /\ StageType
  BY IInvParts
<1>2. NoSpawn \notin Spawns
  BY SpawnsAssumption DEF Spawns
<1>3. respawns' = respawns
  BY DEF PlayerEnter, PlayerLeave, Prune
<1>4. CASE \E at \in Entries : PlayerEnter(p, at)
  <2>1. PICK n : Spawn(n) /\ n.spawn = NoSpawn
    BY <1>4 DEF PlayerEnter, Entity
  <2>2. PICK h : /\ h \notin DOMAIN world
                 /\ DOMAIN world' = DOMAIN world \cup {h}
                 /\ world'[h] = n
                 /\ \A g \in DOMAIN world : world'[g] = world[g]
    BY <1>1, <2>1, SpawnWorld
  <2>3. \A s \in Spawns : Alive(s)' = Alive(s) /\ Pending(s)' = Pending(s)
    BY <1>2, <1>3, <2>1, <2>2 DEF Alive, Pending
  <2> QED BY <2>3, KeptUnchanged
<1>5. CASE (p \in PlayerIds /\ PlayerLeave(p)) \/ Prune(p)
  <2>1. p \in PlayerIds /\ RemoveEntity(p)
    BY <1>1, <1>5 DEF PlayerLeave, Prune, Visit, StageType
  <2>2. CASE p \in DOMAIN entityMap
    <3>1. world' = Drop(world, entityMap[p])
      BY <2>1, <2>2 DEF RemoveEntity, Despawn
    <3>2. world[entityMap[p]].spawn = NoSpawn
      BY <2>1, <2>2, PlayerNoCreature DEF IsCreature
    <3>3. /\ DOMAIN world' = DOMAIN world \ {entityMap[p]}
          /\ \A g \in DOMAIN world' : world'[g] = world[g]
      BY <3>1 DEF Drop, Restrict
    <3>4. \A s \in Spawns : Alive(s)' = Alive(s) /\ Pending(s)' = Pending(s)
      BY <1>2, <1>3, <3>2, <3>3 DEF Alive, Pending
    <3> QED BY <3>4, KeptUnchanged
  <2>3. CASE p \notin DOMAIN entityMap
    <3>1. world' = world
      BY <2>1, <2>3 DEF RemoveEntity
    <3> QED BY <1>3, <3>1, SameSpawnsKept
  <2> QED BY <2>2, <2>3
<1> QED BY <1>4, <1>5
------------------------------------------------------------------------------
\* What the AI decides in a creature's place: to stay, or to head for a target
\* near its spawn point.
LEMMA AiStepNear ==
    ASSUME NEW c \in Entities, c.spawn # NoSpawn, NearSpawn(c), NEW d \in AiSteps(c)
    PROVE  NearSpawn(d) /\ HeadsForTarget(d)
<1> DEFINE s == c.spawn
           R == WanderRadius[s]
<1>1. /\ s \in Spawns /\ R \in Nat /\ SpawnPos[s] \in Int \X Int
      /\ c.pos \in Int \X Int /\ c.vel \in Int \X Int
      /\ c.target \in (Int \X Int) \cup {NoTarget}
  BY SpawnsAssumption, PlacesAssumption DEF Entities, Spawns
<1>2. ASSUME NEW r
      PROVE  NearSpawn(Pausing(c, r)) /\ HeadsForTarget(Pausing(c, r))
  <2>1. LET w == Pausing(c, r)
        IN w.spawn = s /\ w.pos = c.pos /\ w.target = NoTarget /\ w.vel = Zero
    BY DEF Pausing, Entities
  <2> QED BY <2>1 DEF NearSpawn, HeadsForTarget
<1>3. ASSUME NEW t \in Int \X Int, OnRow(s, t, R), t = c.pos => c.vel = Zero
      PROVE  NearSpawn(Walking(c, t)) /\ HeadsForTarget(Walking(c, t))
  <2>1. LET w == Walking(c, t)
        IN /\ w.spawn = s /\ w.pos = c.pos /\ w.target = t
           /\ w.vel = IF t = c.pos THEN c.vel ELSE Toward(c.pos, t, s)
    BY DEF Walking, Entities
  <2>2. t # NoTarget
    BY NoTargetAssumption
  <2> QED BY <1>3, <2>1, <2>2 DEF NearSpawn, HeadsForTarget
<1>4. ASSUME c.target # NoTarget, ~ Arrived(c)
      PROVE  OnRow(s, c.target, R) /\ c.target # c.pos /\ c.target \in Int \X Int
  <2>1. c.target \in Int \X Int
    BY <1>1, <1>4
  <2>2. CASE c.target = c.pos
    <3>1. c.pos[1] \in Int /\ c.pos[2] \in Int
      BY <1>1
    <3>2. c.pos[1] - c.pos[1] = 0 /\ c.pos[2] - c.pos[2] = 0 /\ 0 * 0 + 0 * 0 = 0
      BY <3>1
    <3>3. \A n \in Int : 0 <= n * n
      OBVIOUS
    <3>4. Arrival - 1 \in Int
      BY PlacesAssumption
    <3>5. 0 <= (Arrival - 1) * (Arrival - 1)
      BY <3>3, <3>4
    <3>6. Within(c.pos, c.target, Arrival - 1)
      BY <2>2, <3>2, <3>5 DEF Within
    <3> QED BY <1>4, <3>6 DEF Arrived
  <2> QED BY <1>4, <2>1, <2>2 DEF NearSpawn
<1>5. \A t \in Targets(c) : t \in Int \X Int /\ OnRow(s, t, R)
  <2> SUFFICES ASSUME NEW t \in Targets(c) PROVE t \in Int \X Int /\ OnRow(s, t, R)
    OBVIOUS
  <2>1. PICK n \in 1 - R .. R - 1 : t = <<SpawnPos[s][1] + n, SpawnPos[s][2]>>
    BY DEF Targets, Around
  <2> DEFINE a == SpawnPos[s][1]
             b == SpawnPos[s][2]
  <2>2. a \in Int /\ b \in Int /\ t = <<a + n, b>> /\ R \in Int
    BY <1>1, <2>1
  <2> HIDE DEF a, b, R
  <2>3. t \in Int \X Int /\ t[2] = b /\ t[1] - a = n /\ n \in -R .. R
    BY <2>2
  <2> QED BY <2>3 DEF OnRow, a, b
<1>6. CASE c.target # NoTarget
  <2>1. CASE Arrived(c)
    BY <1>2, <1>6, <2>1 DEF AiSteps
  <2>2. CASE ~ Arrived(c)
    <3>1. d = Walking(c, c.target)
      BY <1>6, <2>2 DEF AiSteps
    <3> QED BY <1>3, <1>4, <1>6, <2>2, <3>1
  <2> QED BY <2>1, <2>2
<1>7. CASE c.target = NoTarget
  <2>1. c.vel = Zero
    BY <1>7 DEF NearSpawn
  <2>2. (\E t \in Targets(c) : d = Walking(c, t)) \/ \E r : d = Pausing(c, r)
    BY <1>7 DEF AiSteps
  <2> QED BY <1>2, <1>3, <1>5, <2>1, <2>2
<1> QED BY <1>6, <1>7

\* One step of a walk along the row: towards a target within R of the spawn point
\* at a, or past it by less than the step.
LEMMA StepNear ==
    ASSUME NEW a \in Int, NEW x \in Int, NEW t \in Int, NEW R \in Nat, NEW V \in Nat,
           x - a \in -(R + V) .. R + V, t - a \in -R .. R
    PROVE  (x + Sign(t - x) * V) - a \in -(R + V) .. R + V
<1>1. CASE t > x
  BY <1>1 DEF Sign
<1>2. CASE t < x
  BY <1>2 DEF Sign
<1>3. CASE t = x
  BY <1>3 DEF Sign
<1> QED BY <1>1, <1>2, <1>3

\* A creature that heads for its target moves to a place near its spawn point.
LEMMA MoveNear ==
    ASSUME NEW c \in Entities, c.spawn # NoSpawn, NearSpawn(c), HeadsForTarget(c)
    PROVE  NearSpawn([c EXCEPT !.pos = Moved(c.pos, c.vel)])
<1> DEFINE s == c.spawn
           R == WanderRadius[s]
           V == MoveSpeed[s]
           q == Moved(c.pos, c.vel)
<1>1. /\ s \in Spawns /\ R \in Nat /\ V \in Nat /\ SpawnPos[s] \in Int \X Int
      /\ c.pos \in Int \X Int /\ c.vel \in Int \X Int
      /\ c.target \in (Int \X Int) \cup {NoTarget}
  BY SpawnsAssumption, PlacesAssumption DEF Entities, Spawns
<1>2. LET w == [c EXCEPT !.pos = q]
      IN w.spawn = s /\ w.pos = q /\ w.target = c.target /\ w.vel = c.vel
  BY DEF Entities
<1>3. SUFFICES OnRow(s, q, R + V)
  BY <1>2 DEF NearSpawn
<1>4. OnRow(s, c.pos, R + V)
  BY DEF NearSpawn
<1> DEFINE x == c.pos[1]
           z == c.pos[2]
<1>5. x \in Int /\ z \in Int /\ c.pos = <<x, z>>
  BY <1>1
<1>6. CASE q = c.pos
  BY <1>4, <1>6
<1>7. CASE q # c.pos /\ c.vel = Zero
  <2>1. q = <<x + 0, z + 0>> \/ q = c.pos
    BY <1>7 DEF Moved, Zero
  <2> QED BY <1>5, <1>7, <2>1
<1>8. CASE q # c.pos /\ c.vel # Zero
  <2>1. c.vel = Toward(c.pos, c.target, s) /\ c.target # NoTarget
    BY <1>8 DEF HeadsForTarget, NearSpawn
  <2>2. OnRow(s, c.target, R) /\ c.target \in Int \X Int
    BY <1>1, <2>1 DEF NearSpawn
  <2> DEFINE t == c.target[1]
             a == SpawnPos[s][1]
  <2>3. t \in Int /\ a \in Int /\ c.target[2] = z
    BY <1>1, <1>4, <2>2 DEF OnRow
  <2>4. c.vel[1] = Sign(t - x) * V /\ c.vel[2] = Sign(c.target[2] - z) * V
    BY <2>1 DEF Toward
  <2>5. q = <<x + c.vel[1], z + c.vel[2]>>
    BY <1>8 DEF Moved
  <2>6. c.vel[2] = 0
    <3>1. c.target[2] - z = 0
      BY <1>5, <2>3
    <3>2. Sign(0) = 0
      BY DEF Sign
    <3>3. 0 * V = 0
      BY <1>1
    <3> QED BY <2>4, <3>1, <3>2, <3>3
  <2>7. x - a \in -(R + V) .. R + V /\ t - a \in -R .. R /\ z = SpawnPos[s][2]
    BY <1>4, <2>2 DEF OnRow
  <2>8. (x + Sign(t - x) * V) - a \in -(R + V) .. R + V
    <3> HIDE DEF x, t, a, R, V
    <3> QED BY <1>1, <1>5, <2>3, <2>7, StepNear
  <2>9. q[1] = x + Sign(t - x) * V /\ q[2] = z
    BY <1>5, <2>4, <2>5, <2>6
  <2> HIDE DEF q, x, z, t, R, V
  <2>10. q[2] = SpawnPos[s][2] /\ q[1] - a \in -(R + V) .. R + V
    BY <2>7, <2>8, <2>9
  <2> QED BY <2>10 DEF OnRow
<1> QED BY <1>6, <1>7, <1>8

\* A creature appears on its spawn point and stands still.
LEMMA SpawnedNear ==
    ASSUME NEW id, NEW s \in Spawns, NEW rest
    PROVE  LET c == Entity(id, s, SpawnPos[s], rest) IN NearSpawn(c) /\ HeadsForTarget(c)
<1> DEFINE c == Entity(id, s, SpawnPos[s], rest)
<1>1. c.spawn = s /\ c.pos = SpawnPos[s] /\ c.target = NoTarget /\ c.vel = Zero
  BY DEF Entity
<1>2. WanderRadius[s] \in Nat /\ MoveSpeed[s] \in Nat /\ SpawnPos[s] \in Int \X Int
  BY SpawnsAssumption, PlacesAssumption DEF Spawns
<1>3. OnRow(s, SpawnPos[s], WanderRadius[s] + MoveSpeed[s])
  <2> DEFINE a == SpawnPos[s][1]
             r == WanderRadius[s] + MoveSpeed[s]
  <2>1. a \in Int /\ r \in Nat
    BY <1>2
  <2> HIDE DEF a, r
  <2>2. a - a \in -r .. r
    BY <2>1
  <2> QED BY <2>2 DEF OnRow, a, r
<1> QED BY <1>1, <1>3 DEF NearSpawn, HeadsForTarget

\* On the row, near is within the circle.
LEMMA RowWithin ==
    ASSUME NEW s \in Spawns, NEW p \in Int \X Int, NEW r \in Nat, OnRow(s, p, r)
    PROVE  Within(SpawnPos[s], p, r)
<1> DEFINE x == p[1] - SpawnPos[s][1]
           y == p[2] - SpawnPos[s][2]
<1>1. SpawnPos[s] \in Int \X Int
  BY SpawnsAssumption, PlacesAssumption DEF Spawns
<1>2. x \in Int /\ x \in -r .. r /\ y = 0
  BY <1>1 DEF OnRow
<1> HIDE DEF x, y
<1>3. x * x + y * y <= r * r
  <2>1. r - x \in Nat /\ r + x \in Nat
    BY <1>2
  <2>2. (r - x) * (r + x) >= 0
    BY <2>1
  <2>3. (r - x) * (r + x) = r * r - x * x
    BY <1>2
  <2>4. x * x \in Int /\ r * r \in Int
    BY <1>2
  <2>5. y * y = 0
    BY <1>2
  <2> QED BY <2>2, <2>3, <2>4, <2>5
<1> QED BY <1>3 DEF Within, x, y

\* Where a step does not move a creature or turn it, it stays on its way.
LEMMA WalksStraightUnchanged ==
    ASSUME WalksStraight,
           \A h \in DOMAIN world' : IsCreature(h)' =>
              /\ h \in DOMAIN world /\ world'[h] = world[h]
              /\ HasMoved(h) => HasMoved(h)'
    PROVE  WalksStraight'
BY DEF WalksStraight, IsCreature

\* Before a tick's loops nobody has moved.
LEMMA NotMoved ==
    ASSUME stage \in {"drain", "timers", "prune"}
    PROVE  \A h : ~ HasMoved(h)
BY DEF HasMoved

\* Every step of a zone leaves its creatures on their way.
LEMMA WalksStraightStep ==
    ASSUME Partitioned, IInv, WalksStraight, Next
    PROVE  WalksStraight'
<1>1. Shape /\ StageType /\ OthersType
  BY IInvParts
<1>2. ASSUME NEW p \in PlayerIds, NEW at \in Entries, PlayerEnter(p, at)
      PROVE  WalksStraight'
  <2>1. PICK n : Spawn(n) /\ n.spawn = NoSpawn
    BY <1>2 DEF PlayerEnter, Entity
  <2>2. PICK h : /\ h \notin DOMAIN world
                 /\ DOMAIN world' = DOMAIN world \cup {h}
                 /\ world'[h] = n
                 /\ \A g \in DOMAIN world : world'[g] = world[g]
    BY <1>1, <2>1, SpawnWorld
  <2>3. stage = "drain"
    BY <1>2 DEF PlayerEnter
  <2> QED BY <2>1, <2>2, <2>3, NotMoved, WalksStraightUnchanged DEF IsCreature
<1>3. ASSUME NEW p, (PlayerLeave(p) /\ p \in PlayerIds) \/ Prune(p)
      PROVE  WalksStraight'
  <2>1. world' = world \/ world' = Drop(world, entityMap[p])
    BY <1>3 DEF PlayerLeave, Prune, RemoveEntity, Despawn
  <2>2. \A h \in DOMAIN world' : h \in DOMAIN world /\ world'[h] = world[h]
    BY <2>1 DEF Drop, Restrict
  <2>3. stage \in {"drain", "prune"}
    BY <1>3 DEF PlayerLeave, Prune, Visit
  <2> QED BY <2>2, <2>3, NotMoved, WalksStraightUnchanged
<1>4. ASSUME NEW p \in PlayerIds, NEW d \in Directions, NEW speed \in Speeds,
             MoveInput(p, d, speed)
      PROVE  WalksStraight'
  <2>1. ~ IsCreature(entityMap[p]) /\ entityMap[p] \in DOMAIN world
    BY <1>1, <1>4, PlayerNoCreature DEF MoveInput, Shape, MapAgrees
  <2>2. /\ DOMAIN world' = DOMAIN world
        /\ \A h \in DOMAIN world : h # entityMap[p] => world'[h] = world[h]
    BY <1>4 DEF MoveInput
  <2>3. ~ IsCreature(entityMap[p])'
    <3>1. world[entityMap[p]] \in Entities /\ entityMap' = entityMap
      BY <1>1, <1>4, <2>1 DEF Shape, PartialFcn, MoveInput
    <3>2. world'[entityMap[p]] = [world[entityMap[p]] EXCEPT !.vel = Velocity(d, speed)]
      BY <1>4, <2>1 DEF MoveInput
    <3>3. world'[entityMap[p]].spawn = world[entityMap[p]].spawn
      BY <3>1, <3>2 DEF Entities
    <3> QED BY <2>1, <3>1, <3>3 DEF IsCreature
  <2>4. stage = "drain" /\ entityMap' = entityMap
    BY <1>4 DEF MoveInput
  <2>5. \A h \in DOMAIN world' : IsCreature(h)' => h # entityMap[p]
    BY <2>3, <2>4
  <2> QED BY <2>2, <2>4, <2>5, NotMoved, WalksStraightUnchanged
<1>5. ASSUME NEW e, KillCreature(e)
      PROVE  WalksStraight'
  <2>1. world' = Drop(world, entityMap[e]) /\ stage = "drain"
    BY <1>5 DEF KillCreature, Despawn
  <2>2. \A h \in DOMAIN world' : h \in DOMAIN world /\ world'[h] = world[h]
    BY <2>1 DEF Drop, Restrict
  <2> QED BY <2>1, <2>2, NotMoved, WalksStraightUnchanged
<1>6. ASSUME NEW h, Move(h)
      PROVE  WalksStraight'
  <2>1. /\ stage = "move" /\ h \in todo /\ todo' = todo \ {h} /\ stage' = "move"
        /\ h \in DOMAIN world /\ world[h] \in Entities
        /\ world[h].id \in DOMAIN entityMap /\ entityMap[world[h].id] = h
    BY <1>1, <1>6 DEF Move, Visit, StageType, Shape, MapAgrees, PartialFcn
  <2> DEFINE c == [world[h] EXCEPT !.pos = Moved(world[h].pos, world[h].vel)]
  <2>2. world' = [world EXCEPT ![h] = c]
    BY <1>6, <2>1 DEF Move
  <2>3. c.spawn = world[h].spawn
    BY <2>1 DEF Entities
  <2>4. IsCreature(h) => NearSpawn(c)
    <3>1. HasMoved(h) \/ HeadsForTarget(world[h]) \/ ~ IsCreature(h)
      BY <2>1 DEF WalksStraight
    <3>2. ~ HasMoved(h)
      BY <2>1 DEF HasMoved
    <3> QED BY <2>1, <3>1, <3>2, MoveNear DEF WalksStraight, IsCreature
  <2> HIDE DEF c
  <2>5. /\ DOMAIN world' = DOMAIN world
        /\ world'[h] = c
        /\ \A g \in DOMAIN world : g # h => world'[g] = world[g]
    BY <2>1, <2>2
  <2>6. HasMoved(h)' /\ \A g : HasMoved(g) => HasMoved(g)'
    BY <2>1 DEF HasMoved
  <2>7. \A g \in DOMAIN world : IsCreature(g)' = IsCreature(g)
    BY <2>3, <2>5 DEF IsCreature
  <2> QED BY <2>4, <2>5, <2>6, <2>7 DEF WalksStraight
<1>7. ASSUME NEW h, Ai(h)
      PROVE  WalksStraight'
  <2>1. /\ stage = "ai" /\ h \in todo /\ todo' = todo \ {h} /\ stage' = "ai"
        /\ h \in DOMAIN world /\ world[h] \in Entities /\ IsCreature(h)
    BY <1>1, <1>7 DEF Ai, Visit, StageType, Shape, PartialFcn
  <2>2. PICK c \in AiSteps(world[h]) : world' = [world EXCEPT ![h] = c]
    BY <1>7 DEF Ai
  <2>3. NearSpawn(c) /\ HeadsForTarget(c)
    BY <2>1, AiStepNear DEF WalksStraight, IsCreature
  <2>4. c.spawn = world[h].spawn
    BY <2>1, AiStepType DEF IsCreature
  <2>5. /\ DOMAIN world' = DOMAIN world
        /\ world'[h] = c
        /\ \A g \in DOMAIN world : g # h => world'[g] = world[g]
    BY <2>1, <2>2
  <2>6. \A g : g # h => (HasMoved(g) => HasMoved(g)')
    BY <2>1 DEF HasMoved
  <2>7. \A g \in DOMAIN world : IsCreature(g)' = IsCreature(g)
    BY <2>4, <2>5 DEF IsCreature
  <2> QED BY <2>3, <2>5, <2>6, <2>7 DEF WalksStraight
<1>8. ASSUME NEW e, Respawn(e)
      PROVE  WalksStraight'
  <2> DEFINE s == respawns[e].spawn
  <2>1. stage = "timers" /\ e \in DOMAIN respawns /\ s \in Spawns
    BY <1>1, <1>8 DEF Respawn, Visit, StageType, OthersType, PartialFcn
  <2>2. PICK rest : Spawn(Entity(nextMob, s, SpawnPos[s], rest))
    BY <1>8 DEF Respawn, FreshId
  <2> DEFINE n == Entity(nextMob, s, SpawnPos[s], rest)
  <2>3. NearSpawn(n) /\ HeadsForTarget(n)
    BY <2>1, SpawnedNear
  <2> HIDE DEF n
  <2>4. PICK h : /\ h \notin DOMAIN world
                 /\ DOMAIN world' = DOMAIN world \cup {h}
                 /\ world'[h] = n
                 /\ \A g \in DOMAIN world : world'[g] = world[g]
    BY <1>1, <2>2, SpawnWorld DEF n
  <2>5. \A g \in DOMAIN world : IsCreature(g)' = IsCreature(g)
    BY <2>4 DEF IsCreature
  <2>6. \A g : ~ HasMoved(g)
    BY <2>1, NotMoved
  <2> QED BY <2>3, <2>4, <2>5, <2>6 DEF WalksStraight
<1>9. CASE Quiet
  <2>1. world' = world
    BY <1>9 DEF Quiet, StartTick, StartAi, StartTimers, Dispatch, EndTick, AiPanics,
                ChannelChanges, structures
  <2>2. \A h \in DOMAIN world : IsCreature(h) /\ HasMoved(h) => HasMoved(h)'
    BY <1>9, <2>1 DEF Quiet, StartTick, StartAi, StartTimers, Dispatch, EndTick, AiPanics,
                      ChannelChanges, Stage, HasMoved
  <2>3. \A h : IsCreature(h)' = IsCreature(h)
    BY <2>1 DEF IsCreature
  <2> QED BY <2>1, <2>2, <2>3, WalksStraightUnchanged
<1> QED BY <1>2, <1>3, <1>4, <1>5, <1>6, <1>7, <1>8, <1>9, NextCases

\* Every step of a zone keeps a creature for each spawn point.
LEMMA KeptStep ==
    ASSUME Partitioned, IInv, CreaturesKept, Next
    PROVE  CreaturesKept'
<1>1. Shape /\ StageType /\ OthersType
  BY IInvParts
<1>2. ASSUME NEW p \in PlayerIds, NEW at \in Entries, PlayerEnter(p, at)
      PROVE  CreaturesKept'
  BY <1>2, PlayersKept
<1>3. ASSUME NEW p, (PlayerLeave(p) /\ p \in PlayerIds) \/ Prune(p)
      PROVE  CreaturesKept'
  BY <1>3, PlayersKept
<1>4. ASSUME NEW e, KillCreature(e)
      PROVE  CreaturesKept'
  BY <1>4, KillKept
<1>5. ASSUME NEW e, Respawn(e)
      PROVE  CreaturesKept'
  BY <1>5, RespawnKept
<1>6. \A h \in DOMAIN world : world[h] \in Entities
  BY <1>1 DEF Shape, PartialFcn
<1>7. ASSUME NEW p, NEW d, NEW speed, MoveInput(p, d, speed)
      PROVE  CreaturesKept'
  <2>1. \A h \in DOMAIN world : world'[h].spawn = world[h].spawn
    <3> SUFFICES ASSUME NEW h \in DOMAIN world PROVE world'[h].spawn = world[h].spawn
      OBVIOUS
    <3>1. \/ world'[h] = world[h]
          \/ world'[h] = [world[h] EXCEPT !.vel = Velocity(d, speed)]
      BY <1>7 DEF MoveInput
    <3> QED BY <1>6, <3>1 DEF Entities
  <2> QED BY <1>7, <2>1, SameSpawnsKept DEF MoveInput
<1>8. ASSUME NEW h, Move(h)
      PROVE  CreaturesKept'
  <2> DEFINE new == Moved(world[h].pos, world[h].vel)
  <2>1. world' = world \/ world' = [world EXCEPT ![entityMap[world[h].id]].pos = new]
    BY <1>8 DEF Move
  <2> HIDE DEF new
  <2>2. \A g \in DOMAIN world : world'[g].spawn = world[g].spawn
    <3> SUFFICES ASSUME NEW g \in DOMAIN world PROVE world'[g].spawn = world[g].spawn
      OBVIOUS
    <3>1. world'[g] = world[g] \/ world'[g] = [world[g] EXCEPT !.pos = new]
      BY <2>1
    <3> QED BY <1>6, <3>1 DEF Entities
  <2>3. DOMAIN world' = DOMAIN world /\ respawns' = respawns
    BY <1>8, <2>1 DEF Move
  <2> QED BY <2>2, <2>3, SameSpawnsKept
<1>9. ASSUME NEW h, Ai(h)
      PROVE  CreaturesKept'
  <2>1. h \in DOMAIN world /\ IsCreature(h)
    BY <1>1, <1>9 DEF Ai, Visit, StageType
  <2>2. PICK c \in AiSteps(world[h]) : world' = [world EXCEPT ![h] = c]
    BY <1>9 DEF Ai
  <2>3. c.spawn = world[h].spawn
    BY <1>6, <2>1, AiStepType DEF IsCreature
  <2>4. respawns' = respawns
    BY <1>9 DEF Ai
  <2> QED BY <2>2, <2>3, <2>4, SameSpawnsKept
<1>10. CASE Quiet
  <2>1. world' = world
    BY <1>10 DEF Quiet, StartTick, StartAi, StartTimers, Dispatch, EndTick, AiPanics,
                 ChannelChanges, structures
  <2>2. /\ DOMAIN respawns' = DOMAIN respawns
        /\ \A e \in DOMAIN respawns : respawns'[e].spawn = respawns[e].spawn
    <3>1. CASE StartTimers
      <4> SUFFICES ASSUME NEW e \in DOMAIN respawns
                   PROVE  respawns'[e].spawn = respawns[e].spawn
        BY <3>1 DEF StartTimers
      <4>1. respawns'[e] = TimerStep(respawns[e])
        BY <3>1 DEF StartTimers
      <4>2. respawns[e] \in [spawn : Spawns, timer : Int]
        BY <1>1 DEF OthersType, PartialFcn
      <4> QED BY <4>1, <4>2 DEF TimerStep
    <3>2. CASE ~ StartTimers
      BY <1>10, <3>2 DEF Quiet, StartTick, StartAi, Dispatch, EndTick, AiPanics, ChannelChanges
    <3> QED BY <3>1, <3>2
  <2> QED BY <2>1, <2>2, SameSpawnsKept
<1> QED BY <1>2, <1>3, <1>4, <1>5, <1>7, <1>8, <1>9, <1>10, NextCases

\* A zone starts with one creature on each spawn point, which stands still.
LEMMA InitLife == Init => CreaturesKept /\ WalksStraight
<1> SUFFICES ASSUME Init PROVE CreaturesKept /\ WalksStraight
  OBVIOUS
<1>1. PICK rest : world = [s \in Spawns |-> Entity(MobBase + s - 1, s, SpawnPos[s], rest[s])]
  BY DEF Init
<1>2. \A s \in Spawns : /\ world[s].spawn = s
                        /\ NearSpawn(world[s]) /\ HeadsForTarget(world[s])
  <2> SUFFICES ASSUME NEW s \in Spawns
               PROVE  /\ world[s].spawn = s
                      /\ NearSpawn(world[s]) /\ HeadsForTarget(world[s])
    OBVIOUS
  <2>1. world[s] = Entity(MobBase + s - 1, s, SpawnPos[s], rest[s])
    BY <1>1
  <2>2. world[s].spawn = s
    BY <2>1 DEF Entity
  <2> QED BY <2>1, <2>2, SpawnedNear
<1>3. DOMAIN world = Spawns
  BY <1>1
<1>4. WalksStraight
  BY <1>2, <1>3 DEF WalksStraight
<1>5. \A s \in Spawns : Alive(s) = {s} /\ Pending(s) = {}
  BY <1>2, <1>3 DEF Alive, Pending, Init
<1> QED BY <1>3, <1>4, <1>5 DEF CreaturesKept

\* Kills and respawns neither lose nor multiply creatures: a spawn point has one,
\* alive or waiting to come back, however many players come, go and hang up.
THEOREM CreaturesKeptCorrect == Partitioned => (Spec => []CreaturesKept)
<1> SUFFICES ASSUME Partitioned PROVE Spec => []CreaturesKept
  OBVIOUS
<1>1. IInv /\ CreaturesKept /\ [Next]_vars => CreaturesKept'
  <2>1. IInv /\ CreaturesKept /\ UNCHANGED vars => CreaturesKept'
    BY SameSpawnsKept DEF vars, structures
  <2> QED BY <2>1, KeptStep
<1>2. Spec => []IInv
  BY ZoneInvariance
<1> QED BY <1>1, <1>2, InitLife, PTL DEF Spec

\* On its way, a creature is within its radius and one step of its spawn point.
LEMMA WalksStraightNear == IInv /\ WalksStraight => WanderersStayNear
<1> SUFFICES ASSUME IInv, WalksStraight, NEW h \in DOMAIN world, IsCreature(h)
             PROVE  LET s == world[h].spawn
                    IN Within(SpawnPos[s], world[h].pos, WanderRadius[s] + MoveSpeed[s])
  BY DEF WanderersStayNear
<1> DEFINE s == world[h].spawn
<1>1. world[h] \in Entities
  BY DEF IInv, TypeOK, PartialFcn
<1>2. s \in Spawns /\ world[h].pos \in Int \X Int
  BY <1>1, PlacesAssumption DEF Entities, IsCreature
<1>3. WanderRadius[s] + MoveSpeed[s] \in Nat
  BY <1>2, SpawnsAssumption DEF Spawns
<1>4. OnRow(s, world[h].pos, WanderRadius[s] + MoveSpeed[s])
  BY DEF WalksStraight, NearSpawn
<1> QED BY <1>2, <1>3, <1>4, RowWithin

\* A wandering creature stays near its spawn point, whatever targets it draws and
\* wherever the steps of its walk happen to end.
THEOREM WanderersStayNearCorrect == Partitioned => (Spec => []WanderersStayNear)
<1> SUFFICES ASSUME Partitioned PROVE Spec => []WanderersStayNear
  OBVIOUS
<1>1. IInv /\ WalksStraight /\ [Next]_vars => WalksStraight'
  <2>1. WalksStraight /\ UNCHANGED vars => WalksStraight'
    BY WalksStraightUnchanged DEF vars, structures, HasMoved, IsCreature
  <2> QED BY <2>1, WalksStraightStep
<1>2. Spec => []IInv
  BY ZoneInvariance
<1> QED BY <1>1, <1>2, InitLife, WalksStraightNear, PTL DEF Spec
------------------------------------------------------------------------------
(***************************************************************************)
(* Refinement of EntityTable.                                              *)
(***************************************************************************)
\* The creatures of the start are a table of the ids given away.
LEMMA InitTable == Init => Table!Init
<1> SUFFICES ASSUME Init PROVE Table!Init
  OBVIOUS
<1>1. IInv
  BY InitIInv
<1>2. DOMAIN Position = entered \cup MobBase .. nextMob - 1
  BY DEF Init, Position
<1>3. \A e \in DOMAIN Position : Position[e] \in Area
  BY <1>1, IInvShape DEF Shape, MapAgrees, Position, PartialFcn, Entities
<1>4. Position = [e \in DOMAIN Position |-> Position[e]]
  BY DEF Position
<1> QED BY <1>2, <1>3, <1>4 DEF Table!Init

\* Every step of a zone is a step of the table, or none at all.
LEMMA StepTable ==
    ASSUME Partitioned, IInv, [Next]_vars
    PROVE  [Table!Next]_(Table!vars)
<1> DEFINE used == entered \cup MobBase .. nextMob - 1
<1>1. /\ MobBase \in Nat /\ nextMob \in Nat /\ nextMob >= MobBase
      /\ entered \subseteq PlayerIds
      /\ \A p \in PlayerIds : p \in Nat /\ p < MobBase
  BY IdsAssumption DEF IInv, TypeOK, Fresh, MobBase, Partitioned
<1>2. DOMAIN Position = DOMAIN entityMap
  BY DEF Position
<1>3. ASSUME NEW p \in PlayerIds, NEW at \in Entries, PlayerEnter(p, at)
      PROVE  Table!Next
  <2>1. Position' = Put(Position, p, at) /\ p \notin entered
    BY <1>3, PlayerEnterIInv
  <2>2. entered' = entered \cup {p} /\ nextMob' = nextMob
    BY <1>3 DEF PlayerEnter
  <2>3. p \notin used /\ used' = used \cup {p}
    BY <1>1, <2>1, <2>2
  <2>4. Table!Appear(p, at)
    BY <2>1, <2>3 DEF Table!Appear, Put
  <2> QED BY <2>3, <2>4, EntriesAssumption DEF Table!Next
<1>4. ASSUME NEW e, Respawn(e)
      PROVE  Table!Next
  <2>1. PICK p \in Area : Position' = Put(Position, nextMob, p)
    BY <1>4, RespawnIInv
  <2>2. nextMob' = nextMob + 1 /\ entered' = entered
    BY <1>4 DEF Respawn
  <2>3. nextMob \notin used /\ used' = used \cup {nextMob}
    BY <1>1, <2>2
  <2>4. Table!Appear(nextMob, p)
    BY <2>1, <2>3 DEF Table!Appear, Put
  <2> QED BY <2>3, <2>4 DEF Table!Next
<1>5. ASSUME NEW p, (PlayerLeave(p) /\ p \in PlayerIds) \/ Prune(p)
      PROVE  [Table!Next]_(Table!vars)
  <2>1. used' = used
    BY <1>5 DEF PlayerLeave, Prune
  <2>2. CASE p \in DOMAIN entityMap
    <3>1. Table!Vanish(p)
      BY <1>5, <2>1, <2>2, RemoveIInv DEF Table!Vanish, Drop, Restrict
    <3> QED BY <1>2, <2>2, <3>1 DEF Table!Next
  <2>3. CASE p \notin DOMAIN entityMap
    BY <1>5, <2>1, <2>3, RemoveIInv DEF Table!vars
  <2> QED BY <2>2, <2>3
<1>6. ASSUME NEW e, KillCreature(e)
      PROVE  Table!Next
  <2>1. used' = used
    BY <1>6 DEF KillCreature
  <2>2. e \in DOMAIN Position /\ Table!Vanish(e)
    BY <1>2, <1>6, <2>1, KillCreatureIInv DEF Table!Vanish, Drop, Restrict
  <2> QED BY <2>2 DEF Table!Next
<1>7. ASSUME NEW h, Move(h)
      PROVE  Table!Next
  <2>1. used' = used
    BY <1>7 DEF Move
  <2>2. PICK e \in DOMAIN entityMap, p \in Area : Position' = Put(Position, e, p)
    BY <1>7, MoveIInv
  <2>3. Position = [d \in DOMAIN Position |-> Position[d]]
    BY DEF Position
  <2>4. Position' = [Position EXCEPT ![e] = p]
    BY <1>2, <2>2, <2>3 DEF Put
  <2>5. Table!Move(e, p)
    BY <2>1, <2>4 DEF Table!Move
  <2> QED BY <1>2, <2>2, <2>5 DEF Table!Next
<1>8. ASSUME NEW h, Ai(h)
      PROVE  UNCHANGED Table!vars
  BY <1>8, AiIInv DEF Ai, Table!vars
<1>9. ASSUME NEW p, NEW d \in Directions, NEW speed \in Speeds, MoveInput(p, d, speed)
      PROVE  UNCHANGED Table!vars
  BY <1>9, MoveInputIInv DEF MoveInput, Table!vars
<1>10. CASE Quiet
  BY <1>10, QuietStep DEF Table!vars
<1>11. CASE UNCHANGED vars
  BY <1>11 DEF vars, structures, Position, Table!vars
<1> QED BY <1>3, <1>4, <1>5, <1>6, <1>7, <1>8, <1>9, <1>10, <1>11, NextCases

\* A zone implements the table: an id never comes back, and an entity that is
\* there moves only among the places.
THEOREM TableRefinement == Partitioned => (Spec => ImplementsEntityTable)
<1> SUFFICES ASSUME Partitioned PROVE Spec => ImplementsEntityTable
  OBVIOUS
<1>1. IInv /\ [Next]_vars => [Table!Next]_(Table!vars)
  BY StepTable
<1> QED BY <1>1, InitTable, ZoneInvariance, PTL DEF Spec, ImplementsEntityTable, Table!Spec
=============================================================================

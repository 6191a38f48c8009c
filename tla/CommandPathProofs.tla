-------------------------- MODULE CommandPathProofs --------------------------
(***************************************************************************)
(* The way of a player's commands, for every number of clients, worker     *)
(* threads and zones, every capacity of the inboxes and every number of    *)
(* movements: they stay in order, none is read before its player is there, *)
(* and nothing comes from a client whose token is revoked.                 *)
(***************************************************************************)
EXTENDS CommandPath, Integers, SequenceTheorems, TLAPS

Front == IF DefaultZone \in Zones THEN inbox[DefaultZone] ELSE <<>>
Middle == IF held = NoCommand THEN <<>> ELSE <<held>>

(* MovesInOrder of any path and any last movements applied *)
InOrder(q, last) ==
    \A c \in Conns : \A i \in DOMAIN q :
        IsMove(q[i], c) =>
            /\ last[c] < q[i].number
            /\ \A j \in 1 .. i - 1 : IsMove(q[j], c) => q[j].number < q[i].number

(* Movements of a path are numbered from 1 to what their clients have sent. *)
Numbered(q, s) ==
    \A i \in DOMAIN q :
        q[i].kind = "move" => q[i].number <= s[q[i].entity] /\ q[i].number > 0
------------------------------------------------------------------------------
(* Three channels in a row.                                                *)

(* The elements of a path of three parts. *)
LEMMA Join ==
    ASSUME NEW A \in Seq(Commands), NEW H \in Seq(Commands), NEW I \in Seq(Commands)
    PROVE  /\ A \o H \o I \in Seq(Commands)
           /\ Len(A \o H \o I) = Len(A) + Len(H) + Len(I)
           /\ \A i \in 1 .. Len(A) : (A \o H \o I)[i] = A[i]
           /\ \A i \in 1 .. Len(H) : (A \o H \o I)[Len(A) + i] = H[i]
           /\ \A i \in 1 .. Len(I) : (A \o H \o I)[Len(A) + Len(H) + i] = I[i]
           /\ DOMAIN (A \o H \o I) = 1 .. Len(A) + Len(H) + Len(I)
  <1>1. Len(A) \in Nat /\ Len(H) \in Nat /\ Len(I) \in Nat
    OBVIOUS
  <1>2. /\ A \o H \in Seq(Commands) /\ Len(A \o H) = Len(A) + Len(H)
        /\ \A i \in 1 .. Len(A) + Len(H) :
             (A \o H)[i] = IF i <= Len(A) THEN A[i] ELSE H[i - Len(A)]
    BY ConcatProperties
  <1>3. /\ (A \o H) \o I \in Seq(Commands)
        /\ Len((A \o H) \o I) = Len(A \o H) + Len(I)
        /\ \A i \in 1 .. Len(A \o H) + Len(I) :
             ((A \o H) \o I)[i] = IF i <= Len(A \o H) THEN (A \o H)[i] ELSE I[i - Len(A \o H)]
    BY <1>2, ConcatProperties
  <1>4. \A i \in 1 .. Len(A) : (A \o H \o I)[i] = A[i]
    BY <1>1, <1>2, <1>3
  <1>5. \A i \in 1 .. Len(H) : (A \o H \o I)[Len(A) + i] = H[i]
    <2> TAKE i \in 1 .. Len(H)
    <2>1. /\ Len(A) + i \in 1 .. Len(A) + Len(H) /\ ~(Len(A) + i <= Len(A))
          /\ (Len(A) + i) - Len(A) = i
      BY <1>1
    <2> QED
      BY <1>1, <1>2, <1>3, <2>1
  <1>6. \A i \in 1 .. Len(I) : (A \o H \o I)[Len(A) + Len(H) + i] = I[i]
    <2> TAKE i \in 1 .. Len(I)
    <2> DEFINE k == Len(A) + Len(H) + i
    <2>1. /\ k \in 1 .. Len(A \o H) + Len(I) /\ ~(k <= Len(A \o H))
          /\ k - Len(A \o H) = i
      BY <1>1, <1>2
    <2> QED
      BY <1>3, <2>1
  <1>7. DOMAIN (A \o H \o I) = 1 .. Len(A) + Len(H) + Len(I)
    BY <1>1, <1>2, <1>3
  <1> QED
    BY <1>1, <1>2, <1>3, <1>4, <1>5, <1>6, <1>7

(* A path whose movements are those of another, in the same order, is as   *)
(* well ordered and numbered.                                              *)
LEMMA Thinned ==
    ASSUME NEW q \in Seq(Commands), NEW r \in Seq(Commands), NEW last, NEW s, NEW f,
           InOrder(q, last), Numbered(q, s),
           \A i \in 1 .. Len(r) : r[i].kind = "move" =>
               f[i] \in 1 .. Len(q) /\ r[i] = q[f[i]],
           \A i \in 1 .. Len(r) : \A j \in 1 .. i - 1 :
               r[i].kind = "move" /\ r[j].kind = "move" => f[j] < f[i]
    PROVE  InOrder(r, last) /\ Numbered(r, s)
  <1>1. /\ DOMAIN q = 1 .. Len(q) /\ DOMAIN r = 1 .. Len(r)
        /\ Len(q) \in Nat /\ Len(r) \in Nat
    OBVIOUS
  <1>2. Numbered(r, s)
    BY <1>1 DEF Numbered
  <1>3. ASSUME NEW c \in Conns, NEW i \in 1 .. Len(r), IsMove(r[i], c)
        PROVE  /\ last[c] < r[i].number
               /\ \A j \in 1 .. i - 1 : IsMove(r[j], c) => r[j].number < r[i].number
    <2>1. f[i] \in 1 .. Len(q) /\ r[i] = q[f[i]] /\ IsMove(q[f[i]], c)
      BY <1>3 DEF IsMove
    <2>2. /\ last[c] < q[f[i]].number
          /\ \A k \in 1 .. f[i] - 1 : IsMove(q[k], c) => q[k].number < q[f[i]].number
      BY <1>1, <2>1 DEF InOrder
    <2>3. ASSUME NEW j \in 1 .. i - 1, IsMove(r[j], c)
          PROVE  r[j].number < r[i].number
      <3>1. j \in 1 .. Len(r)
        BY <1>1
      <3>2. f[j] \in 1 .. Len(q) /\ r[j] = q[f[j]] /\ IsMove(q[f[j]], c)
        BY <2>3, <3>1 DEF IsMove
      <3>3. f[j] < f[i]
        BY <1>3, <2>3 DEF IsMove
      <3>4. f[j] \in 1 .. f[i] - 1
        BY <1>1, <2>1, <3>2, <3>3
      <3> QED
        BY <2>1, <2>2, <3>2, <3>4
    <2> QED
      BY <2>1, <2>2, <2>3
  <1> QED
    BY <1>1, <1>2, <1>3 DEF InOrder

(* The path of this state, and of the next one. *)
LEMMA PathParts ==
    ASSUME TypeOK
    PROVE  /\ Front \in Seq(Commands) /\ Middle \in Seq(Commands) /\ immediate \in Seq(Commands)
           /\ OnTheWay = Front \o Middle \o immediate
           /\ OnTheWay \in Seq(Commands)
  <1>1. Front \in Seq(Commands) /\ Middle \in Seq(Commands) /\ immediate \in Seq(Commands)
    BY DEF TypeOK, Front, Middle
  <1>2. OnTheWay = Front \o Middle \o immediate
    BY DEF OnTheWay, Front, Middle
  <1> QED
    BY <1>1, <1>2, Join
------------------------------------------------------------------------------
(* Types.                                                                  *)

(* Every step of the tasks, the router and the zones keeps the types. *)
LEMMA TypeStep ==
    ASSUME TypeOK, TaskShape, [Next]_vars
    PROVE  TypeOK'
  <1> USE BoundsAssumption DEF TypeOK
  <1>z. \A c \in Conns : wiring[c] = "sending" => zone[c] \in Zones
    BY DEF TaskShape
  <1>1. CASE UNCHANGED vars
    BY <1>1 DEF vars, auth, zoneVars
  <1>2. ASSUME NEW c \in Conns, Revoke(c) PROVE TypeOK'
    BY <1>2 DEF Revoke, zoneVars
  <1>3. ASSUME NEW c \in Conns, Handshake(c) \/ RedisAnswers(c) \/ CheckBlocklist(c) \/ CheckFails(c)
        PROVE  TypeOK'
    <2>1. CASE Handshake(c) \/ RedisAnswers(c)
      BY <2>1 DEF Handshake, RedisAnswers, Go, Phases, auth, zoneVars
    <2>2. CASE CheckBlocklist(c)
      BY <2>2 DEF CheckBlocklist, Go, Phases, auth, zoneVars
    <2>3. CASE CheckFails(c)
      BY <2>3 DEF CheckFails, Go, Phases, zoneVars
    <2> QED
      BY <1>3, <2>1, <2>2, <2>3
  <1>4. ASSUME NEW c \in Conns, Accepted(c) \/ SnapshotsEnd(c) \/ Leave(c)
        PROVE  TypeOK'
    BY <1>4 DEF Accepted, SnapshotsEnd, Leave, Go, Phases, auth, zoneVars
  <1>5. ASSUME NEW c \in Conns, Select(c) PROVE TypeOK'
    BY <1>5 DEF Select, Go, Phases, auth, zoneVars
  <1>6. ASSUME NEW c \in Conns, RouteMove(c) PROVE TypeOK'
    <2>1. sent[c] \in 0 .. MaxMoves /\ sent[c] < MaxMoves
      BY <1>6 DEF RouteMove
    <2>2. Move(c, sent[c] + 1) \in Commands /\ sent[c] + 1 \in 0 .. MaxMoves
      BY <2>1 DEF Move, Commands
    <2>3. immediate' \in Seq(Commands)
      BY <1>6, <2>2, AppendProperties DEF RouteMove
    <2> QED
      BY <1>6, <2>2, <2>3 DEF RouteMove, auth, zoneVars
  <1>7. ASSUME NEW c \in Conns, TakeEnterRequest(c) PROVE TypeOK'
    BY <1>7 DEF TakeEnterRequest, auth, zoneVars
  <1>8. ASSUME NEW z \in Zones, NEW cmd \in Commands, SendReturns(z)
        PROVE  /\ InboxAfter(z, cmd) \in [Zones -> Seq(Commands)]
               /\ \A y \in Zones : Len(InboxAfter(z, cmd)[y]) <= InboxCapacity
    <2>1. /\ Append(inbox[z], cmd) \in Seq(Commands)
          /\ Len(Append(inbox[z], cmd)) = Len(inbox[z]) + 1
      BY AppendProperties
    <2>2. z \in alive => Len(inbox[z]) < InboxCapacity
      BY <1>8 DEF SendReturns
    <2>3. Len(inbox[z]) \in Nat
      OBVIOUS
    <2> QED
      BY <2>1, <2>2, <2>3 DEF InboxAfter
  <1>9. ASSUME NEW c \in Conns, Place(c) PROVE TypeOK'
    <2>1. Enter(c) \in Commands
      BY DEF Enter, Commands
    <2>2. zone[c] \in Zones /\ SendReturns(zone[c])
      BY <1>9, <1>z DEF Place
    <2>3. /\ inbox' \in [Zones -> Seq(Commands)]
          /\ \A y \in Zones : Len(inbox'[y]) <= InboxCapacity
      BY <1>8, <1>9, <2>1, <2>2 DEF Place
    <2> QED
      BY <1>9, <2>3 DEF Place, auth, zoneVars
  <1>10. CASE RouterTakes
    BY <1>10, HeadTailProperties DEF RouterTakes, auth, zoneVars
  <1>11. CASE RouterSends
    <2>1. held \in Commands
      BY <1>11 DEF RouterSends
    <2>2. /\ inbox' \in [Zones -> Seq(Commands)]
          /\ \A y \in Zones : Len(inbox'[y]) <= InboxCapacity
      BY <1>8, <1>11, <2>1 DEF RouterSends
    <2> QED
      BY <1>11, <2>2 DEF RouterSends, auth, zoneVars
  <1>12. ASSUME NEW z \in Zones, Drain(z) PROVE TypeOK'
    <2>1. /\ Head(inbox[z]) \in Commands /\ Tail(inbox[z]) \in Seq(Commands)
          /\ Len(Tail(inbox[z])) = Len(inbox[z]) - 1
      BY <1>12, HeadTailProperties DEF Drain
    <2>2. /\ Head(inbox[z]).entity \in Conns /\ Head(inbox[z]).number \in 0 .. MaxMoves
      BY <2>1 DEF Commands
    <2> DEFINE cmd == Head(inbox[z])
    <2>3. entities' \in [Zones -> SUBSET Conns] /\ applied' \in [Conns -> 0 .. MaxMoves]
      <3>1. \/ /\ entities' = [entities EXCEPT ![z] = @ \cup {cmd.entity}]
               /\ applied' = applied
            \/ /\ entities' = entities
               /\ applied' = applied \/ applied' = [applied EXCEPT ![cmd.entity] = cmd.number]
        BY <1>12 DEF Drain
      <3> HIDE DEF cmd
      <3>2. cmd.entity \in Conns /\ cmd.number \in 0 .. MaxMoves
        BY <2>2 DEF cmd
      <3>3. entities \in [Zones -> SUBSET Conns] /\ applied \in [Conns -> 0 .. MaxMoves]
        OBVIOUS
      <3>4. entities' \in [Zones -> SUBSET Conns]
        <4>1. entities[z] \cup {cmd.entity} \in SUBSET Conns
          BY <3>2, <3>3
        <4> QED
          BY <3>1, <3>3, <4>1
      <3>5. applied' \in [Conns -> 0 .. MaxMoves]
        BY <3>1, <3>2, <3>3
      <3> QED
        BY <3>4, <3>5
    <2>4. \A y \in Zones : Len(inbox[y]) \in Nat
      OBVIOUS
    <2>5. /\ inbox' \in [Zones -> Seq(Commands)]
          /\ \A y \in Zones : Len(inbox'[y]) <= InboxCapacity
      BY <1>12, <2>1, <2>4 DEF Drain
    <2> QED
      BY <1>12, <2>3, <2>5 DEF Drain, auth
  <1>13. ASSUME NEW z \in Zones, Prune(z) PROVE TypeOK'
    BY <1>13 DEF Prune, auth
  <1>14. ASSUME NEW z \in Zones, ZoneEnds(z) PROVE TypeOK'
    <2>1. <<>> \in Seq(Commands) /\ Len(<<>>) = 0
      OBVIOUS
    <2> QED
      BY <1>14, <2>1 DEF ZoneEnds, auth
  <1> QED
    BY <1>1, <1>2, <1>3, <1>4, <1>5, <1>6, <1>7, <1>9, <1>10, <1>11, <1>12, <1>13, <1>14
       DEF Next, ConnStep, OwnStep
------------------------------------------------------------------------------
(* The tasks.                                                              *)

(* A task is placed before its client plays, and a revoked token gets no   *)
(* further than the query for it.                                          *)
LEMMA TaskStep ==
    ASSUME TypeOK, TaskShape, AuthShape, [Next]_vars
    PROVE  TaskShape' /\ AuthShape'
  <1>t. /\ phase \in [Conns -> Phases]
        /\ revoked \in [Conns -> {"no", "yes", "missed"}]
        /\ zone \in [Conns -> ZoneIds \cup {NoZone}]
        /\ sent \in [Conns -> 0 .. MaxMoves]
        /\ wiring \in [Conns -> {"idle", "sending", "sent", "refused"}]
    BY DEF TypeOK
  <1>u. ASSUME UNCHANGED <<devAuth, revoked, phase, zone, sent, wiring>>
        PROVE  TaskShape' /\ AuthShape'
    BY <1>u DEF TaskShape, AuthShape
  <1>1. CASE UNCHANGED vars
    BY <1>1, <1>u DEF vars, auth
  <1>2. ASSUME NEW c \in Conns, Revoke(c) PROVE TaskShape' /\ AuthShape'
    BY <1>2, <1>t DEF Revoke, TaskShape, AuthShape
  <1>3. ASSUME NEW c \in Conns, Handshake(c) PROVE TaskShape' /\ AuthShape'
    BY <1>3, <1>t DEF Handshake, Go, auth, TaskShape, AuthShape
  <1>4. ASSUME NEW c \in Conns, RedisAnswers(c) PROVE TaskShape' /\ AuthShape'
    BY <1>4, <1>t DEF RedisAnswers, Go, auth, TaskShape, AuthShape
  <1>5. ASSUME NEW c \in Conns, CheckBlocklist(c) PROVE TaskShape' /\ AuthShape'
    BY <1>5, <1>t DEF CheckBlocklist, Blocked, Go, auth, TaskShape, AuthShape
  <1>6. ASSUME NEW c \in Conns, CheckFails(c) PROVE TaskShape' /\ AuthShape'
    BY <1>6, <1>t DEF CheckFails, Go, TaskShape, AuthShape
  <1>7. ASSUME NEW c \in Conns, Select(c) PROVE TaskShape' /\ AuthShape'
    <2>1. /\ phase[c] = "select" /\ phase' = [phase EXCEPT ![c] = "entering"]
          /\ \A d \in Conns \ {c} : zone'[d] = zone[d]
          /\ UNCHANGED <<devAuth, revoked, sent, wiring>>
      BY <1>7, <1>t DEF Select, Go, auth
    <2>2. wiring[c] = "idle" /\ ~(sent[c] > 0) /\ ~(revoked[c] = "yes" /\ ~devAuth)
      BY <2>1 DEF TaskShape, AuthShape
    <2> QED
      BY <2>1, <2>2, <1>t DEF TaskShape, AuthShape
  <1>8. ASSUME NEW c \in Conns, Accepted(c) PROVE TaskShape' /\ AuthShape'
    BY <1>8, <1>t DEF Accepted, MayPlay, Go, auth, TaskShape, AuthShape
  <1>9. ASSUME NEW c \in Conns, SnapshotsEnd(c) \/ Leave(c) PROVE TaskShape' /\ AuthShape'
    BY <1>9, <1>t DEF SnapshotsEnd, Leave, Go, auth, TaskShape, AuthShape
  <1>10. ASSUME NEW c \in Conns, RouteMove(c) PROVE TaskShape' /\ AuthShape'
    BY <1>10, <1>t DEF RouteMove, auth, TaskShape, AuthShape
  <1>11. ASSUME NEW c \in Conns, TakeEnterRequest(c) PROVE TaskShape' /\ AuthShape'
    BY <1>11, <1>t DEF TakeEnterRequest, auth, TaskShape, AuthShape
  <1>12. ASSUME NEW c \in Conns, Place(c) PROVE TaskShape' /\ AuthShape'
    BY <1>12, <1>t DEF Place, auth, TaskShape, AuthShape
  <1>13. CASE RouterTakes \/ RouterSends
    BY <1>13, <1>u DEF RouterTakes, RouterSends, auth
  <1>14. ASSUME NEW z \in Zones, Drain(z) \/ Prune(z) \/ ZoneEnds(z)
         PROVE  TaskShape' /\ AuthShape'
    BY <1>14, <1>u DEF Drain, Prune, ZoneEnds, auth
  <1> QED
    BY <1>1, <1>2, <1>3, <1>4, <1>5, <1>6, <1>7, <1>8, <1>9, <1>10, <1>11, <1>12, <1>13, <1>14
       DEF Next, ConnStep, OwnStep
------------------------------------------------------------------------------
(* The order of movements.                                                 *)

(* The path of a movement and its three parts after a step. *)
LEMMA PathPartsNext ==
    ASSUME TypeOK'
    PROVE  /\ Front' \in Seq(Commands) /\ Middle' \in Seq(Commands) /\ immediate' \in Seq(Commands)
           /\ OnTheWay' = Front' \o Middle' \o immediate'
           /\ OnTheWay' \in Seq(Commands)
  <1>1. Front' \in Seq(Commands) /\ Middle' \in Seq(Commands) /\ immediate' \in Seq(Commands)
    BY DEF TypeOK, Front, Middle
  <1>2. OnTheWay' = Front' \o Middle' \o immediate'
    BY DEF OnTheWay, Front, Middle
  <1> QED
    BY <1>1, <1>2, Join

(* Steps that move no command leave the path as it is. *)
LEMMA PathUnchanged ==
    ASSUME UNCHANGED <<immediate, held, inbox>>
    PROVE  OnTheWay' = OnTheWay
  BY DEF OnTheWay

(* A command may stand at the head of a part or alone before it. *)
LEMMA HeadApart ==
    ASSUME NEW A \in Seq(Commands), NEW I \in Seq(Commands), I # <<>>
    PROVE  A \o <<Head(I)>> \o Tail(I) = A \o <<>> \o I
  <1> DEFINE q == A \o <<>> \o I
             r == A \o <<Head(I)>> \o Tail(I)
             n == Len(A)
  <1>1. /\ Head(I) = I[1] /\ Head(I) \in Commands /\ Tail(I) \in Seq(Commands)
        /\ Len(Tail(I)) = Len(I) - 1
        /\ \A i \in 1 .. Len(Tail(I)) : Tail(I)[i] = I[i + 1]
        /\ Len(I) \in Nat \ {0} /\ n \in Nat
    BY HeadTailProperties
  <1>2. /\ q \in Seq(Commands) /\ Len(q) = n + Len(I)
        /\ \A i \in 1 .. n : q[i] = A[i]
        /\ \A i \in 1 .. Len(I) : q[n + i] = I[i]
    <2>1. <<>> \in Seq(Commands) /\ Len(<<>>) = 0
      OBVIOUS
    <2> QED
      BY <1>1, <2>1, Join
  <1>3. /\ r \in Seq(Commands) /\ Len(r) = n + 1 + Len(Tail(I))
        /\ \A i \in 1 .. n : r[i] = A[i]
        /\ r[n + 1] = I[1]
        /\ \A i \in 1 .. Len(Tail(I)) : r[n + 1 + i] = Tail(I)[i]
    <2>1. <<Head(I)>> \in Seq(Commands) /\ Len(<<Head(I)>>) = 1 /\ <<Head(I)>>[1] = I[1]
      BY <1>1
    <2> QED
      BY <1>1, <2>1, Join
  <1> HIDE DEF q, r, n
  <1>4. Len(r) = Len(q)
    BY <1>1, <1>2, <1>3
  <1>5. ASSUME NEW i \in 1 .. Len(r) PROVE r[i] = q[i]
    <2>1. CASE i <= n
      BY <1>1, <1>2, <1>3, <2>1
    <2>2. CASE i = n + 1
      BY <1>1, <1>2, <1>3, <2>2
    <2>3. CASE i > n + 1
      <3> DEFINE k == i - (n + 1)
      <3>1. k \in 1 .. Len(Tail(I)) /\ k + 1 \in 1 .. Len(I) /\ i = n + 1 + k /\ i = n + (k + 1)
        BY <1>1, <1>3, <2>3
      <3>2. r[n + 1 + k] = I[k + 1]
        BY <1>1, <1>3, <3>1
      <3>3. q[n + (k + 1)] = I[k + 1]
        BY <1>2, <3>1
      <3> QED
        BY <3>1, <3>2, <3>3
    <2> QED
      BY <1>1, <2>1, <2>2, <2>3
  <1>6. r = q
    BY <1>2, <1>3, <1>4, <1>5, SeqEqual
  <1> QED
    BY <1>6 DEF r, q

(* A command may stand at the end of a part or alone behind it. *)
LEMMA LastApart ==
    ASSUME NEW A \in Seq(Commands), NEW I \in Seq(Commands), NEW m \in Commands
    PROVE  Append(A, m) \o <<>> \o I = A \o <<m>> \o I
  <1>1. Append(A, m) \in Seq(Commands) /\ Append(A, m) = A \o <<m>>
    BY AppendProperties, AppendIsConcat
  <1>2. Append(A, m) \o <<>> = Append(A, m)
    BY <1>1, ConcatEmptySeq
  <1> QED
    BY <1>1, <1>2

(* A new command is the last of the path. *)
LEMMA LastOfAll ==
    ASSUME NEW A \in Seq(Commands), NEW I \in Seq(Commands), NEW m \in Commands
    PROVE  A \o Append(I, m) = Append(A \o I, m)
  <1>1. A \o I \in Seq(Commands) /\ <<m>> \in Seq(Commands)
    BY ConcatProperties
  <1>2. Append(I, m) = I \o <<m>> /\ Append(A \o I, m) = (A \o I) \o <<m>>
    BY <1>1, AppendIsConcat
  <1> QED
    BY <1>1, <1>2, ConcatAssociative

(* The router takes a command from its channel: the path is the same. *)
LEMMA PathTaken ==
    ASSUME TypeOK, RouterTakes
    PROVE  OnTheWay' = OnTheWay
  <1>1. /\ Front \in Seq(Commands) /\ immediate \in Seq(Commands) /\ immediate # <<>>
        /\ held = NoCommand /\ held' = Head(immediate) /\ immediate' = Tail(immediate)
        /\ Front' = Front
    BY PathParts DEF RouterTakes, Front
  <1>2. Head(immediate) \in Commands
    BY <1>1, HeadTailProperties
  <1>3. Middle = <<>> /\ Middle' = <<Head(immediate)>>
    BY <1>1, <1>2, NoCommandAssumption DEF Middle
  <1>4. /\ OnTheWay = Front \o Middle \o immediate
        /\ OnTheWay' = Front' \o Middle' \o immediate'
    BY DEF OnTheWay, Front, Middle
  <1> QED
    BY <1>1, <1>3, <1>4, HeadApart

(* The front part may go as a whole. *)
LEMMA FrontGone ==
    ASSUME NEW A \in Seq(Commands), NEW H \in Seq(Commands), NEW I \in Seq(Commands),
           NEW last, NEW s, InOrder(A \o H \o I, last), Numbered(A \o H \o I, s)
    PROVE  InOrder(<<>> \o H \o I, last) /\ Numbered(<<>> \o H \o I, s)
  <1> DEFINE q == A \o H \o I
             r == <<>> \o H \o I
             f == [i \in Nat |-> i + Len(A)]
  <1>1. /\ q \in Seq(Commands) /\ Len(q) = Len(A) + Len(H) + Len(I)
        /\ \A i \in 1 .. Len(H) : q[Len(A) + i] = H[i]
        /\ \A i \in 1 .. Len(I) : q[Len(A) + Len(H) + i] = I[i]
        /\ Len(A) \in Nat /\ Len(H) \in Nat /\ Len(I) \in Nat
    BY Join
  <1>2. /\ r \in Seq(Commands) /\ Len(r) = Len(H) + Len(I)
        /\ \A i \in 1 .. Len(H) : r[i] = H[i]
        /\ \A i \in 1 .. Len(I) : r[Len(H) + i] = I[i]
    <2>1. r = H \o I
      BY ConcatEmptySeq
    <2>2. /\ H \o I \in Seq(Commands) /\ Len(H \o I) = Len(H) + Len(I)
          /\ \A i \in 1 .. Len(H) + Len(I) :
               (H \o I)[i] = IF i <= Len(H) THEN H[i] ELSE I[i - Len(H)]
      BY ConcatProperties
    <2>3. ASSUME NEW i \in 1 .. Len(I) PROVE (H \o I)[Len(H) + i] = I[i]
      <3>1. /\ Len(H) + i \in 1 .. Len(H) + Len(I) /\ ~(Len(H) + i <= Len(H))
            /\ (Len(H) + i) - Len(H) = i
        BY <1>1
      <3> QED
        BY <2>2, <3>1
    <2>4. \A i \in 1 .. Len(H) : (H \o I)[i] = H[i]
      BY <1>1, <2>2
    <2> HIDE DEF r
    <2> QED
      BY <2>1, <2>2, <2>3, <2>4
  <1>f. \A i \in Nat : f[i] = i + Len(A)
    OBVIOUS
  <1> HIDE DEF q, r, f
  <1>3. ASSUME NEW i \in 1 .. Len(r)
        PROVE  f[i] \in 1 .. Len(q) /\ r[i] = q[f[i]]
    <2>1. i \in Nat /\ i <= Len(H) + Len(I) /\ i > 0
      BY <1>1, <1>2
    <2>b. f[i] = i + Len(A)
      BY <1>f, <2>1
    <2>a. f[i] = i + Len(A) /\ f[i] \in 1 .. Len(q)
      BY <1>1, <2>1, <2>b
    <2>2. CASE i <= Len(H)
      BY <1>1, <1>2, <2>1, <2>a, <2>2
    <2>3. CASE i > Len(H)
      <3> DEFINE k == i - Len(H)
      <3>1. k \in 1 .. Len(I) /\ i = Len(H) + k /\ f[i] = Len(A) + Len(H) + k
        BY <1>1, <1>2, <2>1, <2>a, <2>3
      <3> HIDE DEF k
      <3> QED
        BY <1>1, <1>2, <2>a, <3>1
    <2> QED
      BY <1>1, <2>1, <2>2, <2>3
  <1>4. ASSUME NEW i \in 1 .. Len(r), NEW j \in 1 .. i - 1
        PROVE  f[j] < f[i]
    <2>1. i \in Nat /\ j \in Nat /\ j < i
      BY <1>1, <1>2
    <2>2. f[i] = i + Len(A) /\ f[j] = j + Len(A)
      BY <1>f, <2>1
    <2> QED
      BY <1>1, <2>1, <2>2
  <1>5. InOrder(q, last) /\ Numbered(q, s)
    BY DEF q
  <1>6. /\ \A i \in 1 .. Len(r) : r[i].kind = "move" =>
             f[i] \in 1 .. Len(q) /\ r[i] = q[f[i]]
        /\ \A i \in 1 .. Len(r) : \A j \in 1 .. i - 1 :
             r[i].kind = "move" /\ r[j].kind = "move" => f[j] < f[i]
    BY <1>3, <1>4
  <1>7. q \in Seq(Commands) /\ r \in Seq(Commands)
    BY <1>1, <1>2
  <1>8. InOrder(r, last) /\ Numbered(r, s)
    BY <1>5, <1>6, <1>7, Thinned
  <1> QED
    BY <1>8 DEF r

(* The command in the middle may go. *)
LEMMA MiddleGone ==
    ASSUME NEW A \in Seq(Commands), NEW m \in Commands, NEW I \in Seq(Commands),
           NEW last, NEW s, InOrder(A \o <<m>> \o I, last), Numbered(A \o <<m>> \o I, s)
    PROVE  InOrder(A \o <<>> \o I, last) /\ Numbered(A \o <<>> \o I, s)
  <1> DEFINE q == A \o <<m>> \o I
             r == A \o <<>> \o I
             n == Len(A)
             f == [i \in Nat |-> IF i <= n THEN i ELSE i + 1]
  <1>1. /\ q \in Seq(Commands) /\ Len(q) = n + 1 + Len(I)
        /\ \A i \in 1 .. n : q[i] = A[i]
        /\ \A i \in 1 .. Len(I) : q[n + 1 + i] = I[i]
        /\ n \in Nat /\ Len(I) \in Nat
    <2>1. <<m>> \in Seq(Commands) /\ Len(<<m>>) = 1
      OBVIOUS
    <2> QED
      BY <2>1, Join
  <1>2. /\ r \in Seq(Commands) /\ Len(r) = n + Len(I)
        /\ \A i \in 1 .. n : r[i] = A[i]
        /\ \A i \in 1 .. Len(I) : r[n + i] = I[i]
    <2>1. <<>> \in Seq(Commands) /\ Len(<<>>) = 0
      OBVIOUS
    <2> QED
      BY <1>1, <2>1, Join
  <1>f. \A i \in Nat : f[i] = IF i <= n THEN i ELSE i + 1
    OBVIOUS
  <1> HIDE DEF q, r, n, f
  <1>3. ASSUME NEW i \in 1 .. Len(r)
        PROVE  f[i] \in 1 .. Len(q) /\ r[i] = q[f[i]]
    <2>i. i \in Nat /\ i > 0
      BY <1>1, <1>2
    <2>f. f[i] = IF i <= n THEN i ELSE i + 1
      BY <1>f, <2>i
    <2>1. CASE i <= n
      BY <1>1, <1>2, <2>i, <2>f, <2>1
    <2>2. CASE i > n
      <3> DEFINE k == i - n
      <3>1. k \in 1 .. Len(I) /\ i = n + k /\ f[i] = n + 1 + k
        BY <1>1, <1>2, <2>i, <2>f, <2>2
      <3>2. f[i] \in 1 .. Len(q)
        BY <1>1, <3>1
      <3> HIDE DEF k
      <3> QED
        BY <1>1, <1>2, <3>1, <3>2
    <2> QED
      BY <1>1, <1>2, <2>i, <2>f, <2>1, <2>2
  <1>4. ASSUME NEW i \in 1 .. Len(r), NEW j \in 1 .. i - 1
        PROVE  f[j] < f[i]
    <2>1. i \in Nat /\ j \in Nat /\ j < i
      BY <1>1, <1>2
    <2>2. f[i] = (IF i <= n THEN i ELSE i + 1) /\ f[j] = (IF j <= n THEN j ELSE j + 1)
      BY <1>f, <2>1
    <2> QED
      BY <1>1, <2>1, <2>2
  <1>5. InOrder(q, last) /\ Numbered(q, s)
    BY DEF q
  <1>6. /\ \A i \in 1 .. Len(r) : r[i].kind = "move" =>
             f[i] \in 1 .. Len(q) /\ r[i] = q[f[i]]
        /\ \A i \in 1 .. Len(r) : \A j \in 1 .. i - 1 :
             r[i].kind = "move" /\ r[j].kind = "move" => f[j] < f[i]
    BY <1>3, <1>4
  <1>7. q \in Seq(Commands) /\ r \in Seq(Commands)
    BY <1>1, <1>2
  <1>8. InOrder(r, last) /\ Numbered(r, s)
    BY <1>5, <1>6, <1>7, Thinned
  <1> QED
    BY <1>8 DEF r

(* A PlayerEnter may come between. *)
LEMMA EnterBetween ==
    ASSUME NEW A \in Seq(Commands), NEW H \in Seq(Commands), NEW I \in Seq(Commands),
           NEW e \in Commands, e.kind = "enter",
           NEW last, NEW s, InOrder(A \o H \o I, last), Numbered(A \o H \o I, s)
    PROVE  InOrder(Append(A, e) \o H \o I, last) /\ Numbered(Append(A, e) \o H \o I, s)
  <1> DEFINE q == A \o H \o I
             r == Append(A, e) \o H \o I
             n == Len(A)
             f == [i \in Nat |-> IF i <= n THEN i ELSE i - 1]
  <1>1. /\ q \in Seq(Commands) /\ Len(q) = n + Len(H) + Len(I)
        /\ \A i \in 1 .. n : q[i] = A[i]
        /\ \A i \in 1 .. Len(H) : q[n + i] = H[i]
        /\ \A i \in 1 .. Len(I) : q[n + Len(H) + i] = I[i]
        /\ n \in Nat /\ Len(H) \in Nat /\ Len(I) \in Nat
    BY Join
  <1>2. /\ r \in Seq(Commands) /\ Len(r) = n + 1 + Len(H) + Len(I)
        /\ \A i \in 1 .. n : r[i] = A[i]
        /\ r[n + 1] = e
        /\ \A i \in 1 .. Len(H) : r[n + 1 + i] = H[i]
        /\ \A i \in 1 .. Len(I) : r[n + 1 + Len(H) + i] = I[i]
    <2>1. /\ Append(A, e) \in Seq(Commands) /\ Len(Append(A, e)) = n + 1
          /\ \A i \in 1 .. n : Append(A, e)[i] = A[i]
          /\ Append(A, e)[n + 1] = e
      BY AppendProperties
    <2>2. /\ r \in Seq(Commands) /\ Len(r) = n + 1 + Len(H) + Len(I)
          /\ \A i \in 1 .. n + 1 : r[i] = Append(A, e)[i]
          /\ \A i \in 1 .. Len(H) : r[n + 1 + i] = H[i]
          /\ \A i \in 1 .. Len(I) : r[n + 1 + Len(H) + i] = I[i]
      BY <2>1, Join
    <2> HIDE DEF r, n
    <2> QED
      BY <1>1, <2>1, <2>2
  <1>f. \A i \in Nat : f[i] = IF i <= n THEN i ELSE i - 1
    OBVIOUS
  <1> HIDE DEF q, r, n, f
  <1>3. ASSUME NEW i \in 1 .. Len(r), i # n + 1
        PROVE  f[i] \in 1 .. Len(q) /\ r[i] = q[f[i]]
    <2>i. i \in Nat /\ i > 0
      BY <1>1, <1>2
    <2>f. f[i] = IF i <= n THEN i ELSE i - 1
      BY <1>f, <2>i
    <2>1. CASE i <= n
      BY <1>1, <1>2, <2>i, <2>f, <2>1
    <2>2. CASE i > n + 1 /\ i <= n + 1 + Len(H)
      <3> DEFINE k == i - (n + 1)
      <3>1. k \in 1 .. Len(H) /\ i = n + 1 + k /\ f[i] = n + k
        BY <1>1, <1>2, <2>i, <2>f, <2>2
      <3>2. f[i] \in 1 .. Len(q)
        BY <1>1, <3>1
      <3> HIDE DEF k
      <3> QED
        BY <1>1, <1>2, <3>1, <3>2
    <2>3. CASE i > n + 1 + Len(H)
      <3> DEFINE k == i - (n + 1 + Len(H))
      <3>1. k \in 1 .. Len(I) /\ i = n + 1 + Len(H) + k /\ f[i] = n + Len(H) + k
        BY <1>1, <1>2, <2>i, <2>f, <2>3
      <3>2. f[i] \in 1 .. Len(q)
        BY <1>1, <3>1
      <3> HIDE DEF k
      <3> QED
        BY <1>1, <1>2, <3>1, <3>2
    <2> QED
      BY <1>1, <1>2, <1>3, <2>1, <2>2, <2>3
  <1>4. \A i \in 1 .. Len(r) : r[i].kind = "move" => i # n + 1
    BY <1>2
  <1>5. ASSUME NEW i \in 1 .. Len(r), NEW j \in 1 .. i - 1, i # n + 1, j # n + 1
        PROVE  f[j] < f[i]
    <2>1. i \in Nat /\ j \in Nat /\ j < i
      BY <1>1, <1>2
    <2>2. f[i] = (IF i <= n THEN i ELSE i - 1) /\ f[j] = (IF j <= n THEN j ELSE j - 1)
      BY <1>f, <2>1
    <2> QED
      BY <1>1, <1>5, <2>1, <2>2
  <1>6. \A i \in 1 .. Len(r) : \A j \in 1 .. i - 1 : j \in 1 .. Len(r)
    BY <1>1, <1>2
  <1>7. InOrder(q, last) /\ Numbered(q, s)
    BY DEF q
  <1>8. /\ \A i \in 1 .. Len(r) : r[i].kind = "move" =>
             f[i] \in 1 .. Len(q) /\ r[i] = q[f[i]]
        /\ \A i \in 1 .. Len(r) : \A j \in 1 .. i - 1 :
             r[i].kind = "move" /\ r[j].kind = "move" => f[j] < f[i]
    BY <1>3, <1>4, <1>5, <1>6
  <1>9. q \in Seq(Commands) /\ r \in Seq(Commands)
    BY <1>1, <1>2
  <1>10. InOrder(r, last) /\ Numbered(r, s)
    BY <1>7, <1>8, <1>9, Thinned
  <1> QED
    BY <1>10 DEF r

(* Three parts in a row, to be taken as one thing *)
Path(A, H, I) == A \o H \o I

(* The first command of the path is the first of its first part. *)
LEMMA TailOfFront ==
    ASSUME NEW A \in Seq(Commands), NEW H \in Seq(Commands), NEW I \in Seq(Commands), A # <<>>,
           NEW p, p = Path(A, H, I)
    PROVE  p # <<>> /\ Head(p) = Head(A) /\ Tail(p) = Path(Tail(A), H, I)
  <1>1. /\ Tail(A) \in Seq(Commands) /\ Head(A) \in Commands /\ Len(Tail(A)) = Len(A) - 1
        /\ \A i \in 1 .. Len(Tail(A)) : Tail(A)[i] = A[i + 1]
        /\ Head(A) = A[1] /\ Len(A) \in Nat \ {0} /\ Len(H) \in Nat /\ Len(I) \in Nat
    BY HeadTailProperties
  <1> DEFINE q == A \o H \o I
             r == Tail(A) \o H \o I
             n == Len(A)
  <1>2. /\ q \in Seq(Commands) /\ Len(q) = n + Len(H) + Len(I)
        /\ \A i \in 1 .. n : q[i] = A[i]
        /\ \A i \in 1 .. Len(H) : q[n + i] = H[i]
        /\ \A i \in 1 .. Len(I) : q[n + Len(H) + i] = I[i]
    BY Join
  <1>3. /\ r \in Seq(Commands) /\ Len(r) = n - 1 + Len(H) + Len(I)
        /\ \A i \in 1 .. n - 1 : r[i] = A[i + 1]
        /\ \A i \in 1 .. Len(H) : r[n - 1 + i] = H[i]
        /\ \A i \in 1 .. Len(I) : r[n - 1 + Len(H) + i] = I[i]
    <2>1. /\ r \in Seq(Commands) /\ Len(r) = Len(Tail(A)) + Len(H) + Len(I)
          /\ \A i \in 1 .. Len(Tail(A)) : r[i] = Tail(A)[i]
          /\ \A i \in 1 .. Len(H) : r[Len(Tail(A)) + i] = H[i]
          /\ \A i \in 1 .. Len(I) : r[Len(Tail(A)) + Len(H) + i] = I[i]
      BY <1>1, Join
    <2> HIDE DEF r
    <2> QED
      BY <1>1, <2>1
  <1>n. n \in Nat \ {0}
    BY <1>1
  <1> HIDE DEF q, r, n
  <1>4. q # <<>> /\ Head(q) = A[1]
    BY <1>1, <1>2, <1>n
  <1>5. /\ Tail(q) \in Seq(Commands) /\ Len(Tail(q)) = Len(r)
        /\ \A i \in 1 .. Len(r) : Tail(q)[i] = q[i + 1]
    BY <1>1, <1>2, <1>3, <1>4, <1>n, HeadTailProperties
  <1>6. ASSUME NEW i \in 1 .. Len(r) PROVE r[i] = q[i + 1]
    <2>1. CASE i <= n - 1
      <3>1. i \in 1 .. n - 1 /\ i + 1 \in 1 .. n
        BY <1>1, <1>n, <1>3, <2>1
      <3> QED
        BY <1>2, <1>3, <3>1
    <2>2. CASE i > n - 1 /\ i <= n - 1 + Len(H)
      <3> DEFINE k == i - (n - 1)
      <3>1. k \in 1 .. Len(H) /\ i = n - 1 + k /\ i + 1 = n + k
        BY <1>1, <1>n, <1>3, <2>2
      <3> HIDE DEF k
      <3> QED
        BY <1>2, <1>3, <3>1
    <2>3. CASE i > n - 1 + Len(H)
      <3> DEFINE k == i - (n - 1 + Len(H))
      <3>1. k \in 1 .. Len(I) /\ i = n - 1 + Len(H) + k /\ i + 1 = n + Len(H) + k
        BY <1>1, <1>n, <1>3, <2>3
      <3> HIDE DEF k
      <3> QED
        BY <1>2, <1>3, <3>1
    <2> QED
      BY <1>1, <1>n, <1>3, <2>1, <2>2, <2>3
  <1>7. Tail(q) = r
    BY <1>3, <1>5, <1>6, SeqEqual
  <1> QED
    BY <1>1, <1>4, <1>7 DEF q, r, Path

(* The first command of the path may go, and if it was a movement become   *)
(* the last that was applied.                                              *)
LEMMA FirstApplied ==
    ASSUME NEW q \in Seq(Commands), q # <<>>, NEW s, NEW last, NEW next,
           InOrder(q, last), Numbered(q, s),
           \A c \in Conns : \/ next[c] = last[c]
                            \/ IsMove(Head(q), c) /\ next[c] = Head(q).number
    PROVE  /\ InOrder(Tail(q), next) /\ Numbered(Tail(q), s)
           /\ \A c \in Conns : last[c] <= s[c] => next[c] <= s[c]
  <1>1. /\ Tail(q) \in Seq(Commands) /\ Head(q) = q[1] /\ Len(q) \in Nat \ {0}
        /\ Len(Tail(q)) = Len(q) - 1
        /\ \A i \in 1 .. Len(Tail(q)) : Tail(q)[i] = q[i + 1]
    BY HeadTailProperties
  <1> DEFINE r == Tail(q)
  <1>2. DOMAIN q = 1 .. Len(q) /\ DOMAIN r = 1 .. Len(r) /\ r \in Seq(Commands)
    BY <1>1
  <1> HIDE DEF r
  <1>3. Numbered(r, s)
    BY <1>1, <1>2 DEF Numbered, r
  <1>4. \A c \in Conns : last[c] <= s[c] => next[c] <= s[c]
    BY <1>1, <1>2 DEF Numbered, IsMove
  <1>5. ASSUME NEW c \in Conns, NEW i \in 1 .. Len(r), IsMove(r[i], c)
        PROVE  /\ next[c] < r[i].number
               /\ \A j \in 1 .. i - 1 : IsMove(r[j], c) => r[j].number < r[i].number
    <2>1. /\ r[i] = q[i + 1] /\ i + 1 \in 1 .. Len(q)
          /\ \A j \in 1 .. i - 1 : r[j] = q[j + 1] /\ j + 1 \in 1 .. i
      BY <1>1, <1>2 DEF r
    <2>2. /\ last[c] < q[i + 1].number
          /\ \A j \in 1 .. i : IsMove(q[j], c) => q[j].number < q[i + 1].number
      BY <1>1, <1>2, <1>5, <2>1 DEF InOrder
    <2>3. 1 \in 1 .. i
      BY <1>1
    <2> QED
      BY <1>1, <2>1, <2>2, <2>3
  <1>6. InOrder(r, next)
    BY <1>2, <1>5 DEF InOrder
  <1> QED
    BY <1>3, <1>4, <1>6 DEF r

(* A movement that is sent is the last, and the highest. *)
LEMMA LastSent ==
    ASSUME NEW q \in Seq(Commands), NEW last, NEW s \in [Conns -> Nat], NEW c \in Conns,
           InOrder(q, last), Numbered(q, s), last[c] <= s[c], last \in [Conns -> Nat],
           Move(c, s[c] + 1) \in Commands
    PROVE  /\ InOrder(Append(q, Move(c, s[c] + 1)), last)
           /\ Numbered(Append(q, Move(c, s[c] + 1)), [s EXCEPT ![c] = @ + 1])
  <1> DEFINE m == Move(c, s[c] + 1)
             r == Append(q, m)
             t == [s EXCEPT ![c] = @ + 1]
  <1>1. /\ r \in Seq(Commands) /\ Len(r) = Len(q) + 1 /\ Len(q) \in Nat
        /\ \A i \in 1 .. Len(q) : r[i] = q[i] /\ q[i] \in Commands
        /\ r[Len(q) + 1] = m
        /\ DOMAIN q = 1 .. Len(q) /\ DOMAIN r = 1 .. Len(q) + 1
    BY AppendProperties, ElementOfSeq
  <1>2. /\ m.kind = "move" /\ m.entity = c /\ m.number = s[c] + 1
        /\ t[c] = s[c] + 1 /\ \A d \in Conns : s[d] <= t[d] /\ s[d] \in Nat /\ t[d] \in Nat
        /\ \A x \in Commands : x.entity \in Conns /\ x.number \in Nat
    BY DEF Move, Commands
  <1> HIDE DEF m, r, t
  <1>3. ASSUME NEW i \in 1 .. Len(q) + 1, r[i].kind = "move"
        PROVE  r[i].number <= t[r[i].entity] /\ r[i].number > 0
    <2>1. CASE i \in 1 .. Len(q)
      <3>1. q[i].number <= s[q[i].entity] /\ q[i].number > 0
        BY <1>1, <1>3, <2>1 DEF Numbered
      <3> QED
        BY <1>1, <1>2, <2>1, <3>1
    <2>2. CASE i = Len(q) + 1
      BY <1>1, <1>2, <2>2
    <2> QED
      BY <1>1, <2>1, <2>2
  <1>4. ASSUME NEW d \in Conns, NEW i \in 1 .. Len(q) + 1, IsMove(r[i], d)
        PROVE  /\ last[d] < r[i].number
               /\ \A j \in 1 .. i - 1 : IsMove(r[j], d) => r[j].number < r[i].number
    <2>1. CASE i \in 1 .. Len(q)
      <3>1. \A j \in 1 .. i - 1 : j \in 1 .. Len(q)
        BY <1>1, <2>1
      <3> QED
        BY <1>1, <1>4, <2>1, <3>1 DEF InOrder
    <2>2. CASE i = Len(q) + 1
      <3>1. r[i].number = s[c] + 1 /\ d = c
        BY <1>1, <1>2, <1>4, <2>2 DEF IsMove
      <3>2. last[d] < r[i].number
        BY <1>2, <3>1
      <3>3. ASSUME NEW j \in 1 .. i - 1, IsMove(r[j], d)
            PROVE  r[j].number < r[i].number
        <4>1. j \in 1 .. Len(q) /\ r[j] = q[j] /\ q[j] \in Commands
          BY <1>1, <2>2
        <4>2. q[j].number <= s[d]
          BY <1>1, <3>3, <4>1 DEF Numbered, IsMove
        <4> QED
          BY <1>2, <3>1, <4>1, <4>2
      <3> QED
        BY <3>2, <3>3
    <2> QED
      BY <1>1, <2>1, <2>2
  <1>5. InOrder(r, last) /\ Numbered(r, t)
    BY <1>1, <1>3, <1>4 DEF InOrder, Numbered
  <1> QED
    BY <1>5 DEF r, m, t

(* What is kept of the path: order, numbers, and what was sent. *)
Kept == /\ InOrder(OnTheWay, applied) /\ Numbered(OnTheWay, sent)
        /\ \A c \in Conns : applied[c] <= sent[c]

(* Only PlayerEnter is sent to the other zones. *)
OthersEnter ==
    \A z \in Zones \ {DefaultZone} : \A i \in DOMAIN inbox[z] : inbox[z][i].kind = "enter"

(* The invariant of the path, as the proofs below split it. *)
LEMMA KeptIsShape ==
    /\ MovesInOrder /\ PathShape <=> Kept /\ OthersEnter
    /\ MovesInOrder' /\ PathShape' <=> Kept' /\ OthersEnter'
  BY DEF MovesInOrder, PathShape, Kept, OthersEnter, InOrder, Numbered

(* Steps of the router and of the tasks: the path grows at its end, or a   *)
(* PlayerEnter joins its first part, or the held command goes.             *)
LEMMA KeptByTasks ==
    ASSUME TypeOK, TypeOK', TaskShape, Kept,
           \/ \E c \in Conns : RouteMove(c) \/ Place(c)
           \/ RouterTakes \/ RouterSends
    PROVE  Kept'
  <1>t. /\ Front \in Seq(Commands) /\ Middle \in Seq(Commands) /\ immediate \in Seq(Commands)
        /\ OnTheWay = Front \o Middle \o immediate
        /\ OnTheWay' = Front' \o Middle' \o immediate'
        /\ OnTheWay \in Seq(Commands)
    BY PathParts, PathPartsNext
  <1>s. sent \in [Conns -> Nat] /\ applied \in [Conns -> Nat]
    BY BoundsAssumption DEF TypeOK
  <1>1. ASSUME NEW c \in Conns, RouteMove(c) PROVE Kept'
    <2>1. /\ sent[c] < MaxMoves /\ sent' = [sent EXCEPT ![c] = @ + 1]
          /\ immediate' = Append(immediate, Move(c, sent[c] + 1))
          /\ applied' = applied /\ Front' = Front /\ Middle' = Middle
      BY <1>1 DEF RouteMove, zoneVars, Front, Middle
    <2>2. Move(c, sent[c] + 1) \in Commands
      BY <1>s, <2>1, BoundsAssumption DEF Move, Commands
    <2>3. Front \o Middle \in Seq(Commands)
      BY <1>t, ConcatProperties
    <2>4. OnTheWay' = Append(OnTheWay, Move(c, sent[c] + 1))
      BY <1>t, <2>1, <2>2, <2>3, LastOfAll
    <2>a. /\ InOrder(OnTheWay, applied) /\ Numbered(OnTheWay, sent)
          /\ applied[c] <= sent[c]
      BY DEF Kept
    <2>b. /\ InOrder(Append(OnTheWay, Move(c, sent[c] + 1)), applied)
          /\ Numbered(Append(OnTheWay, Move(c, sent[c] + 1)), [sent EXCEPT ![c] = @ + 1])
      BY <1>t, <1>s, <2>2, <2>a, LastSent
    <2>5. InOrder(OnTheWay', applied') /\ Numbered(OnTheWay', sent')
      BY <2>1, <2>4, <2>b
    <2>6. \A d \in Conns : applied'[d] <= sent'[d]
      BY <1>s, <2>1 DEF Kept
    <2> QED
      BY <2>5, <2>6 DEF Kept, InOrder, Numbered
  <1>2. ASSUME NEW c \in Conns, Place(c) PROVE Kept'
    <2>1. /\ zone[c] \in Zones /\ inbox' = InboxAfter(zone[c], Enter(c))
          /\ immediate' = immediate /\ Middle' = Middle
          /\ sent' = sent /\ applied' = applied
      BY <1>2 DEF Place, TaskShape, zoneVars, Middle
    <2>2. Enter(c) \in Commands /\ Enter(c).kind = "enter"
      BY BoundsAssumption DEF Enter, Commands
    <2>3. Front' = Front \/ Front' = Append(Front, Enter(c))
      BY <2>1 DEF InboxAfter, Front, TypeOK
    <2>4. InOrder(OnTheWay', applied) /\ Numbered(OnTheWay', sent)
      <3>1. CASE Front' = Front
        BY <1>t, <2>1, <3>1 DEF Kept
      <3>2. CASE Front' = Append(Front, Enter(c))
        <4>1. InOrder(Front \o Middle \o immediate, applied)
              /\ Numbered(Front \o Middle \o immediate, sent)
          BY <1>t DEF Kept
        <4>2. /\ InOrder(Append(Front, Enter(c)) \o Middle \o immediate, applied)
              /\ Numbered(Append(Front, Enter(c)) \o Middle \o immediate, sent)
          BY <1>t, <2>2, <4>1, EnterBetween
        <4> QED
          BY <1>t, <2>1, <3>2, <4>2
      <3> QED
        BY <2>3, <3>1, <3>2
    <2> QED
      BY <2>1, <2>4 DEF Kept, InOrder, Numbered
  <1>3. CASE RouterTakes
    <2>1. OnTheWay' = OnTheWay
      BY <1>3, PathTaken
    <2> QED
      BY <1>3, <2>1 DEF RouterTakes, zoneVars, Kept, InOrder, Numbered
  <1>4. CASE RouterSends
    <2>1. /\ held \in Commands /\ held # NoCommand /\ held' = NoCommand
          /\ immediate' = immediate /\ sent' = sent /\ applied' = applied
          /\ inbox' = IF DefaultZone \in Zones THEN InboxAfter(DefaultZone, held) ELSE inbox
      BY <1>4 DEF RouterSends, Destination, zoneVars, TypeOK
    <2>2. Middle = <<held>> /\ Middle' = <<>>
      BY <2>1 DEF Middle
    <2>3. Front' = Front \/ Front' = Append(Front, held)
      BY <2>1 DEF InboxAfter, Front, TypeOK
    <2>4. InOrder(Front \o <<held>> \o immediate, applied)
          /\ Numbered(Front \o <<held>> \o immediate, sent)
      BY <1>t, <2>2 DEF Kept
    <2>5. InOrder(OnTheWay', applied) /\ Numbered(OnTheWay', sent)
      <3>1. CASE Front' = Front
        <4>1. InOrder(Front \o <<>> \o immediate, applied)
              /\ Numbered(Front \o <<>> \o immediate, sent)
          BY <1>t, <2>1, <2>4, MiddleGone
        <4> QED
          BY <1>t, <2>1, <2>2, <3>1, <4>1
      <3>2. CASE Front' = Append(Front, held)
        <4>1. Append(Front, held) \o <<>> \o immediate = Front \o <<held>> \o immediate
          BY <1>t, <2>1, LastApart
        <4> QED
          BY <1>t, <2>1, <2>2, <2>4, <3>2, <4>1
      <3> QED
        BY <2>3, <3>1, <3>2
    <2> QED
      BY <2>1, <2>5 DEF Kept, InOrder, Numbered
  <1> QED
    BY <1>1, <1>2, <1>3, <1>4

(* Steps of a zone: the first command of the path is applied, or the       *)
(* inbox goes as a whole.                                                  *)
LEMMA KeptByZone ==
    ASSUME TypeOK, TypeOK', Kept, OthersEnter,
           NEW z \in Zones, Drain(z) \/ Prune(z) \/ ZoneEnds(z)
    PROVE  Kept'
  <1>t. /\ Front \in Seq(Commands) /\ Middle \in Seq(Commands) /\ immediate \in Seq(Commands)
        /\ OnTheWay = Front \o Middle \o immediate
        /\ OnTheWay' = Front' \o Middle' \o immediate'
        /\ OnTheWay \in Seq(Commands)
    BY PathParts, PathPartsNext
  <1>u. /\ sent' = sent /\ immediate' = immediate /\ Middle' = Middle
        /\ Drain(z) \/ applied' = applied
    BY DEF Drain, Prune, ZoneEnds, Middle
  <1>i. inbox \in [Zones -> Seq(Commands)] /\ applied \in [Conns -> 0 .. MaxMoves]
    BY DEF TypeOK
  <1>1. CASE Drain(z) /\ z = DefaultZone
    <2>1. /\ Front = inbox[z] /\ Front # <<>> /\ Front' = Tail(Front)
      BY <1>1, <1>i DEF Drain, Front
    <2>2. /\ OnTheWay # <<>> /\ Head(OnTheWay) = Head(Front)
          /\ OnTheWay' = Tail(OnTheWay)
      <3>1. /\ OnTheWay = Path(Front, Middle, immediate)
            /\ OnTheWay' = Path(Tail(Front), Middle, immediate)
        BY <1>t, <1>u, <2>1 DEF Path
      <3>2. /\ Front \in Seq(Commands) /\ Middle \in Seq(Commands)
            /\ immediate \in Seq(Commands) /\ Front # <<>>
        BY <1>t, <2>1
      <3>3. OnTheWay # <<>> /\ Head(OnTheWay) = Head(Front)
        BY ONLY <3>1, <3>2, TailOfFront
      <3>4. Tail(OnTheWay) = Path(Tail(Front), Middle, immediate)
        BY ONLY <3>1, <3>2, TailOfFront
      <3> QED
        BY <3>1, <3>3, <3>4
    <2> DEFINE h == Head(OnTheWay)
    <2>b. h \in Commands
      BY <1>t, <2>2, HeadTailProperties
    <2>3. h \in Commands /\ h.kind \in {"move", "enter"}
      BY <2>b DEF Commands
    <2>4. ASSUME NEW c \in Conns
          PROVE  applied'[c] = applied[c] \/ (IsMove(h, c) /\ applied'[c] = h.number)
      BY <1>1, <1>i, <2>1, <2>2, <2>3 DEF Drain, IsMove
    <2> HIDE DEF h
    <2>5. /\ InOrder(Tail(OnTheWay), applied') /\ Numbered(Tail(OnTheWay), sent)
          /\ \A c \in Conns : applied[c] <= sent[c] => applied'[c] <= sent[c]
      BY <1>t, <2>2, <2>4, FirstApplied DEF h, Kept
    <2> QED
      BY <1>u, <2>2, <2>5 DEF Kept, InOrder, Numbered
  <1>2. CASE Drain(z) /\ z # DefaultZone
    <2>1. Front' = Front
      BY <1>2, <1>i DEF Drain, Front
    <2>2. Head(inbox[z]).kind = "enter"
      <3>1. inbox[z] \in Seq(Commands) /\ inbox[z] # <<>>
        BY <1>2, <1>i DEF Drain
      <3>2. Head(inbox[z]) = inbox[z][1] /\ 1 \in DOMAIN inbox[z]
        BY <3>1, HeadTailProperties
      <3> QED
        BY <1>2, <3>2 DEF OthersEnter
    <2>3. applied' = applied
      BY <1>2, <2>2 DEF Drain
    <2> QED
      BY <1>t, <1>u, <2>1, <2>3 DEF Kept, InOrder, Numbered
  <1>3. CASE Prune(z)
    <2>1. Front' = Front
      BY <1>3 DEF Prune, Front
    <2> QED
      BY <1>3, <1>t, <1>u, <2>1 DEF Prune, Kept, InOrder, Numbered
  <1>4. CASE ZoneEnds(z)
    <2>1. Front' = Front \/ Front' = <<>>
      BY <1>4, <1>i DEF ZoneEnds, Front
    <2>2. InOrder(OnTheWay', applied) /\ Numbered(OnTheWay', sent)
      <3>1. CASE Front' = Front
        BY <1>t, <1>u, <3>1 DEF Kept
      <3>2. CASE Front' = <<>>
        <4>1. InOrder(Front \o Middle \o immediate, applied)
              /\ Numbered(Front \o Middle \o immediate, sent)
          BY <1>t DEF Kept
        <4>2. InOrder(<<>> \o Middle \o immediate, applied)
              /\ Numbered(<<>> \o Middle \o immediate, sent)
          BY <1>t, <4>1, FrontGone
        <4> QED
          BY <1>t, <1>u, <3>2, <4>2
      <3> QED
        BY <2>1, <3>1, <3>2
    <2> QED
      BY <1>4, <1>u, <2>2 DEF ZoneEnds, Kept, InOrder, Numbered
  <1> QED
    BY <1>1, <1>2, <1>3, <1>4

(* Whatever the others get, it is a PlayerEnter. *)
LEMMA OthersStep ==
    ASSUME TypeOK, TaskShape, OthersEnter, [Next]_vars
    PROVE  OthersEnter'
  <1>i. inbox \in [Zones -> Seq(Commands)]
    BY DEF TypeOK
  <1>u. ASSUME \A z \in Zones \ {DefaultZone} : inbox'[z] = inbox[z] PROVE OthersEnter'
    BY <1>u DEF OthersEnter
  <1>1. CASE UNCHANGED inbox
    BY <1>1, <1>u
  <1>2. ASSUME NEW c \in Conns, Place(c) PROVE OthersEnter'
    <2>1. zone[c] \in Zones /\ inbox' = InboxAfter(zone[c], Enter(c))
      BY <1>2 DEF Place, TaskShape
    <2>2. Enter(c) \in Commands /\ Enter(c).kind = "enter"
      BY BoundsAssumption DEF Enter, Commands
    <2>3. ASSUME NEW z \in Zones \ {DefaultZone}, NEW i \in DOMAIN inbox'[z]
          PROVE  inbox'[z][i].kind = "enter"
      <3>1. CASE inbox'[z] = inbox[z]
        BY <2>3, <3>1 DEF OthersEnter
      <3>2. CASE inbox'[z] = Append(inbox[z], Enter(c))
        BY <1>i, <2>2, <2>3, <3>2, AppendProperties DEF OthersEnter
      <3> QED
        BY <1>i, <2>1, <3>1, <3>2 DEF InboxAfter
    <2> QED
      BY <2>3 DEF OthersEnter
  <1>3. CASE RouterSends
    BY <1>3, <1>i, <1>u DEF RouterSends, Destination, InboxAfter
  <1>4. ASSUME NEW y \in Zones, Drain(y) PROVE OthersEnter'
    <2>1. inbox[y] \in Seq(Commands) /\ inbox[y] # <<>> /\ inbox' = [inbox EXCEPT ![y] = Tail(@)]
      BY <1>4, <1>i DEF Drain
    <2>2. /\ Tail(inbox[y]) \in Seq(Commands) /\ Len(Tail(inbox[y])) = Len(inbox[y]) - 1
          /\ \A i \in 1 .. Len(Tail(inbox[y])) : Tail(inbox[y])[i] = inbox[y][i + 1]
      BY <2>1, HeadTailProperties
    <2>3. \A i \in DOMAIN Tail(inbox[y]) : i + 1 \in DOMAIN inbox[y]
      BY <2>1, <2>2
    <2>4. \A i \in DOMAIN Tail(inbox[y]) : Tail(inbox[y])[i] = inbox[y][i + 1]
      BY <2>2
    <2> QED
      BY <1>i, <2>1, <2>3, <2>4 DEF OthersEnter
  <1>5. ASSUME NEW y \in Zones, ZoneEnds(y) PROVE OthersEnter'
    BY <1>5, <1>i DEF ZoneEnds, OthersEnter
  <1> QED
    BY <1>1, <1>2, <1>3, <1>4, <1>5
       DEF vars, Next, ConnStep, OwnStep, Revoke, Handshake, RedisAnswers, CheckBlocklist,
           CheckFails, Select, Accepted, RouteMove, Leave, SnapshotsEnd, TakeEnterRequest,
           RouterTakes, Prune

(* No step of the code takes a movement out of the order it was sent in. *)
LEMMA OrderStep ==
    ASSUME TypeOK, TypeOK', TaskShape, MovesInOrder, PathShape, [Next]_vars
    PROVE  MovesInOrder' /\ PathShape'
  <1>1. Kept /\ OthersEnter
    BY KeptIsShape
  <1>2. Kept'
    <2>1. ASSUME UNCHANGED <<immediate, held, inbox, applied, sent>> PROVE Kept'
      BY <1>1, <2>1, PathUnchanged DEF Kept, InOrder, Numbered
    <2>2. CASE \/ \E c \in Conns : RouteMove(c) \/ Place(c)
               \/ RouterTakes \/ RouterSends
      BY <1>1, <2>2, KeptByTasks
    <2>3. CASE \E z \in Zones : Drain(z) \/ Prune(z) \/ ZoneEnds(z)
      BY <1>1, <2>3, KeptByZone
    <2>4. ASSUME NEW c \in Conns,
                 \/ Revoke(c) \/ Handshake(c) \/ OwnStep(c) \/ Select(c) \/ Leave(c)
                 \/ TakeEnterRequest(c)
          PROVE  Kept'
      BY <2>1, <2>4
         DEF Revoke, Handshake, OwnStep, RedisAnswers, CheckBlocklist, CheckFails, Select,
             Accepted, Leave, SnapshotsEnd, TakeEnterRequest, zoneVars
    <2>5. CASE UNCHANGED vars
      BY <2>1, <2>5 DEF vars, zoneVars
    <2> QED
      BY <2>2, <2>3, <2>4, <2>5 DEF Next, ConnStep
  <1> QED
    BY <1>1, <1>2, OthersStep, KeptIsShape
------------------------------------------------------------------------------
(* A client comes into a zone by PlayerEnter.                              *)

(* The parts of EntryShape, of one client. *)
OutBefore(c) == wiring[c] # "sent" => Absent(c)
InAfter(c) ==
    wiring[c] = "sent" /\ phase[c] \in {"entering", "play"} /\ zone[c] \in alive =>
        c \in entities[zone[c]] \/ Enter(c) \in Range(inbox[zone[c]])
EnteredFirst(c) ==
    phase[c] = "play" /\ zone[c] = DefaultZone /\ DefaultZone \in alive =>
        \A i \in DOMAIN inbox[DefaultZone] : IsMove(inbox[DefaultZone][i], c) =>
            \/ c \in entities[DefaultZone]
            \/ \E j \in 1 .. i - 1 : inbox[DefaultZone][j] = Enter(c)

(* The invariant of the entries, one client at a time. *)
LEMMA EntryParts ==
    /\ EntryShape <=> \A c \in Conns : OutBefore(c) /\ InAfter(c) /\ EnteredFirst(c)
    /\ EntryShape' <=> \A c \in Conns : OutBefore(c)' /\ InAfter(c)' /\ EnteredFirst(c)'
  BY DEF EntryShape, OutBefore, InAfter, EnteredFirst

(* The elements of an inbox with one more command, and with one less. *)
LEMMA OneMore ==
    ASSUME NEW q \in Seq(Commands), NEW m \in Commands
    PROVE  /\ DOMAIN Append(q, m) = 1 .. Len(q) + 1 /\ DOMAIN q = 1 .. Len(q)
           /\ Len(q) \in Nat
           /\ \A i \in 1 .. Len(q) : Append(q, m)[i] = q[i]
           /\ Append(q, m)[Len(q) + 1] = m
           /\ Range(Append(q, m)) = Range(q) \cup {m}
  <1>1. /\ DOMAIN Append(q, m) = 1 .. Len(q) + 1 /\ DOMAIN q = 1 .. Len(q)
        /\ Len(q) \in Nat
        /\ \A i \in 1 .. Len(q) : Append(q, m)[i] = q[i]
        /\ Append(q, m)[Len(q) + 1] = m
    BY AppendProperties
  <1>2. \A i \in 1 .. Len(q) + 1 : i \in 1 .. Len(q) \/ i = Len(q) + 1
    BY <1>1
  <1>3. 1 .. Len(q) \subseteq 1 .. Len(q) + 1 /\ Len(q) + 1 \in 1 .. Len(q) + 1
    BY <1>1
  <1>4. Range(Append(q, m)) = Range(q) \cup {m}
    <2> DEFINE r == Append(q, m)
    <2> HIDE DEF r
    <2> QED
      BY <1>1, <1>2, <1>3 DEF Range, r
  <1> QED
    BY <1>1, <1>4

(* The elements of an inbox before and after its first one is taken. *)
LEMMA OneLess ==
    ASSUME NEW q \in Seq(Commands), q # <<>>
    PROVE  /\ Head(q) = q[1] /\ Head(q) \in Commands /\ Tail(q) \in Seq(Commands)
           /\ \A i \in DOMAIN Tail(q) :
                i \in Nat /\ i > 0 /\ i + 1 \in DOMAIN q /\ Tail(q)[i] = q[i + 1]
           /\ 1 \in DOMAIN q
           /\ \A i \in DOMAIN q \ {1} : i - 1 \in DOMAIN Tail(q) /\ Tail(q)[i - 1] = q[i]
           /\ Range(q) \subseteq {Head(q)} \cup Range(Tail(q))
  <1>1. /\ Head(q) = q[1] /\ Head(q) \in Commands /\ Tail(q) \in Seq(Commands)
        /\ Len(q) \in Nat \ {0} /\ Len(Tail(q)) = Len(q) - 1
        /\ \A i \in 1 .. Len(Tail(q)) : Tail(q)[i] = q[i + 1]
    BY HeadTailProperties
  <1> DEFINE r == Tail(q)
  <1>2. DOMAIN q = 1 .. Len(q) /\ DOMAIN r = 1 .. Len(q) - 1
    BY <1>1
  <1>3. \A i \in DOMAIN r : i \in Nat /\ i > 0 /\ i + 1 \in DOMAIN q /\ r[i] = q[i + 1]
    BY <1>1, <1>2
  <1>4. 1 \in DOMAIN q
    BY <1>1, <1>2
  <1>h. \A i \in 1 .. Len(q) - 1 : r[i] = q[i + 1]
    BY <1>1
  <1> HIDE DEF r
  <1>5. ASSUME NEW i \in DOMAIN q \ {1} PROVE i - 1 \in DOMAIN r /\ r[i - 1] = q[i]
    <2>1. i \in Nat /\ i - 1 \in 1 .. Len(q) - 1 /\ (i - 1) + 1 = i
      BY <1>1, <1>2
    <2>2. r[i - 1] = q[(i - 1) + 1]
      BY <1>h, <2>1
    <2> QED
      BY <1>2, <2>1, <2>2
  <1>6. Range(q) \subseteq {Head(q)} \cup Range(r)
    <2>1. ASSUME NEW i \in DOMAIN q PROVE q[i] \in {Head(q)} \cup Range(r)
      <3>1. CASE i = 1
        BY <1>1, <3>1
      <3>2. CASE i # 1
        <4>1. i - 1 \in DOMAIN r /\ r[i - 1] = q[i]
          BY <1>5, <3>2
        <4> QED
          BY <4>1 DEF Range
      <3> QED
        BY <3>1, <3>2
    <2> QED
      BY <2>1 DEF Range
  <1> QED
    BY <1>1, <1>3, <1>4, <1>5, <1>6 DEF r

(* Nothing comes of a client whose wiring task has not placed it. *)
LEMMA OutStep ==
    ASSUME TypeOK, TaskShape, EntryShape, [Next]_vars, NEW c \in Conns, wiring'[c] # "sent"
    PROVE  Absent(c)'
  <1>i. /\ inbox \in [Zones -> Seq(Commands)] /\ entities \in [Zones -> SUBSET Conns]
        /\ immediate \in Seq(Commands) /\ held \in Commands \cup {NoCommand}
        /\ wiring \in [Conns -> {"idle", "sending", "sent", "refused"}]
        /\ sent \in [Conns -> 0 .. MaxMoves]
    BY DEF TypeOK
  <1>a. ASSUME wiring[c] # "sent" PROVE Absent(c)
    BY <1>a DEF EntryShape
  <1>u. ASSUME wiring[c] # "sent", UNCHANGED <<immediate, held, inbox, entities>>
        PROVE  Absent(c)'
    BY <1>a, <1>u DEF Absent
  <1>1. CASE UNCHANGED vars
    BY <1>1, <1>u DEF vars, zoneVars
  <1>2. ASSUME NEW d \in Conns,
               \/ Revoke(d) \/ Handshake(d) \/ OwnStep(d) \/ Select(d) \/ Leave(d)
        PROVE  Absent(c)'
    BY <1>2, <1>u
       DEF Revoke, Handshake, OwnStep, RedisAnswers, CheckBlocklist, CheckFails, Select,
           Accepted, Leave, SnapshotsEnd, zoneVars
  <1>3. ASSUME NEW d \in Conns, TakeEnterRequest(d) PROVE Absent(c)'
    BY <1>3, <1>i, <1>u DEF TakeEnterRequest, zoneVars
  <1>4. ASSUME NEW d \in Conns, RouteMove(d) PROVE Absent(c)'
    <2>1. /\ wiring[d] = "sent" /\ wiring' = wiring /\ d # c
          /\ immediate' = Append(immediate, Move(d, sent[d] + 1))
          /\ UNCHANGED <<held, inbox, entities>>
      BY <1>4 DEF RouteMove, TaskShape, zoneVars
    <2>2. Move(d, sent[d] + 1) \in Commands /\ Move(d, sent[d] + 1).entity = d
      BY <1>4, <1>i, BoundsAssumption DEF RouteMove, Move, Commands
    <2>3. \A i \in DOMAIN immediate' : immediate'[i].entity # c
      <3>1. \A i \in 1 .. Len(immediate) : immediate[i].entity # c
        BY <1>a, <1>i, <2>1 DEF Absent
      <3>2. \A i \in 1 .. Len(immediate) + 1 : i \in 1 .. Len(immediate) \/ i = Len(immediate) + 1
        BY <1>i
      <3> QED
        BY <1>i, <2>1, <2>2, <3>1, <3>2, OneMore
    <2> QED
      BY <1>a, <2>1, <2>3 DEF Absent
  <1>m. ASSUME NEW z \in Zones, NEW m \in Commands, m.entity # c, wiring[c] # "sent",
               NEW i \in DOMAIN Append(inbox[z], m)
        PROVE  Append(inbox[z], m)[i].entity # c
    <2> DEFINE q == inbox[z]
    <2>1. q \in Seq(Commands) /\ \A j \in DOMAIN q : q[j].entity # c
      BY <1>a, <1>i, <1>m DEF Absent
    <2> HIDE DEF q
    <2>2. i \in 1 .. Len(q) \/ i = Len(q) + 1
      BY <1>m, <2>1, OneMore DEF q
    <2> QED
      BY <1>m, <2>1, <2>2, OneMore DEF q
  <1>5. ASSUME NEW d \in Conns, Place(d) PROVE Absent(c)'
    <2>1. /\ zone[d] \in Zones /\ inbox' = InboxAfter(zone[d], Enter(d))
          /\ d # c /\ wiring[c] # "sent" /\ UNCHANGED <<held, immediate, entities>>
      BY <1>5, <1>i DEF Place, TaskShape, zoneVars
    <2>2. Enter(d) \in Commands /\ Enter(d).entity # c
      BY <2>1, BoundsAssumption DEF Enter, Commands
    <2>3. \A z \in Zones : inbox'[z] = inbox[z] \/ inbox'[z] = Append(inbox[z], Enter(d))
      BY <1>i, <2>1 DEF InboxAfter
    <2>4. \A z \in Zones : \A i \in DOMAIN inbox'[z] : inbox'[z][i].entity # c
      BY <1>a, <1>m, <2>1, <2>2, <2>3 DEF Absent
    <2> QED
      BY <1>a, <2>1, <2>4 DEF Absent
  <1>6. CASE RouterTakes
    <2>1. /\ immediate # <<>> /\ held' = Head(immediate) /\ immediate' = Tail(immediate)
          /\ UNCHANGED <<wiring, inbox, entities>>
      BY <1>6 DEF RouterTakes, zoneVars
    <2>2. \A i \in DOMAIN immediate : immediate[i].entity # c
      BY <1>a, <2>1 DEF Absent
    <2>3. held'.entity # c /\ \A i \in DOMAIN immediate' : immediate'[i].entity # c
      BY <1>i, <2>1, <2>2, OneLess
    <2> QED
      BY <1>a, <2>1, <2>3 DEF Absent
  <1>7. CASE RouterSends
    <2>1. /\ held \in Commands /\ held' = NoCommand
          /\ UNCHANGED <<wiring, immediate, entities>>
          /\ inbox' = IF DefaultZone \in Zones THEN InboxAfter(DefaultZone, held) ELSE inbox
      BY <1>7, <1>i DEF RouterSends, Destination, zoneVars
    <2>2. held.entity # c
      BY <1>7, <1>a, <2>1 DEF RouterSends, Absent
    <2>3. \A z \in Zones : inbox'[z] = inbox[z] \/ inbox'[z] = Append(inbox[z], held)
      BY <1>i, <2>1 DEF InboxAfter
    <2>4. \A z \in Zones : \A i \in DOMAIN inbox'[z] : inbox'[z][i].entity # c
      BY <1>a, <1>m, <2>1, <2>2, <2>3 DEF Absent
    <2> QED
      BY <1>a, <2>1, <2>4 DEF Absent
  <1>8. ASSUME NEW y \in Zones, Drain(y) PROVE Absent(c)'
    <2>1. /\ inbox[y] \in Seq(Commands) /\ inbox[y] # <<>>
          /\ inbox' = [inbox EXCEPT ![y] = Tail(@)]
          /\ UNCHANGED <<wiring, immediate, held>>
          /\ \A z \in Zones : entities'[z] \subseteq entities[z] \cup {Head(inbox[y]).entity}
      BY <1>8, <1>i DEF Drain
    <2>2. \A i \in DOMAIN inbox[y] : inbox[y][i].entity # c
      BY <1>a, <2>1 DEF Absent
    <2>3. /\ Head(inbox[y]).entity # c
          /\ \A i \in DOMAIN Tail(inbox[y]) : Tail(inbox[y])[i].entity # c
      BY <2>1, <2>2, OneLess
    <2>4. \A z \in Zones : inbox'[z] = inbox[z] \/ (z = y /\ inbox'[z] = Tail(inbox[y]))
      BY <1>i, <2>1
    <2>5. \A z \in Zones : \A i \in DOMAIN inbox'[z] : inbox'[z][i].entity # c
      BY <1>a, <2>1, <2>3, <2>4 DEF Absent
    <2>6. \A z \in Zones : c \notin entities'[z]
      BY <1>a, <2>1, <2>3 DEF Absent
    <2> QED
      BY <1>a, <2>1, <2>5, <2>6 DEF Absent
  <1>9. ASSUME NEW y \in Zones, Prune(y) PROVE Absent(c)'
    BY <1>9, <1>a, <1>i DEF Prune, Absent
  <1>10. ASSUME NEW y \in Zones, ZoneEnds(y) PROVE Absent(c)'
    BY <1>10, <1>a, <1>i DEF ZoneEnds, Absent
  <1> QED
    BY <1>1, <1>2, <1>3, <1>4, <1>5, <1>6, <1>7, <1>8, <1>9, <1>10 DEF Next, ConnStep

(* Where a placed client stands was settled before, or it is placed now. *)
LEMMA PlacedBefore ==
    ASSUME TypeOK, TaskShape, [Next]_vars, NEW c \in Conns, ~Place(c),
           wiring'[c] = "sent", phase'[c] \in {"entering", "play"}
    PROVE  /\ wiring[c] = "sent" /\ phase[c] \in {"entering", "play"} /\ zone'[c] = zone[c]
           /\ zone[c] \in Zones /\ alive' \subseteq alive
           /\ phase'[c] # phase[c] => phase[c] = "entering" /\ \E d \in Conns : Accepted(d)
  <1>i. /\ phase \in [Conns -> Phases] /\ zone \in [Conns -> ZoneIds \cup {NoZone}]
        /\ wiring \in [Conns -> {"idle", "sending", "sent", "refused"}]
    BY DEF TypeOK
  <1>t. /\ phase[c] \in {"handshake", "redis", "blocklist", "select"} => wiring[c] = "idle"
        /\ wiring[c] = "sent" => zone[c] \in Zones
    BY DEF TaskShape
  <1> DEFINE Was == /\ wiring[c] = "sent" /\ phase[c] \in {"entering", "play"}
                    /\ zone'[c] = zone[c] /\ alive' \subseteq alive
                    /\ phase'[c] # phase[c] =>
                         phase[c] = "entering" /\ \E d \in Conns : Accepted(d)
  <1>1. ASSUME UNCHANGED vars PROVE Was
    BY <1>1 DEF vars, zoneVars
  <1>2. ASSUME NEW d \in Conns, Revoke(d) \/ RouteMove(d) PROVE Was
    BY <1>2 DEF Revoke, RouteMove, zoneVars
  <1>3. ASSUME NEW d \in Conns,
               \/ Handshake(d) \/ RedisAnswers(d) \/ CheckBlocklist(d) \/ CheckFails(d)
        PROVE  Was
    BY <1>3, <1>i, <1>t
       DEF Handshake, RedisAnswers, CheckBlocklist, CheckFails, Go, zoneVars
  <1>4. ASSUME NEW d \in Conns, SnapshotsEnd(d) \/ Leave(d) PROVE Was
    BY <1>4, <1>i, <1>t DEF SnapshotsEnd, Leave, Go, zoneVars
  <1>5. ASSUME NEW d \in Conns, Select(d) PROVE Was
    <2>1. /\ phase[d] = "select" /\ phase' = [phase EXCEPT ![d] = "entering"]
          /\ wiring' = wiring /\ alive' = alive
          /\ \A b \in Conns \ {d} : zone'[b] = zone[b]
      BY <1>5, <1>i DEF Select, Go, zoneVars
    <2> QED
      BY <1>i, <1>t, <2>1
  <1>6. ASSUME NEW d \in Conns, Accepted(d) PROVE Was
    <2>1. /\ phase[d] = "entering" /\ wiring' = wiring /\ zone' = zone /\ alive' = alive
          /\ \E p \in Phases : phase' = [phase EXCEPT ![d] = p]
      BY <1>6 DEF Accepted, Go, Phases, zoneVars
    <2> QED
      BY <1>6, <1>i, <1>t, <2>1
  <1>7. ASSUME NEW d \in Conns, TakeEnterRequest(d) PROVE Was
    BY <1>7, <1>i, <1>t DEF TakeEnterRequest, zoneVars
  <1>8. ASSUME NEW d \in Conns, Place(d) PROVE Was
    <2>1. d # c
      BY <1>8
    <2> QED
      BY <1>8, <1>i, <2>1 DEF Place, zoneVars
  <1>9. ASSUME RouterTakes \/ RouterSends PROVE Was
    BY <1>9 DEF RouterTakes, RouterSends, zoneVars
  <1>10. ASSUME NEW y \in Zones, Drain(y) \/ Prune(y) \/ ZoneEnds(y) PROVE Was
    BY <1>10 DEF Drain, Prune, ZoneEnds
  <1>11. Was
    BY <1>1, <1>2, <1>3, <1>4, <1>5, <1>6, <1>7, <1>8, <1>9, <1>10
       DEF Next, ConnStep, OwnStep
  <1> QED
    BY <1>11, <1>t

(* A living zone has, or will have, the entity of a placed client. *)
LEMMA InStep ==
    ASSUME TypeOK, TaskShape, EntryShape, [Next]_vars, NEW c \in Conns
    PROVE  InAfter(c)'
  <1> SUFFICES ASSUME wiring'[c] = "sent", phase'[c] \in {"entering", "play"},
                      zone'[c] \in alive'
               PROVE  c \in entities'[zone'[c]] \/ Enter(c) \in Range(inbox'[zone'[c]])
    BY DEF InAfter
  <1>i. /\ inbox \in [Zones -> Seq(Commands)] /\ entities \in [Zones -> SUBSET Conns]
        /\ held \in Commands \cup {NoCommand}
    BY DEF TypeOK
  <1>e. Enter(c) \in Commands
    BY BoundsAssumption DEF Enter, Commands
  <1>1. CASE Place(c)
    <2>1. /\ zone[c] \in Zones /\ zone'[c] = zone[c] /\ alive' = alive
          /\ inbox' = InboxAfter(zone[c], Enter(c))
      BY <1>1 DEF Place, TaskShape, zoneVars
    <2>2. inbox'[zone[c]] = Append(inbox[zone[c]], Enter(c))
      BY <1>i, <2>1 DEF InboxAfter
    <2> QED
      BY <1>i, <1>e, <2>1, <2>2, OneMore
  <1>2. CASE ~Place(c)
    <2> DEFINE z == zone[c]
    <2>z. /\ zone'[c] = z /\ z \in Zones /\ z \in alive
          /\ phase'[c] # "ended" /\ phase[c] # "ended"
          /\ c \in entities[z] \/ Enter(c) \in Range(inbox[z])
      BY <1>2, PlacedBefore DEF EntryShape
    <2> HIDE DEF z
    <2> SUFFICES c \in entities'[z] \/ Enter(c) \in Range(inbox'[z])
      BY <2>z
    <2>u. ASSUME inbox'[z] = inbox[z], entities'[z] = entities[z]
          PROVE  c \in entities'[z] \/ Enter(c) \in Range(inbox'[z])
      BY <2>u, <2>z
    <2>m. ASSUME NEW y \in Zones, NEW m \in Commands, inbox' = InboxAfter(y, m),
                 entities' = entities
          PROVE  c \in entities'[z] \/ Enter(c) \in Range(inbox'[z])
      <3>1. inbox'[z] = inbox[z] \/ inbox'[z] = Append(inbox[z], m)
        BY <1>i, <2>m, <2>z DEF InboxAfter
      <3>2. inbox[z] \in Seq(Commands)
        BY <1>i, <2>z
      <3>3. Enter(c) \in Range(inbox[z]) => Enter(c) \in Range(inbox'[z])
        <4>1. Range(Append(inbox[z], m)) = Range(inbox[z]) \cup {m}
          BY <2>m, <3>2, OneMore
        <4> QED
          BY <3>1, <4>1
      <3> QED
        BY <2>m, <2>z, <3>3
    <2>3. ASSUME NEW d \in Conns, Place(d)
          PROVE  c \in entities'[z] \/ Enter(c) \in Range(inbox'[z])
      <3>1. Enter(d) \in Commands /\ zone[d] \in Zones
        BY <2>3, BoundsAssumption DEF Enter, Commands, Place, TaskShape
      <3> QED
        BY <2>3, <2>m, <3>1 DEF Place, zoneVars
    <2>4. CASE RouterSends
      BY <2>4, <2>m, <2>u, <1>i DEF RouterSends, Destination, zoneVars
    <2>5. ASSUME NEW y \in Zones, Drain(y)
          PROVE  c \in entities'[z] \/ Enter(c) \in Range(inbox'[z])
      <3>1. CASE y # z
        BY <1>i, <2>5, <2>u, <2>z, <3>1 DEF Drain
      <3>2. CASE y = z
        <4>1. /\ inbox[z] \in Seq(Commands) /\ inbox[z] # <<>> /\ inbox'[z] = Tail(inbox[z])
              /\ entities[z] \subseteq entities'[z]
              /\ Head(inbox[z]).kind = "enter" => Head(inbox[z]).entity \in entities'[z]
          BY <1>i, <2>5, <2>z, <3>2 DEF Drain
        <4>2. Enter(c) \in Range(inbox[z]) => Enter(c) = Head(inbox[z]) \/ Enter(c) \in Range(inbox'[z])
          BY <4>1, OneLess
        <4>3. Enter(c) = Head(inbox[z]) => c \in entities'[z]
          BY <4>1 DEF Enter
        <4> QED
          BY <2>z, <4>1, <4>2, <4>3
      <3> QED
        BY <3>1, <3>2
    <2>6. ASSUME NEW y \in Zones, Prune(y)
          PROVE  c \in entities'[z] \/ Enter(c) \in Range(inbox'[z])
      <3>1. /\ inbox' = inbox
            /\ c \in entities[z] => c \in entities'[z]
        BY <1>i, <2>6, <2>z DEF Prune
      <3> QED
        BY <2>z, <3>1
    <2>7. ASSUME NEW y \in Zones, ZoneEnds(y)
          PROVE  c \in entities'[z] \/ Enter(c) \in Range(inbox'[z])
      <3>1. y # z
        BY <2>7, <2>z DEF ZoneEnds
      <3> QED
        BY <1>i, <2>7, <2>u, <2>z, <3>1 DEF ZoneEnds
    <2>8. CASE UNCHANGED <<inbox, entities>>
      BY <2>8, <2>u
    <2> QED
      BY <2>3, <2>4, <2>5, <2>6, <2>7, <2>8
         DEF vars, Next, ConnStep, OwnStep, Revoke, Handshake, RedisAnswers, CheckBlocklist,
             CheckFails, Select, Accepted, RouteMove, Leave, SnapshotsEnd, TakeEnterRequest,
             RouterTakes, zoneVars
  <1> QED
    BY <1>1, <1>2

(* The default zone gets the PlayerEnter of a client before its movements. *)
LEMMA FirstStep ==
    ASSUME TypeOK, TaskShape, TaskShape', PathShape, EntryShape, [Next]_vars, NEW c \in Conns
    PROVE  EnteredFirst(c)'
  <1> DEFINE D == DefaultZone
             q == inbox[D]
  <1> SUFFICES ASSUME phase'[c] = "play", zone'[c] = D, D \in alive',
                      NEW i \in DOMAIN inbox'[D], IsMove(inbox'[D][i], c)
               PROVE  \/ c \in entities'[D]
                      \/ \E j \in 1 .. i - 1 : inbox'[D][j] = Enter(c)
    BY DEF EnteredFirst
  <1> DEFINE Goal == \/ c \in entities'[D]
                     \/ \E j \in 1 .. i - 1 : inbox'[D][j] = Enter(c)
  <1>w. wiring'[c] = "sent"
    BY DEF TaskShape
  <1>i. /\ inbox \in [Zones -> Seq(Commands)] /\ entities \in [Zones -> SUBSET Conns]
        /\ held \in Commands \cup {NoCommand} /\ alive \subseteq Zones
        /\ sent \in [Conns -> 0 .. MaxMoves]
    BY DEF TypeOK
  <1>1. ASSUME Place(c) PROVE Goal
    \* A task that is being placed does not play yet.
    BY <1>1 DEF Place, TaskShape
  <1>2. ASSUME ~Place(c) PROVE Goal
    <2>b. /\ wiring[c] = "sent" /\ phase[c] \in {"entering", "play"} /\ zone[c] = D
          /\ D \in Zones /\ D \in alive
          /\ phase'[c] # phase[c] => phase[c] = "entering" /\ \E d \in Conns : Accepted(d)
      BY <1>2, <1>w, PlacedBefore
    <2>q. q \in Seq(Commands) /\ DOMAIN q = 1 .. Len(q) /\ Len(q) \in Nat
      BY <1>i, <2>b
    <2>n. c \in entities[D] \/ Enter(c) \in Range(q)
      BY <2>b DEF EntryShape
    <2>e. ASSUME phase[c] = "play", NEW k \in DOMAIN q, IsMove(q[k], c)
          PROVE  c \in entities[D] \/ \E j \in 1 .. k - 1 : q[j] = Enter(c)
      BY <2>b, <2>e DEF EntryShape
    <2>f. ASSUME phase[c] = "entering", NEW k \in DOMAIN q PROVE ~IsMove(q[k], c)
      \* Nothing is sent yet, so nothing is on its way.
      <3>1. sent[c] = 0
        BY <1>i, <2>f DEF TaskShape
      <3>2. Front = q
        BY <2>b DEF Front
      <3>3. k \in DOMAIN OnTheWay /\ OnTheWay[k] = q[k]
        <4>1. /\ Front \in Seq(Commands) /\ Middle \in Seq(Commands)
              /\ immediate \in Seq(Commands) /\ OnTheWay = Front \o Middle \o immediate
          BY PathParts
        <4>2. /\ DOMAIN OnTheWay = 1 .. Len(Front) + Len(Middle) + Len(immediate)
              /\ \A j \in 1 .. Len(Front) : OnTheWay[j] = Front[j]
              /\ Len(Middle) \in Nat /\ Len(immediate) \in Nat
          BY <4>1, Join
        <4>3. k \in 1 .. Len(Front) /\ Len(Front) \in Nat
          BY <2>f, <2>q, <3>2
        <4> QED
          BY <3>2, <4>2, <4>3
      <3>4. q[k].kind = "move" => q[k].number <= sent[q[k].entity] /\ q[k].number > 0
        BY <3>3 DEF PathShape
      <3>5. q[k] \in Commands
        BY <2>q, ElementOfSeq
      <3> QED
        BY <3>1, <3>4, <3>5 DEF IsMove, Commands
    <2> HIDE DEF D, q, Goal
    <2>u. ASSUME inbox'[D] = inbox[D], c \in entities[D] => c \in entities'[D]
          PROVE  Goal
      BY <2>u, <2>b, <2>e, <2>f DEF q, Goal
    <2>m. ASSUME NEW m \in Commands, inbox'[D] = Append(q, m), entities' = entities,
                 phase' = phase
          PROVE  Goal
      <3>1. i \in 1 .. Len(q) \/ i = Len(q) + 1
        BY <2>m, <2>q, OneMore
      <3>2. phase[c] = "play"
        BY <2>m
      <3>3. CASE i \in 1 .. Len(q)
        <4>1. inbox'[D][i] = q[i] /\ \A j \in 1 .. i - 1 : j \in 1 .. Len(q) /\ inbox'[D][j] = q[j]
          BY <2>m, <2>q, <3>3, OneMore
        <4>2. c \in entities[D] \/ \E j \in 1 .. i - 1 : q[j] = Enter(c)
          BY <2>e, <2>q, <3>2, <3>3, <4>1
        <4> QED
          BY <2>m, <4>1, <4>2 DEF Goal
      <3>4. CASE i = Len(q) + 1
        <4>1. \A j \in DOMAIN q : j \in 1 .. i - 1 /\ inbox'[D][j] = q[j]
          BY <2>m, <2>q, <3>4, OneMore
        <4>2. Enter(c) \in Range(q) => \E j \in DOMAIN q : q[j] = Enter(c)
          BY DEF Range
        <4> QED
          BY <2>m, <2>n, <4>1, <4>2 DEF Goal
      <3> QED
        BY <3>1, <3>3, <3>4
    <2>3. ASSUME NEW d \in Conns, Place(d) PROVE Goal
      <3>1. Enter(d) \in Commands
        BY BoundsAssumption DEF Enter, Commands
      <3>2. inbox'[D] = inbox[D] \/ inbox'[D] = Append(q, Enter(d))
        BY <1>i, <2>3, <2>b DEF Place, InboxAfter, q
      <3> QED
        BY <2>3, <2>m, <2>u, <3>1, <3>2 DEF Place, zoneVars
    <2>4. ASSUME RouterSends PROVE Goal
      <3>1. held \in Commands
        BY <1>i, <2>4 DEF RouterSends
      <3>2. inbox'[D] = inbox[D] \/ inbox'[D] = Append(q, held)
        BY <1>i, <2>4, <2>b DEF RouterSends, InboxAfter, Destination, q, D
      <3> QED
        BY <2>4, <2>m, <2>u, <3>1, <3>2 DEF RouterSends, zoneVars
    <2>5. ASSUME NEW y \in Zones, Drain(y) PROVE Goal
      <3>1. CASE y # D
        BY <1>i, <2>5, <2>b, <2>u, <3>1 DEF Drain
      <3>2. CASE y = D
        <4>1. /\ q # <<>> /\ inbox'[D] = Tail(q) /\ phase' = phase
              /\ entities[D] \subseteq entities'[D]
              /\ Head(q).kind = "enter" => Head(q).entity \in entities'[D]
          BY <1>i, <2>5, <2>b, <3>2 DEF Drain, q
        <4>2. /\ Head(q) = q[1] /\ i \in Nat /\ i > 0 /\ i + 1 \in DOMAIN q
              /\ inbox'[D][i] = q[i + 1]
              /\ \A k \in DOMAIN q \ {1} : inbox'[D][k - 1] = q[k]
          BY <2>q, <4>1, OneLess
        <4>3. c \in entities[D] \/ \E j \in 1 .. (i + 1) - 1 : q[j] = Enter(c)
          BY <2>e, <4>1, <4>2
        <4>4. ASSUME NEW j \in 1 .. (i + 1) - 1, q[j] = Enter(c), j # 1 PROVE Goal
          <5>1. j - 1 \in 1 .. i - 1 /\ j \in DOMAIN q \ {1}
            BY <2>q, <4>2, <4>4
          <5> QED
            BY <4>2, <4>4, <5>1 DEF Goal
        <4>5. q[1] = Enter(c) => Goal
          BY <4>1, <4>2 DEF Enter, Goal
        <4> QED
          BY <4>1, <4>3, <4>4, <4>5 DEF Goal
      <3> QED
        BY <3>1, <3>2
    <2>6. ASSUME NEW y \in Zones, Prune(y) PROVE Goal
      <3>1. inbox'[D] = inbox[D]
        BY <2>6 DEF Prune
      <3>2. c \in entities[D] => c \in entities'[D]
        BY <1>i, <2>6, <2>b DEF Prune
      <3> QED
        BY <2>u, <3>1, <3>2
    <2>7. ASSUME NEW y \in Zones, ZoneEnds(y) PROVE Goal
      <3>1. y # D
        BY <2>7 DEF ZoneEnds
      <3> QED
        BY <1>i, <2>7, <2>b, <2>u, <3>1 DEF ZoneEnds
    <2>8. ASSUME UNCHANGED <<inbox, entities>> PROVE Goal
      BY <2>8, <2>u
    <2> QED
      BY <2>3, <2>4, <2>5, <2>6, <2>7, <2>8
         DEF vars, Next, ConnStep, OwnStep, Revoke, Handshake, RedisAnswers, CheckBlocklist,
             CheckFails, Select, Accepted, RouteMove, Leave, SnapshotsEnd, TakeEnterRequest,
             RouterTakes, zoneVars
  <1> QED
    BY <1>1, <1>2

(* No step lets a zone read a movement before the entity is there. *)
LEMMA EntryStep ==
    ASSUME TypeOK, TaskShape, TaskShape', PathShape, EntryShape, [Next]_vars
    PROVE  EntryShape'
  <1>1. ASSUME NEW c \in Conns PROVE OutBefore(c)'
    BY OutStep DEF OutBefore
  <1> QED
    BY <1>1, InStep, FirstStep, EntryParts
------------------------------------------------------------------------------
(* CommandPath IInv: through two channels, the router and the interleaving *)
(* of all players, movements stay in the order they were sent, and a       *)
(* living zone has the entity of every client that plays in it before it   *)
(* reads a movement of it.                                                 *)
THEOREM CommandInvariance == Spec => []IInv
  <1>1. ASSUME Init PROVE IInv
    <2>1. /\ \A z \in Zones : inbox[z] = <<>> /\ entities[z] = {}
          /\ immediate = <<>> /\ held = NoCommand /\ alive = Zones
          /\ \A c \in Conns : /\ phase[c] = "handshake" /\ wiring[c] = "idle"
                              /\ sent[c] = 0 /\ applied[c] = 0 /\ revoked[c] = "no"
      BY <1>1 DEF Init
    <2>2. TypeOK
      <3>1. <<>> \in Seq(Commands) /\ Len(<<>>) = 0
        OBVIOUS
      <3> QED
        BY <1>1, <3>1, BoundsAssumption DEF Init, TypeOK, Phases
    <2>3. OnTheWay = <<>>
      BY <2>1 DEF OnTheWay
    <2>4. TaskShape /\ AuthShape
      BY <2>1 DEF TaskShape, AuthShape
    <2>5. MovesInOrder /\ PathShape
      BY <2>1, <2>3 DEF MovesInOrder, PathShape
    <2>6. EntryShape
      BY <2>1 DEF EntryShape, Absent
    <2> QED
      BY <2>2, <2>4, <2>5, <2>6 DEF IInv
  <1>2. ASSUME IInv, [Next]_vars PROVE IInv'
    <2>1. TypeOK' /\ TaskShape' /\ AuthShape'
      BY <1>2, TypeStep, TaskStep DEF IInv
    <2>2. MovesInOrder' /\ PathShape'
      BY <1>2, <2>1, OrderStep DEF IInv
    <2>3. EntryShape'
      BY <1>2, <2>1, EntryStep DEF IInv
    <2> QED
      BY <2>1, <2>2, <2>3 DEF IInv
  <1> QED
    BY <1>1, <1>2, PTL DEF Spec

(* RevokedStaysOut: a token that was revoked before it was asked for leads *)
(* to no entity and no command.                                            *)
THEOREM RevokedStaysOutCorrect == Spec => []RevokedStaysOut
  <1>1. ASSUME IInv PROVE RevokedStaysOut
    <2> SUFFICES ASSUME NEW c \in Conns, revoked[c] = "yes", ~devAuth
                 PROVE  /\ \A z \in Zones : c \notin entities[z] /\ Enter(c) \notin Range(inbox[z])
                        /\ \A i \in DOMAIN OnTheWay : OnTheWay[i].entity # c
      BY DEF RevokedStaysOut
    <2>1. Absent(c)
      BY <1>1 DEF IInv, AuthShape, EntryShape
    <2>2. \A z \in Zones : c \notin entities[z] /\ Enter(c) \notin Range(inbox[z])
      BY <2>1 DEF Absent, Range, Enter
    <2>3. ASSUME NEW i \in DOMAIN OnTheWay PROVE OnTheWay[i].entity # c
      <3>1. TypeOK
        BY <1>1 DEF IInv
      <3>2. /\ Front \in Seq(Commands) /\ Middle \in Seq(Commands) /\ immediate \in Seq(Commands)
            /\ OnTheWay = Front \o Middle \o immediate
        BY <3>1, PathParts
      <3>3. /\ \A k \in 1 .. Len(Front) : Front[k].entity # c
            /\ \A k \in 1 .. Len(Middle) : Middle[k].entity # c
            /\ \A k \in 1 .. Len(immediate) : immediate[k].entity # c
        <4>1. \A k \in DOMAIN Front : Front[k].entity # c
          BY <2>1 DEF Absent, Front
        <4>2. \A k \in DOMAIN Middle : Middle[k].entity # c
          BY <2>1 DEF Absent, Middle
        <4>3. \A k \in DOMAIN immediate : immediate[k].entity # c
          BY <2>1 DEF Absent
        <4> QED
          BY <3>2, <4>1, <4>2, <4>3
      <3>4. /\ DOMAIN OnTheWay = 1 .. Len(Front) + Len(Middle) + Len(immediate)
            /\ \A k \in 1 .. Len(Front) : OnTheWay[k] = Front[k]
            /\ \A k \in 1 .. Len(Middle) : OnTheWay[Len(Front) + k] = Middle[k]
            /\ \A k \in 1 .. Len(immediate) :
                 OnTheWay[Len(Front) + Len(Middle) + k] = immediate[k]
            /\ Len(Front) \in Nat /\ Len(Middle) \in Nat /\ Len(immediate) \in Nat
        BY <3>2, Join
      <3> HIDE DEF Front, Middle
      <3>5. CASE i <= Len(Front)
        BY <3>3, <3>4, <3>5
      <3>6. CASE i > Len(Front) /\ i <= Len(Front) + Len(Middle)
        <4>1. i - Len(Front) \in 1 .. Len(Middle) /\ Len(Front) + (i - Len(Front)) = i
          BY <3>4, <3>6
        <4> QED
          BY <3>3, <3>4, <4>1
      <3>7. CASE i > Len(Front) + Len(Middle)
        <4> DEFINE k == i - (Len(Front) + Len(Middle))
        <4>1. k \in 1 .. Len(immediate) /\ Len(Front) + Len(Middle) + k = i
          BY <3>4, <3>7
        <4> HIDE DEF k
        <4> QED
          BY <3>3, <3>4, <4>1
      <3> QED
        BY <3>4, <3>5, <3>6, <3>7
    <2> QED
      BY <2>2, <2>3
  <1> QED
    BY <1>1, CommandInvariance, PTL

(* PlayersMovesApply: the default zone applies every movement of a client  *)
(* that plays in it, though two tasks feed its inbox.                      *)
THEOREM PlayersMovesApplyCorrect == Spec => PlayersMovesApply
  <1> DEFINE D == DefaultZone
             Applied(c) ==
                /\ phase[c] = "play" /\ zone[c] = D
                /\ inbox[D] # <<>> /\ IsMove(Head(inbox[D]), c)
                /\ inbox'[D] # inbox[D] /\ alive' = alive
                /\ Len(inbox'[D]) < Len(inbox[D])
                => applied'[c] = Head(inbox[D]).number
  <1>1. ASSUME IInv, [Next]_vars PROVE [\A c \in Conns : Applied(c)]_vars
    <2> SUFFICES ASSUME NEW c \in Conns, phase[c] = "play", zone[c] = D,
                        inbox[D] # <<>>, IsMove(Head(inbox[D]), c), alive' = alive,
                        Len(inbox'[D]) < Len(inbox[D])
                 PROVE  applied'[c] = Head(inbox[D]).number
      OBVIOUS
    <2>1. /\ inbox \in [Zones -> Seq(Commands)] /\ zone[c] \in Zones
          /\ applied \in [Conns -> 0 .. MaxMoves] /\ alive \subseteq Zones
      BY <1>1 DEF IInv, TypeOK, TaskShape
    <2>2. inbox[D] \in Seq(Commands) /\ Len(inbox[D]) \in Nat
      BY <2>1
    <2>3. ASSUME NEW y \in Zones, NEW m \in Commands, inbox' = InboxAfter(y, m) PROVE FALSE
      <3>1. inbox'[D] = inbox[D] \/ inbox'[D] = Append(inbox[D], m)
        BY <2>1, <2>3 DEF InboxAfter
      <3>2. Len(Append(inbox[D], m)) = Len(inbox[D]) + 1
        BY <2>2, <2>3, AppendProperties
      <3> QED
        BY <2>2, <3>1, <3>2
    <2>4. ASSUME NEW d \in Conns, Place(d) PROVE FALSE
      <3>1. zone[d] \in Zones /\ Enter(d) \in Commands
        BY <1>1, <2>4, BoundsAssumption DEF IInv, TaskShape, Place, Enter, Commands
      <3> QED
        BY <2>3, <2>4, <3>1 DEF Place
    <2>5. ASSUME RouterSends PROVE FALSE
      <3>1. held \in Commands
        BY <1>1, <2>5 DEF IInv, TypeOK, RouterSends
      <3> QED
        BY <2>1, <2>2, <2>3, <2>5, <3>1 DEF RouterSends, Destination
    <2>6. ASSUME NEW z \in Zones, Prune(z) \/ ZoneEnds(z) PROVE FALSE
      BY <2>2, <2>6 DEF Prune, ZoneEnds
    <2>7. ASSUME UNCHANGED inbox PROVE FALSE
      BY <2>2, <2>7
    <2>8. ASSUME NEW z \in Zones, Drain(z)
          PROVE  applied'[c] = Head(inbox[D]).number
      <3>1. z = D
        BY <2>1, <2>2, <2>8 DEF Drain
      <3>2. D \in alive /\ Head(inbox[D]) = inbox[D][1] /\ 1 \in DOMAIN inbox[D]
        BY <2>2, <2>8, <3>1, OneLess DEF Drain
      <3>3. c \in entities[D] \/ \E j \in 1 .. 1 - 1 : inbox[D][j] = Enter(c)
        BY <1>1, <3>2 DEF IInv, EntryShape
      <3>4. c \in entities[D]
        BY <3>3
      <3> QED
        BY <2>1, <2>8, <3>1, <3>4 DEF Drain, IsMove
    <2> QED
      BY <1>1, <2>4, <2>5, <2>6, <2>7, <2>8
         DEF vars, Next, ConnStep, OwnStep, Revoke, Handshake, RedisAnswers, CheckBlocklist,
             CheckFails, Select, Accepted, RouteMove, Leave, SnapshotsEnd, TakeEnterRequest,
             RouterTakes, zoneVars
  <1>2. Spec => [][\A c \in Conns : Applied(c)]_vars
    BY <1>1, CommandInvariance, PTL DEF Spec
  <1> QED
    BY <1>2 DEF PlayersMovesApply
=============================================================================

----------------------------- MODULE CommandPath -----------------------------
(***************************************************************************)
(* The way of a player's commands from the client to a zone: the           *)
(* connection task (run_connection: token, selection, connected phase),    *)
(* the classification and routing of messages, the wiring task's           *)
(* PlayerEnter, the immediate command router, and the zone inboxes that    *)
(* the zone threads drain.                                                 *)
(*                                                                         *)
(* The router and the wiring tasks are tasks of the async runtime, yet     *)
(* they put commands into a zone's bounded inbox with a blocking send:     *)
(* each occupies a worker thread of the runtime until it is done, and      *)
(* while all are occupied no task of the runtime takes a step.  Zones have *)
(* threads of their own.                                                   *)
(***************************************************************************)
EXTENDS Naturals, Sequences, FiniteSets, Functions

CONSTANTS
    N,              \* connections, named by their entity ids 1 .. N
    Zones,          \* the configured zones, those with an inbox
    ZoneIds,        \* zones a stored character may name
    InboxCapacity,  \* slots of a zone inbox (256)
    Threads,        \* worker threads of the async runtime
    MaxMoves,       \* bounds the MoveInputs of a client
    NoZone, NoCommand

ASSUME ZonesAssumption == Zones \subseteq ZoneIds /\ NoZone \notin ZoneIds
ASSUME BoundsAssumption ==
    /\ N \in Nat /\ MaxMoves \in Nat
    /\ InboxCapacity \in Nat \ {0} /\ Threads \in Nat \ {0}

Conns == 1 .. N
Router == 0          \* the router task, beside the wiring tasks 1 .. N
DefaultZone == 1     \* default_zone_id of run_immediate_router

VARIABLES
    devAuth,    \* skip_validation
    revoked,    \* of a client's token: "no", "yes" when its jti is in the
                \* blocklist, "missed" when the query for that failed
    phase,      \* where the connection task stands
    zone,       \* zone of the selected character
    sent,       \* MoveInputs the connection task has routed
    wiring,     \* of the wiring task: "idle", "sending", "sent" or "refused"
    immediate,  \* the unbounded channel of routed commands
    held,       \* the command the router is sending to a zone
    inbox,      \* per zone: the commands in its inbox
    alive,      \* zones whose thread runs
    entities,   \* per zone: players with an entity
    applied     \* last MoveInput of a player its zone has applied

auth == <<devAuth, revoked>>
zoneVars == <<alive, entities, applied>>
vars == <<auth, phase, zone, sent, wiring, immediate, held, inbox, zoneVars>>
------------------------------------------------------------------------------
Phases == {"handshake", "redis", "blocklist", "select", "entering", "play", "ended"}

Move(c, n) == [kind |-> "move", entity |-> c, number |-> n]
Enter(c) == [kind |-> "enter", entity |-> c, number |-> 0]
Commands == [kind : {"move", "enter"}, entity : Conns, number : 0 .. MaxMoves]

ASSUME NoCommandAssumption == NoCommand \notin Commands

Init ==
    /\ devAuth \in BOOLEAN
    /\ revoked = [c \in Conns |-> "no"]
    /\ phase = [c \in Conns |-> "handshake"]
    /\ zone = [c \in Conns |-> NoZone]
    /\ sent = [c \in Conns |-> 0]
    /\ wiring = [c \in Conns |-> "idle"]
    /\ immediate = <<>>
    /\ held = NoCommand
    /\ inbox = [z \in Zones |-> <<>>]
    /\ alive = Zones
    /\ entities = [z \in Zones |-> {}]
    /\ applied = [c \in Conns |-> 0]
------------------------------------------------------------------------------
(* The runtime.                                                            *)

(* Tasks that sit in a blocking send, each on a worker thread *)
Blocking == {c \in Conns : wiring[c] = "sending"} \cup
            IF held = NoCommand THEN {} ELSE {Router}

WorkerFree == Cardinality(Blocking) < Threads

(* send on a sync_channel: waits for a slot, fails when the zone is gone. *)
\* Mutant: a send to a zone that died waits for room.
SendIgnoresEnd(z) == z \in alive /\ Len(inbox[z]) < InboxCapacity
SendReturns(z) == z \notin alive \/ Len(inbox[z]) < InboxCapacity
InboxAfter(z, cmd) == IF z \in alive THEN [inbox EXCEPT ![z] = Append(@, cmd)] ELSE inbox
------------------------------------------------------------------------------
(* The connection task.  What its client says is a choice of the handler   *)
(* that reads it; what is only answered, or ignored, changes nothing here: *)
(* Ping, the list, creation and deletion of characters, a selection the    *)
(* store refuses, and unexpected messages in phase 2.                      *)

Go(c, p) == phase' = [phase EXCEPT ![c] = p]

(* The token's id is put into the blocklist. *)
Revoke(c) ==
    /\ revoked[c] = "no" /\ phase[c] \in {"handshake", "redis", "blocklist"}
    /\ revoked' = [revoked EXCEPT ![c] = "yes"]
    /\ UNCHANGED <<devAuth, phase, zone, sent, wiring, immediate, held, inbox, zoneVars>>

(* A token of good signature and not expired, or any in dev mode *)
Handshake(c) ==
    /\ phase[c] = "handshake"
    /\ Go(c, IF devAuth THEN "select" ELSE "redis")
    /\ UNCHANGED <<auth, zone, sent, wiring, immediate, held, inbox, zoneVars>>

(* get_async_connection: without Redis nobody gets in. *)
RedisAnswers(c) ==
    /\ phase[c] = "redis"
    /\ Go(c, "blocklist")
    /\ UNCHANGED <<auth, zone, sent, wiring, immediate, held, inbox, zoneVars>>

(* EXISTS jti *)
\* Mutant: the answer of EXISTS is not looked at.
BlockedNever(c) == FALSE
Blocked(c) == revoked[c] = "yes"

CheckBlocklist(c) ==
    /\ phase[c] = "blocklist"
    /\ Go(c, IF Blocked(c) THEN "ended" ELSE "select")
    /\ UNCHANGED <<auth, zone, sent, wiring, immediate, held, inbox, zoneVars>>

(* unwrap_or(false): a query that fails blocks nobody. *)
CheckFails(c) ==
    /\ phase[c] = "blocklist"
    /\ revoked' = [revoked EXCEPT ![c] = "missed"]
    /\ Go(c, "select")
    /\ UNCHANGED <<devAuth, zone, sent, wiring, immediate, held, inbox, zoneVars>>

(* SelectCharacter of a stored character: enter_zone_tx.send *)
Select(c) ==
    /\ phase[c] = "select"
    /\ \E z \in ZoneIds : zone' = [zone EXCEPT ![c] = z]
    /\ Go(c, "entering")
    /\ UNCHANGED <<auth, sent, wiring, immediate, held, inbox, zoneVars>>

(* snapshot_rx_source.await: HandshakeAccepted or HandshakeRejected *)
\* Mutant: the snapshot channel is handed over before PlayerEnter is sent.
MayPlayEarly(c) == wiring[c] \in {"sending", "sent"}
MayPlay(c) == wiring[c] = "sent"

Accepted(c) ==
    /\ phase[c] = "entering"
    /\ \/ MayPlay(c) /\ Go(c, "play")
       \/ wiring[c] = "refused" /\ Go(c, "ended")
    /\ UNCHANGED <<auth, zone, sent, wiring, immediate, held, inbox, zoneVars>>

(* handle_connected: of all messages only MoveInput is routed. *)
RouteMove(c) ==
    /\ phase[c] = "play" /\ sent[c] < MaxMoves
    /\ sent' = [sent EXCEPT ![c] = @ + 1]
    /\ immediate' = Append(immediate, Move(c, sent[c] + 1))
    /\ UNCHANGED <<auth, phase, zone, wiring, held, inbox, zoneVars>>

(* A rejected token, Redis out of reach, a first message that is neither a *)
(* Handshake nor a Ping, Disconnect, a second Handshake while connected,   *)
(* the client's end of file, a read error or an undecodable frame          *)
Leave(c) ==
    /\ phase[c] \in {"handshake", "redis", "select", "play"}
    /\ Go(c, "ended")
    /\ UNCHANGED <<auth, zone, sent, wiring, immediate, held, inbox, zoneVars>>

(* The zone has dropped its end of the snapshot channel. *)
SnapshotsEnd(c) ==
    /\ phase[c] = "play"
    /\ zone[c] \notin alive
    /\ Go(c, "ended")
    /\ UNCHANGED <<auth, zone, sent, wiring, immediate, held, inbox, zoneVars>>

(* The steps that wait for nothing the client does *)
OwnStep(c) ==
    \/ RedisAnswers(c) \/ CheckBlocklist(c) \/ CheckFails(c)
    \/ Accepted(c) \/ SnapshotsEnd(c)
ConnStep(c) ==
    Handshake(c) \/ OwnStep(c) \/ Select(c) \/ RouteMove(c) \/ Leave(c)
------------------------------------------------------------------------------
(* The wiring task, phase 3.                                               *)

TakeEnterRequest(c) ==
    /\ phase[c] = "entering" /\ wiring[c] = "idle"
    /\ wiring' = [wiring EXCEPT ![c] = IF zone[c] \in Zones THEN "sending" ELSE "refused"]
    /\ UNCHANGED <<auth, phase, zone, sent, immediate, held, inbox, zoneVars>>

(* inbox.send(PlayerEnter), its error ignored, then snap_source_tx.send *)
Place(c) ==
    /\ wiring[c] = "sending"
    /\ SendReturns(zone[c])
    /\ inbox' = InboxAfter(zone[c], Enter(c))
    /\ wiring' = [wiring EXCEPT ![c] = "sent"]
    /\ UNCHANGED <<auth, phase, zone, sent, immediate, held, zoneVars>>
------------------------------------------------------------------------------
(* run_immediate_router.                                                   *)

\* Mutant: the newest command first.
RouterTakesNewest ==
    /\ held = NoCommand /\ immediate # <<>>
    /\ held' = immediate[Len(immediate)]
    /\ immediate' = SubSeq(immediate, 1, Len(immediate) - 1)
    /\ UNCHANGED <<auth, phase, zone, sent, wiring, inbox, zoneVars>>
RouterTakes ==
    /\ held = NoCommand /\ immediate # <<>>
    /\ held' = Head(immediate)
    /\ immediate' = Tail(immediate)
    /\ UNCHANGED <<auth, phase, zone, sent, wiring, inbox, zoneVars>>

(* The zone a command is sent to *)
Destination(cmd) == DefaultZone

RouterSends ==
    /\ held # NoCommand
    /\ LET z == Destination(held) IN
        /\ z \in Zones => SendReturns(z)
        /\ inbox' = IF z \in Zones THEN InboxAfter(z, held) ELSE inbox
    /\ held' = NoCommand
    /\ UNCHANGED <<auth, phase, zone, sent, wiring, immediate, zoneVars>>
------------------------------------------------------------------------------
(* A zone's thread.                                                        *)

(* Zone::apply of one command: a MoveInput of an entity that is not here   *)
(* is ignored.                                                             *)
Drain(z) ==
    /\ z \in alive /\ inbox[z] # <<>>
    /\ inbox' = [inbox EXCEPT ![z] = Tail(@)]
    /\ LET cmd == Head(inbox[z]) IN
        IF cmd.kind = "enter"
        THEN /\ entities' = [entities EXCEPT ![z] = @ \cup {cmd.entity}]
             /\ UNCHANGED applied
        ELSE /\ applied' = IF cmd.entity \in entities[z]
                           THEN [applied EXCEPT ![cmd.entity] = cmd.number]
                           ELSE applied
             /\ UNCHANGED entities
    /\ UNCHANGED <<auth, phase, zone, sent, wiring, immediate, held, alive>>

(* dispatch_snapshots finds the channel of an ended connection closed. *)
Prune(z) ==
    /\ z \in alive
    /\ \E c \in entities[z] :
        /\ phase[c] = "ended"
        /\ entities' = [entities EXCEPT ![z] = @ \ {c}]
    /\ UNCHANGED <<auth, phase, zone, sent, wiring, immediate, held, inbox, alive, applied>>

(* The thread panics: its inbox and its snapshot channels are dropped. *)
ZoneEnds(z) ==
    /\ z \in alive
    /\ alive' = alive \ {z}
    /\ inbox' = [inbox EXCEPT ![z] = <<>>]
    /\ entities' = [entities EXCEPT ![z] = {}]
    /\ UNCHANGED <<auth, phase, zone, sent, wiring, immediate, held, applied>>

Next ==
    \/ \E c \in Conns : Revoke(c)
    \/ WorkerFree /\ (RouterTakes \/ \E c \in Conns :
                        ConnStep(c) \/ TakeEnterRequest(c))
    \/ RouterSends
    \/ \E c \in Conns : Place(c)
    \/ \E z \in Zones : Drain(z) \/ Prune(z) \/ ZoneEnds(z)

Spec == Init /\ [][Next]_vars

(* The runtime runs its tasks when it has a thread, a blocking send        *)
(* returns when there is room, and a zone drains its inbox on every tick.  *)
Fairness ==
    /\ \A c \in Conns : WF_vars(WorkerFree /\ OwnStep(c))
                     /\ WF_vars(WorkerFree /\ TakeEnterRequest(c))
                     /\ WF_vars(Place(c))
    /\ WF_vars(WorkerFree /\ RouterTakes)
    /\ WF_vars(RouterSends)
    /\ \A z \in Zones : WF_vars(Drain(z)) /\ WF_vars(Prune(z))

FairSpec == Spec /\ Fairness
------------------------------------------------------------------------------
(* The variables hold values of their types. *)
TypeOK ==
    /\ devAuth \in BOOLEAN
    /\ revoked \in [Conns -> {"no", "yes", "missed"}]
    /\ phase \in [Conns -> Phases]
    /\ zone \in [Conns -> ZoneIds \cup {NoZone}]
    /\ sent \in [Conns -> 0 .. MaxMoves]
    /\ wiring \in [Conns -> {"idle", "sending", "sent", "refused"}]
    /\ immediate \in Seq(Commands)
    /\ held \in Commands \cup {NoCommand}
    /\ inbox \in [Zones -> Seq(Commands)]
    /\ \A z \in Zones : Len(inbox[z]) <= InboxCapacity
    /\ alive \subseteq Zones
    /\ entities \in [Zones -> SUBSET Conns]
    /\ applied \in [Conns -> 0 .. MaxMoves]

(* The commands between a connection task and the default zone, in the     *)
(* order the zone will see them.                                           *)
OnTheWay ==
    (IF DefaultZone \in Zones THEN inbox[DefaultZone] ELSE <<>>)
    \o (IF held = NoCommand THEN <<>> ELSE <<held>>) \o immediate

IsMove(cmd, c) == cmd.kind = "move" /\ cmd.entity = c

(* Through two channels, the router and the interleaving of all players,   *)
(* a player's movement intents stay in the order they were sent, none is   *)
(* applied twice and none overtaken.                                       *)
MovesInOrder ==
    \A c \in Conns : \A i \in DOMAIN OnTheWay :
        IsMove(OnTheWay[i], c) =>
            /\ applied[c] < OnTheWay[i].number
            /\ \A j \in 1 .. i - 1 :
                IsMove(OnTheWay[j], c) => OnTheWay[j].number < OnTheWay[i].number

(* Only a client that is, or was, in play has sent a movement, and only a  *)
(* task that entered a configured zone sends PlayerEnter to it.            *)
TaskShape ==
    \A c \in Conns :
        /\ phase[c] \in {"handshake", "redis", "blocklist", "select"} => wiring[c] = "idle"
        /\ phase[c] = "play" => wiring[c] = "sent"
        /\ wiring[c] \in {"sending", "sent"} => zone[c] \in Zones
        /\ sent[c] > 0 => wiring[c] = "sent" /\ phase[c] \in {"play", "ended"}

(* A movement is on its way, or applied, only after it was sent, and only  *)
(* the default zone gets any.                                              *)
PathShape ==
    /\ \A c \in Conns : applied[c] <= sent[c]
    /\ \A i \in DOMAIN OnTheWay : LET cmd == OnTheWay[i] IN
        cmd.kind = "move" => cmd.number <= sent[cmd.entity] /\ cmd.number > 0
    /\ \A z \in Zones \ {DefaultZone} : \A i \in DOMAIN inbox[z] :
        inbox[z][i].kind = "enter"

(* Nothing of c is in a zone or on its way to one. *)
Absent(c) ==
    /\ \A z \in Zones : c \notin entities[z] /\ \A i \in DOMAIN inbox[z] : inbox[z][i].entity # c
    /\ held # NoCommand => held.entity # c
    /\ \A i \in DOMAIN immediate : immediate[i].entity # c

(* A client gets into a zone by PlayerEnter alone: before it is sent there *)
(* is nothing of it, afterwards a living zone has its entity or will have  *)
(* it before it reads a movement.                                          *)
EntryShape ==
    \A c \in Conns :
        /\ wiring[c] # "sent" => Absent(c)
        /\ wiring[c] = "sent" /\ phase[c] \in {"entering", "play"} /\ zone[c] \in alive =>
            c \in entities[zone[c]] \/ Enter(c) \in Range(inbox[zone[c]])
        /\ phase[c] = "play" /\ zone[c] = DefaultZone /\ DefaultZone \in alive =>
            \A i \in DOMAIN inbox[DefaultZone] : IsMove(inbox[DefaultZone][i], c) =>
                \/ c \in entities[DefaultZone]
                \/ \E j \in 1 .. i - 1 : inbox[DefaultZone][j] = Enter(c)

(* A token in the blocklist gets no further than the query for it, unless  *)
(* tokens are not validated or the query failed.                           *)
AuthShape ==
    \A c \in Conns : revoked[c] = "yes" /\ ~devAuth =>
        /\ phase[c] \in {"handshake", "redis", "blocklist", "ended"}
        /\ wiring[c] = "idle"

(* All of them at once; by induction they need each other. *)
IInv == TypeOK /\ TaskShape /\ MovesInOrder /\ PathShape /\ EntryShape /\ AuthShape

(* Two tasks feed an inbox, the wiring task with PlayerEnter and the       *)
(* router with MoveInput: the default zone never takes a movement of a     *)
(* client that plays in it without having, and moving, its entity.         *)
PlayersMovesApply ==
    [][\A c \in Conns :
        /\ phase[c] = "play" /\ zone[c] = DefaultZone
        /\ inbox[DefaultZone] # <<>> /\ IsMove(Head(inbox[DefaultZone]), c)
        /\ inbox'[DefaultZone] # inbox[DefaultZone] /\ alive' = alive
        /\ Len(inbox'[DefaultZone]) < Len(inbox[DefaultZone])
        => applied'[c] = Head(inbox[DefaultZone]).number]_vars

(* A client whose token was revoked before its blocklist query ran has no  *)
(* entity in a zone and no command on its way to one, unless tokens are    *)
(* not validated or the query itself failed.                               *)
RevokedStaysOut ==
    \A c \in Conns : revoked[c] = "yes" /\ ~devAuth =>
        /\ \A z \in Zones : c \notin entities[z] /\ Enter(c) \notin Range(inbox[z])
        /\ \A i \in DOMAIN OnTheWay : OnTheWay[i].entity # c

(* A full inbox, or a zone that died with one, never holds a task for      *)
(* good, and the runtime gets its threads back.                            *)
NoSendBlocksForever ==
    /\ \A c \in Conns : wiring[c] = "sending" ~> wiring[c] = "sent"
    /\ held # NoCommand ~> held = NoCommand
    /\ ~WorkerFree ~> WorkerFree

(* "forward them to the appropriate zone inbox" (run_immediate_router):    *)
(* a movement is in the inbox of the zone its player is in.                *)
MovesReachOwnZone ==
    \A z \in Zones : \A i \in DOMAIN inbox[z] :
        inbox[z][i].kind = "move" => zone[inbox[z][i].entity] = z
=============================================================================

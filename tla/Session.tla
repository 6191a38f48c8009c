------------------------------- MODULE Session -------------------------------
(***************************************************************************)
(* The life of a TCP connection in the game server: the listener, the      *)
(* connection task (gateway::run_connection), the wiring task that         *)
(* run_tcp_listener spawns beside it, the connection registry task, the    *)
(* zone threads as far as admission and removal of players go, and the     *)
(* OS thread that bridges a zone's snapshots to the connection task.       *)
(*                                                                         *)
(* Sessions are named by the entity id the listener hands out, 1, 2, ...   *)
(* Time is abstracted: a timeout may fire whenever the awaited value is    *)
(* not there.  What the client says is left to a nondeterministic choice   *)
(* in the handler that reads it.                                           *)
(***************************************************************************)
EXTENDS Naturals, Sequences, Functions

CONSTANTS
    N,              \* connections accepted: bounds next_entity_id
    Accounts,       \* account uuids that valid tokens carry
    ZoneIds,        \* zone ids a stored character may have
    Zones,          \* the configured zones, those with an inbox
    InboxCapacity,  \* slots of a zone inbox (256 in spawn_zone_threads)
    NoAccount,
    NoZone

ASSUME NAssumption == N \in Nat
ASSUME AccountsAssumption == NoAccount \notin Accounts
ASSUME ZonesAssumption == Zones \subseteq ZoneIds /\ NoZone \notin ZoneIds
ASSUME InboxAssumption == InboxCapacity \in Nat

Sessions == 1 .. N

VARIABLES
    nextEntity,  \* next_entity_id of the listener
    stream,      \* the TCP stream: "open", or "closed" by either side
    conn,        \* where the connection task stands
    account,     \* its account_uuid, once a token was validated
    validated,   \* oneshot validated_tx: "empty", "some" or "none"
    wire,        \* where the wiring task stands
    reply,       \* oneshot reply_rx of its TryRegister
    authResult,  \* oneshot auth_result_tx
    enterReq,    \* mpsc(1) enter_zone_tx: the requested zone, or NoZone
    snapSource,  \* oneshot snap_source_tx
    queue,       \* the registry's unbounded channel
    connected,   \* the registry's set of accounts
    inbox,       \* per zone: PlayerEnter commands not yet applied
    players,     \* per zone: the sessions with an entry in Zone::connections
    panicked,    \* the zones whose thread has ended
    bridge       \* the snapshot bridge: "none", "open", "loaded" or "closed"

connVars == <<stream, conn, account>>
wireVars == <<wire, bridge>>
toWire == <<validated, enterReq>>
toConn == <<authResult, snapSource>>
registryVars == <<queue, connected>>
zoneVars == <<inbox, players, panicked>>

vars == <<nextEntity, connVars, wireVars, toWire, toConn, reply, registryVars, zoneVars>>
------------------------------------------------------------------------------
ConnStates == {"idle", "handshake", "awaitAuth", "charSelect", "awaitSnapshot",
               "connected", "ended"}

WireStates == {"idle", "awaitValidated", "giveUp", "awaitReply", "awaitSelect",
               "release", "delivering", "awaitConn", "done"}

Messages == [type : {"TryRegister", "Unregister"}, account : Accounts, session : Sessions]

TryRegister(i) == [type |-> "TryRegister", account |-> account[i], session |-> i]

\* The code's Unregister has no session: the model keeps it to name the sender.
Unregister(i) == [type |-> "Unregister", account |-> account[i], session |-> i]

TypeOK ==
    /\ nextEntity \in 1 .. N + 1
    /\ stream \in [Sessions -> {"open", "closed"}]
    /\ conn \in [Sessions -> ConnStates]
    /\ account \in [Sessions -> Accounts \cup {NoAccount}]
    /\ validated \in [Sessions -> {"empty", "some", "none"}]
    /\ wire \in [Sessions -> WireStates]
    /\ reply \in [Sessions -> {"empty", "true", "false"}]
    /\ authResult \in [Sessions -> {"empty", "ok", "err", "dropped"}]
    /\ enterReq \in [Sessions -> ZoneIds \cup {NoZone}]
    /\ snapSource \in [Sessions -> {"empty", "ok", "err", "dropped"}]
    /\ queue \in Seq(Messages)
    /\ connected \in SUBSET Accounts
    /\ inbox \in [Zones -> Seq(Sessions)]
    /\ players \in [Zones -> SUBSET Sessions]
    /\ panicked \in SUBSET Zones
    /\ bridge \in [Sessions -> {"none", "open", "loaded", "closed"}]

Init ==
    /\ nextEntity = 1
    /\ stream = [i \in Sessions |-> "open"]
    /\ conn = [i \in Sessions |-> "idle"]
    /\ account = [i \in Sessions |-> NoAccount]
    /\ validated = [i \in Sessions |-> "empty"]
    /\ wire = [i \in Sessions |-> "idle"]
    /\ reply = [i \in Sessions |-> "empty"]
    /\ authResult = [i \in Sessions |-> "empty"]
    /\ enterReq = [i \in Sessions |-> NoZone]
    /\ snapSource = [i \in Sessions |-> "empty"]
    /\ queue = <<>>
    /\ connected = {}
    /\ inbox = [z \in Zones |-> <<>>]
    /\ players = [z \in Zones |-> {}]
    /\ panicked = {}
    /\ bridge = [i \in Sessions |-> "none"]
------------------------------------------------------------------------------
(***************************************************************************)
(* The listener and the client's end of the stream.                        *)
(***************************************************************************)
Accept ==
    /\ nextEntity \in Sessions
    /\ nextEntity' = nextEntity + 1
    /\ conn' = [conn EXCEPT ![nextEntity] = "handshake"]
    /\ wire' = [wire EXCEPT ![nextEntity] = "awaitValidated"]
    /\ UNCHANGED <<stream, account, bridge, toWire, toConn, reply, registryVars, zoneVars>>

ClientClose(i) ==
    /\ conn[i] # "idle"
    /\ stream[i] = "open"
    /\ stream' = [stream EXCEPT ![i] = "closed"]
    /\ UNCHANGED <<nextEntity, conn, account, wireVars, toWire, toConn, reply, registryVars,
                   zoneVars>>
------------------------------------------------------------------------------
(***************************************************************************)
(* The connection task.  It runs on after the wiring task has ended: only  *)
(* a send on, or the drop of, one of their channels tells it.              *)
(***************************************************************************)
\* run_connection goes on to the next state, or returns and drops the stream.
Continue(i, state) ==
    /\ conn' = [conn EXCEPT ![i] = state]
    /\ UNCHANGED stream

Return(i) ==
    /\ conn' = [conn EXCEPT ![i] = "ended"]
    /\ stream' = [stream EXCEPT ![i] = "closed"]

\* A Handshake with a valid token: send the account on validated_tx and wait
\* for the verdict, or return if the wiring task has dropped its receiver.
Handshake(i, a) ==
    /\ conn[i] = "handshake"
    /\ account' = [account EXCEPT ![i] = a]
    /\ \/ /\ wire[i] # "done"
          /\ validated' = [validated EXCEPT ![i] = "some"]
          /\ Continue(i, "awaitAuth")
       \/ /\ wire[i] = "done"
          /\ Return(i)
          /\ UNCHANGED validated
    /\ UNCHANGED <<nextEntity, wireVars, enterReq, toConn, reply, registryVars, zoneVars>>

\* Every other end of the handshake loop: end of stream, a read or decode error,
\* a rejected token, Disconnect, a message out of place.
HandshakeFails(i) ==
    /\ conn[i] = "handshake"
    /\ validated' = [validated EXCEPT ![i] = "none"]
    /\ Return(i)
    /\ UNCHANGED <<nextEntity, account, wireVars, enterReq, toConn, reply, registryVars,
                   zoneVars>>

\* Mutant: the drop of auth_result_tx goes unnoticed.
AuthAnsweredSent(i) == authResult[i] \in {"ok", "err"}

AuthAnswered(i) == authResult[i] # "empty"

AuthResult(i) ==
    /\ conn[i] = "awaitAuth"
    /\ AuthAnswered(i)
    /\ IF authResult[i] = "ok" THEN Continue(i, "charSelect") ELSE Return(i)
    /\ UNCHANGED <<nextEntity, account, wireVars, toWire, toConn, reply, registryVars,
                   zoneVars>>

\* SelectCharacter of a character that get_full finds in zone z.
SelectCharacter(i, z) ==
    /\ conn[i] = "charSelect"
    /\ \/ /\ wire[i] # "done"
          /\ enterReq' = [enterReq EXCEPT ![i] = z]
          /\ Continue(i, "awaitSnapshot")
       \/ /\ wire[i] = "done"
          /\ Return(i)
          /\ UNCHANGED enterReq
    /\ UNCHANGED <<nextEntity, account, wireVars, validated, toConn, reply, registryVars,
                   zoneVars>>

\* The snapshot channel, or a refusal, or the drop of its sender.  Writing
\* HandshakeAccepted fails only on a stream the client has closed.
SnapshotSource(i) ==
    /\ conn[i] = "awaitSnapshot"
    /\ snapSource[i] # "empty"
    /\ \/ /\ snapSource[i] = "ok"
          /\ Continue(i, "connected")
       \/ /\ snapSource[i] # "ok" \/ stream[i] = "closed"
          /\ Return(i)
    /\ UNCHANGED <<nextEntity, account, wireVars, toWire, toConn, reply, registryVars,
                   zoneVars>>

\* The snapshot channel is closed and empty: the bridge thread has gone.
SnapshotsEnd(i) ==
    /\ conn[i] = "connected"
    /\ bridge[i] = "closed"
    /\ Return(i)
    /\ UNCHANGED <<nextEntity, account, wireVars, toWire, toConn, reply, registryVars,
                   zoneVars>>

\* Character selection or play ends: end of stream, an error, Disconnect, or a
\* second Handshake while connected.
Leave(i) ==
    /\ conn[i] \in {"charSelect", "connected"}
    /\ Return(i)
    /\ UNCHANGED <<nextEntity, account, wireVars, toWire, toConn, reply, registryVars,
                   zoneVars>>

ReadEof(i) ==
    /\ stream[i] = "closed"
    /\ HandshakeFails(i) \/ Leave(i)

ConnStep(i) ==
    \/ \E a \in Accounts : Handshake(i, a)
    \/ HandshakeFails(i)
    \/ AuthResult(i)
    \/ \E z \in ZoneIds : SelectCharacter(i, z)
    \/ SnapshotSource(i)
    \/ SnapshotsEnd(i)
    \/ Leave(i)
------------------------------------------------------------------------------
(***************************************************************************)
(* The wiring task.                                                        *)
(***************************************************************************)
\* Phase 1: the account of a valid token arrives and is sent to the registry.
TryToRegister(i) ==
    /\ wire[i] = "awaitValidated"
    /\ validated[i] = "some"
    /\ queue' = Append(queue, TryRegister(i))
    /\ wire' = [wire EXCEPT ![i] = "awaitReply"]
    /\ UNCHANGED <<nextEntity, connVars, bridge, toWire, toConn, reply, connected, zoneVars>>

\* The 10 s timeout fires on an empty channel; a value sent before the receiver
\* is dropped (DropChannels) is lost.
ValidationTimeout(i) ==
    /\ wire[i] = "awaitValidated"
    /\ validated[i] = "empty"
    /\ wire' = [wire EXCEPT ![i] = "giveUp"]
    /\ UNCHANGED <<nextEntity, connVars, bridge, toWire, toConn, reply, registryVars, zoneVars>>

\* Return of the wiring task before it registered: its channel ends go.
DropChannels(i) ==
    /\ \/ wire[i] = "giveUp"
       \/ wire[i] = "awaitValidated" /\ validated[i] = "none"
    /\ wire' = [wire EXCEPT ![i] = "done"]
    /\ authResult' = [authResult EXCEPT ![i] = "dropped"]
    /\ snapSource' = [snapSource EXCEPT ![i] = "dropped"]
    /\ UNCHANGED <<nextEntity, connVars, bridge, toWire, reply, registryVars, zoneVars>>

RegisterReply(i) ==
    /\ wire[i] = "awaitReply"
    /\ \/ /\ reply[i] = "true"
          /\ authResult' = [authResult EXCEPT ![i] = "ok"]
          /\ wire' = [wire EXCEPT ![i] = "awaitSelect"]
          /\ UNCHANGED snapSource
       \/ /\ reply[i] = "false"
          /\ authResult' = [authResult EXCEPT ![i] = "err"]
          /\ snapSource' = [snapSource EXCEPT ![i] = "dropped"]
          /\ wire' = [wire EXCEPT ![i] = "done"]
    /\ UNCHANGED <<nextEntity, connVars, bridge, toWire, reply, registryVars, zoneVars>>

\* Phase 2 without a request: the 60 s timeout, or the connection task is gone.
\* A request sent before the receiver is dropped (Release) is lost.
SelectionTimeout(i) ==
    /\ wire[i] = "awaitSelect"
    /\ enterReq[i] = NoZone
    /\ wire' = [wire EXCEPT ![i] = "release"]
    /\ snapSource' = [snapSource EXCEPT ![i] = "dropped"]
    /\ UNCHANGED <<nextEntity, connVars, bridge, toWire, authResult, reply, registryVars,
                   zoneVars>>

\* Mutant: unregister without awaiting conn_handle.
MayReleaseEarly(i) == wire[i] \in {"release", "awaitConn"}

\* Mutant: no Unregister when character selection ends without a request.
MayReleaseWired(i) == wire[i] = "awaitConn" /\ conn[i] = "ended"

MayRelease(i) ==
    \/ wire[i] = "release"
    \/ wire[i] = "awaitConn" /\ conn[i] = "ended"

\* Unregister and return, after a selection that came to nothing or at the end
\* of the connection task.
Release(i) ==
    /\ MayRelease(i)
    /\ queue' = Append(queue, Unregister(i))
    /\ wire' = [wire EXCEPT ![i] = "done"]
    /\ UNCHANGED <<nextEntity, connVars, bridge, toWire, toConn, reply, connected, zoneVars>>

\* Phase 3 for a zone that has no inbox: refuse, unregister, return.
UnknownZone(i) ==
    /\ wire[i] = "awaitSelect"
    /\ enterReq[i] \in ZoneIds \ Zones
    /\ snapSource' = [snapSource EXCEPT ![i] = "err"]
    /\ queue' = Append(queue, Unregister(i))
    /\ wire' = [wire EXCEPT ![i] = "done"]
    /\ UNCHANGED <<nextEntity, connVars, bridge, toWire, authResult, reply, connected, zoneVars>>

\* Phase 3: make the bridge and send PlayerEnter, blocking on a full inbox.  The
\* send to a zone that has panicked, also one that blocked until then, fails and
\* drops the command with its end of the bridge: nobody looks at the error.
Place(i) ==
    LET z == enterReq[i] IN
    /\ wire[i] = "awaitSelect"
    /\ z \in Zones
    /\ \/ /\ z \notin panicked
          /\ Len(inbox[z]) < InboxCapacity
          /\ inbox' = [inbox EXCEPT ![z] = Append(@, i)]
       \/ /\ z \in panicked
          /\ UNCHANGED inbox
    /\ bridge' = [bridge EXCEPT ![i] = "open"]
    /\ wire' = [wire EXCEPT ![i] = "delivering"]
    /\ UNCHANGED <<nextEntity, connVars, toWire, toConn, reply, registryVars, players, panicked>>

Deliver(i) ==
    /\ wire[i] = "delivering"
    /\ snapSource' = [snapSource EXCEPT ![i] = "ok"]
    /\ wire' = [wire EXCEPT ![i] = "awaitConn"]
    /\ UNCHANGED <<nextEntity, connVars, bridge, toWire, authResult, reply, registryVars,
                   zoneVars>>

WireStep(i) ==
    \/ TryToRegister(i)
    \/ DropChannels(i)
    \/ RegisterReply(i)
    \/ Release(i)
    \/ UnknownZone(i)
    \/ Place(i)
    \/ Deliver(i)
------------------------------------------------------------------------------
(***************************************************************************)
(* The registry task: one message of its FIFO channel at a time.           *)
(***************************************************************************)
\* Mutant: the result of the insert is ignored.
InsertedAlways(a) == TRUE

Inserted(a) == a \notin connected

RegistryStep ==
    /\ queue # <<>>
    /\ queue' = Tail(queue)
    /\ LET m == Head(queue) IN
       \/ /\ m.type = "TryRegister"
          /\ connected' = connected \cup {m.account}
          /\ reply' = [reply EXCEPT ![m.session] =
                          IF Inserted(m.account) THEN "true" ELSE "false"]
       \/ /\ m.type = "Unregister"
          /\ connected' = connected \ {m.account}
          /\ UNCHANGED reply
    /\ UNCHANGED <<nextEntity, connVars, wireVars, toWire, toConn, zoneVars>>
------------------------------------------------------------------------------
(***************************************************************************)
(* Zone threads and bridges.                                               *)
(***************************************************************************)
\* The zone loop takes one command off its inbox: admit_player.
Admit(z) ==
    /\ inbox[z] # <<>>
    /\ players' = [players EXCEPT ![z] = @ \cup {Head(inbox[z])}]
    /\ inbox' = [inbox EXCEPT ![z] = Tail(@)]
    /\ UNCHANGED <<nextEntity, connVars, wireVars, toWire, toConn, reply, registryVars, panicked>>

\* Mutant: a full channel is treated like a disconnected one.
GoneOrFull(z) == {i \in players[z] : bridge[i] \in {"loaded", "closed"}}

\* Mutant: a disconnected channel is treated like a full one.
GoneNever(z) == {}

Gone(z) == {i \in players[z] : bridge[i] = "closed"}

\* dispatch_snapshots: a player whose bridge is gone is removed, every other
\* one has a snapshot put on its bridge.
Dispatch(z) ==
    /\ players' = [players EXCEPT ![z] = @ \ Gone(z)]
    /\ bridge' = [i \in Sessions |-> IF i \in players[z] \ Gone(z) THEN "loaded" ELSE bridge[i]]
    /\ UNCHANGED <<nextEntity, connVars, wire, toWire, toConn, reply, registryVars, inbox,
                   panicked>>

\* The zone thread panics: its players, its inbox and the ends of the bridges in
\* both are dropped.  The other tasks and threads run on.
ZonePanics(z) ==
    /\ z \notin panicked
    /\ panicked' = panicked \cup {z}
    /\ inbox' = [inbox EXCEPT ![z] = <<>>]
    /\ players' = [players EXCEPT ![z] = {}]
    /\ UNCHANGED <<nextEntity, connVars, wireVars, toWire, toConn, reply, registryVars>>

\* The bridge thread forwards to the connection task; when that has ended, the
\* send fails, the thread ends and the zone's sender finds it disconnected.
Forward(i) ==
    /\ bridge[i] = "loaded"
    /\ bridge' = [bridge EXCEPT ![i] = IF conn[i] = "ended" THEN "closed" ELSE "open"]
    /\ UNCHANGED <<nextEntity, connVars, wire, toWire, toConn, reply, registryVars, zoneVars>>

\* With its zone gone the bridge thread ends when it has forwarded what it has.
Close(i) ==
    /\ bridge[i] = "open"
    /\ enterReq[i] \in panicked
    /\ bridge' = [bridge EXCEPT ![i] = "closed"]
    /\ UNCHANGED <<nextEntity, connVars, wire, toWire, toConn, reply, registryVars, zoneVars>>

BridgeStep(i) == Forward(i) \/ Close(i)
------------------------------------------------------------------------------
Next ==
    \/ Accept
    \/ \E i \in Sessions :
          \/ ClientClose(i)
          \/ ConnStep(i)
          \/ WireStep(i)
          \/ ValidationTimeout(i)
          \/ SelectionTimeout(i)
          \/ BridgeStep(i)
    \/ RegistryStep
    \/ \E z \in Zones : Admit(z) \/ Dispatch(z) \/ ZonePanics(z)

Spec == Init /\ [][Next]_vars

\* Tasks, threads and timers run; the listener and the clients owe nothing, and
\* no zone has to panic.
Fairness ==
    /\ \A i \in Sessions :
          /\ WF_vars(ReadEof(i))
          /\ WF_vars(AuthResult(i))
          /\ WF_vars(SnapshotSource(i))
          /\ WF_vars(SnapshotsEnd(i))
          /\ WF_vars(WireStep(i))
          /\ WF_vars(ValidationTimeout(i))
          /\ WF_vars(SelectionTimeout(i))
          /\ WF_vars(BridgeStep(i))
    /\ WF_vars(RegistryStep)
    /\ \A z \in Zones : WF_vars(Admit(z)) /\ WF_vars(Dispatch(z))

FairSpec == Spec /\ Fairness
------------------------------------------------------------------------------
(***************************************************************************)
(* Properties.                                                             *)
(***************************************************************************)
\* The sessions that own a registration: from the registry's insert to its
\* removal, including an Unregister still in the channel.
Holders == {i \in Sessions :
    \/ wire[i] \in {"awaitSelect", "release", "delivering", "awaitConn"}
    \/ wire[i] = "awaitReply" /\ reply[i] = "true"
    \/ Unregister(i) \in Range(queue)}

\* The sessions sent to a zone with a client task behind them.
InWorld == {i \in Sessions : bridge[i] # "none" /\ conn[i] # "ended"}

\* The sessions with an entity in zone z, or on the way into it.
Present(z) == players[z] \cup Range(inbox[z])

\* Every registration has exactly one owner, and every owner is registered: no
\* early return of the wiring task loses or duplicates an Unregister.
RegistrationExact ==
    /\ connected = {account[i] : i \in Holders}
    /\ \A i, j \in Holders : account[i] = account[j] => i = j

\* The duplicate-login check does its work in the world: two sessions that play
\* at the same time are of different accounts.
OnePlayingSession ==
    \A i, j \in InWorld : account[i] = account[j] => i = j

\* HandshakeAccepted follows PlayerEnter, and a zone never drops a player whose
\* connection task still runs: a connected client has its entity in the zone of
\* its character, or on the way into it, as long as that zone has not panicked.
\* (When it has, HandshakeAccepted goes out all the same, for no entity, and the
\* connection ends a little later: LostSessionFreesAccount.)
ConnectedIsPlaced ==
    \A i \in Sessions : conn[i] = "connected" =>
        /\ enterReq[i] \in Zones
        /\ i \in Present(enterReq[i]) \/ enterReq[i] \in panicked

\* What a step needs to know of the state for the three invariants above to be
\* inductive: the registry's channel holds at most one message of a session, of
\* the kind its wiring task has just sent ...
QueueInv ==
    /\ IsInjective(queue)
    /\ \A m \in Range(queue) :
          /\ m.account = account[m.session]
          /\ validated[m.session] = "some"
          /\ m.type = "TryRegister" => /\ wire[m.session] = "awaitReply"
                                       /\ reply[m.session] = "empty"
          /\ m.type = "Unregister" => wire[m.session] = "done"

\* ... the phases of the connection task and its wiring task fit together ...
Phase(i) ==
    /\ i >= nextEntity => conn[i] = "idle" /\ wire[i] = "idle"
    /\ conn[i] \in {"idle", "handshake"} => validated[i] = "empty"
    /\ validated[i] = "some" => account[i] \in Accounts
    /\ wire[i] \in {"idle", "awaitValidated", "giveUp"} => reply[i] = "empty"
    /\ wire[i] \in {"awaitReply", "awaitSelect", "release", "delivering", "awaitConn"} =>
          validated[i] = "some"
    /\ enterReq[i] # NoZone => conn[i] \in {"awaitSnapshot", "connected", "ended"}

PhaseInv == \A i \in Sessions : Phase(i)

\* ... and a placed session keeps its place while its connection task runs.
PlaceInv ==
    /\ \A z \in Zones : \A i \in Present(z) : bridge[i] # "none" /\ z \notin panicked
    /\ \A i \in Sessions :
          /\ conn[i] = "connected" => snapSource[i] = "ok"
          /\ snapSource[i] = "ok" \/ wire[i] = "delivering" => bridge[i] # "none"
    /\ \A i \in InWorld :
          /\ wire[i] \in {"delivering", "awaitConn"}
          /\ enterReq[i] \in Zones
          /\ enterReq[i] \notin panicked =>
                bridge[i] # "closed" /\ i \in Present(enterReq[i])

IInv == TypeOK /\ QueueInv /\ PhaseInv /\ PlaceInv /\ RegistrationExact

\* The registry never frees an account while a session of it is in the world,
\* whatever Unregister of an earlier session is still in its channel.
NoReleaseWhilePlaying ==
    [][\A a \in connected \ connected' : \A i \in InWorld : account[i] # a]_vars

\* The connection task's two waits without a timeout (auth_result_rx and
\* snapshot_rx_source) always end.
EveryWaitEnds ==
    \A i \in Sessions :
        conn[i] \in {"awaitAuth", "awaitSnapshot"} ~>
            conn[i] \in {"charSelect", "connected", "ended"}

\* A session that has lost one of its ends: the client has closed the connection,
\* or the zone of a connected one has panicked, before or after it was sent there.
LostAnEnd(i) ==
    \/ stream[i] = "closed"
    \/ conn[i] = "connected" /\ enterReq[i] \in panicked

\* A session that has lost its client, wherever in the handshake, selection or
\* play it was, or its zone does not keep its account locked.
LostSessionFreesAccount ==
    \A i \in Sessions : LostAnEnd(i) ~> conn[i] = "ended" /\ i \notin Holders

\* The entity of a connection that has ended leaves its zone, although nothing
\* sends PlayerLeave: two failed sends later the zone notices.
GhostLeavesZone ==
    \A i \in Sessions :
        conn[i] = "ended" ~> \A z \in Zones : i \notin Present(z)

\* The registry, the wiring tasks and their channels implement a lock per
\* account.
Held == {<<account[i], i>> : i \in Holders}

Lock == INSTANCE AccountLock WITH held <- Held, world <- InWorld

ImplementsAccountLock == Lock!Spec

\* "Connection registry - tracks which accounts are currently connected"
\* (game-server/src/lib.rs:22): past the handshake an account has one session.
OneSessionPerAccount ==
    LET PastHandshake == {i \in Sessions :
                             conn[i] \in {"charSelect", "awaitSnapshot", "connected"}}
    IN \A i, j \in PastHandshake : account[i] = account[j] => i = j
==============================================================================

# A verification project for stelline

stelline is the server side of a small MMO in Rust: a game server whose zones run
on OS threads of their own, a gateway that serves each TCP connection in an async
task, a login server, an admin dashboard and a terminal client. This directory
holds TLA+ modules of its core, the TLC configurations that model-check them on
small instances, and theorems about them that TLAPS proves for all instances.
`PROJECT.json` maps every definition to the lines it models.

Paths below are relative to the repository; `game-server`, `gateway`, `world`,
... are the crates under `crates/`.

## 1. The system

### Components, their state and operations

| Component | Where | State | Operations |
|---|---|---|---|
| Listener | `game-server/src/lib.rs:232` | `next_entity_id` | accept: make four channels, spawn a connection task and a wiring task |
| Connection registry | `game-server/src/lib.rs:37` | set of connected accounts, unbounded FIFO channel | `TryRegister`, `Unregister` |
| Wiring task, one per connection | `game-server/src/lib.rs:286` | its place in three phases, the account | validate within 10 s, register, await a character within 60 s, place, await the end, unregister |
| Connection task, one per connection | `gateway/src/lib.rs:342` | phase, `seq`, account, stream | handshake, character selection, connected `select!` loop |
| TCP framing | `gateway/src/lib.rs:212,245` | bytes taken by a pending read | read and write of length-prefixed frames |
| Snapshot bridge, one per player | `game-server/src/lib.rs:70` | a std channel, an OS thread, a tokio channel, 32 slots each | try_send, forward, notice that an end has gone |
| Zone, one thread each | `world/src/lib.rs:321,1076` | ECS world, `entity_map`, `connections`, spatial index, tick, respawns, mob id counter | drain the inbox; movement, AI, respawn timers, snapshots, telemetry |
| Spatial index | `world/src/lib.rs:189` | cells, `entity_cells` | insert, remove, update, query_radius |
| Immediate router | `game-server/src/lib.rs:361` | unbounded channel | MoveInput to a zone's inbox (256 slots) |
| Coordinator | `game-server/src/lib.rs:107` | latest telemetry per zone, start time | events of all zones (1024 slots), watch channel to the dashboard, zone transfer |
| Admin dashboard | `admin/src/lib.rs` | watch receivers | push state, list accounts |
| Character stores | `gateway/src/character_store.rs` | characters per account, in memory or in Postgres | list, create (at most 10, unique names), delete, get |
| Login server | `login-server/src/main.rs` | accounts, the same character tables | register, login, list, create, delete, get |
| Protocol | `protocol/src/lib.rs` | none | header codec, message types, encoding and decoding |
| Token validation | `gateway/src/lib.rs:791` | blocklist in Redis | decode, EXISTS |
| World configuration | `game-data/src/lib.rs` | none | defaults, validation |
| Terminal client | `tui-client/src/` | `ClientApp`, network session, script | events from the server, commands, reconnect, scripted runs |

### How they interact

```
client --TCP frames--> connection task --validated, enter_zone--> wiring task --TryRegister/Unregister--> registry
   ^                     |   ^  ^-----auth_result, snap_source-------+  |
   |                     |   |                                         PlayerEnter (blocking send)
   |                     |   +--tokio ch.-- bridge thread --std ch.--+  v
   +--UDP snapshots------+                                           zone thread --events--> coordinator --> admin
                         +--MoveInput--> immediate router ------------^
```

The connection task and the wiring task of a session know each other only through
channels: three oneshots, one channel of one slot, and the `JoinHandle` the wiring
task awaits at the end. Neither is cancelled when the other returns.

### Hard behaviours

- Timeouts race late answers: 10 s for a token, 60 s for a character. The wiring
  task has them, the connection task has none.
- `Unregister` names an account, not a session, and travels through a FIFO channel
  while a new session of the account may already register.
- A dead connection is noticed by its zone only through failing snapshots.
- A zone whose thread has panicked is noticed by nobody: sends to it fail and are
  ignored, and its players learn of it only through the end of their snapshots.
- A statement of the database commits in one moment and is answered in another, or
  never.
- `read_tcp_message` is cancelled inside `select!`.
- Bounded channels: zone inbox (blocks), bridge (drops the newest, then blocks),
  zone events (drops). UDP loses, repeats and reorders.
- Characters are checked and inserted in two statements, by two servers, and are
  changed by the login server and by other sessions while a client shows a list.
- The client's application, its network task and the server act on what they have
  seen so far, with four queues between them.
- Tasks, threads and channels end by the drop of the last sender or receiver.

`PROJECT.json` lists every hazard at its line, with the properties that cover it or
why none does.

### What makes each component correct

- *Lifecycle*: one session per account in the world; registrations neither lost nor
  duplicated; a connected client has an entity as long as its zone lives; every wait
  ends; closed clients, and those of a zone that has panicked, free their account;
  ghosts leave.
- *Framing*: messages are handed on whole, once, in order.
- *Bridge*: order, no leak of threads, both ends learn of each other's end.
- *Zone*: index, map, ECS and connections agree; ids are unique; snapshots hold
  exactly what is within the radius; killed creatures come back; those that walk
  arrive, at a speed that cannot step over the target.
- *Commands*: a player's movements apply in order; revoked tokens stay out; no send
  blocks for ever.
- *Stores*: at most ten characters, unique names, owners only; what a client was
  told of its characters is true and stays so.
- *Server*: every zone of a valid configuration runs and is reachable; the dashboard
  does not go back and catches up; everything ends.
- *Codec*: what one side encodes, the other decodes, and only the other.
- *Client*: screens follow the session; what is deleted was confirmed, unless the
  list changed without a word.

## 2. The modules

| Module | Models | Instance for TLC |
|---|---|---|
| `Session` | listener, connection task, wiring task, registry, admission, pruning | `MCSession` with two configurations |
| `AccountLock` | abstract: a lock per account | refined by `Session` |
| `TcpFraming` | framing, alone and in `select!` | `MCTcpFraming` with two configurations |
| `Codec` | message types, header, encoding, decoding, frames | its frames are those of `MCTcpFraming` |
| `SnapshotBridge` | zone's try_send, bridge thread, connection task, UDP | `SnapshotBridge.cfg` |
| `Bridge` | abstract: a bridge as `Session` uses it | refined by `SnapshotBridge` |
| `SpatialIndex` | insert, remove, update, query_radius as operators | with `Zone` |
| `Zone` (extends `SpatialIndex`) | commands, tick stages, creatures, respawns, AI, snapshots | `MCZone` with two configurations |
| `EntityTable` | abstract: entities with a place and an id of their own | refined by `Zone` |
| `CommandPath` | token validation, routing, immediate router, zone inboxes, runtime threads | `CommandPath.cfg`, `CommandPathZone.cfg` |
| `CharacterStore` | both stores, the login server, character selection's requests, restarts | `MCStore` |
| `CharacterTable` | abstract: a table of characters with owners, names and a limit | refined by `CharacterStore`, twice |
| `Client` | application, terminal loop, script, network task, and the server as they see it | `Client.cfg` |
| `Server` | configuration, start, zones' events, coordinator, watch channel, dashboard page, end | `MCServer` |
| `SessionProofs` (with `AccountLock`), `WireProofs` (`TcpFraming` and `Codec`), `SnapshotBridgeProofs`, `ZoneProofs` (with `SpatialIndex`), `CommandPathProofs`, `CharacterStoreProofs`, `ServerProofs`, `ClientProofs` | theorems | TLAPS |

Definitions commented `Mutant: ...` are plausible bugs. Each is put in the place of
the definition after it to show that a property notices; nothing else uses them.

### Session

A session is named by the entity id the listener gives it. Per session the state is
the place of its two tasks (`conn`, `wire`), its channels with what is in them
(`validated`, `reply`, `authResult`, `enterReq`, `snapSource`), its account and its
TCP stream; per zone the inbox, the players and whether it has panicked; and the
registry with its queue.

- Each stretch of a task between two awaits is one action: `Handshake`,
  `AuthResult`, `SelectCharacter`, `SnapshotSource`, `SnapshotsEnd`, `Leave` for the
  connection task,
  `TryToRegister`, `RegisterReply`, `Place`, `UnknownZone`, `Deliver`, `Release` for
  the wiring task, `RegistryStep`, `Admit`, `Dispatch` and `Forward` for the others.
- A timeout that fires and the drop of the receiver it was awaiting are two steps
  (`ValidationTimeout` then `DropChannels`, `SelectionTimeout` then `Release`): a
  value sent between the two is lost, as it is in the code.
- What the client sends is a choice of the handler that reads it. List, create,
  delete, ping and a character that is not found leave this state as it is, so they
  are stutters. Every way to end the handshake is `HandshakeFails`; every way to end
  selection or play is `Leave`.
- `Place` waits while the inbox is full, as the blocking `send` does. When the
  zone's thread has ended, the send fails, `PlayerEnter` is lost, and the wiring task
  goes on as if nothing had happened: `HandshakeAccepted` goes out for a player with
  no entity. Its bridge ends, for the zone's end of it was in the lost command
  (`Close`), and the connection task sees that in `SnapshotsEnd`.
- `ZonePanics` is the end of a zone's thread: what is in the inbox and the players
  are gone, and with them the zone's ends of their bridges. Why a zone panics is in
  `Zone`.
- The model's `Unregister` also carries the session that sent it, to say who owned
  the registration. `RegistryStep` looks at the account alone, as the code does.
- A zone's drain loop and its dispatch are separate steps, so a command may slip in
  between them, as it may between the last `try_recv` and the dispatch.
- The bridge is one of `none`, `open`, `loaded`, `closed`; that the two channels and
  the thread behave like this is what `SnapshotBridge` shows.

### TcpFraming

What a read holds is always a run of consecutive bytes of the stream, so the bytes
themselves are left out. The state is the place in the stream (`frame`, `offset`),
the pending `read_exact` (`part`, `need`, `from`, `have`) and the messages handed on.
`Read` takes one byte, which covers every segmentation. A length or a frame read from
the wrong place may be anything (`Lengths`, `Garbage`). `Close` may cut a write short.
`phase` is `alone` while the read is awaited by itself and `select` in the loop of
the connected phase, where `Cancel` is the snapshot branch winning: it is possible
only while the read is pending, and it loses what the read has taken. `torn` is a
history variable that records that this was not nothing. The terminal client reads
its frames with the same function in the same way (`tui-client/src/network.rs:117`
and `:235`), so the model, with the roles exchanged, is of that direction too.

### SnapshotBridge

A snapshot is its tick. `Dispatch` is the zone's tick, with `try_send` dropping the
snapshot for which there is no room and pruning the player whose channel is
disconnected. The bridge thread's `recv` and `blocking_send` are separate steps with
one snapshot in `hand`. `ZoneEnds` stands for the return or a panic of the zone
thread. The queue of the UDP dispatch task is left out: it delays, and keeps order,
before a network that does not. A datagram stays on the network when it arrives, so
it may arrive again, and `Lose` takes it off. `last` is a history variable.

### SpatialIndex and Zone

An index is a record of the code's two maps. The vectors of the cells are one bag of
pairs of cell and entity, for their order is used by nobody, and a duplicate, which a
vector can hold, would show. `IndexOf` is the reference: the index that positions
ought to have. `query_radius` returns every entity of the cells it visits; the comment
above it promises a distance check, the one inside it says, as the code does, that
`build_snapshot` makes the precise cut, and so does `Snapshot`.

`Zone` has the four structures that describe an entity, the respawns and the counter
of ids. The code's loops are kept: a stage collects what it has to visit in `todo`
(`StartTick`, `StartAi`, `StartTimers`, `Dispatch`) and visits it one by one in any
order (`Move`, `Ai`, `Respawn`, `Prune`), for hecs and the hash maps promise none.
Commands and `kill_creature` come between two ticks (`stage = "drain"`). What is
abstracted:

- Players enter at the positions their characters are stored with (`Entries`),
  which the wiring task passes on.
- Positions are grid points and a velocity is the distance of one tick. A
  `MoveInput` points along an axis, and wanderers keep to the row of their spawn
  point; lengths of diagonals are left to floating point. `Area` is a wall that the
  world of the code does not have: a step out of it is not made.
- A respawn carries the id of the creature that died, which the code's does not, to
  tell entries apart. Its timer counts ticks.
- An idle creature's timer is an integer; `NewTarget` and `NewPause` are the
  sentinels -1.0 and -2.0, and durations come from `Pauses`. `Forever` stands for
  `f32::MAX`, which the subtraction of a tick leaves as it is. Far below the
  sentinels the model's timer stops, which the code's does not.
- `AiPanics` is the panic of `gen_range` on an empty range, which ends the thread.
- `MaxSpawned` bounds the kills, `Handles` the entities alive. A player enters once,
  for the listener never repeats an id (`entered`).
- `ChannelChanges` is the far end of a snapshot channel: it makes room, or hangs up.
- Health, labels and kinds and the tick counter are left out: they do not act on the
  rest. What goes to the coordinator is in `Server`.

### CommandPath

The session's own races are in `Session`; here a connection is what it takes to get
commands into a zone. `Handshake`, `RedisAnswers` and `CheckBlocklist` (or
`CheckFails`, the `unwrap_or(false)`) are the awaits of `validate_token`, and
`Revoke` puts a token's id on the blocklist at any time. `TakeEnterRequest` and
`Place` are the wiring task before and in its blocking send, `RouterTakes` and
`RouterSends` the router; a command that is being sent is `held`. `Threads` are the
worker threads of the runtime: a task in a blocking send keeps one (`Blocking`), and
no task takes a step while all are kept (`WorkerFree`). `Drain` empties an inbox, as
the loop of a tick does; `Prune` removes a player who has hung up; `ZoneEnds` is a
panic, after which sends to the zone return with an error. Movements are numbered
and carry nothing else.

### CharacterStore

Workers are connection tasks of the game server (`Gateways`) and requests at the
login server (`Requests`). In memory a creation or a deletion is the one critical
section of the mutex (`CreateInMemory`, `DeleteInMemory`). In the database each has
three moments, with steps of the others between them:

- it is sent (`CountRows`, which is the COUNT with the INSERT behind it, and
  `SendDelete`), and stands in `job`;
- it commits (`InsertRow`, `DeleteRow`) or changes nothing (`StatementFails`: the
  name is taken, no row is found, or the statement is lost), and what the worker now
  has to tell is its `outcome`;
- the client hears of it (`Reply`) or does not (`ReplyLost`: a write that fails, a
  handler that is dropped, a connection to the database that breaks after the commit).

`GiveUp` is a worker that stops waiting for a statement which may still commit:
its query has failed, or its handler was dropped, or its server restarts. The
statement then stands in one of the places `Adrift`, with nobody to tell. So a
deletion may be done that its owner was told nothing of, or an error.

`Restart` ends the game server: `memory`, all connections, what they waited for and
had to tell go, `rows` stay, and the new process may run with the other store or
without validation. `word` is a history variable: the last word between owner and
servers on a row. `Fails` is a request that ends before it changes a table. A login
changes nothing that a server keeps, so it is no step: who has registered may hold a
token (`HasToken`). Race, class, level and position are left out.

### Client

The application's state is that of `ClientApp` that a key or an event reads: the
screen, the list with its cursor, `delete_confirm`, whether the name field holds
something, whether the player moves. Each key command is an action, guarded by the
screens on which `map_key` produces it. A driver is the terminal loop (`Terminal`)
or a script (`Script`), which first waits for its character, then executes lines
(`Line`), then ends; `run_script` creates or selects by itself (`Reaction`). The
network task is between `start` and `quit` or `lost`; `events`, `actions`,
`toServer` and `toClient` are the four queues. The server answers in order
(`ServeHandshake` to `ServeInPlay`) and may refuse, fail or close at any point, and a
request that fails may have been carried out. `owned` is what the stores hold for the
account, and not this client's alone: `OthersChange` is a creation or a deletion
through the login server or another session, or by a statement that was given up, at
any time. `told` is what this connection's replies make of it, list after list and
change after change; `stale` says that `owned` was changed without a word since the
last list was sent, and `untold` counts such changes. Behaviours that the properties
name:

- A creation whose reply comes while "Delete X? Press D again" stands moves the
  question to the new character, for the reply moves the cursor
  (`DeletedWasAsked`, `asked`).
- A list that differs from the one on the screen may put another character under a
  question that stands, which then is about none (`asked = Nobody`); the next d
  deletes that one. It takes a change without a word and a logout, after which the
  old list is on the screen until the new one comes: section 4.
- The network task ends without an event when a write in play or the UDP socket
  fails (`net = "quit"`): the screen then stays. `ScreenCatchesUp` speaks of the
  ends that are told.

### Server

A configuration is what `validate_world_config` looks at. `Validate`, `SpawnZone`,
`Run`, `MainReturns` and `ProcessEnds` are `main`; `Tick` offers a zone's telemetry,
and every few ticks its entities, to the shared channel, where a full channel drops
them (`Offer`, `dropped`). `TakeTelemetry`, `TakeEntities` and `CoordinatorEnds` are
the coordinator's loop, `published` the value of the watch channel, `page` and
`shown` a page of the dashboard. Who lives depends on who holds senders:
`mainSends`, the threads and the inboxes. A zone that panics keeps its last counts on
the dashboard. The comment of `run_zone_loop` has the coordinator drop its inbox
senders to end the zones; in the code the coordinator never ends first
(`WorldIsWhole`). Its handling of `ZoneTransfer` is left out: no zone sends one.

### Codec

Header fields keep their widths and their little-endian bytes. A MessagePack library
call is `Pack`, of which the module assumes that bodies of one struct are encoded
differently and fit the header. Decoding returns a set, empty for an error: no
decoder looks at `version`, `sequence` or `payload_len`, and a message without
payload ignores the payload it came with.

## 3. What is checked

| Run | Instance | Shows |
|---|---|---|
| `session` | 2 connections, 2 accounts, a zone that may panic and an unknown zone, inbox of 1 | the inductive invariant, `RegistrationExact`, `OnePlayingSession`, `ConnectedIsPlaced`, refinement of `AccountLock`, `EveryWaitEnds`, `LostSessionFreesAccount`, `GhostLeavesZone` |
| `session_one` | 2 connections, 1 account | violation of `OneSessionPerAccount` |
| `framing` | 3 frames of the codec, of 12, 11 and 13 bytes, prefix 4, header 11 | the inductive invariant, `InOrderUnlessTorn`, `WrittenIsReceived`, `GoneClientEnds` |
| `framing_select` | the same | violation of `ReceivedInOrder` |
| `bridge` | 7 ticks, 2 slots per channel | the inductive invariant, `SentInOrder`, `ZoneGoneEndsConnection`, `NoThreadLeaks`, refinement of `Bridge` |
| `zone` | 2 players, 1 creature of radius 0 that wanders, a second after a respawn, 5 places, cells of 2 | the inductive invariant, `SnapshotExact`, refinement of `EntityTable` |
| `zone_live` | 1 player, 2 wanderers of radius 3 and steps of 3 and 4, arrival within 2, 3 creatures in all, 19 places | `WanderersStayNear`, `CreaturesKept`, `DeadReturn`, `WanderersArrive`, `HungUpLeave` |
| `store` | 1 gateway, 1 HTTP handler and 1 statement adrift, 2 of them at a time, 2 accounts (symmetric) and a dev account, limit 1, 2 characters | invariant, `AccountsApart`, `AcknowledgedHolds`, refinement of `CharacterTable` by both stores |
| `commands` | 2 clients of 2 moves, 2 zones, inbox of 1, 2 threads | invariant, `RevokedStaysOut`, `PlayersMovesApply`, `NoSendBlocksForever` |
| `commands_zone` | 2 clients, 2 zones and an unknown one | violation of `MovesReachOwnZone` |
| `client` | terminal of 4 keys, script of 2 lines, 2 characters, 1 change without a word | invariant, `DeletedWasAsked`, `ScriptGetsIn`, `ScreenCatchesUp` |
| `server` | configurations of up to 2 creatures and 2 zones, channel of 3, 2 ticks | invariant, `FeedNeverGoesBack`, `FeedCatchesUp` |

**Why the bounds are enough.** `session`: two sessions of one account, or of two, meet
in every phase; a third in the same account, which makes a stale `Unregister`, one
that plays and one that tries to get in, is in the theorems, which hold for any
number; an inbox of one slot is full as soon as one `PlayerEnter` waits, and the zone
panics before, while and after it does. `framing`:
a frame that is all header, and others before and after it, torn in the prefix, the
header or the body. `bridge`: both channels of two slots and the thread's hand
hold five snapshots, so seven ticks fill them and drop. `zone`: entities share a cell,
cross into others on both sides of 0 and leave the radius of 1; both players may hang
up in one tick, and the creature dies before or after they move. It does not walk, so
that its timer reaches the sentinel and the zone panics. The places of the
zone runs are one row; that both coordinates are treated alike is in the theorems.
`zone_live`: both creatures may be due to respawn in one tick, a respawned one dies
again, and the wall is too far away for a wanderer to reach. With arrival within 2,
a step of 3 is the longest that cannot pass over the target, and one of 4 can: the
first has to arrive, and everything else is asked of both. Their timer of 2 steps over
the sentinel, so no zone panics in this run; the excuse `stage = "panicked"` in its
properties is for the case that `zone` reaches. `store`: two workers race for one
place and one name, a statement that was given up commits among the next ones, and
that is all that more could do but exceed the limit by more; a second character lets
an id come after a deletion. `commands`: the wiring task
of one client and the router wait for the same slot and hold both threads, with the
zone alive or dead. `client`: four keys open, confirm and overtake a deletion, and log
out and delete on the old list; a script's second line finds what its first has left;
two characters are the one asked about and another, and one change without a word,
at any time, is enough to part the list from the account. `server`:
three slots are filled by one tick of two zones, and a tick is lost in each.

**Deadlock** is checked in `store`, whose servers go on for ever. Elsewhere the
connections accepted, the frames written, the ticks, keys or characters used up stop
the model, which is the bound and not the code, or a zone has panicked or a process
ended, and then it really stops. That nothing waits for ever is what the liveness
properties say.

**Fairness.** Weak fairness for every step a task, a thread or a timer of the
program takes by itself: tokio polls a task whose future can go on, the OS schedules
threads, a timer fires (a timeout's step is enabled only while nothing has come).
For the connection task this is reading the end of a closed stream and the answers of
the wiring task, and the end of its snapshots, never what a client may or may not
send. The listener, the clients and the network owe nothing, and no zone has to panic. Weak fairness is enough since a step that is enabled
stays so until it, or another step of the same task, is taken. `Place` is the
exception in principle, for another session may take the slot of the inbox it waits
for; with a bounded number of connections the slots are not taken for ever. A zone's
thread ticks on (`WF_vars(Tick)`): it drains its inbox faster than 256 slots fill, so
a tick comes after every drain. Commands owe nothing.

In `CommandPath` a task of the runtime is owed a step only while a worker thread is
free, a blocking send its return while there is room or the zone is dead, and a zone
its drains. In `Client` three parties are owed a step while they have one: the loop of
the driver (the frame timer and `select!` poll it), the network task, and the server
with what it has received; which step they take is not owed, and the keys, the
network, and whoever else changes the account owe nothing. A script whose request
fails or is left unanswered may wait for ever (`failed` in `ScriptGetsIn`), and an
end that the network task does not tell never reaches the screen (`net = "quit"` in
`ScreenCatchesUp`). In `Server` the coordinator polls and a page is woken; zones need
not tick. `CharacterStore` states no fairness.

## 4. What the checks found

1. **Two sessions of one account** (`session_one`). After the selection timeout the
   account is released, but the connection task stays in character selection and no
   timeout ever ends it. A second session of the account logs in, and both list,
   create and delete the account's characters. Only the world stays exclusive: the
   first cannot enter it any more (`OnePlayingSession`, proved).
2. **Framing is lost in `select!`** (`framing_select`). A frame that arrives in two
   pieces with a snapshot between them is torn: the next read takes a length from the
   middle of the frame, and the connection fails, hangs or acts on a message nobody
   sent. Until then everything is in order (`InOrderUnlessTorn`, proved).
3. **Movements go to zone 1** (`commands_zone`). The router looks up zone 1 for every
   command, so a character of another zone stands still. The wiring task, which does
   know the zone, sends the `PlayerEnter` to the right one.

Known and without a run of their own:

- *A confirmed deletion may hit another character* (`tui-client/src/app.rs:362`).
  `delete_confirm` is a flag. A character is deleted through the login server or
  another session after a client has listed it; the client logs out and connects
  again, with the old list on the screen until the new one comes; d is pressed on the
  old list, the new one moves the characters, and the second d deletes one that the
  question never named. `DeletedWasAsked` allows this, and only with a change that
  the client was not told of: without its second disjunct TLC finds that trace in the
  run `client`.
- *An error does not mean that nothing was done* (`gateway/src/lib.rs:529`,
  `login-server/src/main.rs:407`). A DELETE or an INSERT that has committed is
  answered with an error, or not at all, when the reply of the database, the HTTP
  handler or the connection is lost. `AcknowledgedHolds` claims only what was told.
- *A client is accepted into a zone that has panicked* (`game-server/src/lib.rs:339`).
  The failed send of `PlayerEnter` is ignored; the client hears `HandshakeAccepted`,
  has no entity, and is let go when its snapshots end (`ConnectedIsPlaced`,
  `LostSessionFreesAccount`).
- *Some creatures never arrive*. `validate_world_config` accepts a `move_speed` of 0,
  with which a wanderer with a target stands still for ever, and one of 40 and more,
  whose step of 2.0 can pass over the circle of 1.0 around the target again and again
  (`world/src/lib.rs:743`, `game-data/src/lib.rs:312`). `WanderersArrive` speaks of
  the speeds between.
- *Snapshots out of order are shown*: `ClientApp` takes over every snapshot
  (`tui-client/src/app.rs:236`), where `protocol/src/lib.rs:297` tells clients to
  discard older ones.
- *A sentinel that a timer can reach* (`AiPanics`, `world/src/lib.rs:773`). `step_ai`
  uses the idle times -1.0 and -2.0 as requests. The timer of a wandering creature
  whose `wander_radius` is 0 counts down past 0, and when it is exactly -1.0 a target
  is drawn from an empty range: the panic ends the zone. In the code's floating point
  this takes a first idle time of one of about 60 values between 1 and 4, so it is
  rare, and the default configuration has no such creature, but
  `validate_world_config` accepts one. The zone's properties hold until then.
- *Ids are partitioned at one end only* (`world/src/lib.rs:345`, `:493`). The
  listener's counter runs into the ids of zone 1's creatures after a million
  connections. Everything about zones assumes `Partitioned`, that it has not.
- *The limit of ten is approximate* (`gateway/src/character_store.rs:279`): racing
  creations pass it by one less than the handlers that race (`LimitHolds`).
- *Names differ in case* in the database and may not in memory (`StoresAreTables`
  has a class of names for each).
- A `MoveInput` of negative speed is not clamped (`world/src/lib.rs:597`, "speed is
  clamped" at 591), and `query_radius` leaves the distance check to its caller.

## 5. What is proved

All theorems are for every value of the constants, under the assumptions the modules
name: numbers are naturals, a creature's speed is not negative, `NoTarget` is not a
place, `NoAccount` and `NoZone` are not accounts and zones,
configured zones are zones, a header and a prefix have at least a byte, frames have
at least a header, a channel has at least a slot, the workers of the character store
are finitely many and either tasks or requests, the limit of characters is not 0, the
placeholder for no command is not a command, a configuration is two finite lists,
and the default one is valid. Stored characters are within `Area`, and a script has
no more lines than the bound on keys and lines.

- **Session** (`SessionProofs`). `IInv` is inductive. `RegistrationExact` alone is
  not: whether an `Unregister` in the channel is the last of its session depends on
  where the wiring task is (`QueueInv`: at most one message per session, of the kind
  the task has just sent), which account it names on what was validated (`PhaseInv`),
  and whether a session may still enter the world on the bridge, the answers already
  sent and the place it was given (`PlaceInv`), which is nobody's in a zone that has
  panicked. From `IInv` follow type correctness,
  `RegistrationExact`, `OnePlayingSession`, `ConnectedIsPlaced` and the action property
  `NoReleaseWhilePlaying`. `LockRefinement` maps each step to a step of `AccountLock`
  or a stutter, with `Held` (the owners and their accounts) and `InWorld` (a bridge
  and a running connection task) for its variables.
  The lock itself excludes (`LockExcludes`), and so, through the refinement, do the
  sessions (`SessionsExclude`).
- **TcpFraming** (`WireProofs`). As long as nothing was torn, the place of the
  read is determined by the number of messages handed on (`Aligned`); `Began`,
  `Arrived` and `CutInv` keep it within what the client has written.
- **SnapshotBridge** (`SnapshotBridgeProofs`). Ticks decrease from the zone to the
  connection task (`Ordered`), and a thread that is done holds nothing (`Emptied`).
  From these follow `SentInOrder` and the refinement of `Bridge`.

- **SpatialIndex** (`ZoneProofs`). Insert, remove and update turn the index
  of some positions into the index of the new ones, which is what the zone's proof
  takes from them; and the cells that a query visits cover the circle, by the
  monotonicity of the division, negative coordinates included.
- **Codec** (`WireProofs`). A header's eleven bytes decode to it (`Le16`, `Le32`), a
  frame is cut where it was joined (`Cut`), and with the types apart (`TypesApart`) and
  `PackAssumption` each side decodes exactly what the other encoded, and nothing of
  its own.
- **CharacterStore** (`CharacterStoreProofs`). For any finite number of tasks and
  handlers, and any accounts and names, `IInv` is inductive. The limit alone is not: a
  handler between its COUNT and the commit of its INSERT holds the right to insert
  (`Inserting`), and so does a statement that nobody waits for; the sum of an
  account's rows and of these rights is what stays bounded; that a worker still acts
  for the account it counted for is `JobShape`. Every action has one of few effects on
  the tables (`Effects`), from which names, ids, limits and the refinement of
  `CharacterTable` follow without the actions. `AcknowledgedHolds` needs `ClaimsHold`:
  what a worker has to tell is true from the commit until it is told or lost, and a
  DELETE on its way finds only what its owner asked for.
- **Zone** (`ZoneProofs`). For every area, spawn points, players with ids below those
  of creatures (`Partitioned`) and any number of creatures, `IInv` is inductive.
  `Agreement` alone is not: that an id is new when its entity appears needs `Fresh`,
  which bounds the ids of creatures by the counter and those of players by what the
  listener has handed out, and that the rest of a loop may still be visited needs the
  types of `todo`. The lemmas `SpawnShape`, `DespawnShape` and `ReplaceShape` treat
  the three structures of an entity together, once, and the actions cite them. From
  `IInv` follow `Agreement`, `SnapshotExact` and the refinement of `EntityTable`.
  `CreaturesKept` is inductive beside it: a kill moves a spawn point from its creature
  to a respawn, which needs that the id of a creature that died names nobody any more
  (in `Fresh`), and a player who goes is no creature (`PlayerNoCreature`).
  `WanderersStayNear` needs `WalksStraight`: a creature's target is within its radius,
  and its velocity leads there from where it stands, or it has moved since its AI chose
  it (`HasMoved`), which the tick repairs before it moves again; a creature without a
  target stands still. Then a step that goes past the target goes less than a step past
  it (`StepNear`). It rests on a speed of no less than 0, which
  `validate_world_config` demands (`game-data/src/lib.rs:312`), and on targets along
  one axis, as everywhere in `Zone`; added to the invariants of `zone_live`,
  `WalksStraight` holds there as well.

- **CommandPath** (`CommandPathProofs`). For any connections, zones, inbox capacity
  and number of worker threads, `IInv` is inductive. `MovesInOrder` needs that no
  command is numbered beyond what was sent, and that only the default zone gets
  movements (`PathShape`); that a movement finds its entity needs the order between
  the wiring task's `PlayerEnter` and the first movement (`EntryShape`), which rests on
  where both tasks of a connection are (`TaskShape`). `AuthShape` says how far a
  revoked token gets. From `IInv` follow `RevokedStaysOut` and the action property
  `PlayersMovesApply`. The proof is in two halves: what a step does to the queues, in
  terms of one sequence from the router to the zone (`OnTheWay`), and what it does to
  the connection that takes it.
- **Server** (`ServerProofs`). For any set of configurations, any bounds on ticks and
  players and any capacity of the event channel, `IInv` is inductive. `WorldIsWhole`
  alone is not: that the inbox found under a zone's id is that zone's needs that only
  valid configurations are started, with ids that differ, and how far the start has
  come (`StartupShape`). `FeedIsTrue` needs `LastIsKnown`: the last report that found
  room is in the channel or has been taken. `FeedNeverGoesBack` follows from
  `ReportsInOrder`, which relates every report in the channel to the ones before it
  and to what was taken of its zone, and from `FeedShape` for the page.
- **Client** (`ClientProofs`). For both drivers and any number of keys, characters and
  changes without a word, `IInv` is inductive, together with the chain of lists below. `InStep`, the agreement
  of application, network task and server when nothing is on its way, says nothing
  while something is; so each of the four queues has an invariant of what may be in
  it: `EventShape` (which events come after which, and on which screen they arrive),
  `PhaseShape` (the screen with the events to come is the phase of the session),
  `ActionShape` (one logout at most, and the last movement is the one the application
  shows), `StreamShape` (requests and replies of each phase) and `ListShape` (the
  lists, the cursor and the question to delete). That the lists agree in the end is
  `ListsFollow`: the events lead from the application's list to some list, and the
  replies in the stream from there to what the server has told (`told`), which is the
  account's own list unless it was changed without a word since (`stale`). It quantifies over lists and
  functions, so TLC cannot evaluate it and it stands in `ClientProofs` alone; TLC
  checks what follows from it. `DeletedWasAsked` follows from `ListShape`: a question
  stands on the character it was asked about, or is about none after such a change.

Only model-checked: liveness, for fairness and ENABLED are out of the prover's reach;
and, by the three runs that expect a violation, the disagreements of section 4.

## 6. What is not modelled, and the plan

Not modelled: drawing and layout of the terminal client, its chat, help and
interpolation (they decide nothing); the test client, which keeps no state; the empty
services crate; JWT, Redis, bcrypt, sqlx and MessagePack themselves, of which the
modules use what the code sees; logging; the dashboard's account list, a query and its
page; averages and maxima of tick times; the zone transfer that no zone sends.

Planned: both directions of the framing in one composed module, and the refinement of
one abstract session by the gateway's and the client's side of it.

------------------------------- MODULE Client -------------------------------
(***************************************************************************)
(* The TUI client: the application state machine (ClientApp), its two      *)
(* drivers (the terminal loop with its key map, and script mode), the      *)
(* network task (run_network, run_session), the two unbounded channels     *)
(* between them, and the game server as the client sees it over TCP (the   *)
(* character selection of gateway::run_connection).                        *)
(*                                                                         *)
(* The application and the network task never wait for each other: keys    *)
(* act on what the application has seen so far, while events, actions,     *)
(* requests and replies are on their way.  Pings, the log, scrolling, the  *)
(* fields of the creation form other than the name, and positions are left *)
(* out; a movement is either on or off.                                    *)
(*                                                                         *)
(* The characters belong to the account and not to the connection: the     *)
(* login server's HTTP API and another session of the account create and   *)
(* delete them too, and a request of this client may change them and fail. *)
(* In both cases this client is not told (Untold).                         *)
(***************************************************************************)
EXTENDS Naturals, Sequences, SequencesExt, FiniteSets

CONSTANTS
    Modes,      \* drivers: "tui", "script"
    MaxKeys,    \* bounds the keys pressed
    MaxLines,   \* bounds the lines of a script
    MaxId,      \* bounds the characters of the account
    MaxUntold,  \* bounds the changes of which the client is not told
    Nobody      \* no character

ASSUME ModesAssumption == Modes \subseteq {"tui", "script"}
ASSUME BoundsAssumption == 
    /\ MaxKeys \in Nat /\ MaxLines \in 0 .. MaxKeys
    /\ MaxId \in Nat /\ MaxUntold \in Nat

Ids == 1 .. MaxId

VARIABLES
    screen,     \* the screen shown
    listed,     \* characters, as the application knows them
    cursor,     \* char_select_index, from 0
    confirm,    \* delete_confirm
    named,      \* create_name, trimmed, is not empty
    moving,     \* move_direction is set
    entity,     \* entity_id and zone_id are known
    world,      \* entities of a snapshot are shown
    stage,      \* the driver: "tui", "leaving" (should_quit), "wait" (script,
                \* before it is connected), "main", "pause" (a wait line), "over"
    actions,    \* channel from the application to the network task
    events,     \* channel from the network task to the application
    net,        \* the network task; "lost" when it ended with an event for the
                \* application, "quit" when it ended with none
    heading,    \* current_move is set
    toServer, toClient,   \* the TCP stream, both ways
    conn,       \* the server's side of the connection
    owned,      \* the account's characters at the server
    nextId,
    told,       \* those characters, as this client's replies tell of them
    stale,      \* owned changed, without a word to this client, since a list
                \* was last sent to it
    untold,     \* such changes so far
    keys,       \* keys pressed, or lines of the script read, so far
    asked,      \* character under the cursor when d was last pressed, or that
                \* a creation put under it while the question stood; Nobody
                \* when a list put another under it meanwhile
    failed      \* the server failed a request, or left one unanswered

app == <<screen, listed, cursor, confirm, named, moving, entity, world>>
netVars == <<net, heading>>
tcp == <<toServer, toClient, conn>>
account == <<owned, nextId, told, stale, untold>>
history == <<asked, failed>>
vars == <<app, stage, actions, events, netVars, tcp, account, keys, history>>
------------------------------------------------------------------------------
Screens == {"Connecting", "CharacterSelect", "CharacterCreate", "Playing", "Disconnected"}

(* A message, an event or an action: its kind, the character and the list  *)
(* of characters it carries.                                               *)
Of(kind, id) == [kind |-> kind, id |-> id, list |-> <<>>]
Plain(kind) == Of(kind, Nobody)
Listing(cs) == [kind |-> "CharacterList", id |-> Nobody, list |-> cs]

Init ==
    /\ screen = "Connecting" /\ listed = <<>> /\ cursor = 0
    /\ confirm = FALSE /\ named = FALSE
    /\ moving = FALSE /\ entity = FALSE /\ world = FALSE
    /\ stage \in {IF m = "tui" THEN "tui" ELSE "wait" : m \in Modes}
    /\ actions = <<>> /\ events = <<>>
    /\ net = "start" /\ heading = FALSE
    /\ toServer = <<>> /\ toClient = <<>> /\ conn = "none"
    /\ nextId \in 1 .. MaxId + 1
    /\ owned = [i \in 1 .. nextId - 1 |-> i]
    /\ told = owned /\ stale = FALSE /\ untold = 0
    /\ keys = 0 /\ asked = Nobody /\ failed = FALSE
------------------------------------------------------------------------------
(* apply_server_event.  Every operator is the effect of one event on the   *)
(* application; reset_playing_state is part of HandshakeComplete.          *)

Selecting == UNCHANGED <<named, moving, entity, world>>

(* retain(|c| c.id != i), on a list that holds a character once *)
Without(q, i) ==
    IF Contains(q, i) THEN RemoveAt(q, CHOOSE k \in DOMAIN q : q[k] = i) ELSE q

(* The character under the cursor *)
OnCharacter == cursor < Len(listed)
Under == listed[cursor + 1]

(* The cursor stays on a character, unless there is none. *)
\* Mutant: the cursor stays where it is.
CursorKept(cs) == cursor
Clamped(cs) == IF cs # <<>> /\ cursor >= Len(cs) THEN Len(cs) - 1 ELSE cursor

HandshakeComplete ==
    /\ screen' = "CharacterSelect"
    /\ moving' = FALSE /\ entity' = FALSE /\ world' = FALSE
    /\ confirm' = FALSE
    /\ UNCHANGED <<listed, cursor, named, asked>>

CharacterList(cs) ==
    /\ listed' = cs
    /\ cursor' = Clamped(cs)
    /\ asked' = IF confirm /\ ~(OnCharacter' /\ Under' = asked) THEN Nobody ELSE asked
    /\ Selecting /\ UNCHANGED <<screen, confirm>>

CharacterCreated(i) ==
    /\ listed' = Append(listed, i)
    /\ cursor' = Len(listed)
    /\ screen' = "CharacterSelect"
    /\ asked' = IF confirm THEN i ELSE asked
    /\ Selecting /\ UNCHANGED confirm

\* Mutant: a deletion leaves a question to delete on the screen.
ConfirmStands == confirm
ConfirmAfterDelete == FALSE

CharacterDeleted(i) ==
    LET rest == Without(listed, i) IN
    /\ listed' = rest
    /\ cursor' = Clamped(rest)
    /\ confirm' = ConfirmAfterDelete
    /\ Selecting /\ UNCHANGED <<screen, asked>>

Connected ==
    /\ screen' = "Playing" /\ entity' = TRUE
    /\ UNCHANGED <<listed, cursor, confirm, named, moving, world, asked>>

(* Rejected and Disconnected *)
ShowDisconnected ==
    /\ screen' = "Disconnected"
    /\ UNCHANGED <<listed, cursor, confirm, named, moving, entity, world, asked>>

Snapshot ==
    /\ world' = TRUE
    /\ UNCHANGED <<screen, listed, cursor, confirm, named, moving, entity, asked>>

Apply(e) ==
    \/ e.kind = "HandshakeComplete" /\ HandshakeComplete
    \/ e.kind = "CharacterList" /\ CharacterList(e.list)
    \/ e.kind = "CharacterCreated" /\ CharacterCreated(e.id)
    \/ e.kind = "CharacterDeleted" /\ CharacterDeleted(e.id)
    \/ e.kind = "CharacterCreateFailed" /\ UNCHANGED <<app, asked>>
    \/ e.kind = "Connected" /\ Connected
    \/ e.kind \in {"Rejected", "Disconnected"} /\ ShowDisconnected
    \/ e.kind = "Snapshot" /\ Snapshot
------------------------------------------------------------------------------
(* The terminal loop: it drains the events, then the keys, which map_key   *)
(* translates by the screen that is shown.                                 *)

TuiTakesEvent ==
    /\ stage = "tui" /\ events # <<>>
    /\ Apply(Head(events))
    /\ events' = Tail(events)
    /\ UNCHANGED <<stage, actions, netVars, tcp, account, keys, failed>>

(* A key pressed on one of the given screens *)
Key(screens) ==
    /\ stage \in {"tui", "leaving"} /\ screen \in screens
    /\ keys < MaxKeys
    /\ keys' = keys + 1
    /\ UNCHANGED <<events, netVars, tcp, account, failed>>

Send(a) == actions' = Append(actions, a)
Nothing == UNCHANGED actions

CharSelectUp ==
    /\ Key({"CharacterSelect"})
    /\ confirm' = FALSE
    /\ cursor' = IF listed # <<>> /\ cursor > 0 THEN cursor - 1 ELSE cursor
    /\ Nothing /\ UNCHANGED <<screen, listed, named, moving, entity, world, stage, asked>>

CharSelectDown ==
    /\ Key({"CharacterSelect"})
    /\ confirm' = FALSE
    /\ cursor' = IF cursor + 1 < Len(listed) THEN cursor + 1 ELSE cursor
    /\ Nothing /\ UNCHANGED <<screen, listed, named, moving, entity, world, stage, asked>>

CharSelectConfirm ==
    /\ Key({"CharacterSelect"})
    /\ IF OnCharacter THEN Send(Of("SelectCharacter", Under)) ELSE Nothing
    /\ UNCHANGED <<app, stage, asked>>

(* delete_confirm is left as it is. *)
CharSelectCreate ==
    /\ Key({"CharacterSelect"})
    /\ screen' = "CharacterCreate"
    /\ named' \in BOOLEAN   \* default_name, or ""
    /\ Nothing /\ UNCHANGED <<listed, cursor, confirm, moving, entity, world, stage, asked>>

CharSelectDelete ==
    /\ Key({"CharacterSelect"})
    /\ asked' = IF OnCharacter THEN Under ELSE asked
    /\ IF confirm /\ listed # <<>>
       THEN /\ confirm' = FALSE
            /\ IF OnCharacter THEN Send(Of("DeleteCharacter", Under)) ELSE Nothing
       ELSE /\ confirm' = (confirm \/ listed # <<>>)
            /\ Nothing
    /\ UNCHANGED <<screen, listed, cursor, named, moving, entity, world, stage>>

(* Letters and Backspace; the other fields are cycled through. *)
CreateType ==
    /\ Key({"CharacterCreate"})
    /\ named' \in BOOLEAN
    /\ Nothing /\ UNCHANGED <<screen, listed, cursor, confirm, moving, entity, world, stage, asked>>

CreateConfirm ==
    /\ Key({"CharacterCreate"})
    /\ IF named THEN Send(Plain("CreateCharacter")) ELSE Nothing
    /\ UNCHANGED <<app, stage, asked>>

CreateCancel ==
    /\ Key({"CharacterCreate"})
    /\ screen' = "CharacterSelect"
    /\ Nothing /\ UNCHANGED <<listed, cursor, confirm, named, moving, entity, world, stage, asked>>

Move(on) ==
    /\ moving' = on
    /\ Send(Plain(IF on THEN "SendMove" ELSE "SendMoveStop"))
    /\ UNCHANGED <<screen, listed, cursor, confirm, named, entity, world, stage, asked>>

Logout ==
    /\ Key({"Playing"})
    /\ screen' = "Connecting"
    /\ Send(Plain("Reconnect"))
    /\ UNCHANGED <<listed, cursor, confirm, named, moving, entity, world, stage, asked>>

(* x on most screens, Ctrl+C on all: should_quit *)
Quit ==
    /\ Key(Screens)
    /\ stage' = "leaving"
    /\ Send(Plain("SendDisconnect"))
    /\ UNCHANGED <<app, asked>>

(* The loop ends with its frame. *)
TuiExits ==
    /\ stage = "leaving"
    /\ stage' = "over"
    /\ UNCHANGED <<app, actions, events, netVars, tcp, account, keys, history>>

Terminal ==
    \/ TuiTakesEvent \/ TuiExits
    \/ CharSelectUp \/ CharSelectDown \/ CharSelectConfirm
    \/ CharSelectCreate \/ CharSelectDelete
    \/ CreateType \/ CreateConfirm \/ CreateCancel
    \/ \E on \in BOOLEAN : Key({"Playing"}) /\ Move(on)
    \/ Logout \/ Quit
------------------------------------------------------------------------------
(* Script mode.                                                            *)

\* Mutant: a character is selected from a list only.
ReactionToLists(e) ==
    CASE e.kind = "HandshakeComplete" -> <<Plain("RequestCharacterList")>>
      [] e.kind = "CharacterList" ->
            <<IF e.list # <<>> THEN Of("SelectCharacter", e.list[1])
                               ELSE Plain("CreateCharacter")>>
      [] OTHER -> <<>>

(* What the script does on an event before it is connected *)
Reaction(e) ==
    CASE e.kind = "HandshakeComplete" -> <<Plain("RequestCharacterList")>>
      [] e.kind = "CharacterList" ->
            <<IF e.list # <<>> THEN Of("SelectCharacter", e.list[1])
                               ELSE Plain("CreateCharacter")>>
      [] e.kind = "CharacterCreated" -> <<Of("SelectCharacter", e.id)>>
      [] OTHER -> <<>>

ScriptTakesEvent ==
    /\ stage \in {"wait", "main", "pause"} /\ events # <<>>
    /\ LET e == Head(events) IN
        /\ Apply(e)
        /\ actions' = IF stage = "wait" THEN actions \o Reaction(e) ELSE actions
        /\ stage' = IF e.kind \in {"Rejected", "Disconnected"} /\ stage # "pause"
                    THEN "over"
                    ELSE IF e.kind = "Connected" /\ stage = "wait" THEN "main" ELSE stage
    /\ events' = Tail(events)
    /\ UNCHANGED <<netVars, tcp, account, keys, failed>>

(* A line of standard input *)
Line ==
    /\ stage = "main" /\ keys < MaxLines
    /\ keys' = keys + 1
    /\ UNCHANGED <<events, netVars, tcp, account, failed>>

ScriptDisconnect ==
    /\ Line
    /\ Send(Plain("SendDisconnect"))
    /\ UNCHANGED <<app, stage, asked>>

(* quit, or the end of standard input *)
ScriptQuit ==
    /\ stage = "main"
    /\ Send(Plain("SendDisconnect"))
    /\ stage' = "over"
    /\ UNCHANGED <<app, events, netVars, tcp, account, keys, history>>

ScriptWait ==
    /\ Line
    /\ stage' = "pause"
    /\ Nothing /\ UNCHANGED <<app, asked>>

ScriptWaited ==
    /\ stage = "pause"
    /\ stage' = "main"
    /\ UNCHANGED <<app, actions, events, netVars, tcp, account, keys, history>>

Script ==
    \/ ScriptTakesEvent \/ ScriptDisconnect \/ ScriptQuit
    \/ ScriptWait \/ ScriptWaited
    \/ \E on \in BOOLEAN : Line /\ Move(on)
------------------------------------------------------------------------------
(* The network task.                                                       *)

Running == net \in {"start", "greeted", "select", "play"}
Tell(es) == events' = events \o es
Silent == UNCHANGED events

(* run_session fails: run_network reports it, and so does main.            *)
\* Mutant: the error is returned and nothing sent.
FailQuietly == net' = "lost" /\ Silent
Fail ==
    /\ net' = "lost"
    /\ Tell(<<Plain("Disconnected"), Plain("Disconnected")>>)

(* The drain of stale actions, the TCP connection, and the two messages    *)
(* that are sent at once                                                   *)
Connect ==
    /\ net = "start"
    /\ actions' = <<>>
    /\ toServer' = <<Plain("Handshake"), Plain("CharacterListRequest")>>
    /\ toClient' = <<>> /\ conn' = "handshake"
    /\ net' = "greeted" /\ heading' = FALSE
    /\ Silent
    /\ UNCHANGED <<app, stage, account, keys, history>>

ConnectFails ==
    /\ net = "start"
    /\ actions' = <<>>
    /\ Fail
    /\ UNCHANGED <<app, stage, heading, tcp, account, keys, history>>

(* The first reply decides: the list, or anything else. *)
ReadFirst ==
    /\ net = "greeted" /\ toClient # <<>>
    /\ IF Head(toClient).kind = "CharacterList"
       THEN /\ net' = "select"
            /\ Tell(<<Plain("HandshakeComplete"), Head(toClient)>>)
       ELSE /\ net' = "lost"
            /\ Tell(<<Plain("Rejected")>>)
    /\ toClient' = Tail(toClient)
    /\ UNCHANGED <<app, stage, actions, heading, toServer, conn, account, keys, history>>

(* Replies in character selection become events of their kind. *)
ReadInSelection ==
    /\ net = "select" /\ toClient # <<>>
    /\ LET m == Head(toClient) IN
        /\ net' = IF m.kind = "HandshakeAccepted" THEN "play"
                  ELSE IF m.kind = "HandshakeRejected" THEN "lost" ELSE net
        /\ Tell(<<IF m.kind = "HandshakeAccepted" THEN Plain("Connected")
                  ELSE IF m.kind = "HandshakeRejected" THEN Plain("Rejected") ELSE m>>)
    /\ toClient' = Tail(toClient)
    /\ UNCHANGED <<app, stage, actions, heading, toServer, conn, account, keys, history>>

(* In play, TCP brings nothing but pongs; snapshots come by UDP.  The      *)
(* queue holds one at a time, a bound.                                     *)
ReadSnapshot ==
    /\ net = "play" /\ conn = "play"
    /\ ~Contains(events, Plain("Snapshot"))
    /\ Tell(<<Plain("Snapshot")>>)
    /\ UNCHANGED <<app, stage, actions, netVars, tcp, account, keys, history>>

(* A closed connection ends a read at once, or after what was sent. *)
ReadFails ==
    /\ net \in {"greeted", "select", "play"} /\ conn = "closed"
    /\ IF net = "greeted" THEN Fail
       ELSE net' = "lost" /\ Tell(<<Plain("Disconnected")>>)
    /\ UNCHANGED <<app, stage, actions, heading, tcp, account, keys, history>>

(* recv_from fails: the task ends, and nobody is told. *)
UdpFails ==
    /\ net = "play"
    /\ net' = "quit"
    /\ UNCHANGED <<app, stage, actions, events, heading, tcp, account, keys, history>>

(* The request an action is sent as; it may go into a closed connection. *)
Write(m) ==
    /\ toServer' = IF conn = "closed" THEN toServer ELSE Append(toServer, m)
    /\ UNCHANGED <<toClient, conn>>

TakesAction ==
    /\ net \in {"select", "play"} /\ actions # <<>>
    /\ actions' = Tail(actions)
    /\ UNCHANGED <<app, stage, account, keys, history>>

(* Actions that end the session: Disconnect is sent to the server. *)
TakeEnd ==
    /\ TakesAction /\ Head(actions).kind \in {"SendDisconnect", "Reconnect"}
    /\ Write(Plain("Disconnect"))
    /\ net' = IF Head(actions).kind = "Reconnect" THEN "start" ELSE "quit"
    /\ Silent /\ UNCHANGED heading

(* Requests of character selection; a failing write ends the session. *)
Requests == {"RequestCharacterList", "CreateCharacter", "DeleteCharacter", "SelectCharacter"}

TakeRequest ==
    /\ TakesAction /\ net = "select" /\ Head(actions).kind \in Requests
    /\ \/ Write(Head(actions)) /\ Silent /\ UNCHANGED net
       \/ conn = "closed" /\ Fail /\ UNCHANGED tcp
    /\ UNCHANGED heading

(* Movement in play: a write that fails ends the task without an event. *)
TakeMove ==
    /\ TakesAction /\ net = "play" /\ Head(actions).kind \in {"SendMove", "SendMoveStop"}
    /\ heading' = (Head(actions).kind = "SendMove")
    /\ \/ UNCHANGED net
       \/ conn = "closed" /\ net' = "quit"
    /\ Silent /\ UNCHANGED tcp

(* Actions of the other phase are ignored. *)
TakeIgnored ==
    /\ TakesAction
    /\ \/ net = "select" /\ Head(actions).kind \in {"SendMove", "SendMoveStop"}
       \/ net = "play" /\ Head(actions).kind \in Requests
    /\ Silent /\ UNCHANGED <<netVars, tcp>>

(* The movement that is sent again every 50 ms cannot be written. *)
ResendFails ==
    /\ net = "play" /\ heading /\ conn = "closed"
    /\ net' = "quit"
    /\ UNCHANGED <<app, stage, actions, events, heading, tcp, account, keys, history>>

(* main: net_handle.abort() *)
Abort ==
    /\ stage = "over" /\ Running
    /\ net' = "quit"
    /\ UNCHANGED <<app, stage, actions, events, heading, tcp, account, keys, history>>

Network ==
    \/ Connect \/ ConnectFails \/ ReadFirst \/ ReadInSelection
    \/ ReadSnapshot \/ ReadFails \/ UdpFails
    \/ TakeEnd \/ TakeRequest \/ TakeMove \/ TakeIgnored \/ ResendFails \/ Abort
------------------------------------------------------------------------------
(* The server: one request of the connection at a time.                    *)

Request(phase, kind) ==
    /\ conn = phase /\ toServer # <<>> /\ Head(toServer).kind = kind
    /\ toServer' = Tail(toServer)
    /\ UNCHANGED <<app, stage, actions, events, netVars, keys, asked>>

Reply(m) == toClient' = Append(toClient, m)
NoReply == UNCHANGED toClient

ServeHandshake ==
    /\ Request("handshake", "Handshake")
    /\ \/ conn' = "select" /\ NoReply
       \/ conn' = "closed" /\ Reply(Plain("HandshakeRejected"))
    /\ UNCHANGED <<account, failed>>

ServeList ==
    /\ \E kind \in {"CharacterListRequest", "RequestCharacterList"} : Request("select", kind)
    /\ \/ /\ Reply(Listing(owned))
          /\ told' = owned /\ stale' = FALSE
          /\ UNCHANGED failed
       \/ NoReply /\ failed' = TRUE /\ UNCHANGED <<told, stale>>
    /\ UNCHANGED <<conn, owned, nextId, untold>>

(* The statements that change the account's characters *)
InsertRow ==
    /\ nextId <= MaxId
    /\ owned' = Append(owned, nextId) /\ nextId' = nextId + 1

DeleteRow(i) ==
    /\ Contains(owned, i)
    /\ owned' = Without(owned, i)
    /\ UNCHANGED nextId

(* This client is not told of the change. *)
Untold ==
    /\ untold < MaxUntold
    /\ untold' = untold + 1 /\ stale' = TRUE
    /\ UNCHANGED told

(* A statement that fails may have been committed before. *)
ServeCreate ==
    /\ Request("select", "CreateCharacter")
    /\ \/ /\ InsertRow
          /\ Reply(Of("CharacterCreated", nextId))
          /\ told' = Append(told, nextId)
          /\ UNCHANGED <<stale, untold, failed>>
       \/ /\ Reply(Plain("CharacterCreateFailed"))
          /\ failed' = TRUE
          /\ UNCHANGED account \/ (InsertRow /\ Untold)
    /\ UNCHANGED conn

ServeDelete ==
    /\ Request("select", "DeleteCharacter")
    /\ LET i == Head(toServer).id IN
       \/ /\ DeleteRow(i)
          /\ Reply(Of("CharacterDeleted", i))
          /\ told' = Without(told, i)
          /\ UNCHANGED <<stale, untold, failed>>
       \/ /\ NoReply /\ failed' = TRUE
          /\ UNCHANGED account \/ (DeleteRow(i) /\ Untold)
    /\ UNCHANGED conn

ServeSelect ==
    /\ Request("select", "SelectCharacter")
    /\ \/ /\ Contains(owned, Head(toServer).id)
          /\ \/ conn' = "play" /\ Reply(Plain("HandshakeAccepted"))
             \/ conn' = "closed" /\ Reply(Plain("HandshakeRejected"))
          /\ UNCHANGED failed
       \/ /\ Reply(Plain("CharacterCreateFailed"))
          /\ failed' = TRUE
          /\ UNCHANGED conn
    /\ UNCHANGED account

(* The connected phase: Disconnect ends it, the rest is not for it.        *)
ServeInPlay ==
    /\ \E kind \in Requests : Request("play", kind)
    /\ NoReply /\ UNCHANGED <<conn, account, failed>>

ServeDisconnect ==
    /\ \E phase \in {"select", "play"} : Request(phase, "Disconnect")
    /\ conn' = "closed"
    /\ NoReply /\ UNCHANGED <<account, failed>>

(* The server, the network or the zone ends the connection. *)
ServerCloses ==
    /\ conn \in {"handshake", "select", "play"}
    /\ conn' = "closed"
    /\ UNCHANGED <<app, stage, actions, events, netVars, toServer, toClient, account, keys, history>>

Serve ==
    \/ ServeHandshake \/ ServeList \/ ServeCreate \/ ServeDelete
    \/ ServeSelect \/ ServeInPlay \/ ServeDisconnect

(* A handler of the login server, or another session of the account,       *)
(* creates or deletes a character, whatever this client is doing; or a     *)
(* statement that this connection has given up takes effect.               *)
OthersChange ==
    /\ InsertRow \/ \E i \in Ids : DeleteRow(i)
    /\ Untold
    /\ UNCHANGED <<app, stage, actions, events, netVars, tcp, keys, history>>

Next == Terminal \/ Script \/ Network \/ Serve \/ ServerCloses \/ OthersChange

Spec == Init /\ [][Next]_vars

(* The loops run, the network task is polled and the server handles what   *)
(* it reads.  Nothing makes a user press a key, a datagram arrive or a     *)
(* connection end.                                                         *)
Fairness ==
    /\ WF_vars(TuiTakesEvent \/ TuiExits \/ ScriptTakesEvent \/ ScriptWaited \/ Abort)
    /\ WF_vars(\/ Connect \/ ConnectFails \/ ReadFirst \/ ReadInSelection \/ ReadFails
               \/ TakeEnd \/ TakeRequest \/ TakeMove \/ TakeIgnored)
    /\ WF_vars(Serve)

FairSpec == Spec /\ Fairness
------------------------------------------------------------------------------
(* The kinds of replies, of events and actions, and of the rest *)
Replies == {"CharacterList", "CharacterCreated", "CharacterDeleted", "CharacterCreateFailed"}
Ends == {"Rejected", "Disconnected"}
Kinds ==
    Replies \cup Ends \cup Requests \cup
    {"HandshakeComplete", "Connected", "Snapshot",
     "SendMove", "SendMoveStop", "SendDisconnect", "Reconnect",
     "Handshake", "CharacterListRequest", "Disconnect",
     "HandshakeAccepted", "HandshakeRejected"}

Messages == [kind : Kinds, id : Ids \cup {Nobody}, list : Seq(Ids)]

(* The variables hold values of their types. *)
TypeOK ==
    /\ screen \in Screens
    /\ {listed, owned, told} \subseteq Seq(Ids)
    /\ cursor \in Nat /\ nextId \in 1 .. MaxId + 1
    /\ {confirm, named, moving, entity, world, heading, failed, stale} \subseteq BOOLEAN
    /\ stage \in {"tui", "leaving", "wait", "main", "pause", "over"}
    /\ {actions, events, toServer, toClient} \subseteq Seq(Messages)
    /\ net \in {"start", "greeted", "select", "play", "lost", "quit"}
    /\ conn \in {"none", "handshake", "select", "play", "closed"}
    /\ keys \in 0 .. MaxKeys /\ untold \in 0 .. MaxUntold
    /\ asked \in Ids \cup {Nobody}

(* Nothing is on its way between the application and the server. *)
Quiet == events = <<>> /\ actions = <<>> /\ toServer = <<>> /\ toClient = <<>>

(* Whenever nothing is on its way, the application is in step with the     *)
(* network task and the server: it shows the screen of the session's       *)
(* phase, knows an entity and a world only in play, moves when the network *)
(* task repeats a movement, and lists the characters the server last told  *)
(* it of.  Those are the account's, unless they changed without a word to  *)
(* this client since the server last sent a list.                          *)
InStep ==
    /\ listed # <<>> => cursor < Len(listed)
    /\ Quiet /\ Running /\ conn # "closed" =>
        /\ screen \in {"Connecting"} <=> net \in {"start", "greeted"}
        /\ screen \in {"CharacterSelect", "CharacterCreate"} <=> net = "select"
        /\ screen = "Playing" <=> net = "play"
        /\ net = "select" => ~entity /\ ~world /\ ~moving /\ conn = "select"
        /\ net = "play" => entity /\ moving = heading /\ conn = "play"
        /\ net \in {"select", "play"} =>
            /\ listed = told
            /\ ~stale => listed = owned

(* What the events on their way will do to the application: a session      *)
(* opens on "Connecting", and nothing of it comes before its               *)
(* HandshakeComplete; replies come on the screens of character selection   *)
(* and before Connected, snapshots in play and until the next session, and *)
(* the ends of a session last.                                             *)
Choosing == screen \in {"CharacterSelect", "CharacterCreate"}
Coming(kind) == \E k \in DOMAIN events : events[k].kind = kind
Before(k, kinds) == \A j \in 1 .. k - 1 : events[j].kind \in kinds

EventShape ==
    \A k \in DOMAIN events :
        LET e == events[k] IN
        \/ /\ e.kind = "HandshakeComplete"
           /\ screen = "Connecting" /\ Before(k, {"Snapshot"})
        \/ /\ e.kind \in Replies \cup {"Connected"}
           /\ Choosing \/ \E j \in 1 .. k - 1 : events[j].kind = "HandshakeComplete"
           /\ Before(k, Replies \cup {"HandshakeComplete", "Snapshot"})
           /\ e.kind = "CharacterCreated" => e.id \in Ids
        \/ /\ e.kind = "Snapshot"
           /\ \/ screen \in {"Connecting", "Playing"} /\ Before(k, {"Snapshot"})
              \/ \E j \in 1 .. k - 1 : events[j].kind = "Connected"
           /\ \A j \in 1 .. k - 1 : events[j].kind \notin Ends
        \/ e.kind \in Ends /\ net = "lost"

(* The screen, with the events to come, is the phase of a running session. *)
Opening == Choosing \/ Coming("HandshakeComplete")
Away == ~Opening /\ ~Coming("Connected")

PhaseShape ==
    /\ Running =>
        /\ net \in {"start", "greeted"} => screen = "Connecting" /\ Away
        /\ net = "select" => Opening /\ ~Coming("Connected")
        /\ net = "play" =>
            \/ Opening /\ Coming("Connected")
            \/ screen = "Playing" /\ Away
            \/ /\ screen = "Connecting" /\ Away
               /\ \E k \in DOMAIN actions : actions[k].kind = "Reconnect"
    /\ Choosing => ~entity /\ ~world /\ ~moving
    /\ screen = "Playing" => entity
    /\ stage \in {"main", "pause"} => screen \in {"Playing", "Disconnected"}

(* The actions on their way: one logout at most, in play, and the last     *)
(* movement among them is the one the application shows.                   *)
IsMove(a) == a.kind \in {"SendMove", "SendMoveStop"}
NoMoves == \A k \in DOMAIN actions : ~IsMove(actions[k])
LastMove ==
    /\ NoMoves => moving = heading
    /\ \A k \in DOMAIN actions :
        /\ IsMove(actions[k])
        /\ \A j \in DOMAIN actions : j > k => ~IsMove(actions[j])
        => moving = (actions[k].kind = "SendMove")

ActionShape ==
    Running =>
        /\ net = "greeted" \/ (net # "start" /\ Opening) => NoMoves /\ ~heading
        /\ net = "play" /\ ~Opening => LastMove
        /\ \A k \in DOMAIN actions : actions[k].kind = "Reconnect" =>
            /\ net = "play" /\ screen = "Connecting" /\ Away
            /\ \A j \in DOMAIN actions : actions[j].kind = "Reconnect" => j = k

(* The two ways of the stream in each phase: the first reply is the list   *)
(* of the account, the last one of the selection lets the character in or  *)
(* is a rejection, and no request is answered in another phase.            *)
StreamShape ==
    /\ net = "start" => conn \in {"none", "play", "closed"}
    /\ net = "greeted" =>
        /\ \/ /\ conn = "handshake" /\ toClient = <<>>
              /\ toServer = <<Plain("Handshake"), Plain("CharacterListRequest")>>
           \/ conn = "select" /\ toServer = <<Plain("CharacterListRequest")>> /\ toClient = <<>>
           \/ conn = "select" /\ toServer = <<>>
           \/ conn = "closed"
        /\ toClient \in {<<>>, <<Listing(told)>>, <<Plain("HandshakeRejected")>>}
    /\ net = "select" =>
        /\ conn \in {"select", "play", "closed"}
        /\ conn # "closed" => \A k \in DOMAIN toServer : toServer[k].kind \in Requests
        /\ conn = "play" => toClient # <<>>
        /\ \A k \in DOMAIN toClient :
            \/ /\ toClient[k].kind \in Replies
               /\ toClient[k].kind = "CharacterCreated" => toClient[k].id \in Ids
               /\ conn = "play" => k < Len(toClient)
            \/ toClient[k].kind = "HandshakeAccepted" /\ conn # "select" /\ k = Len(toClient)
            \/ toClient[k].kind = "HandshakeRejected" /\ conn = "closed" /\ k = Len(toClient)
    /\ net = "play" => conn \in {"play", "closed"} /\ toClient = <<>>

(* The lists, and the question to delete: at the terminal a list comes     *)
(* once a session and before any other reply; it is the one that is shown, *)
(* and the question stays with its character, until the client misses a    *)
(* change.                                                                 *)
AtTerminal == stage \in {"tui", "leaving"}
Twice(q) == \E j, k \in DOMAIN q : j # k /\ q[j] = q[k]

ListShape ==
    /\ ~Twice(listed) /\ ~Twice(owned) /\ ~Twice(told)
    /\ \A k \in DOMAIN owned : owned[k] < nextId
    /\ \A k \in DOMAIN told : told[k] < nextId
    /\ ~stale => told = owned
    /\ untold = 0 => ~stale /\ (net \in {"start", "greeted"} => listed \in {<<>>, owned})
    /\ confirm =>
        /\ stage \in {"tui", "leaving", "over"}
        /\ (listed # <<>> /\ asked = Under) \/ (asked = Nobody /\ untold # 0)
    /\ AtTerminal =>
        /\ \A k \in DOMAIN events : events[k].kind = "CharacterList" =>
            /\ untold = 0 => listed \in {<<>>, events[k].list}
            /\ Before(k, {"HandshakeComplete", "Snapshot"})
        /\ \A k \in DOMAIN actions : actions[k].kind # "RequestCharacterList"
        /\ net = "select" =>
            /\ \A k \in DOMAIN toClient : toClient[k].kind # "CharacterList"
            /\ conn # "closed" =>
                \A k \in DOMAIN toServer : toServer[k].kind # "RequestCharacterList"

IInv ==
    /\ TypeOK /\ InStep
    /\ EventShape /\ PhaseShape /\ ActionShape /\ StreamShape /\ ListShape

(* A deletion is asked for twice: the character deleted is the one the     *)
(* question on the screen named, the one under the cursor when d was       *)
(* pressed before, whatever replies came in between.  Two things move the  *)
(* question to another character without a key: a creation, to the new     *)
(* one, and a list that differs from the one shown, because of a change    *)
(* this client was not told of.  Then the second d deletes a character     *)
(* nobody was asked about: after a logout, with the first d pressed on the *)
(* old list, on the screen between HandshakeComplete and CharacterList.    *)
DeletedWasAsked ==
    [][\A i \in Ids : actions' = Append(actions, Of("DeleteCharacter", i))
         => asked = i \/ (asked = Nobody /\ untold # 0)]_vars

(* A script gets into the world or ends by itself, unless the server fails *)
(* one of its requests, as it does when the character selected was deleted *)
(* elsewhere, or leaves it unanswered.                                     *)
ScriptGetsIn == stage = "wait" ~> stage # "wait" \/ failed

(* What happened to the session gets to the screen, again and again: a     *)
(* connection ends on the character selection or on Disconnected, unless   *)
(* the task ended without a word or the server does not answer, and a lost *)
(* session is shown.                                                       *)
ScreenCatchesUp ==
    []<>(/\ screen # "Connecting" \/ net = "quit" \/ failed \/ stage = "over"
         /\ net = "lost" => screen = "Disconnected" \/ stage = "over")
=============================================================================

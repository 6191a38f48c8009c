--------------------------- MODULE SnapshotBridge ---------------------------
(***************************************************************************)
(* The way of a player's snapshots: from the zone thread, which never      *)
(* waits, through a bounded std channel, an OS thread and a bounded tokio  *)
(* channel to the connection task (make_snapshot_bridge), on to the        *)
(* client's UDP socket, and there into ClientApp.  A snapshot is known by  *)
(* its tick.                                                               *)
(*                                                                         *)
(* The channel to the UDP dispatch task, which only adds a delay, is left  *)
(* out: a datagram goes from the connection task to the network, which may *)
(* lose, repeat and reorder it.                                            *)
(***************************************************************************)
EXTENDS Naturals, Sequences

CONSTANTS
    Capacity,  \* slots of each of the two channels (32 in run_tcp_listener)
    MaxTick    \* bounds Zone::tick

ASSUME CapacityAssumption == Capacity \in Nat \ {0}
ASSUME MaxTickAssumption == MaxTick \in Nat

VARIABLES
    tick,    \* Zone::tick
    sender,  \* std_tx, in Zone::connections: "held" or "dropped"
    std,     \* the std channel
    hand,    \* the snapshot the bridge thread took off it, or None
    thread,  \* the bridge thread: "running" or "done"
    tok,     \* the tokio channel
    conn,    \* the connection task: "running" or "ended"
    last,    \* history: the last snapshot it forwarded
    net,     \* datagrams on the network
    shown    \* ClientApp::last_tick

pipeVars == <<std, hand, thread>>
vars == <<tick, sender, pipeVars, tok, conn, last, net, shown>>

None == 0

Init ==
    /\ tick = 0
    /\ sender = "held"
    /\ std = <<>>
    /\ hand = None
    /\ thread = "running"
    /\ tok = <<>>
    /\ conn = "running"
    /\ last = 0
    /\ net = {}
    /\ shown = 0
------------------------------------------------------------------------------
(***************************************************************************)
(* The zone thread.                                                        *)
(***************************************************************************)
\* Mutant: the snapshot goes in twice, as on a retry.
QueuedTwice(t) == Append(Append(std, t), t)

\* try_send drops a snapshot for which there is no room.
Queued(t) == IF Len(std) < Capacity THEN Append(std, t) ELSE std

\* One tick: advance the counter, then dispatch_snapshots.  A player whose
\* channel has hung up is removed, and the sender with it.
Dispatch ==
    /\ sender = "held"
    /\ tick < MaxTick
    /\ tick' = tick + 1
    /\ IF thread = "done"
       THEN sender' = "dropped" /\ UNCHANGED std
       ELSE std' = Queued(tick') /\ UNCHANGED sender
    /\ UNCHANGED <<hand, thread, tok, conn, last, net, shown>>

\* The zone thread ends, at shutdown or in a panic.
ZoneEnds ==
    /\ sender = "held"
    /\ sender' = "dropped"
    /\ UNCHANGED <<tick, pipeVars, tok, conn, last, net, shown>>
------------------------------------------------------------------------------
(***************************************************************************)
(* The bridge thread.                                                      *)
(***************************************************************************)
ThreadRecv ==
    /\ thread = "running"
    /\ hand = None
    /\ std # <<>>
    /\ hand' = Head(std)
    /\ std' = Tail(std)
    /\ UNCHANGED <<tick, sender, thread, tok, conn, last, net, shown>>

\* blocking_send waits for room in the channel, and fails once the connection
\* task has dropped its receiver: the thread breaks and drops std_rx.
ThreadSend ==
    /\ hand # None
    /\ \/ /\ conn = "running"
          /\ Len(tok) < Capacity
          /\ tok' = Append(tok, hand)
          /\ UNCHANGED <<std, thread>>
       \/ /\ conn = "ended"
          /\ thread' = "done"
          /\ std' = <<>>
          /\ UNCHANGED tok
    /\ hand' = None
    /\ UNCHANGED <<tick, sender, conn, last, net, shown>>

\* Mutant: the thread leaves snapshots behind that the zone sent before it went.
DisconnectedAtOnce == sender = "dropped"

\* Mutant: the thread outlives the zone's sender.
DisconnectedNever == FALSE

\* What recv returns Err for: no sender, and nothing left.
Disconnected == sender = "dropped" /\ std = <<>>

ThreadEnds ==
    /\ thread = "running"
    /\ hand = None
    /\ Disconnected
    /\ thread' = "done"
    /\ UNCHANGED <<tick, sender, std, hand, tok, conn, last, net, shown>>
------------------------------------------------------------------------------
(***************************************************************************)
(* The connection task.                                                    *)
(***************************************************************************)
\* forward_snapshot, as a datagram of its own.
Forward ==
    /\ conn = "running"
    /\ tok # <<>>
    /\ tok' = Tail(tok)
    /\ last' = Head(tok)
    /\ net' = net \cup {Head(tok)}
    /\ UNCHANGED <<tick, sender, pipeVars, conn, shown>>

\* The task ends, and drops its receiver: the client has gone, or the snapshot
\* channel is closed and drained.
ConnEnds ==
    /\ conn = "running"
    /\ conn' = "ended"
    /\ tok' = <<>>
    /\ UNCHANGED <<tick, sender, pipeVars, last, net, shown>>

SnapshotChannelClosed ==
    /\ thread = "done"
    /\ tok = <<>>
    /\ ConnEnds
------------------------------------------------------------------------------
(***************************************************************************)
(* The network and the client.                                             *)
(***************************************************************************)
Lose(t) ==
    /\ net' = net \ {t}
    /\ UNCHANGED <<tick, sender, pipeVars, tok, conn, last, shown>>

\* A datagram arrives, perhaps not for the last time: ServerEvent::Snapshot.
Arrive(t) ==
    /\ shown' = t
    /\ UNCHANGED <<tick, sender, pipeVars, tok, conn, last, net>>
------------------------------------------------------------------------------
Next ==
    \/ Dispatch
    \/ ZoneEnds
    \/ ThreadRecv
    \/ ThreadSend
    \/ ThreadEnds
    \/ Forward
    \/ ConnEnds
    \/ \E t \in net : Lose(t) \/ Arrive(t)

Spec == Init /\ [][Next]_vars

\* The two threads and the task run; the network and the client owe nothing.
FairSpec ==
    /\ Spec
    /\ WF_vars(ThreadRecv \/ ThreadSend \/ ThreadEnds)
    /\ WF_vars(Forward)
    /\ WF_vars(SnapshotChannelClosed)
------------------------------------------------------------------------------
(***************************************************************************)
(* Properties.                                                             *)
(***************************************************************************)
TypeOK ==
    /\ tick \in 0 .. MaxTick
    /\ sender \in {"held", "dropped"}
    /\ std \in Seq(1 .. MaxTick) /\ Len(std) <= Capacity
    /\ hand \in 0 .. MaxTick
    /\ thread \in {"running", "done"}
    /\ tok \in Seq(1 .. MaxTick) /\ Len(tok) <= Capacity
    /\ conn \in {"running", "ended"}
    /\ last \in 0 .. MaxTick
    /\ net \subseteq 1 .. MaxTick
    /\ shown \in 0 .. MaxTick

\* The snapshots of a player leave the server in the order of their ticks, and
\* none twice, however many a full channel has dropped on the way.
SentInOrder == [][Forward => last' > last]_vars

Between(s, low, high) ==
    \A j \in 1 .. Len(s) :
        /\ low < s[j] /\ s[j] <= high
        /\ \A k \in 1 .. j - 1 : s[k] < s[j]

\* The newest snapshot past the channel s, which starts after low.
Newest(s, low) == IF s = <<>> THEN low ELSE s[Len(s)]

SentOn == Newest(tok, last)

Taken == IF hand = None THEN SentOn ELSE hand

\* Downstream is older, from the connection task back to the zone: what makes
\* SentInOrder inductive.
Ordered ==
    /\ Between(tok, last, tick)
    /\ hand # None => SentOn < hand
    /\ Taken <= tick
    /\ Between(std, Taken, tick)

\* A bridge thread that has ended holds nothing.
Emptied == thread = "done" => hand = None /\ std = <<>>

IInv == TypeOK /\ Ordered /\ Emptied

\* A zone that is gone ends the connection: nobody plays on without snapshots.
ZoneGoneEndsConnection == sender = "dropped" ~> conn = "ended"

\* No bridge thread is left behind: with its connection gone, the first
\* snapshot it has to forward ends it, and the drop of the sender does.
NoThreadLeaks ==
    conn = "ended" /\ (sender = "dropped" \/ hand # None \/ std # <<>>) ~> thread = "done"

\* The two channels and the thread implement a bridge as Session uses it.
BridgeState ==
    IF thread = "done" THEN "closed"
    ELSE IF hand # None \/ std # <<>> THEN "loaded" ELSE "open"

Abstract == INSTANCE Bridge WITH
    zone <- IF sender = "held" THEN "holds" ELSE "gone",
    bridge <- BridgeState,
    client <- conn

ImplementsBridge == Abstract!Spec
=============================================================================

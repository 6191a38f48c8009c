------------------------------- MODULE Bridge -------------------------------
(***************************************************************************)
(* What a snapshot bridge promises to the zone thread and the connection   *)
(* task at its ends, without its two channels and its OS thread: it is     *)
(* "loaded" while it has something to forward, and it closes only after    *)
(* one of its ends has gone, by the next snapshot it has to forward when   *)
(* that end is the connection task.  This is what Session.tla takes a      *)
(* bridge for, and what SnapshotBridge.tla is shown to implement.          *)
(***************************************************************************)
VARIABLES
    zone,    \* "holds" the sending end, or is "gone"
    bridge,  \* "open", "loaded" or "closed"
    client   \* the connection task: "running" or "ended"

vars == <<zone, bridge, client>>

Init ==
    /\ zone = "holds"
    /\ bridge = "open"
    /\ client = "running"

Send ==
    /\ zone = "holds"
    /\ bridge = "open"
    /\ bridge' = "loaded"
    /\ UNCHANGED <<zone, client>>

\* The zone removes the player, or ends itself.
LetGo ==
    /\ zone = "holds"
    /\ zone' = "gone"
    /\ UNCHANGED <<bridge, client>>

Forward ==
    /\ bridge = "loaded"
    /\ bridge' = IF client = "ended" THEN "closed" ELSE "open"
    /\ UNCHANGED <<zone, client>>

Close ==
    /\ zone = "gone"
    /\ bridge = "open"
    /\ bridge' = "closed"
    /\ UNCHANGED <<zone, client>>

End ==
    /\ client = "running"
    /\ client' = "ended"
    /\ UNCHANGED <<zone, bridge>>

Next == Send \/ LetGo \/ Forward \/ Close \/ End

Spec == Init /\ [][Next]_vars
=============================================================================

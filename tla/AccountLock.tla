----------------------------- MODULE AccountLock -----------------------------
(***************************************************************************)
(* What the game server promises about accounts, without any of its tasks, *)
(* channels or timeouts: a session takes the lock of an account before its *)
(* entity is placed in the world, keeps it while it plays, and gives it up *)
(* only once it has left.  Session.tla is shown to implement this module.  *)
(***************************************************************************)
CONSTANTS Accounts, Sessions

VARIABLES
    held,   \* the pairs <<a, s>>: session s holds the lock of account a
    world   \* the sessions with an entity in a zone and a client task behind it

vars == <<held, world>>

Init ==
    /\ held = {}
    /\ world = {}

Acquire(a, s) ==
    /\ \A p \in held : p[1] # a /\ p[2] # s
    /\ held' = held \cup {<<a, s>>}
    /\ UNCHANGED world

Enter(a, s) ==
    /\ <<a, s>> \in held
    /\ world' = world \cup {s}
    /\ UNCHANGED held

Leave(s) ==
    /\ s \in world
    /\ world' = world \ {s}
    /\ UNCHANGED held

Release(a, s) ==
    /\ <<a, s>> \in held
    /\ s \notin world
    /\ held' = held \ {<<a, s>>}
    /\ UNCHANGED world

Next ==
    \E s \in Sessions :
        \/ Leave(s)
        \/ \E a \in Accounts : Acquire(a, s) \/ Enter(a, s) \/ Release(a, s)

Spec == Init /\ [][Next]_vars
------------------------------------------------------------------------------
(***************************************************************************)
(* The account lock is a lock: no two sessions hold the same account, and  *)
(* a session in the world holds one (the duplicate-login check of          *)
(* run_tcp_listener, read as a mutual-exclusion promise).                  *)
(***************************************************************************)
MutualExclusion ==
    /\ \A p, q \in held : p[1] = q[1] => p = q
    /\ \A s \in world : \E a \in Accounts : <<a, s>> \in held
==============================================================================

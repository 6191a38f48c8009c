--------------------------- MODULE CharacterTable ---------------------------
(***************************************************************************)
(* What a table of characters promises to those who use it: a character    *)
(* has an owner and a name for its whole life, no two characters have      *)
(* names of one class, no account owns more than Limit, and a character    *)
(* goes only by an explicit deletion, or with everything else when the     *)
(* table does not outlive its process.                                     *)
(***************************************************************************)
EXTENDS Naturals, FiniteSets

CONSTANTS
    Accounts, Names,
    Class,     \* Class[n]: names of one class exclude each other
    Limit,     \* characters an account may own
    Volatile   \* TRUE when the table is lost with its process

VARIABLES
    table,     \* the characters
    nextId     \* ids below have been given to a character once

Characters == [id : Nat, owner : Accounts, name : Names]

Init == table = {} /\ nextId = 1

(* A character is made: a fresh id, a free name, and room at its owner. *)
Create(a, n) ==
    /\ nextId' = nextId + 1
    /\ table' = table \cup {[id |-> nextId, owner |-> a, name |-> n]}
    /\ \A c \in table : Class[c.name] # Class[n]
    /\ Cardinality({c \in table : c.owner = a}) < Limit

Delete(c) == table' = table \ {c} /\ UNCHANGED nextId

(* Another table has taken an id from the common source of ids. *)
SkipId == nextId' = nextId + 1 /\ UNCHANGED table

Lose == Volatile /\ table' = {} /\ UNCHANGED nextId

Next ==
    \/ \E a \in Accounts, n \in Names : Create(a, n)
    \/ \E c \in table : Delete(c)
    \/ SkipId
    \/ Lose

Spec == Init /\ [][Next]_<<table, nextId>>
=============================================================================

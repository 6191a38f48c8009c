------------------------------ MODULE MCStore ------------------------------
(* Instances of CharacterStore: Ann and ann are one name but for case. *)
EXTENDS CharacterStore, TLC

CONSTANTS Ann, ann, bo, bad

MCFold == [n \in Names |-> IF n \in {Ann, ann} THEN "ann" ELSE IF n = bo THEN "bo" ELSE "bad"]

(* No definition tells one account from another, nor Ann from ann. *)
AccountsAndCases ==
    {f @@ g : f \in Permutations(Accounts), g \in Permutations({Ann, ann})}
=============================================================================

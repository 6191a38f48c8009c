------------------------------ MODULE MCSession ------------------------------
(***************************************************************************)
(* Session for TLC.  Accounts are interchangeable; sessions are not, since *)
(* the listener accepts them in the order of their entity ids.             *)
(***************************************************************************)
EXTENDS Session, TLC

AccountSymmetry == Permutations(Accounts)
==============================================================================

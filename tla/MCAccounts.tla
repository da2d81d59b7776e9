---------------------------- MODULE MCAccounts ----------------------------
(***************************************************************************)
(* A small instance of Accounts for TLC.                                   *)
(***************************************************************************)
EXTENDS Accounts, TLC

CONSTANTS root, guest, old, new, other, t1, t2

InOrder == root :> 1 @@ guest :> 2

\* Request threads are alike, and so are the passwords somebody chose.
Symmetric == Permutations(Threads) \cup Permutations(Passwords \ {DefaultPassword})
=============================================================================

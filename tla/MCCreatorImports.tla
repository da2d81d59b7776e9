------------------------- MODULE MCCreatorImports -------------------------
(***************************************************************************)
(* Small instances of CreatorImports for TLC.                              *)
(***************************************************************************)
EXTENDS CreatorImports

CONSTANTS j1, j2, u1, k1

OneJob   == {j1}
TwoJobs  == {j1, j2}
Alone    == [j \in OneJob |-> u1]
SameUid  == [j \in TwoJobs |-> u1]
=============================================================================

-------------------------- MODULE MCDockerExport --------------------------
(***************************************************************************)
(* Small instances of DockerExport for TLC.                                *)
(***************************************************************************)
EXTENDS DockerExport, TLC

CONSTANTS l1, l2

Symmetric == Permutations(Launchers)

\* Nothing is promised after a disturbance.
Undisturbed == ~disturbed
=============================================================================

---------------------------- MODULE MCLauncher ----------------------------
(***************************************************************************)
(* Small instances of Launcher for TLC.                                    *)
(***************************************************************************)
EXTENDS Launcher

CONSTANTS l1, l2, r1, r2, s1, s2
=============================================================================

-------------------------- MODULE MCMediaLibrary --------------------------
(***************************************************************************)
(* Small instances of MediaLibrary for TLC.                                *)
(***************************************************************************)
EXTENDS MediaLibrary

CONSTANTS k1, k2, g1, g2, c1, c2
=============================================================================

-------------------------- MODULE MCDeviceExports --------------------------
(***************************************************************************)
(* Small instances of DeviceExports for TLC.                               *)
(***************************************************************************)
EXTENDS DeviceExports

CONSTANTS a, b, k1, c1, c2

\* Two tasks of one user for one work: the second is created when the first
\* is not in its way.
OneKey == [t \in Tasks |-> k1]
=============================================================================

---------------------------- MODULE MCTaskQueue ----------------------------
(***************************************************************************)
(* Small instances of TaskQueue for TLC.                                   *)
(***************************************************************************)
EXTENDS TaskQueue, TLC

CONSTANTS t1, t2, t3, k1, k2, o1, w1, w2, c1, c2

OneTask  == {t1}
OneKey   == [t \in OneTask |-> k1]
OneUser1 == [t \in OneTask |-> o1]

\* Two tasks of one account, the second downloads what the first did.
TwoTasks == {t1, t2}
SameKey  == [t \in TwoTasks |-> k1]
OneUser2 == [t \in TwoTasks |-> o1]

\* Two tasks of one account with keys of their own.
OwnKeys == [t \in TwoTasks |-> IF t = t1 THEN k1 ELSE k2]

\* Threads are interchangeable; used by the runs that check invariants only.
ThreadSymmetry == Permutations(Workers) \cup Permutations(Clients)

\* So are two tasks of one owner that have keys of their own.
FullSymmetry == ThreadSymmetry \cup Permutations(Tasks)
=============================================================================

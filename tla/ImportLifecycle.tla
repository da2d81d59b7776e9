-------------------------- MODULE ImportLifecycle --------------------------
(***************************************************************************)
(* What the import manager promises about the jobs an administrator sees:  *)
(* one job runs at a time, one job of a creator is alive at a time, and a  *)
(* job that was completed or cancelled stays so.  No pages, items, locks   *)
(* or worker thread.  CreatorImports is shown to implement this.           *)
(***************************************************************************)
EXTENDS Naturals

CONSTANTS Jobs, UidOf

VARIABLE status

Running    == {"discovering", "enqueuing", "stopping"}
Alive      == Running \cup {"waiting"}
Ended      == {"completed", "partial", "failed", "cancelled"}
JobStates  == Alive \cup Ended \cup {"new"}

Becomes(j, s) == status' = [status EXCEPT ![j] = s]

\* Another job of the creator of j waits or runs.
UidTaken(j) == \E i \in Jobs \ {j} : UidOf[i] = UidOf[j] /\ status[i] \in Alive

LifeInit == status = [j \in Jobs |-> "new"]

\* A request is accepted, or a failed or partial job is taken up again.
Accept(j) ==
  /\ status[j] \in {"new", "failed", "partial"}
  /\ ~UidTaken(j)
  /\ Becomes(j, "waiting")

\* A job leaves the line only when nothing runs.
Begin(j) ==
  /\ status[j] = "waiting"
  /\ \A i \in Jobs : status[i] \notin Running
  /\ \E s \in {"discovering", "enqueuing"} : Becomes(j, s)

\* A running job goes on, is asked to stop, or ends.
Proceed(j) ==
  /\ status[j] \in Running
  /\ \E s \in {"enqueuing", "stopping"} \cup Ended : Becomes(j, s)

\* A job that waits is cancelled at once; so may be a job that just failed,
\* when the service stops.
Drop(j) == status[j] \in {"waiting", "failed"} /\ Becomes(j, "cancelled")

\* The service stops: nothing waits any more, the running job is asked to stop.
Shutdown ==
  status' = [j \in Jobs |-> IF status[j] = "waiting" THEN "cancelled"
                            ELSE IF status[j] \in Running THEN "stopping"
                            ELSE status[j]]

LifeNext ==
  \/ \E j \in Jobs : Accept(j) \/ Begin(j) \/ Proceed(j) \/ Drop(j)
  \/ Shutdown

LifeSpec == LifeInit /\ [][LifeNext]_status
=============================================================================

--------------------------- MODULE TaskLifecycle ---------------------------
(***************************************************************************)
(* What a download queue promises about each task while the service is up: *)
(* the life of one task as its owner may see it, with no threads, locks or *)
(* queues.  TaskQueue is shown to implement this specification.            *)
(***************************************************************************)
EXTENDS TaskStates

CONSTANT Tasks

VARIABLES status, phase

lifeVars == <<status, phase>>

LifeInit ==
  /\ status = [t \in Tasks |-> "new"]
  /\ phase  = [t \in Tasks |-> "none"]

\* Task t is in public state <<s, p>>.
In(t, s, p) == status[t] = s /\ phase[t] = p

\* One task moves to a public state; the others keep theirs or, when they
\* are finished, may be forgotten to keep the history bounded.
Becomes(t, s, p) ==
  \E lost \in SUBSET {u \in Tasks \ {t} : status[u] \in Terminal} :
    /\ status' = [u \in Tasks |->
                    IF u = t THEN s ELSE IF u \in lost THEN "dropped" ELSE status[u]]
    /\ phase'  = [u \in Tasks |->
                    IF u = t THEN p ELSE IF u \in lost THEN "none" ELSE phase[u]]

\* A batch becomes visible in one step: some members queue, the others are
\* recorded as skipped (and the oldest history may go).
Publish ==
  \E queued \in SUBSET Tasks, skipped \in SUBSET Tasks, lost \in SUBSET Tasks :
    /\ queued \cap skipped = {}
    /\ \A t \in queued \cup skipped : status[t] = "new"
    /\ \A t \in lost : t \in skipped \/ status[t] \in Terminal
    /\ status' = [t \in Tasks |->
                    IF t \in lost THEN "dropped"
                    ELSE IF t \in queued THEN "queued"
                    ELSE IF t \in skipped THEN "skipped" ELSE status[t]]
    /\ phase'  = [t \in Tasks |->
                    IF t \in lost THEN "none"
                    ELSE IF t \in queued THEN "queued"
                    ELSE IF t \in skipped THEN "skipped" ELSE phase[t]]

Start(t) == In(t, "queued", "queued") /\ Becomes(t, "running", "resolving")

\* Progress is shown only while nobody has asked the task to stop.
Advance(t) ==
  /\ status[t] = "running" /\ phase[t] \in Working
  /\ \E p \in Working : Becomes(t, "running", p)

\* A pause may later be upgraded to a cancellation, never the reverse.
AskPause(t)  == status[t] = "running" /\ phase[t] \in Working
                /\ Becomes(t, "running", "pausing")
AskCancel(t) == status[t] = "running" /\ phase[t] \in Working \cup {"pausing"}
                /\ Becomes(t, "running", "cancelling")

\* A task that never ran stops at once.
StopQueued(t) ==
  /\ In(t, "queued", "queued")
  /\ \/ Becomes(t, "cancelled", "paused")
     \/ Becomes(t, "cancelled", "cancelled")

\* The only way out of "running".  A task ends paused only if the last stop
\* it accepted was a pause.
Finish(t) ==
  /\ status[t] = "running"
  /\ \/ Becomes(t, "success", "completed")
     \/ Becomes(t, "failed", "failed")
     \/ phase[t] # "pausing" /\ Becomes(t, "cancelled", "cancelled")
     \/ phase[t] = "pausing" /\ Becomes(t, "cancelled", "paused")

Retry(t)  == status[t] \in Terminal /\ Becomes(t, "queued", "queued")
Forget(t) == status[t] \in Terminal /\ Becomes(t, "dropped", "none")

LifeNext ==
  \/ Publish
  \/ \E t \in Tasks : \/ Start(t) \/ Advance(t) \/ AskPause(t) \/ AskCancel(t)
                      \/ StopQueued(t) \/ Finish(t) \/ Retry(t) \/ Forget(t)

LifeSpec == LifeInit /\ [][LifeNext]_lifeVars
=============================================================================

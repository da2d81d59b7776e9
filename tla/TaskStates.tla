----------------------------- MODULE TaskStates -----------------------------
(***************************************************************************)
(* The public status and phase vocabulary of a download task (app/queue.py,*)
(* app/constants.py, app/progress.py).  A task identity that was never     *)
(* published has status "new"; one removed from the queue has status       *)
(* "dropped": both stand for "not in TaskQueue._tasks".                    *)
(***************************************************************************)

Active   == {"queued", "running"}
Terminal == {"success", "skipped", "failed", "cancelled"}   \* TERMINAL_STATUSES
Unknown  == {"new", "dropped"}
Statuses == Active \cup Terminal \cup Unknown

(***************************************************************************)
(* Phases of a running task.  The five download and mux phases of          *)
(* PHASE_LABELS behave alike and are the one phase "downloading".          *)
(***************************************************************************)
Working  == {"resolving", "quality_check", "downloading", "finalizing"}
Stopping == {"pausing", "cancelling"}
Final    == {"completed", "failed", "cancelled", "paused", "skipped"}
Phases   == {"none", "queued"} \cup Working \cup Stopping \cup Final

Intents  == {"pause", "cancel"}
=============================================================================

----------------------------- MODULE TaskQueue -----------------------------
(***************************************************************************)
(* app/queue.py: one TaskQueue with its worker threads, the HTTP request   *)
(* threads that call it, the semaphore that bounds concurrent downloads,   *)
(* the snapshot notifications and the SQLite rows they keep (the callback  *)
(* is TaskStore.save_task_snapshot, app/task_store.py).                    *)
(*                                                                         *)
(* Each action is one critical section of the queue's lock, or one step a  *)
(* thread takes outside it.  A thread that appended a notification owes a  *)
(* flush: it does nothing else until _flush_notifications found the deque  *)
(* empty.                                                                  *)
(*                                                                         *)
(* An operator named ..._Mutant... is a wrong version of the operator that *)
(* follows it, as a slip in the code would give; no specification uses it. *)
(***************************************************************************)
EXTENDS TaskStates, Naturals, SequencesExt

CONSTANTS
  Tasks,        \* task identities (uuid4: one is published at most once)
  NoTask,
  Keys,         \* queue keys: a public source key, or one per owner and source
  KeyOf,        \* the key each task downloads
  Owners,
  OwnerOf,      \* the account each task belongs to
  OwnerLimit,   \* NORMAL_USER_ACTIVE_TASK_LIMIT
  Workers,      \* download threads of the queue
  Clients,      \* HTTP request threads
  MaxPending,   \* max_pending, the limit on active tasks
  MaxHistory,   \* max_history, the limit on tasks kept in memory
  Slots,        \* permits of the execution semaphore
  MaxBatch,     \* bound: targets in one enqueue call
  MaxRetries,   \* bound: retry requests in a behaviour
  MaxRestarts,  \* bound: process restarts in a behaviour
  LossyTasks    \* bound: tasks whose snapshots the store may fail to save

ASSUME TasksAssumption ==
  /\ NoTask \notin Tasks
  /\ IsFiniteSet(Tasks)
  /\ KeyOf \in [Tasks -> Keys]
  /\ OwnerOf \in [Tasks -> Owners]

ASSUME ThreadsAssumption == IsFiniteSet(Workers) /\ Workers \cap Clients = {}

\* AppState.create passes max_history = 5000 and leaves max_pending at 100.
ASSUME LimitsAssumption ==
  /\ MaxPending \in Nat \ {0} /\ MaxHistory \in Nat /\ MaxHistory >= MaxPending
  /\ Slots \in Nat \ {0} /\ OwnerLimit \in Nat
  /\ MaxBatch \in Nat /\ MaxRetries \in Nat /\ MaxRestarts \in Nat
  /\ LossyTasks \subseteq Tasks

VARIABLES
  status, phase,  \* the public fields of each task in _tasks
  signalled,      \* tasks whose cancel event is set: _cancel_events[t].is_set()
  pauseReq,       \* _pause_requested
  qualityErr,     \* tasks whose quality_error is set
  pending,        \* _pending
  history,        \* _order restricted to terminal tasks, oldest first
  stopping,       \* _stop
  notifs,         \* _pending_notifications
  owesFlush,      \* threads inside or about to enter _flush_notifications
  db,             \* the task_records row of each task
  slots,          \* free permits of execution_semaphore
  holding,        \* workers that hold a permit
  wpc, wtask,     \* where each worker is, and its task
  workDir,        \* tasks whose .bili_tmp directory exists
  artifact,       \* tasks whose media were promoted and indexed
  cpc, cop, ctask, reply,  \* where each request is, its operation, task, answer
  retries, restarts        \* counters for the bounds

taskVars   == <<status, phase, signalled, pauseReq, qualityErr>>
queueVars  == <<pending, history>>
storeVars  == <<notifs, owesFlush, db>>
slotVars   == <<slots, holding>>
workerVars == <<wpc, wtask>>
fileVars   == <<workDir, artifact>>
clientVars == <<cpc, cop, ctask, reply>>
bounds     == <<retries, restarts>>
vars == <<taskVars, queueVars, stopping, storeVars, slotVars, workerVars,
          fileVars, clientVars, bounds>>

Threads == Workers \cup Clients

ActiveTasks == {t \in Tasks : status[t] \in Active}
ActiveOf(o) == {t \in ActiveTasks : OwnerOf[t] = o}
ActiveKeys_MutantRunningOnly == {KeyOf[t] : t \in {u \in Tasks : status[u] = "running"}}
ActiveKeys  == {KeyOf[t] : t \in ActiveTasks}

-----------------------------------------------------------------------------
(* Notifications.                                                          *)

Snapshot(t, s, p) == [task |-> t, status |-> s, phase |-> p]
Dropped(t) == Snapshot(t, "dropped", "none")

Notify_MutantNoFlush(a, ns) == notifs' = notifs \o ns /\ UNCHANGED owesFlush

\* Thread a appends the notifications ns and will flush them.
Notify(a, ns) ==
  /\ notifs' = notifs \o ns
  /\ owesFlush' = owesFlush \cup {a}

\* Thread a may go on: every flush it owed is over.
Free(a) == a \notin owesFlush

Persist_MutantThrottlesAll(n) ==
  IF db[n.task].status = "running" THEN UNCHANGED db
  ELSE db' = [db EXCEPT ![n.task] = [status |-> n.status, phase |-> n.phase]]

(***************************************************************************)
(* save_task_snapshot: deletion on None, otherwise an upsert, except that  *)
(* a "running" snapshot that follows another one within a second is        *)
(* skipped.  The callback's exceptions are swallowed.                      *)
(***************************************************************************)
Persist(n) ==
  \/ db' = [db EXCEPT ![n.task] = [status |-> n.status, phase |-> n.phase]]
  \/ /\ n.status = "running" /\ db[n.task].status = "running"
     /\ UNCHANGED db
  \/ n.task \in LossyTasks /\ UNCHANGED db

\* One iteration of _flush_notifications.  Which of the flushing threads runs
\* it does not matter: _notification_lock admits one at a time.
FlushOne ==
  /\ owesFlush # {} /\ notifs # <<>>
  /\ Persist(Head(notifs))
  /\ notifs' = Tail(notifs)
  /\ UNCHANGED <<taskVars, queueVars, stopping, owesFlush, slotVars, workerVars,
                 fileVars, clientVars, bounds>>

Flushed_MutantOneRound == TRUE
Flushed == notifs = <<>>

FlushDone(a) ==
  /\ a \in owesFlush /\ Flushed
  /\ owesFlush' = owesFlush \ {a}
  /\ UNCHANGED <<taskVars, queueVars, stopping, notifs, db, slotVars, workerVars,
                 fileVars, clientVars, bounds>>

-----------------------------------------------------------------------------
(* History.                                                                *)

\* _order.remove
Unlisted(t) == RemoveFirst(history, t)

(***************************************************************************)
(* _trim_history_locked, after which active tasks number n and h holds the *)
(* terminal ones: the oldest terminal tasks go while more than MaxHistory  *)
(* are remembered.                                                         *)
(***************************************************************************)
TrimCount_MutantLate(n, h) ==
  IF n + Len(h) <= MaxHistory + 1 THEN 0 ELSE n + Len(h) - (MaxHistory + 1)
TrimCount(n, h) ==
  IF n + Len(h) <= MaxHistory THEN 0
  ELSE IF n >= MaxHistory THEN Len(h)
  ELSE n + Len(h) - MaxHistory
Trimmed(n, h) == SubSeq(h, 1, TrimCount(n, h))
Kept(n, h)    == SubSeq(h, TrimCount(n, h) + 1, Len(h))

DroppedNotes(q) == [i \in 1..Len(q) |-> Dropped(q[i])]

\* _drop_task_locked for the tasks in S, on the functions st (status) and ph.
DropStatus(st, S) == [t \in Tasks |-> IF t \in S THEN "dropped" ELSE st[t]]
DropPhase(ph, S)  == [t \in Tasks |-> IF t \in S THEN "none" ELSE ph[t]]

(***************************************************************************)
(* The end of every step that makes t terminal: t becomes the most recent  *)
(* entry of the history, the history is trimmed, and the snapshot of t is  *)
(* notified after the deletions the trimming caused.  sig is the set of    *)
(* signalled tasks at that point.                                          *)
(***************************************************************************)
Settle(a, t, s, p, sig) ==
  LET n == Cardinality(ActiveTasks \ {t})
      h == Append(Unlisted(t), t)
      gone == ToSet(Trimmed(n, h))
  IN /\ status' = DropStatus([status EXCEPT ![t] = s], gone)
     /\ phase'  = DropPhase([phase EXCEPT ![t] = p], gone)
     /\ history' = Kept(n, h)
     /\ Notify(a, DroppedNotes(Trimmed(n, h)) \o <<Snapshot(t, s, p)>>)
     /\ pauseReq' = (pauseReq \ {t}) \ gone
     /\ signalled' = sig \ gone

-----------------------------------------------------------------------------
(* Requests.                                                               *)

\* Answers: "done" by a request that changed the queue, "seen" by one that found
\* what it asked for, "refused" otherwise.
Answer(c, r) ==
  /\ cpc' = [cpc EXCEPT ![c] = "reply"]
  /\ reply' = [reply EXCEPT ![c] = r]

Begins(c, op, t) ==
  /\ cpc[c] = "idle" /\ Free(c) /\ ~stopping
  /\ cop' = [cop EXCEPT ![c] = op]
  /\ ctask' = [ctask EXCEPT ![c] = t]

\* The response is sent once the request's flush is over.
EndRequest(c) ==
  /\ cpc[c] = "reply" /\ Free(c)
  /\ cpc' = [cpc EXCEPT ![c] = "idle"]
  /\ cop' = [cop EXCEPT ![c] = "none"]
  /\ ctask' = [ctask EXCEPT ![c] = NoTask]
  /\ reply' = [reply EXCEPT ![c] = "none"]
  /\ UNCHANGED <<taskVars, queueVars, stopping, storeVars, slotVars, workerVars,
                 fileVars, bounds>>

\* The plan enqueue makes under the lock: fresh targets are queued, dups are
\* recorded as skipped because their key is active, is planned earlier in the
\* batch, or has a valid file in the media index (external to this module).
Plan(fresh, dups) ==
  /\ Len(fresh) + Len(dups) > 0
  /\ \A i, j \in DOMAIN fresh : KeyOf[fresh[i]] = KeyOf[fresh[j]] => i = j
  /\ \A i \in DOMAIN fresh : KeyOf[fresh[i]] \notin ActiveKeys
  /\ IsInjective(dups)
  /\ ToSet(fresh) \cap ToSet(dups) = {}
  /\ \A t \in ToSet(fresh) \cup ToSet(dups) : status[t] = "new"

Fits(fresh, o) ==
  /\ Cardinality(ActiveTasks) + Len(fresh) <= MaxPending
  /\ Cardinality(ActiveOf(o)) + Len(fresh) <= OwnerLimit

(***************************************************************************)
(* enqueue: the whole batch is published in one critical section.  In a    *)
(* strict call nothing is skipped and register_task_batch has committed    *)
(* the rows of the batch, in one transaction, before the tasks appear.     *)
(***************************************************************************)
Enqueue(c, fresh, dups, strict) ==
  LET queued == ToSet(fresh)
      skipped == ToSet(dups)
      new == queued \cup skipped
      n == Cardinality(ActiveTasks) + Len(fresh)
      h == history \o dups
      gone == ToSet(Trimmed(n, h))
      stat == [t \in Tasks |-> IF t \in queued THEN "queued"
                               ELSE IF t \in skipped THEN "skipped" ELSE status[t]]
      phas == [t \in Tasks |-> IF t \in queued THEN "queued"
                               ELSE IF t \in skipped THEN "skipped" ELSE phase[t]]
      created == fresh \o dups
  IN /\ strict => dups = <<>>
     /\ Begins(c, "enqueue", created[1])
     /\ Plan(fresh, dups)
     /\ \E o \in Owners : (\A t \in new : OwnerOf[t] = o) /\ Fits(fresh, o)
     /\ Answer(c, "done")
     /\ status' = DropStatus(stat, gone)
     /\ phase' = DropPhase(phas, gone)
     /\ signalled' = (signalled \ queued) \ gone
     /\ pauseReq' = pauseReq \ gone
     /\ pending' = pending \o fresh
     /\ history' = Kept(n, h)
     /\ Notify(c, [i \in DOMAIN created |->
                     Snapshot(created[i], stat[created[i]], phas[created[i]])]
                  \o DroppedNotes(Trimmed(n, h)))
     /\ db' = [t \in Tasks |-> IF strict /\ t \in queued
                               THEN [status |-> "queued", phase |-> "queued"] ELSE db[t]]
     /\ UNCHANGED <<qualityErr, stopping, slotVars, workerVars, fileVars, bounds>>

\* _record_for_request: an action on a task is answered 404 unless its row exists.
Found(t) == db[t].status \notin Unknown

\* What the locked first half of cancel_task and pause answers at once, if
\* anything.
StopAnswer(op, s, p) ==
  IF s \in Unknown THEN "refused"
  ELSE IF op = "cancel" THEN
    IF s = "cancelled" THEN (IF p = "paused" THEN "refused" ELSE "seen")
    ELSE IF s \in Terminal THEN "refused" ELSE "none"
  ELSE IF p = "paused" THEN "seen"
    ELSE IF s \in Terminal \/ p = "cancelling" THEN "refused"
    ELSE IF p = "pausing" THEN "seen" ELSE "none"

\* First half of cancel_task / pause: look, answer or go on to cancel().
RequestStop(c, op, t) ==
  /\ Begins(c, op, t) /\ Found(t)
  /\ LET r == StopAnswer(op, status[t], phase[t])
     IN IF r = "none"
        THEN cpc' = [cpc EXCEPT ![c] = "call"] /\ UNCHANGED reply
        ELSE Answer(c, r)
  /\ UNCHANGED <<taskVars, queueVars, stopping, storeVars, slotVars, workerVars,
                 fileVars, bounds>>

TooLate(op, s, p) ==
  \/ s \in Terminal \cup Unknown
  \/ s = "running" /\ op = "pause" /\ p = "cancelling"

\* Second half, the queue changed in between: cancel() finds the task ended (or
\* gone, or already cancelling) and returns True only if the end is the one asked.
StopTooLate(c) ==
  LET t == ctask[c]
      asked == IF cop[c] = "pause" THEN "paused" ELSE "cancelled"
  IN /\ cpc[c] = "call" /\ cop[c] \in Intents
     /\ TooLate(cop[c], status[t], phase[t])
     /\ IF status[t] = "cancelled" /\ phase[t] = asked
        THEN Answer(c, "seen")
        ELSE cpc' = [cpc EXCEPT ![c] = "recheck"] /\ UNCHANGED reply
     /\ UNCHANGED <<taskVars, queueVars, stopping, storeVars, slotVars, workerVars,
                    fileVars, cop, ctask, bounds>>

Recheck_MutantAsksAgain(c) ==
  /\ cpc[c] = "recheck"
  /\ cpc' = [cpc EXCEPT ![c] = "call"]
  /\ UNCHANGED <<taskVars, queueVars, stopping, storeVars, slotVars, workerVars,
                 fileVars, cop, ctask, reply, bounds>>

\* cancel() returned False: the caller reads the task again, and answers ok if
\* its status (cancel) or its phase (pause) looks right by now.
Recheck(c) ==
  LET t == ctask[c]
  IN /\ cpc[c] = "recheck"
     /\ Answer(c, IF IF cop[c] = "cancel" THEN status[t] = "cancelled"
                                         ELSE phase[t] = "paused"
                  THEN "seen" ELSE "refused")
     /\ UNCHANGED <<taskVars, queueVars, stopping, storeVars, slotVars, workerVars,
                    fileVars, cop, ctask, bounds>>

OutOfLine_MutantStays(t) == pending
\* _pending.remove
OutOfLine(t) == RemoveFirst(pending, t)

\* cancel() on a queued task: it ends here.
StopQueued(c) ==
  LET t == ctask[c]
  IN /\ cpc[c] = "call" /\ cop[c] \in Intents /\ status[t] = "queued"
     /\ Settle(c, t, "cancelled", IF cop[c] = "pause" THEN "paused" ELSE "cancelled",
               signalled \cup {t})
     /\ pending' = OutOfLine(t)
     /\ Answer(c, "done")
     /\ UNCHANGED <<qualityErr, stopping, db, slotVars, workerVars, fileVars, cop,
                    ctask, bounds>>

PauseSet_MutantKeptOnCancel(op, t) == IF op = "pause" THEN pauseReq \cup {t} ELSE pauseReq
PauseSet(op, t) == IF op = "pause" THEN pauseReq \cup {t} ELSE pauseReq \ {t}

\* cancel() on a running task only leaves the intent: the event and a phase.
StopRunning(c) ==
  LET t == ctask[c]
      p == IF cop[c] = "pause" THEN "pausing" ELSE "cancelling"
  IN /\ cpc[c] = "call" /\ cop[c] \in Intents /\ status[t] = "running"
     /\ phase[t] # "cancelling" /\ phase[t] # p
     /\ signalled' = signalled \cup {t}
     /\ pauseReq' = PauseSet(cop[c], t)
     /\ phase' = [phase EXCEPT ![t] = p]
     /\ Notify(c, <<Snapshot(t, "running", p)>>)
     /\ Answer(c, "done")
     /\ UNCHANGED <<status, qualityErr, queueVars, stopping, db, slotVars, workerVars,
                    fileVars, cop, ctask, bounds>>

\* cancel() repeated with the intent the running task already carries.
StopAgain(c) ==
  LET t == ctask[c]
  IN /\ cpc[c] = "call" /\ cop[c] \in Intents /\ status[t] = "running"
     /\ phase[t] = (IF cop[c] = "pause" THEN "pausing" ELSE "cancelling")
     /\ Answer(c, "seen")
     /\ UNCHANGED <<taskVars, queueVars, stopping, storeVars, slotVars, workerVars,
                    fileVars, cop, ctask, bounds>>

\* _apply_task_action, retry by an ordinary user: the quota is read here and
\* the task is queued by a later critical section.
RequestRetry(c, t) ==
  /\ Begins(c, "retry", t) /\ Found(t)
  /\ retries < MaxRetries /\ retries' = retries + 1
  /\ IF Cardinality(ActiveOf(OwnerOf[t])) < OwnerLimit
     THEN cpc' = [cpc EXCEPT ![c] = "call"] /\ UNCHANGED reply
     ELSE Answer(c, "refused")
  /\ UNCHANGED <<taskVars, queueVars, stopping, storeVars, slotVars, workerVars,
                 fileVars, restarts>>

Retryable(t) ==
  /\ status[t] \in Terminal
  /\ \A u \in ActiveTasks \ {t} : KeyOf[u] # KeyOf[t]
  /\ Cardinality(ActiveTasks) < MaxPending

RefuseRetry(c) ==
  /\ cpc[c] = "call" /\ cop[c] = "retry" /\ ~Retryable(ctask[c])
  /\ Answer(c, "refused")
  /\ UNCHANGED <<taskVars, queueVars, stopping, storeVars, slotVars, workerVars,
                 fileVars, cop, ctask, bounds>>

\* retry: the critical section.  The old work directory goes later.
Retry(c) ==
  LET t == ctask[c]
  IN /\ cpc[c] = "call" /\ cop[c] = "retry" /\ Retryable(t)
     /\ status' = [status EXCEPT ![t] = "queued"]
     /\ phase' = [phase EXCEPT ![t] = "queued"]
     /\ signalled' = signalled \ {t}
     /\ pauseReq' = pauseReq \ {t}
     /\ qualityErr' = qualityErr \ {t}
     /\ pending' = Append(OutOfLine(t), t)
     /\ history' = Unlisted(t)
     /\ Notify(c, <<Snapshot(t, "queued", "queued")>>)
     /\ cpc' = [cpc EXCEPT ![c] = "clean"]
     /\ UNCHANGED <<stopping, db, slotVars, workerVars, fileVars, cop, ctask, reply,
                    bounds>>

\* retry, after its flush and outside the lock: cleanup_work_dir.
RetryCleanup(c) ==
  /\ cpc[c] = "clean" /\ Free(c)
  /\ workDir' = workDir \ {ctask[c]}
  /\ Answer(c, "done")
  /\ UNCHANGED <<taskVars, queueVars, stopping, storeVars, slotVars, workerVars,
                 artifact, cop, ctask, bounds>>

\* delete_task of a terminal task; anything else is refused.
Delete(c, t) ==
  /\ Begins(c, "delete", t) /\ Found(t)
  /\ status[t] \in Terminal
  /\ status' = DropStatus(status, {t})
  /\ phase' = DropPhase(phase, {t})
  /\ signalled' = signalled \ {t}
  /\ pauseReq' = pauseReq \ {t}
  /\ history' = Unlisted(t)
  /\ Notify(c, <<Dropped(t)>>)
  /\ cpc' = [cpc EXCEPT ![c] = "purge"]
  /\ UNCHANGED <<qualityErr, pending, stopping, db, slotVars, workerVars, fileVars,
                 reply, bounds>>

\* The route then deletes the row once more: delete_task_snapshot.
PurgeRow(c) ==
  /\ cpc[c] = "purge" /\ Free(c)
  /\ db' = [db EXCEPT ![ctask[c]] = [status |-> "dropped", phase |-> "none"]]
  /\ Answer(c, "done")
  /\ UNCHANGED <<taskVars, queueVars, stopping, notifs, owesFlush, slotVars,
                 workerVars, fileVars, cop, ctask, bounds>>

-----------------------------------------------------------------------------
(* Workers.                                                                *)

At(w, pc) == wpc[w] = pc /\ Free(w)
Goto(w, pc) == wpc' = [wpc EXCEPT ![w] = pc] /\ UNCHANGED wtask

ShowPhase_MutantAlways(w, p) ==
  /\ phase' = [phase EXCEPT ![wtask[w]] = p]
  /\ Notify(w, <<Snapshot(wtask[w], status[wtask[w]], p)>>)

\* _set_phase / _set_progress: silent once the task was asked to stop.
ShowPhase(w, p) ==
  LET t == wtask[w]
  IN IF status[t] # "running" \/ phase[t] \in Stopping \/ phase[t] = p
     THEN UNCHANGED <<phase, notifs, owesFlush>>
     ELSE /\ phase' = [phase EXCEPT ![t] = p]
          /\ Notify(w, <<Snapshot(t, "running", p)>>)

(***************************************************************************)
(* _finish(task, st): the one place where a running task becomes terminal. *)
(* A cancelled task is shown as paused if the pause request still stands.  *)
(***************************************************************************)
Finish(w, st) ==
  LET t == wtask[w]
      p == IF st = "success" THEN "completed"
           ELSE IF st = "cancelled" /\ t \in pauseReq THEN "paused" ELSE st
  IN /\ Settle(w, t, st, p, signalled)
     /\ Goto(w, "finished")
     /\ UNCHANGED <<qualityErr, pending, stopping, db, clientVars, bounds>>

\* Head of the pending deque becomes running, in one critical section.  (An id
\* that is not queued would be skipped.)
PopTask(w) ==
  LET t == Head(pending)
  IN /\ At(w, "idle") /\ ~stopping /\ pending # <<>>
     /\ pending' = Tail(pending)
     /\ IF status[t] = "queued"
        THEN /\ status' = [status EXCEPT ![t] = "running"]
             /\ phase' = [phase EXCEPT ![t] = "resolving"]
             /\ wtask' = [wtask EXCEPT ![w] = t]
             /\ wpc' = [wpc EXCEPT ![w] = "waiting"]
             /\ Notify(w, <<Snapshot(t, "running", "resolving")>>)
        ELSE UNCHANGED <<status, phase, workerVars, notifs, owesFlush>>
     /\ UNCHANGED <<signalled, pauseReq, qualityErr, history, stopping, db, slotVars,
                    fileVars, clientVars, bounds>>

\* semaphore.acquire succeeded; the event is read right after.
AcquireSlot(w) ==
  /\ At(w, "waiting") /\ slots > 0
  /\ slots' = slots - 1
  /\ holding' = holding \cup {w}
  /\ IF wtask[w] \in signalled
     THEN Finish(w, "cancelled")
     ELSE /\ Goto(w, "precheck")
          /\ UNCHANGED <<taskVars, queueVars, stopping, storeVars, clientVars, bounds>>
  /\ UNCHANGED fileVars

\* semaphore.acquire timed out and the event is set.
CancelWhileWaiting(w) ==
  /\ At(w, "waiting") /\ wtask[w] \in signalled
  /\ Finish(w, "cancelled")
  /\ UNCHANGED <<slotVars, fileVars>>

\* The loop around acquire is not entered again once the queue stops: the
\* worker leaves and its task stays "running".
AbandonAtStop(w) ==
  /\ At(w, "waiting") /\ stopping
  /\ wpc' = [wpc EXCEPT ![w] = "idle"]
  /\ wtask' = [wtask EXCEPT ![w] = NoTask]
  /\ UNCHANGED <<taskVars, queueVars, stopping, storeVars, slotVars, fileVars,
                 clientVars, bounds>>

\* _run_one up to the probe: disk space, event, phase.
Precheck(w) ==
  /\ At(w, "precheck") /\ wtask[w] \notin signalled
  /\ ShowPhase(w, "quality_check")
  /\ Goto(w, "probing")
  /\ UNCHANGED <<status, signalled, pauseReq, qualityErr, queueVars, stopping, db,
                 slotVars, fileVars, clientVars, bounds>>

\* The probe succeeded: work directory, phase, and BBDown is started.
ProbeOk(w) ==
  /\ At(w, "probing") /\ wtask[w] \notin signalled
  /\ workDir' = workDir \cup {wtask[w]}
  /\ ShowPhase(w, "resolving")
  /\ Goto(w, "downloading")
  /\ UNCHANGED <<status, signalled, pauseReq, qualityErr, queueVars, stopping, db,
                 slotVars, artifact, clientVars, bounds>>

InRun == {"precheck", "probing", "downloading", "finalizing"}

\* A run that leaves "downloading" or "finalizing" without success removes the
\* work directory it made.
CleanWorkDir(w) ==
  workDir' = IF wpc[w] \in {"downloading", "finalizing"}
             THEN workDir \ {wtask[w]} ELSE workDir

StopSeen(w) == wtask[w] \in signalled \ qualityErr

RunCancelled_MutantRunsAgain(w) ==
  /\ wpc[w] \in InRun /\ Free(w) /\ StopSeen(w)
  /\ Goto(w, "precheck")
  /\ UNCHANGED <<taskVars, queueVars, stopping, storeVars, slotVars, fileVars,
                 clientVars, bounds>>

\* A step of the run, or its exception handler, finds the event set.
RunCancelled(w) ==
  /\ wpc[w] \in InRun /\ Free(w)
  /\ StopSeen(w)
  /\ CleanWorkDir(w)
  /\ Finish(w, "cancelled")
  /\ UNCHANGED <<slotVars, artifact>>

(***************************************************************************)
(* The run is given up with the event not set, or after a quality error:   *)
(* the probe or BBDown timed out or failed, a part was not verified, or an *)
(* exception (low disk, unusable directory, failed promotion or index      *)
(* write) reached the handler.  _finish follows, and asks nothing.         *)
(***************************************************************************)
RunBreaks(w) ==
  /\ wpc[w] \in InRun /\ Free(w)
  /\ wtask[w] \in signalled => wtask[w] \in qualityErr
  /\ CleanWorkDir(w)
  /\ Goto(w, "failing")
  /\ UNCHANGED <<taskVars, queueVars, stopping, storeVars, slotVars, artifact,
                 clientVars, bounds>>

FailRun(w) ==
  /\ At(w, "failing")
  /\ Finish(w, "failed")
  /\ UNCHANGED <<slotVars, fileVars>>

\* BBDown reports progress (on its reader thread, which the worker waits for).
Progress(w) ==
  /\ At(w, "downloading") /\ phase[wtask[w]] # "downloading"
  /\ ShowPhase(w, "downloading")
  /\ UNCHANGED <<status, signalled, pauseReq, qualityErr, queueVars, stopping, db, slotVars,
                 workerVars, fileVars, clientVars, bounds>>

\* _record_selected_track: the stream is not the one asked for, which sets the
\* task's cancel event.
QualityMismatch(w) ==
  /\ At(w, "downloading")
  /\ qualityErr' = qualityErr \cup {wtask[w]}
  /\ signalled' = signalled \cup {wtask[w]}
  /\ UNCHANGED <<status, phase, pauseReq, queueVars, stopping, storeVars, slotVars,
                 workerVars, fileVars, clientVars, bounds>>

\* BBDown succeeded with verified streams and no stop request was seen.
DownloadOk(w) ==
  /\ At(w, "downloading") /\ wtask[w] \notin signalled
  /\ ShowPhase(w, "finalizing")
  /\ Goto(w, "finalizing")
  /\ UNCHANGED <<status, signalled, pauseReq, qualityErr, queueVars, stopping, db, slotVars,
                 fileVars, clientVars, bounds>>

\* promote_work_dir, index.put and promotion.commit succeeded.
CommitMedia(w) ==
  /\ At(w, "finalizing") /\ wtask[w] \in workDir
  /\ workDir' = workDir \ {wtask[w]}
  /\ artifact' = artifact \cup {wtask[w]}
  /\ Goto(w, "committed")
  /\ UNCHANGED <<taskVars, queueVars, stopping, storeVars, slotVars, clientVars, bounds>>

\* _finish(task, "success"): the event is not asked any more.
Succeed(w) ==
  /\ At(w, "committed")
  /\ Finish(w, "success")
  /\ UNCHANGED <<slotVars, fileVars>>

Released_MutantNever(w)  == slots
Released_MutantAlways(w) == slots + 1
Released(w) == IF w \in holding THEN slots + 1 ELSE slots

\* End of the loop body: the permit, if held, is given back.
EndRun(w) ==
  /\ At(w, "finished")
  /\ slots' = Released(w)
  /\ holding' = holding \ {w}
  /\ wpc' = [wpc EXCEPT ![w] = "idle"]
  /\ wtask' = [wtask EXCEPT ![w] = NoTask]
  /\ UNCHANGED <<taskVars, queueVars, stopping, storeVars, fileVars, clientVars, bounds>>

-----------------------------------------------------------------------------
(* The process.                                                            *)

\* stop(): HTTP has drained; every cancel event is set (that of an ended task is
\* never read) and no task is popped.
Stop ==
  /\ ~stopping /\ restarts < MaxRestarts
  /\ \A c \in Clients : cpc[c] = "idle"
  /\ stopping' = TRUE
  /\ signalled' = signalled \cup ActiveTasks
  /\ UNCHANGED <<status, phase, pauseReq, qualityErr, queueVars, storeVars, slotVars,
                 workerVars, fileVars, clientVars, bounds>>

\* Task.from_snapshot: queued tasks wait again, a running one was interrupted.
Restored(row) ==
  IF row.status = "running" THEN [status |-> "failed", phase |-> "failed"] ELSE row

(***************************************************************************)
(* The process dies at any moment and starts again: the constructor loads  *)
(* the rows (in some order of creation), trims, and flushes its snapshots  *)
(* before a worker starts.                                                 *)
(***************************************************************************)
Restart ==
  LET row(t) == Restored(db[t])
      again  == {t \in Tasks : row(t).status = "queued"}
      ended  == {t \in Tasks : row(t).status \in Terminal}
  IN /\ restarts < MaxRestarts
     /\ restarts' = restarts + 1
     /\ \E p \in SetToSeqs(again), h \in SetToSeqs(ended) :
          LET gone == ToSet(Trimmed(Len(p), h))
          IN /\ pending' = p
             /\ history' = Kept(Len(p), h)
             /\ status' = DropStatus([t \in Tasks |->
                            IF status[t] # "new" /\ row(t).status = "new"
                            THEN "dropped" ELSE row(t).status], gone)
             /\ phase' = DropPhase([t \in Tasks |-> row(t).phase], gone)
             /\ \E unsaved \in SUBSET LossyTasks :
                  db' = [t \in Tasks |->
                           IF t \in unsaved THEN db[t]
                           ELSE IF t \in gone THEN [status |-> "dropped", phase |-> "none"]
                           ELSE row(t)]
     /\ signalled' = {} /\ pauseReq' = {} /\ qualityErr' = {}
     /\ stopping' = FALSE
     /\ notifs' = <<>> /\ owesFlush' = {}
     /\ slots' = Slots /\ holding' = {}
     /\ wpc' = [w \in Workers |-> "idle"] /\ wtask' = [w \in Workers |-> NoTask]
     /\ cpc' = [c \in Clients |-> "idle"] /\ cop' = [c \in Clients |-> "none"]
     /\ ctask' = [c \in Clients |-> NoTask] /\ reply' = [c \in Clients |-> "none"]
     /\ UNCHANGED <<fileVars, retries>>

\* Nothing is left to do but wait for a request.
Rest ==
  /\ notifs = <<>> /\ owesFlush = {} /\ (pending = <<>> \/ stopping)
  /\ \A w \in Workers : wpc[w] = "idle"
  /\ \A c \in Clients : cpc[c] = "idle"
  /\ UNCHANGED vars

-----------------------------------------------------------------------------
Init ==
  /\ status = [t \in Tasks |-> "new"] /\ phase = [t \in Tasks |-> "none"]
  /\ signalled = {} /\ pauseReq = {} /\ qualityErr = {}
  /\ pending = <<>> /\ history = <<>>
  /\ stopping = FALSE
  /\ notifs = <<>> /\ owesFlush = {}
  /\ db = [t \in Tasks |-> [status |-> "new", phase |-> "none"]]
  /\ slots = Slots /\ holding = {}
  /\ wpc = [w \in Workers |-> "idle"] /\ wtask = [w \in Workers |-> NoTask]
  /\ workDir = {} /\ artifact = {}
  /\ cpc = [c \in Clients |-> "idle"] /\ cop = [c \in Clients |-> "none"]
  /\ ctask = [c \in Clients |-> NoTask] /\ reply = [c \in Clients |-> "none"]
  /\ retries = 0 /\ restarts = 0

Batches == UNION {[1..n -> Tasks] : n \in 0..MaxBatch}

ClientStep(c) ==
  \/ \E fresh, dups \in Batches, strict \in BOOLEAN :
       Len(fresh) + Len(dups) \in 1..MaxBatch /\ Enqueue(c, fresh, dups, strict)
  \/ \E t \in Tasks, op \in Intents : RequestStop(c, op, t)
  \/ \E t \in Tasks : RequestRetry(c, t) \/ Delete(c, t)
  \/ StopTooLate(c) \/ Recheck(c) \/ StopQueued(c) \/ StopRunning(c) \/ StopAgain(c)
  \/ RefuseRetry(c) \/ Retry(c) \/ RetryCleanup(c) \/ PurgeRow(c)
  \/ EndRequest(c)

Run(w) ==
  \/ Precheck(w) \/ ProbeOk(w) \/ RunCancelled(w) \/ RunBreaks(w) \/ FailRun(w)
  \/ DownloadOk(w) \/ CommitMedia(w) \/ Succeed(w) \/ EndRun(w)

WorkerStep(w) ==
  \/ PopTask(w) \/ AcquireSlot(w) \/ CancelWhileWaiting(w) \/ AbandonAtStop(w)
  \/ Progress(w) \/ QualityMismatch(w) \/ Run(w)

Flush == FlushOne \/ \E a \in Threads : FlushDone(a)

\* Everything that happens while the process runs normally.
Operate ==
  \/ \E c \in Clients : ClientStep(c)
  \/ \E w \in Workers : WorkerStep(w)
  \/ Flush
  \/ Rest

Next == Operate \/ Stop \/ Restart

Spec == Init /\ [][Next]_vars

\* The process never dies; it may be told to stop.
SpecUp == Init /\ [][Operate \/ Stop]_vars

(***************************************************************************)
(* Threads run: a worker's step, a flush and the rest of a request do not  *)
(* wait for ever.  BBDown and its probe have time-outs, so a run ends; no  *)
(* fairness is assumed of users, of progress reports or of stream          *)
(* mismatches, and none that one waiter for a permit is preferred.         *)
(***************************************************************************)
Fairness ==
  /\ WF_vars(FlushOne)
  /\ \A a \in Threads : WF_vars(FlushDone(a))
  /\ \A w \in Workers : /\ WF_vars(PopTask(w)) /\ WF_vars(Run(w))
                        /\ WF_vars(AcquireSlot(w) \/ CancelWhileWaiting(w)
                                                  \/ AbandonAtStop(w))
  /\ \A c \in Clients :
       WF_vars(\/ StopTooLate(c) \/ Recheck(c) \/ StopQueued(c) \/ StopRunning(c) \/ StopAgain(c)
               \/ RefuseRetry(c) \/ Retry(c) \/ RetryCleanup(c) \/ PurgeRow(c)
               \/ EndRequest(c))

FairSpec == SpecUp /\ Fairness

-----------------------------------------------------------------------------
(* Properties.                                                             *)

Notes   == [task : Tasks, status : Statuses, phase : Phases]
Rows    == [status : Statuses, phase : Phases]
Executing == {"waiting", "failing", "committed"} \cup InRun

QueueTyped ==
  /\ status \in [Tasks -> Statuses] /\ phase \in [Tasks -> Phases]
  /\ signalled \subseteq Tasks /\ pauseReq \subseteq Tasks /\ qualityErr \subseteq Tasks
  /\ pending \in Seq(Tasks) /\ history \in Seq(Tasks)
  /\ stopping \in BOOLEAN

StoreTyped ==
  /\ notifs \in Seq(Notes) /\ owesFlush \subseteq Threads /\ db \in [Tasks -> Rows]
  /\ workDir \subseteq Tasks /\ artifact \subseteq Tasks

WorkersTyped ==
  /\ slots \in 0..Slots /\ holding \subseteq Workers
  /\ wpc \in [Workers -> Executing \cup {"idle", "finished"}]
  /\ wtask \in [Workers -> Tasks \cup {NoTask}]

ClientsTyped ==
  /\ cpc \in [Clients -> {"idle", "call", "recheck", "clean", "purge", "reply"}]
  /\ cop \in [Clients -> {"none", "enqueue", "retry", "delete"} \cup Intents]
  /\ ctask \in [Clients -> Tasks \cup {NoTask}]
  /\ reply \in [Clients -> {"none", "done", "seen", "refused"}]
  /\ retries \in Nat /\ restarts \in Nat

\* The type invariant of the queue's state.
TypeOK == QueueTyped /\ StoreTyped /\ WorkersTyped /\ ClientsTyped

\* No queued task is lost and none is in line twice: the deque lists exactly the
\* queued tasks, whatever was cancelled, paused or retried in between.
LineIsQueued ==
  /\ \A t \in Tasks : status[t] = "queued" <=> t \in ToSet(pending)
  /\ IsInjective(pending)

\* The history in memory lists exactly the tasks that ended, each once.
HistoryIsEnded ==
  /\ \A t \in Tasks : status[t] \in Terminal <=> t \in ToSet(history)
  /\ IsInjective(history)

\* Every task is where its status says, and nowhere twice.
TasksAreInPlace == LineIsQueued /\ HistoryIsEnded

\* A running task is executed by exactly one worker (by none only while the
\* queue stops), and a worker never executes a task that is not running:
\* a retry cannot put a second worker on a task.
OneWorkerPerTask ==
  /\ \A w \in Workers : wpc[w] \in Executing => status[wtask[w]] = "running"
  /\ \A v, w \in Workers :
       wpc[v] \in Executing /\ wpc[w] \in Executing /\ wtask[v] = wtask[w] => v = w
  /\ ~stopping => \A t \in Tasks : status[t] = "running" =>
                    \E w \in Workers : wpc[w] \in Executing /\ wtask[w] = t

\* At most one queued or running task downloads a key, over enqueues of whole batches,
\* stops and retries: two would write the same media directory.  Only a restart can make
\* two of them active, and only when the row of one still shows it active after it ended
\* (the save failed, or the process died before it).
OneActivePerKey ==
  [][\A t, u \in Tasks : t # u /\ KeyOf[t] = KeyOf[u] /\ {t, u} \subseteq ActiveTasks' =>
       \/ {t, u} \subseteq ActiveTasks
       \/ restarts' # restarts /\ \E x \in {t, u} \ ActiveTasks : db[x].status \in Active]_vars

\* What the queue remembers stays within max_history.
MemoryBounded == Cardinality(ActiveTasks) + Len(history) <= MaxHistory

\* No permit is lost or given back twice, on any way out of a run, and only a
\* holder probes, downloads or commits: at most Slots downloads at a time.
SlotsConserved ==
  /\ slots + Cardinality(holding) = Slots
  /\ \A w \in Workers :
       wpc[w] \in Executing \ {"waiting"} => w \in holding

\* Workers never share a task, and never run one without a permit.
WorkersAreSafe == OneWorkerPerTask /\ SlotsConserved

\* The pending pause request, the public phase and the cancel event of a
\* running task never disagree, however pause and cancel requests interleave.
StopIntentTracked ==
  /\ \A t \in pauseReq : status[t] = "running"
  /\ \A t \in Tasks : status[t] = "running" =>
       /\ phase[t] = "pausing" <=> t \in pauseReq
       /\ phase[t] \in Stopping => t \in signalled

\* A notification is always owed a flush by some thread: no snapshot is stranded
\* in memory until the next change.
NoStrandedSnapshot == notifs # <<>> => owesFlush # {}

\* Once the notifications are flushed the rows that can be saved tell what memory
\* holds: the same status, and the same phase unless the task runs (running rows
\* are throttled).
RowsCatchUp ==
  notifs = <<>> =>
    \A t \in Tasks \ LossyTasks :
      \/ status[t] \in Unknown /\ db[t].status \in Unknown
      \/ /\ db[t].status = status[t]
         /\ status[t] # "running" => db[t].phase = phase[t]

\* A creation request is answered only when the row of its task exists, even if
\* another thread was flushing: a crash can lose no task a user was told of.
AnsweredIsDurable ==
  \A c \in Clients :
    cop[c] = "enqueue" /\ cpc[c] = "reply" /\ Free(c) => db[ctask[c]].status # "new"

\* An accepted stop ends: a task that is pausing or cancelling stops running,
\* whatever its worker was waiting for (unless the queue stops first).
StopCommits ==
  \A t \in Tasks :
    status[t] = "running" /\ phase[t] \in Stopping ~> status[t] # "running" \/ stopping

\* A queued task is eventually taken, stopped or interrupted by the shutdown.
QueuedMovesOn ==
  \A t \in Tasks : status[t] = "queued" ~> status[t] # "queued" \/ stopping

\* Every request is answered.
RequestsEnd == \A c \in Clients : cpc[c] # "idle" ~> cpc[c] = "idle"

\* The queue implements the public life of a task.
Life == INSTANCE TaskLifecycle WITH Tasks <- Tasks, status <- status, phase <- phase
ImplementsLifecycle == Life!LifeSpec

\* Requirements: a retry clears the previous run and leaves the newest one: the
\* work directory of a download in progress is removed by its own worker only.
WorkDirKept ==
  [][\A w \in Workers :
       wpc[w] \in {"downloading", "finalizing"} /\ wpc'[w] = wpc[w]
         => (wtask[w] \in workDir => wtask[w] \in workDir')]_vars
=============================================================================

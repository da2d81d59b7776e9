--------------------------- MODULE DeviceExports ---------------------------
(***************************************************************************)
(* Files exported to a user's device: the rows of exports and              *)
(* device_download_history (app/task_store.py), the requests of            *)
(* app/task_routes.py that use them, the flusher of the device queue       *)
(* (persist_device_task, app/state.py) and the cleaner thread.             *)
(*                                                                         *)
(* Each action is one SQLite transaction, one critical section of the      *)
(* queue or one operation on files.  Of the queue only whether a task is   *)
(* active and how it ended is kept; TaskQueue has the detail.              *)
(*                                                                         *)
(* ..._Mutant... operators are wrong versions that no specification uses.  *)
(***************************************************************************)
EXTENDS Naturals, SequencesExt

CONSTANTS
  Tasks,       \* device tasks
  Keys,        \* queue keys: one per owner and source
  KeyOf,
  UserKeys,    \* keys owned by ordinary users; the others are the administrator's
  Zipped,      \* tasks with several files, packed into packages/<task id>
  Clients,     \* HTTP request threads
  Cleaner,     \* the thread of _cleanup_loop, and the retention save_task_snapshot starts
  Nobody,
  MaxEvents    \* bound: requests, removals of files that fail, and restarts

ASSUME ExportsAssumption ==
  /\ IsFiniteSet(Tasks)
  /\ KeyOf \in [Tasks -> Keys] /\ UserKeys \subseteq Keys /\ Zipped \subseteq Tasks
  /\ Nobody \notin Tasks /\ Cleaner \notin Clients
  /\ MaxEvents \in Nat

VARIABLES
  task,      \* the task in the queue's memory
  rec,       \* its task_records row
  notes,     \* snapshots of ended tasks that were not saved yet
  applying,  \* the snapshot that was saved and whose export was not updated
  exp,       \* the exports row of each task
  media,     \* whose download is in the directory of each key
  entry,     \* keys with an entry in the export index
  zip,       \* tasks whose package exists
  claimed,   \* keys in device_download_history
  sent,      \* history: tasks every byte of whose file was sent to a client once
  pc, job,   \* where each thread is and what it does
  events     \* how many of the bounded events happened

queueVars == <<task, rec, notes, applying>>
fileVars  == <<media, entry, zip>>
vars == <<queueVars, exp, fileVars, claimed, sent, pc, job, events>>

Threads   == Clients \cup {Cleaner}
Terminal  == {"success", "failed"}     \* failed stands for skipped and cancelled too
Ended     == {"downloaded", "discarded", "expired"}
Protected == {"preparing", "ready", "cleanup_pending"}
Unclaimed_MutantReady == {"ready", "failed"}
Unclaimed == {"preparing", "ready", "failed"}
NoExport  == [state |-> "none", target |-> "none", due |-> FALSE, path |-> FALSE]
Fresh     == [NoExport EXCEPT !.state = "preparing"]
NoNote    == <<Nobody, "none">>
NoJob     == [op |-> "none", task |-> Nobody, target |-> "none"]
Job(o, t, target) == [op |-> o, task |-> t, target |-> target]

HasExport(t) == exp[t].state # "none"
KeyActive(k) == \E t \in Tasks : KeyOf[t] = k /\ task[t] = "active"
FileExists(t) == IF t \in Zipped THEN t \in zip ELSE media[KeyOf[t]] # Nobody

At(th, p) == pc[th] = p
Enter(th, p, j) == pc' = [pc EXCEPT ![th] = p] /\ job' = [job EXCEPT ![th] = j]
Go(th, p) == Enter(th, p, job[th])
Leave(th) == Enter(th, "idle", NoJob)
Spend == events < MaxEvents /\ events' = events + 1
Request(c) == At(c, "idle") /\ Spend

Init ==
  /\ task = [t \in Tasks |-> "new"] /\ rec = [t \in Tasks |-> "none"]
  /\ notes = <<>> /\ applying = NoNote
  /\ exp = [t \in Tasks |-> NoExport]
  /\ media = [k \in Keys |-> Nobody] /\ entry = {} /\ zip = {}
  /\ claimed = {} /\ sent = {}
  /\ pc = [th \in Threads |-> "idle"] /\ job = [th \in Threads |-> NoJob]
  /\ events = 0

-----------------------------------------------------------------------------
(* Creation and retry.                                                     *)

Live(t) == exp[t].state \in {"preparing", "ready"} /\ ~exp[t].due

\* create_download and create_download_selection look for an export of the key
\* that is in the way of a new one, and enqueue later.
BeginCreate(c, t) ==
  /\ Request(c) /\ task[t] = "new"
  /\ \E o \in {"create", "select"} :
       /\ \A u \in Tasks : KeyOf[u] = KeyOf[t] /\ Live(u) =>
                             o = "select" /\ rec[u] # "success"
       /\ Enter(c, "enqueue", Job(o, t, "none"))
  /\ UNCHANGED <<queueVars, exp, fileVars, claimed, sent>>

\* enqueue: nothing new for an active key.  The row of the task is saved with the
\* answer; a selection writes both rows before it publishes the task, the other
\* request registers the export afterwards.
Enqueue(c) ==
  LET t == job[c].task IN
  /\ At(c, "enqueue")
  /\ IF KeyActive(KeyOf[t]) \/ task[t] # "new"
       THEN Leave(c) /\ UNCHANGED <<task, rec, exp>>
       ELSE /\ task' = [task EXCEPT ![t] = "active"]
            /\ rec' = [rec EXCEPT ![t] = "active"]
            /\ IF job[c].op = "select"
                 THEN exp' = [exp EXCEPT ![t] = Fresh] /\ Leave(c)
                 ELSE Go(c, "register") /\ UNCHANGED exp
  /\ UNCHANGED <<notes, applying, fileVars, claimed, sent, events>>

\* The retry of an ended task, up to register_export_task; its row follows the
\* notifications before it.
Retry(c, t) ==
  /\ Request(c) /\ rec[t] # "none" /\ task[t] \in Terminal
  /\ ~KeyActive(KeyOf[t])
  /\ task' = [task EXCEPT ![t] = "active"]
  /\ notes' = Append(notes, <<t, "active">>)
  /\ Enter(c, "register", Job("retry", t, "none"))
  /\ UNCHANGED <<rec, applying, exp, fileVars, claimed, sent>>

\* register_export_task replaces the row, whatever the task did meanwhile.
Register(c) ==
  /\ At(c, "register")
  /\ exp' = [exp EXCEPT ![job[c].task] = Fresh]
  /\ Leave(c)
  /\ UNCHANGED <<queueVars, fileVars, claimed, sent, events>>

-----------------------------------------------------------------------------
(* The end of a run and its notification.                                  *)

Succeed(t) ==
  /\ task[t] = "active"
  /\ task' = [task EXCEPT ![t] = "success"]
  /\ notes' = Append(notes, <<t, "success">>)
  /\ media' = [media EXCEPT ![KeyOf[t]] = t]
  /\ entry' = entry \cup {KeyOf[t]}
  /\ UNCHANGED <<rec, applying, exp, zip, claimed, sent, pc, job, events>>

\* The run fails, or the task is cancelled.
Fail(t) ==
  /\ task[t] = "active"
  /\ task' = [task EXCEPT ![t] = "failed"]
  /\ notes' = Append(notes, <<t, "failed">>)
  /\ UNCHANGED <<rec, applying, exp, fileVars, claimed, sent, pc, job, events>>

\* persist_device_task: save_task_snapshot, ...
SaveSnapshot ==
  /\ notes # <<>> /\ applying = NoNote
  /\ LET t == Head(notes)[1] s == Head(notes)[2] IN
       /\ rec' = [rec EXCEPT ![t] = s]
       /\ applying' = IF s \in Terminal THEN <<t, s>> ELSE NoNote
  /\ notes' = Tail(notes)
  /\ UNCHANGED <<task, exp, fileVars, claimed, sent, pc, job, events>>

\* What the end of a run with this status changes in the export.
Updated(e, s) ==
  [e EXCEPT !.due = FALSE, !.state = IF s = "failed" THEN "failed" ELSE @]

\* ... then update_export_from_task with the same snapshot.
UpdateExport ==
  /\ applying # NoNote
  /\ LET t == applying[1] IN
       exp' = IF HasExport(t) THEN [exp EXCEPT ![t] = Updated(@, applying[2])] ELSE exp
  /\ applying' = NoNote
  /\ UNCHANGED <<task, rec, notes, fileVars, claimed, sent, pc, job, events>>

-----------------------------------------------------------------------------
(* Delivery.                                                               *)

Expired(t) == exp[t].due /\ exp[t].state \notin {"downloaded", "expired"}

\* download_export.  A ready export is sent if it did not expire (resolve_export);
\* prepare_export writes the package, or takes the only file, of any other one.
BeginDownload(c, t) ==
  /\ Request(c) /\ rec[t] # "none"
  /\ \/ /\ exp[t].state = "ready"
        /\ IF Expired(t) THEN Enter(c, "clean", Job("expire", t, "expired"))
           ELSE FileExists(t) /\ Enter(c, "stream", Job("download", t, "none"))
        /\ UNCHANGED zip
     \/ /\ exp[t].state \in {"preparing", "failed"} /\ task[t] = "success"
        /\ media[KeyOf[t]] # Nobody
        /\ zip' = zip \cup ({t} \cap Zipped)
        /\ Enter(c, "mark", Job("download", t, "none"))
  /\ UNCHANGED <<queueVars, exp, media, entry, claimed, sent>>

\* The row becomes ready, whatever it has become since it was read, and is resolved.
MarkReady(c) ==
  LET t == job[c].task IN
  /\ At(c, "mark")
  /\ exp' = IF ~HasExport(t) THEN exp
            ELSE [exp EXCEPT ![t].state = "ready", ![t].path = t \notin Zipped, ![t].due = FALSE]
  /\ IF HasExport(t) /\ FileExists(t) THEN Go(c, "stream") ELSE Leave(c)
  /\ UNCHANGED <<queueVars, fileVars, claimed, sent, events>>

Abort_MutantCompletes(c) ==
  /\ At(c, "stream") /\ Go(c, "sent")
  /\ UNCHANGED <<queueVars, exp, fileVars, claimed, sent, events>>
\* The client goes away before the last byte, or asked for the head only.
Abort(c) ==
  /\ At(c, "stream") /\ Leave(c)
  /\ UNCHANGED <<queueVars, exp, fileVars, claimed, sent, events>>

\* The last byte was read and sent.
LastByte(c) ==
  /\ At(c, "stream") /\ Go(c, "sent")
  /\ sent' = sent \cup {job[c].task}
  /\ UNCHANGED <<queueVars, exp, fileVars, claimed, events>>

Fact_MutantAfterCleanup(t) == claimed
\* The fact kept in device_download_history.
Fact(t) == IF KeyOf[t] \in UserKeys THEN claimed \cup {KeyOf[t]} ELSE claimed

Claimable(t) ==
  \/ exp[t].state = "ready"
  \/ exp[t].state = "cleanup_pending" /\ exp[t].target = "downloaded"

\* The first transaction of complete_export, called after the last byte.
Complete(c) ==
  LET t == job[c].task IN
  /\ At(c, "sent")
  /\ IF Claimable(t)
       THEN /\ exp' = [exp EXCEPT ![t].state = "cleanup_pending", ![t].target = "downloaded"]
            /\ claimed' = Fact(t)
            /\ Enter(c, "clean", Job("complete", t, "downloaded"))
       ELSE Leave(c) /\ UNCHANGED <<exp, claimed>>
  /\ UNCHANGED <<queueVars, fileVars, sent, events>>

-----------------------------------------------------------------------------
(* Removal: by the user, after a delivery, on expiry, with the history.    *)

\* DELETE /exports, and the deletion of a task, which discards its export first.
BeginDiscard(c, t) ==
  /\ Request(c) /\ rec[t] # "none"
  /\ \/ HasExport(t) /\ Enter(c, "clean", Job("discard", t, "discarded"))
     \/ Enter(c, "clean", Job("delete", t, "discarded"))
  /\ UNCHANGED <<queueVars, exp, fileVars, claimed, sent>>

Due(t) == exp[t].state \in Unclaimed /\ exp[t].due
\* Rows that the retention may remove.
Stale(t) == rec[t] \in Terminal /\ exp[t].state \notin Protected

\* _cleanup_loop and cleanup_task_history take a row, read it again
\* (retry_export_cleanup and the loop over the stale rows) and act on it later.
Select(t) ==
  /\ At(Cleaner, "idle")
  /\ \/ Due(t) /\ Enter(Cleaner, "clean", Job("expire", t, "expired"))
     \/ exp[t].state = "cleanup_pending" /\ Enter(Cleaner, "clean", Job("repeat", t, exp[t].target))
     \/ Stale(t) /\ Enter(Cleaner, "clean", Job("history", t, "expired"))
  /\ UNCHANGED <<queueVars, exp, fileVars, claimed, sent, events>>

\* Where a thread goes on after the export of its task is out of the way.
After(op) == CASE op = "delete" -> "drop" [] op = "history" -> "unrecord" [] OTHER -> "idle"
GoOn(th) == IF After(job[th].op) = "idle" THEN Leave(th) ELSE Go(th, After(job[th].op))

\* What _cleanup_export_files removes: the package, and the directory that the
\* index, or the path of a single file, leads to.
Removable(t) ==
  {f \in {"media", "zip"} :
     \/ f = "zip" /\ t \in zip
     \/ f = "media" /\ media[KeyOf[t]] # Nobody /\ (KeyOf[t] \in entry \/ exp[t].path)}

\* Files that resist are left; the entry of the index is discarded all the same.
Clean(th) ==
  LET t == job[th].task k == KeyOf[t] IN
  /\ At(th, "clean")
  /\ IF ~HasExport(t)
       THEN GoOn(th) /\ UNCHANGED <<fileVars, events>>
       ELSE \E kept \in SUBSET Removable(t) :
              /\ IF kept = {} THEN UNCHANGED events ELSE Spend
              /\ zip' = IF "zip" \in kept THEN zip ELSE zip \ {t}
              /\ media' = IF "media" \in Removable(t) \ kept
                            THEN [media EXCEPT ![k] = Nobody] ELSE media
              /\ entry' = entry \ {k}
              /\ Go(th, IF kept = {} THEN "cleaned" ELSE "resisted")
  /\ UNCHANGED <<queueVars, exp, claimed, sent>>

\* The row that is written after the files, without a look at the present one.
Outcome(j, e, ok) ==
  IF e.state = "none" \/ j.op = "history" THEN NoExport
  ELSE IF ok               THEN [e EXCEPT !.state = j.target, !.target = "none"]
  ELSE IF j.op = "repeat"  THEN e
  ELSE [e EXCEPT !.state = "cleanup_pending", !.target = j.target]

Write(th) ==
  /\ pc[th] \in {"cleaned", "resisted"}
  /\ exp' = [exp EXCEPT ![job[th].task] = Outcome(job[th], @, At(th, "cleaned"))]
  /\ GoOn(th)
  /\ UNCHANGED <<queueVars, fileVars, claimed, sent, events>>

\* queue.delete_task refuses a task that is active.
Drop(c) ==
  LET t == job[c].task IN
  /\ At(c, "drop")
  /\ IF task[t] \in Terminal
       THEN /\ task' = [task EXCEPT ![t] = "gone"]
            /\ notes' = Append(notes, <<t, "none">>)
            /\ Go(c, "unrecord")
       ELSE Leave(c) /\ UNCHANGED <<task, notes>>
  /\ UNCHANGED <<rec, applying, exp, fileVars, claimed, sent, events>>

\* delete_task_snapshot, and the end of cleanup_task_history.
Unrecord(th) ==
  /\ At(th, "unrecord")
  /\ rec' = [rec EXCEPT ![job[th].task] = "none"]
  /\ Leave(th)
  /\ UNCHANGED <<task, notes, applying, exp, fileVars, claimed, sent, events>>

-----------------------------------------------------------------------------
(* Time and restarts.                                                      *)

Expire(t) ==
  /\ exp[t].state \in Unclaimed /\ ~exp[t].due
  /\ exp' = [exp EXCEPT ![t].due = TRUE]
  /\ UNCHANGED <<queueVars, fileVars, claimed, sent, pc, job, events>>

\* The process dies; the device queue reloads the rows and fails interrupted runs.
Crash ==
  /\ Spend
  /\ task' = [t \in Tasks |->
       CASE rec[t] = "active"   -> "failed"
         [] rec[t] \in Terminal -> rec[t]
         [] rec[t] = "none" /\ task[t] = "new" -> "new"
         [] OTHER               -> "gone"]
  /\ notes' \in SetToSeqs({<<t, "failed">> : t \in {u \in Tasks : rec[u] = "active"}})
  /\ applying' = NoNote
  /\ pc' = [th \in Threads |-> "idle"] /\ job' = [th \in Threads |-> NoJob]
  /\ UNCHANGED <<rec, exp, fileVars, claimed, sent>>

CreateStep(c)   == \/ \E t \in Tasks : BeginCreate(c, t) \/ Retry(c, t)
                   \/ Enqueue(c) \/ Register(c)
DeliverStep(c)  == \/ \E t \in Tasks : BeginDownload(c, t)
                   \/ MarkReady(c) \/ Abort(c) \/ LastByte(c) \/ Complete(c)
RemoveStep(th)  == Clean(th) \/ Write(th) \/ Unrecord(th)
DiscardStep(c)  == (\E t \in Tasks : BeginDiscard(c, t)) \/ Drop(c)
CleanerStep     == (\E t \in Tasks : Select(t)) \/ RemoveStep(Cleaner)
FlushStep       == SaveSnapshot \/ UpdateExport

Next ==
  \/ \E c \in Clients : CreateStep(c) \/ DeliverStep(c) \/ DiscardStep(c) \/ RemoveStep(c)
  \/ CleanerStep \/ FlushStep
  \/ \E t \in Tasks : Succeed(t) \/ Fail(t) \/ Expire(t)
  \/ Crash

Spec == Init /\ [][Next]_vars

\* Request threads finish what they began, runs end and are saved, the clock
\* advances and the cleaner wakes every minute.
FinishRequest(c) ==
  \/ Enqueue(c) \/ Register(c) \/ MarkReady(c) \/ Abort(c) \/ Complete(c)
  \/ RemoveStep(c) \/ Drop(c)
FairSpec ==
  /\ Spec
  /\ \A c \in Clients : WF_vars(FinishRequest(c))
  /\ WF_vars(RemoveStep(Cleaner)) /\ \A t \in Tasks : SF_vars(Select(t))
  /\ WF_vars(FlushStep)
  /\ \A t \in Tasks : WF_vars(Succeed(t) \/ Fail(t)) /\ WF_vars(Expire(t))

-----------------------------------------------------------------------------
(* Properties.                                                             *)

States == {"none", "failed"} \cup Ended \cup Protected
Ops    == {"none", "create", "select", "retry", "download", "expire", "complete",
           "discard", "delete", "repeat", "history"}

TypeOK ==
  /\ task \in [Tasks -> {"new", "gone", "active"} \cup Terminal]
  /\ rec \in [Tasks -> {"none", "active"} \cup Terminal]
  /\ notes \in Seq(Tasks \X ({"none", "active"} \cup Terminal))
  /\ applying \in (Tasks \X Terminal) \cup {NoNote}
  /\ exp \in [Tasks -> [state : States, target : {"none"} \cup Ended, due : BOOLEAN,
                        path : BOOLEAN]]
  /\ \A t \in Tasks : exp[t].state = "cleanup_pending" => exp[t].target # "none"
  /\ media \in [Keys -> Tasks \cup {Nobody}] /\ entry \subseteq Keys /\ zip \subseteq Tasks
  /\ claimed \subseteq Keys /\ sent \subseteq Tasks
  /\ pc \in [Threads -> {"idle", "enqueue", "register", "mark", "stream", "sent",
                         "clean", "cleaned", "resisted", "drop", "unrecord"}]
  /\ job \in [Threads -> [op : Ops, task : Tasks \cup {Nobody},
                          target : {"none"} \cup Ended]]
  /\ events \in 0 .. MaxEvents

DeliveryRecorded ==
  \A t \in Tasks :
    "downloaded" \in {exp[t].state, exp[t].target} /\ KeyOf[t] \in UserKeys
      => KeyOf[t] \in claimed
DeliveryEarned == \A k \in claimed : k \in UserKeys /\ \E t \in sent : KeyOf[t] = k

\* An export counts as downloaded, or waits for the cleanup of a delivery, only if
\* the owner's history has the fact; and the history has a fact only if every byte of
\* an export of that work was sent to a client: over aborted and concurrent downloads,
\* failed cleanups, retries of the task and crashes between the three steps of
\* complete_export.
ExportsAreSafe == TypeOK /\ DeliveryRecorded /\ DeliveryEarned

\* No export stays for ever: it expires, and cleanups that fail are repeated, whatever
\* requests a crash interrupted.
NothingLingers ==
  \A t \in Tasks : <>[](exp[t].state \notin Protected)

=============================================================================

---------------------------- MODULE MediaLibrary ----------------------------
(***************************************************************************)
(* The media library: the promotion of finished downloads                  *)
(* (app/artifacts.py), the download index (app/index_store.py), the        *)
(* catalog that follows it (app/catalog_store.py), and the deletion of     *)
(* works over files, index, tags and deletion history                      *)
(* (app/library_service.py, app/tag_store.py, app/deletion_store.py).      *)
(*                                                                         *)
(* A version stands for the media of one finished download.  The workers   *)
(* of the queue write files and the index without the mutation lock of the *)
(* catalog, under which requests change index and rows.                    *)
(*                                                                         *)
(* Simplified: a work has one directory, a deletion fails at one place,    *)
(* and a work is in one transcode at a time.                               *)
(***************************************************************************)
EXTENDS Naturals, FiniteSets

CONSTANTS
  Works,        \* source keys
  Groups,       \* groups, each with its folder and its name
  Default,      \* the default group
  Clients,      \* request threads
  Nobody,
  NoGroup,      \* group_id NULL
  MaxVersions,  \* bound: downloads that produce media
  MaxEvents     \* bound: requests that change something, faults and restarts

ASSUME LibraryAssumption ==
  /\ Default \in Groups /\ NoGroup \notin Groups /\ Nobody \notin Clients
  /\ MaxVersions \in Nat /\ MaxEvents \in Nat

VARIABLES
  files,     \* version in the final directory of each work, 0: none
  backup,    \* version in its .bili_backup directory
  work,      \* version in its .bili_tmp directory
  step,      \* where the download of each work is
  old,       \* promotion.had_old
  task,      \* what the download will put: its version and its group
  made,      \* versions so far
  index,     \* the index in memory
  saved,     \* the index file
  dirty,     \* the index token differs from the one the catalog remembers
  row,       \* the media row of each work
  tagged,    \* works with tags
  tomb,      \* works in deleted_media
  groups,    \* rows of groups
  copy,      \* works whose compatible copy is in the cache
  copyRow,   \* works with a media_files row for it
  transcode, \* where the transcode of each work is
  lock,      \* holder of mutation_lock
  pc, job,   \* where each request is and what it works on
  events,
  unseen,    \* history: works whose change the catalog took for seen without a sync
  cut,       \* history: works whose deletion a restart interrupted
  gone       \* history: works whose media were removed by the user, left in the backup by a
             \* restart, or never indexed because the put failed

mediaVars == <<files, backup, work, step, old, task, made>>
indexVars == <<index, saved, dirty>>
dbVars    == <<row, tagged, tomb, groups>>
copyVars  == <<copy, copyRow, transcode>>
reqVars   == <<lock, pc, job>>
historyVars == <<unseen, cut, gone>>
vars == <<mediaVars, indexVars, dbVars, copyVars, reqVars, events, historyVars>>

NoEntry == [ver |-> 0, group |-> NoGroup]
Nothing == [k \in Works |-> NoEntry]
NoJob   == [op |-> "none", works |-> {}, group |-> NoGroup, from |-> NoGroup,
            seen |-> Nothing]
Job(op, ks, g) == [NoJob EXCEPT !.op = op, !.works = ks, !.group = g]

Indexed(k)   == index[k] # NoEntry
InCatalog(k) == row[k] # NoEntry
Valid(k)     == Indexed(k) /\ files[k] # 0        \* get_valid
TheWork(c)   == CHOOSE k \in job[c].works : TRUE

At(c, p)       == pc[c] = p
Enter(c, p, j) == pc' = [pc EXCEPT ![c] = p] /\ job' = [job EXCEPT ![c] = j]
Go(c, p)       == Enter(c, p, job[c])
Leave(c)       == Enter(c, "idle", NoJob)
Spend          == events < MaxEvents /\ events' = events + 1
Request(c)     == At(c, "idle") /\ Spend
Acquire(c)     == lock = Nobody /\ lock' = c
Release(c)     == lock' = Nobody /\ Leave(c)

Init ==
  /\ files = [k \in Works |-> 0] /\ backup = files /\ work = files
  /\ step = [k \in Works |-> "none"] /\ old = [k \in Works |-> FALSE]
  /\ task = Nothing /\ made = 0
  /\ index = Nothing /\ saved = Nothing /\ dirty = FALSE
  /\ row = Nothing /\ tagged = {} /\ tomb = {} /\ groups = Groups
  /\ copy = {} /\ copyRow = {} /\ transcode = [k \in Works |-> "none"]
  /\ lock = Nobody /\ pc = [c \in Clients |-> "idle"] /\ job = [c \in Clients |-> NoJob]
  /\ events = 0 /\ unseen = {} /\ cut = {} /\ gone = {}

-----------------------------------------------------------------------------
(* The download index.                                                     *)

\* _save: the file follows the memory and the revision changes.
Save(entries) == index' = entries /\ saved' = entries /\ dirty' = TRUE

\* The memory changes and atomic_write_json raises.
SaveFails(entries) == index' = entries /\ UNCHANGED <<saved, dirty>>

\* acknowledge_index_change, and what rename, merge and move do in its place: the
\* token of the index as it is now is remembered.
Acknowledge(entries, rows) ==
  /\ dirty' = FALSE
  /\ unseen' = unseen \cup {k \in Works : entries[k] # NoEntry /\ entries[k].ver # rows[k].ver}

-----------------------------------------------------------------------------
(* The download of a work: promotion and commit, in the worker of its task. *)

Moving(k) == step[k] \in {"moved", "placed"}

\* A run leaves non-empty media in its work directory.
Download(k) ==
  /\ step[k] = "none" /\ made < MaxVersions
  /\ made' = made + 1
  /\ work' = [work EXCEPT ![k] = made']
  /\ step' = [step EXCEPT ![k] = "work"]
  /\ \E g \in groups : task' = [task EXCEPT ![k] = [ver |-> made', group |-> g]]
  /\ UNCHANGED <<files, backup, old, indexVars, dbVars, copyVars, reqVars, events, historyVars>>

\* promote_work_dir: the backup of an earlier run of the task goes, the present
\* directory becomes the backup, ...
MoveOld(k) ==
  /\ step[k] = "work"
  /\ backup' = [backup EXCEPT ![k] = files[k]]
  /\ old' = [old EXCEPT ![k] = files[k] # 0]
  /\ files' = [files EXCEPT ![k] = 0]
  /\ step' = [step EXCEPT ![k] = "moved"]
  /\ UNCHANGED <<work, task, made, indexVars, dbVars, copyVars, reqVars, events, historyVars>>

\* ... and the work directory takes its place.
MoveNew(k) ==
  /\ step[k] = "moved"
  /\ files' = [files EXCEPT ![k] = work[k]]
  /\ work' = [work EXCEPT ![k] = 0]
  /\ step' = [step EXCEPT ![k] = "placed"]
  /\ UNCHANGED <<backup, old, task, made, indexVars, dbVars, copyVars, reqVars, events, historyVars>>

\* IndexStore.put.
Put(k) ==
  /\ step[k] = "placed"
  /\ Save([index EXCEPT ![k] = task[k]])
  /\ step' = [step EXCEPT ![k] = "indexed"]
  /\ gone' = IF files[k] # 0 THEN gone \ {k} ELSE gone
  /\ UNCHANGED <<files, backup, work, old, task, made, dbVars, copyVars, reqVars, events, unseen, cut>>

Rollback_MutantForgets(k) == files' = [files EXCEPT ![k] = 0] /\ UNCHANGED backup
\* rollback, and the handler of promote_work_dir: the new directory goes, the old
\* one comes back.
Rollback(k) ==
  /\ files' = [files EXCEPT ![k] = IF old[k] THEN backup[k] ELSE 0]
  /\ backup' = IF old[k] THEN [backup EXCEPT ![k] = 0] ELSE backup

\* A rename fails, or the index cannot be written.  A sync may have passed over the
\* work while its files were away.
PromotionFails(k) ==
  /\ Moving(k) /\ Spend
  /\ Rollback(k)
  /\ IF step[k] = "placed"
       THEN SaveFails([index EXCEPT ![k] = task[k]])
       ELSE UNCHANGED indexVars
  /\ work' = [work EXCEPT ![k] = 0]
  /\ step' = [step EXCEPT ![k] = "none"]
  /\ unseen' = IF old[k] THEN unseen \cup {k} ELSE unseen
  /\ gone' = IF old[k] THEN gone ELSE gone \cup {k}
  /\ UNCHANGED <<old, task, made, dbVars, copyVars, reqVars, cut>>

\* commit: the backup is removed at best effort.
Commit(k) ==
  /\ step[k] = "indexed"
  /\ backup' = [backup EXCEPT ![k] = 0]
  /\ step' = [step EXCEPT ![k] = "none"]
  /\ UNCHANGED <<files, work, old, task, made, indexVars, dbVars, copyVars, reqVars, events, historyVars>>

-----------------------------------------------------------------------------
(* Synchronisation.                                                        *)

Remembered_MutantAtEnd(c) == FALSE
\* Whether the change seen when the token was taken is still the last one.
Remembered(c) == dirty

\* sync_index copies the index and its token under the lock of the index, ...
Snapshot(c, j) ==
  /\ Enter(c, "sync", [j EXCEPT !.seen = index])
  /\ dirty' = FALSE /\ unseen' = {}
  /\ UNCHANGED <<index, saved, cut, gone>>

BeginSync(c) ==
  /\ At(c, "idle") /\ dirty
  /\ Acquire(c)
  /\ Snapshot(c, Job("sync", {}, NoGroup))
  /\ UNCHANGED <<mediaVars, dbVars, copyVars, events, cut, gone>>

\* Entries of the copy that are valid in the index as it is by then.
Importable(seen, entries) ==
  {k \in Works : seen[k] # NoEntry /\ entries[k] # NoEntry /\ files[k] # 0}

\* Rows whose key the copy has not.
Stale(seen) == {k \in Works : InCatalog(k) /\ seen[k] = NoEntry}

\* A row for each importable entry, whose group is created again if it is gone; the
\* stale rows go, with their rows of files.
Sync(seen, entries, present) ==
  LET imported == Importable(seen, entries) IN
  /\ row' = [k \in Works |-> IF k \in imported THEN seen[k]
                             ELSE IF k \in Stale(seen) THEN NoEntry ELSE row[k]]
  /\ copyRow' = copyRow \ Stale(seen)
  /\ groups' = present \cup {seen[k].group : k \in imported}

\* ... applies it entry by entry, and remembers the token.
EndSync(c) ==
  /\ At(c, "sync")
  /\ Sync(job[c].seen, index, groups)
  /\ IF groups' # groups THEN Save(index)
     ELSE dirty' = Remembered(c) /\ UNCHANGED <<index, saved>>
  /\ IF job[c].op = "sync" THEN Release(c) ELSE Go(c, "remove") /\ UNCHANGED lock
  /\ UNCHANGED <<mediaVars, tagged, tomb, copy, transcode, events, historyVars>>

\* SQLite raises after some of the rows; the token is not remembered.
SyncFails(c) ==
  /\ At(c, "sync") /\ Spend
  /\ \E some \in SUBSET {k \in Importable(job[c].seen, index) : job[c].seen[k].group \in groups} :
       row' = [k \in Works |-> IF k \in some THEN job[c].seen[k] ELSE row[k]]
  /\ dirty' = TRUE
  /\ Release(c)
  /\ UNCHANGED <<mediaVars, index, saved, tagged, tomb, groups, copyVars, historyVars>>
-----------------------------------------------------------------------------
(* Deletion of a work (LibraryService.delete_media).                       *)

\* media_detail synchronises before the deletion looks for the row.
BeginDelete(c) ==
  /\ Request(c) /\ Acquire(c)
  /\ \E k \in Works :
       /\ InCatalog(k)
       /\ IF dirty THEN Snapshot(c, Job("delete", {k}, NoGroup))
          ELSE Enter(c, "remove", Job("delete", {k}, NoGroup)) /\ UNCHANGED <<indexVars, unseen>>
  /\ UNCHANGED <<mediaVars, dbVars, copyVars, cut, gone>>

Restored_MutantNone(c) == index
\* _restore_index: the captured entry, unless there is one again.
Restored(c) ==
  LET k == TheWork(c) IN IF Indexed(k) THEN index ELSE [index EXCEPT ![k] = job[c].seen[k]]

\* The deletion fails: the index is restored, rows of copies that are gone are
\* removed (reconcile_media_files), and the change is acknowledged.
Recover(c) ==
  /\ Spend
  /\ IF Restored(c) = index THEN UNCHANGED <<index, saved>>
     ELSE index' = Restored(c) /\ saved' = Restored(c)
  /\ copyRow' = copyRow \ ({TheWork(c)} \ copy)
  /\ Acknowledge(index', row)
  /\ Release(c)

\* The entry is captured; the files, if the user wants it, and the entry go.
RemoveFiles(c) ==
  LET k == TheWork(c) without == [index EXCEPT ![k] = NoEntry] IN
  /\ At(c, "remove")
  /\ \/ /\ ~InCatalog(k)
        /\ Release(c)
        /\ UNCHANGED <<files, indexVars, gone>>
     \/ /\ InCatalog(k)
        /\ \/ UNCHANGED <<files, gone>>
           \/ files' = [files EXCEPT ![k] = 0] /\ gone' = gone \cup {k}
        /\ IF Indexed(k) THEN Save(without) ELSE UNCHANGED indexVars
        /\ Enter(c, "copies", [job[c] EXCEPT !.seen = index])
        /\ UNCHANGED lock
  /\ UNCHANGED <<backup, work, step, old, task, made, dbVars, copyVars, events, unseen, cut>>

\* The removal of the files fails.
RemovalFails(c) ==
  /\ At(c, "remove") /\ InCatalog(TheWork(c))
  /\ Spend
  /\ Acknowledge(index, row)
  /\ Release(c)
  /\ UNCHANGED <<mediaVars, index, saved, dbVars, copyVars, cut, gone>>

RemoveCopies(c) ==
  /\ At(c, "copies")
  /\ copy' = copy \ {TheWork(c)}
  /\ Go(c, "record")
  /\ UNCHANGED <<mediaVars, indexVars, dbVars, copyRow, transcode, lock, events, historyVars>>

\* One transaction removes row, tags and rows of files and records the tombstone.
Record(c) ==
  LET k == TheWork(c) IN
  /\ At(c, "record")
  /\ row' = [row EXCEPT ![k] = NoEntry]
  /\ tagged' = tagged \ {k} /\ tomb' = tomb \cup {k}
  /\ copyRow' = copyRow \ {k}
  /\ Acknowledge(index, row')
  /\ Release(c)
  /\ UNCHANGED <<mediaVars, index, saved, groups, copy, transcode, events, cut, gone>>

\* The copies cannot be removed, or the transaction fails.
DeletionFails(c) ==
  /\ pc[c] \in {"copies", "record"}
  /\ Recover(c)
  /\ UNCHANGED <<mediaVars, dbVars, copy, transcode, cut, gone>>

-----------------------------------------------------------------------------
(* Groups: move_media, rename_group, merge_group, delete_group.            *)

Members(g) == {k \in Works : row[k].group = g}

\* The entries of the works in the group.
Regrouped(ks, g) ==
  [k \in Works |-> IF k \in ks /\ Indexed(k) THEN [index[k] EXCEPT !.group = g] ELSE index[k]]

\* Under the mutation lock the entries of the works are patched ...
Patch(c) ==
  /\ Request(c) /\ Acquire(c)
  /\ \E g \in groups, h \in groups, op \in {"move", "rename", "merge"} :
       \E ks \in {Members(g)} \cup {{k} : k \in Works} :
         /\ CASE op = "move"   -> g = h /\ \E k \in ks : InCatalog(k) /\ ks = {k}
              [] op = "rename" -> g = h /\ ks = Members(g)
              [] op = "merge"  -> g # h /\ ks = Members(g)
         /\ Enter(c, "patched", [Job(op, ks, h) EXCEPT !.from = g])
         /\ IF Regrouped(ks, h) # index \/ (op = "rename" /\ \E k \in ks : Indexed(k))
              THEN Save(Regrouped(ks, h)) ELSE UNCHANGED indexVars
  /\ UNCHANGED <<mediaVars, dbVars, copyVars, historyVars>>

\* ... and then the rows; the token of the index is remembered as it is after that.
EndRegroup(c) ==
  LET g == job[c].group ks == job[c].works IN
  /\ At(c, "patched")
  /\ row' = [k \in Works |-> IF k \in ks /\ InCatalog(k) THEN [row[k] EXCEPT !.group = g] ELSE row[k]]
  /\ groups' = IF job[c].op = "merge" THEN groups \ {job[c].from} ELSE groups
  /\ Acknowledge(index, row')
  /\ Release(c)
  /\ UNCHANGED <<mediaVars, index, saved, tagged, tomb, copyVars, events, cut, gone>>

RegroupFails(c) ==
  /\ At(c, "patched") /\ Spend
  /\ Release(c)
  /\ UNCHANGED <<mediaVars, indexVars, dbVars, copyVars, historyVars>>

\* delete_group looks for works and deletes later, without the lock; rows of works
\* that came in between lose their group.
LookAtGroup(c) ==
  /\ Request(c)
  /\ \E g \in groups \ {Default} : Members(g) = {} /\ Enter(c, "empty", Job("group", {}, g))
  /\ UNCHANGED <<mediaVars, indexVars, dbVars, copyVars, lock, historyVars>>

DeleteGroup(c) ==
  LET g == job[c].group IN
  /\ At(c, "empty")
  /\ groups' = groups \ {g}
  /\ row' = [k \in Works |-> IF row[k].group = g THEN [row[k] EXCEPT !.group = NoGroup] ELSE row[k]]
  /\ Leave(c)
  /\ UNCHANGED <<mediaVars, indexVars, tagged, tomb, copyVars, lock, events, historyVars>>

\* TagStore.set_tags, for a work of the library or of a search.
SetTags(c) ==
  /\ Request(c)
  /\ \E k \in Works : tagged' \in {tagged \cup {k}, tagged \ {k}}
  /\ UNCHANGED <<mediaVars, indexVars, row, tomb, groups, copyVars, reqVars, historyVars>>

\* A search of the administrator sees a tombstone and a valid entry, and removes the
\* tombstone at its end.
SeeRestored(c) ==
  /\ Request(c)
  /\ \E k \in tomb : Valid(k) /\ Enter(c, "restored", Job("search", {k}, NoGroup))
  /\ UNCHANGED <<mediaVars, indexVars, dbVars, copyVars, lock, historyVars>>

ClearTombstone(c) ==
  /\ At(c, "restored")
  /\ tomb' = tomb \ job[c].works
  /\ Leave(c)
  /\ UNCHANGED <<mediaVars, indexVars, row, tagged, groups, copyVars, lock, events, historyVars>>

-----------------------------------------------------------------------------
(* Compatible copies: one transcode at a time writes the file and the row. *)

Waiting(k)  == transcode[k] = "queued"
Became(k, state) == transcode' = [transcode EXCEPT ![k] = state]
UnderWay    == {"queued", "running", "written"}

\* stuck: its thread is gone and its row says queued or running until the restart.
StartCompatible(c) ==
  /\ Request(c)
  /\ \E k \in Works :
       /\ InCatalog(k) /\ files[k] # 0 /\ transcode[k] \notin UnderWay
       /\ Became(k, "queued")
  /\ UNCHANGED <<mediaVars, indexVars, dbVars, copy, copyRow, reqVars, historyVars>>

Holding_MutantOnFailure == {"running", "written", "failed"}
\* While a transcode has _transcode_lock.
Holding == {"running", "written"}

\* The UPDATE to running is not in the try: if it raises, the thread ends.
RunTranscode(k) ==
  /\ Waiting(k) /\ \A l \in Works : transcode[l] \notin Holding
  /\ \/ Became(k, "running") /\ UNCHANGED events
     \/ Became(k, "stuck") /\ Spend
  /\ UNCHANGED <<mediaVars, indexVars, dbVars, copy, copyRow, reqVars, historyVars>>

\* The handler of an exception, whose own UPDATE may raise.
Fails(k) ==
  \/ Became(k, "failed") /\ UNCHANGED events
  \/ Became(k, "stuck") /\ Spend

\* FFmpeg writes the copy, or fails and may leave a part of it.
Transcode(k) ==
  /\ transcode[k] = "running"
  /\ \/ Became(k, "written") /\ copy' = copy \cup {k} /\ UNCHANGED events
     \/ Fails(k) /\ copy' \in {copy, copy \cup {k}}
  /\ UNCHANGED <<mediaVars, indexVars, dbVars, copyRow, reqVars, historyVars>>

\* The output is looked at, and the row of the work must still be there.
Kept(k) == k \in copy /\ InCatalog(k)

\* The transaction of the row and the success may fail.
FinishTranscode(k) ==
  /\ transcode[k] = "written"
  /\ \/ Kept(k) /\ copyRow' = copyRow \cup {k} /\ Became(k, "success") /\ UNCHANGED events
     \/ ~Kept(k) /\ Fails(k) /\ UNCHANGED copyRow
     \/ Kept(k) /\ Spend /\ transcode' \in {[transcode EXCEPT ![k] = r] : r \in {"failed", "stuck"}}
        /\ UNCHANGED copyRow
  /\ UNCHANGED <<mediaVars, indexVars, dbVars, copy, reqVars, historyVars>>

-----------------------------------------------------------------------------
(* A restart: _ensure_default_group, _recover_transcodes, sync_index(force). *)

Interrupted == UnderWay \cup {"stuck"}

Crash ==
  /\ Spend
  /\ Sync(saved, saved, groups \cup {Default})
  /\ index' = saved /\ UNCHANGED saved /\ unseen' = {}
  /\ cut' = cut \cup {TheWork(c) : c \in {d \in Clients : At(d, "record")}}
  /\ gone' = gone \cup {k \in Works : step[k] = "moved"}
  /\ dirty' = (groups' # groups \cup {Default})
  /\ step' = [k \in Works |-> "none"]
  /\ lock' = Nobody
  /\ pc' = [c \in Clients |-> "idle"] /\ job' = [c \in Clients |-> NoJob]
  /\ transcode' = [k \in Works |-> IF transcode[k] \in Interrupted THEN "failed" ELSE transcode[k]]
  /\ UNCHANGED <<files, backup, work, old, task, made, tagged, tomb, copy>>

Promote(k)   == MoveOld(k) \/ MoveNew(k) \/ Put(k) \/ Commit(k)
Synchronise(c) == BeginSync(c) \/ EndSync(c) \/ SyncFails(c)
Delete(c)    == RemoveFiles(c) \/ RemovalFails(c) \/ RemoveCopies(c) \/ Record(c) \/ DeletionFails(c)
Regroup(c)   == Patch(c) \/ EndRegroup(c) \/ RegroupFails(c) \/ LookAtGroup(c) \/ DeleteGroup(c)
Mark(c)      == SetTags(c) \/ SeeRestored(c) \/ ClearTombstone(c)
Copy(k)      == RunTranscode(k) \/ Transcode(k) \/ FinishTranscode(k)

Next ==
  \/ \E k \in Works : Download(k) \/ Promote(k) \/ PromotionFails(k) \/ Copy(k)
  \/ \E c \in Clients : \/ Synchronise(c) \/ BeginDelete(c) \/ Delete(c)
                        \/ Regroup(c) \/ Mark(c) \/ StartCompatible(c)
  \/ Crash

Spec == Init /\ [][Next]_vars

\* Threads that transcode go on, and a semaphore that stays free lets one in.
FairSpec == Spec /\ \A k \in Works : WF_vars(Copy(k))

-----------------------------------------------------------------------------
(* Properties.                                                             *)

Entries == [ver : 0 .. MaxVersions, group : Groups \cup {NoGroup}]

TypeOK ==
  /\ {files, backup, work} \subseteq [Works -> 0 .. MaxVersions]
  /\ step \in [Works -> {"none", "work", "moved", "placed", "indexed"}]
  /\ old \in [Works -> BOOLEAN] /\ made \in 0 .. MaxVersions
  /\ {task, index, saved, row} \subseteq [Works -> Entries]
  /\ dirty \in BOOLEAN
  /\ groups \subseteq Groups
  /\ UNION {tagged, tomb, copy, copyRow, unseen, cut, gone} \subseteq Works
  /\ transcode \in [Works -> {"none", "queued", "running", "written", "success", "failed", "stuck"}]
  /\ lock \in Clients \cup {Nobody}
  /\ pc \in [Clients -> {"idle", "sync", "remove", "copies", "record", "patched", "empty", "restored"}]
  /\ \A c \in Clients : pc[c] \in {"sync", "remove", "copies", "record", "patched"} <=> lock = c
  /\ \A c \in Clients : job[c].works \subseteq Works /\ job[c].seen \in [Works -> Entries]
  /\ events \in 0 .. MaxEvents

Settled == lock = Nobody /\ ~dirty
Listable(k) == Valid(k) /\ index[k] = saved[k] /\ ~Moving(k)

\* Once the catalog has caught up with the index it shows no work that the index has
\* not: whatever failed in a deletion, at most one row per entry is left, and a work
\* whose deletion failed can be deleted again.
CatalogIsIndexed == Settled => \A k \in Works : InCatalog(k) => Indexed(k)

\* A download that is put while the catalog synchronises is taken by the next sync:
\* when the catalog has nothing to do, it shows the version of each valid entry, but
\* for changes that another operation acknowledged and files that a rollback brought
\* back.
SyncMissesNothing ==
  Settled => \A k \in Works \ unseen : Listable(k) => row[k].ver = index[k].ver

\* A file row of a compatible copy has its file, while no deletion is under way, over
\* transcodes that end during a deletion and deletions that fail after the copies; a
\* restart between the copies and the transaction is excepted.
CopyRowHasFile == lock = Nobody => copyRow \ cut \subseteq copy

\* Index, catalog and copies agree.
LibraryIsSafe == TypeOK /\ CatalogIsIndexed /\ CopyRowHasFile

\* No media is lost on the way: a work that the index file names has media in its
\* directory, or in its backup between the two renames, whatever step of a promotion
\* fails, unless the user removed it, a restart fell between the two renames, or a put
\* that could not be written left the index in memory ahead of the files.
MediaKept ==
  \A k \in Works \ gone :
    saved[k] # NoEntry => files[k] # 0 \/ (step[k] = "moved" /\ backup[k] # 0)

\* Every transcode gets its turn and its end, behind those that fail, that break and
\* whose work is deleted: it is answered as a success or a failure, or a status that
\* could not be written has ended its thread (stuck), and no thread waits for it.
TranscodesEnd == \A k \in Works : transcode[k] \in UnderWay ~> transcode[k] \notin UnderWay
=============================================================================

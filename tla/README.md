# bili_workspace in TLA+

bili_workspace is a multi-user web service (FastAPI, SQLite, worker threads) that
downloads videos with the external program BBDown into a shared media library or to a
user's device, and a Windows launcher that starts it and packs it as a Docker image. This
directory models the parts of it whose correctness depends on the order of steps taken by
several threads or processes, on failures and on restarts.

Source paths are relative to the repository root. The lines that each definition stands for
are in `PROJECT.json` ("map").

## 1. Inventory

| part | source | state | what is hard | correct when |
|---|---|---|---|---|
| Task queue | `app/queue.py` | tasks, deque, order list, cancel events, pause requests, workers, permits shared by two queues | requests take several critical sections; a stop is an intent the worker reads now and then; snapshots are appended under one lock and saved under another; the process can die | no task is lost, run twice or beside another of its key; permits, intents, phases and events agree; rows catch up; stops end |
| Download process | `app/bbdown.py`, `app/quality.py` | one child process and one reader thread per run | the reader is waited for two seconds only; the child hangs or resists a kill | late output moves nothing that has ended; a run ends |
| Snapshots and device exports | `app/task_store.py`, `app/task_routes.py` | rows of tasks and exports, files, history of deliveries | an export is read in one transaction, its files are removed, the new state is written in another | a delivery is recorded, no export lingers |
| Creator imports | `app/creator_imports.py` | jobs, line, one worker, cancel events | statuses are written without a look at the present one; the list changes while it is read; the queue has other users | one job of a creator is alive, a discovery misses nothing, items are counted once, a stopped job ends |
| Accounts and sessions | `app/account_store.py`, `app/main.py`, `app/routes.py` | users, sessions | the password is verified before the transaction that uses it; a session is read and then touched | no session outlives its password, its account or its revocation |
| Database | `app/database.py` | schema version, copies, the data | an upgrade may fail or die anywhere | the old database is kept, one account is the administrator |
| Library | `app/artifacts.py`, `app/index_store.py`, `app/catalog_store.py`, `app/library_service.py` and the stores of tags and deletions | directories, index (memory and file), catalog rows | the queue writes files and index without the lock of the catalog; a change token tells the catalog when to read; deletions have many steps | no media is lost, the catalog shows what the index has |
| Launcher: backend | `launcher/.../backend_process.py`, `gui.py`, `paths.py`, `resources.py` | data root lock, unpacked resources, session directories, the child | several launchers share one directory; they die between two steps | one backend per data root, no orphan stays, a start ends |
| Launcher: Docker export | `launcher/.../docker_jobs.py`, `gui.py` | three files with backups, journals, images | three renames and a journal | old files or one export, never a mixture |

The routes call queue and stores; the queue's workers call the download process, promote
its directory and put the index entry; the catalog follows the index when a request asks for
it; imports enqueue into the queue of the library as another client; the flusher of the
device queue updates exports; every request passes the session check; the launcher starts
the whole as a child and stops it by a file.

Without a model: see section 12.

## 2. Plan

| order | module | content | state |
|---|---|---|---|
| 1 | `TaskStates`, `TaskLifecycle`, `TaskQueue` | the public life of a task; the queue, its workers, requests, notifications, rows, restarts | done |
| 2 | `TaskQueue_proofs` | the safety of the queue, its rows, the refinement of `TaskLifecycle` | done |
| 3 | `ImportLifecycle`, `CreatorImports`, `CreatorImports_proofs` | import jobs; their control and refinement, items, window, discovery | done |
| 4 | `Download` | the runs of a task with process and late readers | done |
| 5 | `DeviceExports` | exports against the life of their task | done |
| 6 | `MediaLibrary` | promotion, index, catalog, deletion, groups, tombstones, copies | done |
| 7 | `SessionLife`, `Database`, `Accounts` | the life of a session; the upgrade; accounts and sessions | done |
| 8 | `ExportTriad`, `DockerExport`; `Launcher` | the desktop launcher | done |
| 9 | `Accounts_proofs` | `OldIsKept`, sessions, the administrator, the refinement of `SessionLife` | done |
| 10 | `DockerExport_proofs`, `Launcher_proofs` | `ExportIsSafe` and the refinement of `ExportTriad`; `ServersAreSafe` | done |
| 11 | `Download_proofs`, `DeviceExports_proofs`, `MediaLibrary_proofs` | the safety of the other three | done |
| 12 | `ResourceCache`, `TaskEvents` | the browser's cache and event stream | later |

Composition: `Accounts` EXTENDS `Database`, whose actions are the start of the process.
The other modules meet in what they take of each other: `Download`, `MediaLibrary` and
`DeviceExports` open one step of `TaskQueue` each (the run, the promotion, the
notification), and `CreatorImports` and `DeviceExports` have of a task what
`TaskLifecycle` promises.

Conventions: an action is one critical section, one SQL transaction or one operation on
a file or process, unless a comment says more. `MaxEvents` and its like bound, in the
guards, how often something fails, dies or is asked for; an operator with `_Mutant` in its
name is a wrong version that no specification uses and that shows that a property can fail.

## 3. The task queue

### Modules
- `TaskStates`: statuses and phases. The download and mux phases of `PHASE_LABELS`
  behave alike and are one phase. "new" and "dropped" stand for "not in `_tasks`".
- `TaskLifecycle`: what the owner of a task may see of it: queued, running, a stop
  phase that progress cannot overwrite, one final status per run, retry, forgetting.
- `TaskQueue`: the queue in detail. One action is one critical section of the queue's
  lock, or one step a thread takes outside it.
- `MCTaskQueue`: instances for TLC.
- `TaskQueue_proofs`: proofs, section 10.

### State
| variable | code |
|---|---|
| `status`, `phase` | fields of the tasks in `_tasks` |
| `signalled`, `pauseReq`, `qualityErr` | cancel events that are set, `_pause_requested`, `quality_error` |
| `pending`, `history` | `_pending`; the ended tasks of `_order` |
| `stopping` | `_stop` |
| `notifs`, `owesFlush` | `_pending_notifications`; threads that must still run `_flush_notifications` |
| `db` | status and phase in the rows of `task_records` |
| `slots`, `holding` | free permits of the semaphore, workers that hold one |
| `wpc`, `wtask` | place of each worker in `_loop`/`_run_one`/`_finish`, and its task |
| `workDir`, `artifact` | `.bili_tmp` directories that exist, media promoted and indexed |
| `cpc`, `cop`, `ctask`, `reply` | place of each request in its handler, its operation, task and answer |

A request goes idle -> (call -> recheck / clean) or purge -> reply -> idle: "call" is
between the locked look of `cancel_task`/`pause` (or the quota check of a retry) and
the critical section that acts, "recheck" is the look after `cancel()` returned
False, "clean" is before `cleanup_work_dir`, "purge" before `delete_task_snapshot`.
A worker goes idle -> waiting (for a permit) -> precheck -> probing -> downloading ->
finalizing -> committed -> finished -> idle, with "failing" for a run that was given
up but not yet finished.

### Abstractions
- A thread that appended notifications does nothing else until a flush found the deque
  empty; one iteration of the flush loop is one step, whoever runs it, because
  `_notification_lock` admits one thread at a time.
- Which targets of a batch have a valid file already is a choice (the media index is
  external). The outcome of the probe, of BBDown and of the promotion is a choice.
- The reader thread of BBDown is a part of its worker, which waits for it; a reader
  later than its two-second join is left to `Download`.
- Requests are those of ordinary users, whose quota is checked. Two requests of one
  user may overlap.
- `stop()` flushes once more at its end; `NoStrandedSnapshot` shows there is nothing
  left that no other thread flushes.
- Logs, previews, the change counter, `clear_finished`, `clear_tasks` (no route calls
  them) are left out; the retention of rows is in `DeviceExports`.
- `MaxHistory >= MaxPending` is assumed: `state.py` passes 5000 and the default of
  `max_pending` is 100.
- A deleted or trimmed identity is not published again: they are random UUIDs.

Bounds, all in guards: `MaxBatch` targets in one call, `MaxRetries` retries,
`MaxRestarts` shutdowns and crashes.

### Runs
| run | instance | question |
|---|---|---|
| `queue_safety` | 2 tasks with keys of their own, 1 worker, 2 request threads, batches of 2, room for 1 task and a history of 1, one retry, shutdown | types; stop intents agree; deque and history are exact; an answered request is durable; memory is bounded |
| `queue_restarts` | 2 tasks of one key, 2 workers, 1 permit, 1 request thread, one crash or shutdown and restart, any save of one task may fail | workers share no task and no permit; no snapshot is stranded; rows catch up; one active task per key |
| `queue_progress` | 2 tasks, 1 worker, fair threads, one retry, shutdown | `TaskQueue` implements `TaskLifecycle`; stops end, queued tasks move on, requests are answered |
| `retry_cleanup` | the smallest instance | the disagreement of section 11 |

Two tasks, two workers and two requests are what every race listed under "hazards"
needs; one permit makes the workers compete; room for one task and a history of one
make capacity and trimming bite at every step. `queue_restarts` has no retry and never fills
its history: that workers, keys and rows stay right over retries and trimming is what the
theorems `WorkersSafe`, `OnePerKey` and `RowsTrue` show. In `queue_restarts` the history is longer
than what a crash can bring back, as it is in the code (5000 against 100): with a shorter
one the trimming of a restarted queue drops tasks that have just ended, and rows that could
not be saved exceed the memory. Workers and requests are interchangeable (symmetry), and so
are two tasks with keys of their own; no symmetry is used with liveness. Deadlock is checked
in every run: `Rest` is the only way to do nothing, and is possible only when no thread has
anything left to do. `OneActivePerKey` says of every step that it makes no
two tasks of one key active, but for a restart: a task whose last save was lost may come back
active beside another of its key. The same would follow, with two requests and a crash, from
the rows of a strict batch, which are committed before the cancellation of an older task of the
key is saved.

### Fairness
Weak fairness of each worker's own steps, of each flush step and of the second half
of each request: threads are scheduled, locks are released, and the probe and BBDown
have time-outs (`app/bbdown.py`), so each part of a run ends. A waiter for a permit is
fair only in the sense that one of "got it", "saw the event", "saw the stop" happens
while one of them stays possible; with one worker per permit nothing more is needed.
No fairness of users, progress or quality errors. `StopCommits` and `QueuedMovesOn`
exempt the shutdown: a worker that waits for a permit leaves its task running, and the
next start fails it.

## 4. Creator imports

### Modules
- `ImportLifecycle`: what an administrator sees of the jobs. One job runs at a time, one
  job of a creator is alive at a time, what was completed or cancelled stays so.
- `CreatorImports`: the manager in detail, with the site and the queue around it. One
  action is one critical section of the manager's lock, one call of the queue or one
  look at the cancel event.
- `MCCreatorImports`: instances for TLC. `CreatorImports_proofs`: proofs.

### State
| variable | code |
|---|---|
| `status`, `code`, `failedPage`, `nextPage`, `passNo` | the fields of `_CreatorImportJob` |
| `pass`, `items`, `complete` | `pass_total`/`pass_pages`/`pass_changed`, `pass_items`, `discovery_complete` |
| `cutoff` | `cutoff_at`, as the newest video published by then |
| `todo`, `failed`, `queued`, `skipped`, `retryOnly` | `pending_items`, `failed_items`, the counters, `retry_failed_only` |
| `cancelSet` | cancel events that are set |
| `made`, `line`, `active`, `stopped` | `_jobs` with its order, `_waiting`, `_active_job_id`, `_stopped` |
| `pc`, `attempt`, `got` | the worker: place, attempt of the load, page it has in hand |
| `published`, `live` | the site: newest video of each creator, videos that are listed |
| `holder`, `onDisk`, `removed` | the queue's active tasks and who created them; valid files; deletion history |
| `steady`, `late` | history variables: videos listed for all of the pass, jobs that created a task after they were told to stop |

The worker goes idle -> begin -> (load -> record)* -> discovered -> announce ->
(pick -> lookup -> capacity -> create)* -> drained -> conclude -> leave -> idle. A load that
has failed too often goes through giveup, an unexpected error through failjob, a failed
discovery through unfinished, a cancellation it sees through finish.

### Abstractions
- A video is a number in the order of publication; a page is a set of them. Videos that
  are hidden for a while or dated back are not modelled: `live` only grows at the top and
  shrinks anywhere.
- A page is good, has counts or a list that are malformed, or makes the code that reads
  it raise. The profile of the creator, the audit entries and the displayed progress are
  left out, and so are the waits between attempts.
- The worker's steps that touch only fields no request writes and no answer depends on are
  joined to the step before them (for instance all of `_discover` with one page in hand).
- The queue is what `_enqueue_one` sees of it: keys that are active, valid files, room. Its
  tasks end with or without a file. `TaskQueue` has the detail.
- An import job lives in memory only: nothing of it survives a restart in the code, so
  there is no restart in the model.

Bounds, all in guards: `MaxVideos`, `MaxChanges` of the list, `MaxFaults` of loads, lookups
and creations, `MaxManual` requests and removals by others, `MaxReruns` resumptions and
retries.

### Runs
| run | instance | question |
|---|---|---|
| `import_jobs` | 2 jobs of one creator, a list of 2 videos on one page that stays as it is, loads tried twice, one fault, one rerun and one request of somebody else who takes the only place, window, queue and history of 1, fair worker | one alive job, the running job is the worker's, waiting jobs are in line (`JobsAreSafe`); `ImportLifecycle`; told to stop leads to an end; if tasks end, every job ends |
| `import_items` | 3 videos and a fourth, pages of 2, 2 changes, 1 fault, 1 rerun, 2 passes, a queue of one place and a foreign key | types, items counted once and the window kept (`ItemsAreSafe`); a discovery that ends missed nothing; ends are earned; one late task |

Pages of two and two changes are the smallest case where a publication hides a withdrawal
from the count of videos or moves a video to a page that was read. A rerun lets a job be
resumed while the worker is still in the tail of its first run. A history of one makes each
trimming bite. With a queue of one place the reserve for others would leave imports
nothing, which the code avoids. Deadlock is not checked in these runs: once the service has
stopped, or the bounds of reruns and faults are used up and all jobs have ended, nothing
need happen any more.

### Fairness
`FairSpec`: weak fairness of the worker. Its loads, lookups and calls of the queue return or
raise (the requests have time-outs, the waits are polls of a second at most), so it takes
another step while it has one. A worker that waits for room has no step until there is
room or it sees a cancellation. `JobsEnd` also assumes, as its premise, that each active
task ends, which `StopCommits` and `QueuedMovesOn` of the task queue and the time-outs of
BBDown justify; `StoppingEnds` does not need it. Requests, the site and other users are
not fair.

## 5. One download

`Download` opens the step of `TaskQueue` in which a task runs: `DownloadQueue._run_one` with
the BBDown process of each run and the thread that reads its output.

| variable | code |
|---|---|
| `status`, `phase`, `run` | the task; a retry makes a new run with a new cancel event |
| `pc`, `res` | place in `_run_one` and `_run_streaming`; the `BbdownResult` |
| `expected`, `verified`, `tracks`, `qerror` | `expected_quality_tracks`, `quality_verified`, `selected_tracks`, `quality_error` |
| `cancel`, `stop` | the cancel event of each run; whether the user's stop came before the last look at it |
| `proc`, `pipe`, `held`, `reader`, `printed` | child, unread output, a line without its end in the parser, reader thread |
| `work`, `kept` | the work directory; the run whose files the library has |

The worker goes check -> decide -> prepare -> poll -> wait -> join -> flush -> judge ->
result -> verify -> promote. `Join` does not ask whether the reader has ended: it waits for
two seconds. So a reader of an earlier run can record its tracks into the next run, set the
event of its own, and race `flush` for a line. Which tracks a part offers, what is printed,
how a process ends and whether a kill works are choices.

Run `download` (one part, two runs, two failures; two parts with one failure were also
checked): no success after an early cancellation, nothing left behind without a failure,
only files of a process that ended well and whose tracks somebody saw are kept
(`EndsAreSafe`); late output does not move an ended task (`EndStands`); a run ends
(`RunEnds`). One part is enough for a line that is read late or twice; two runs are needed
for a reader of the one to meet the other. Fairness is that of the worker alone, whose
waits have deadlines; BBDown and readers owe nothing.

Not here: the copy of the credentials into the tool's directory, logs, previews.

## 6. Exports to a device

`DeviceExports` has the rows of `exports`, `device_download_history` and `task_records`, the
files, and of the queue only whether a task is active and how it ended.

| variable | code |
|---|---|
| `task`, `rec`, `notes`, `applying` | task in memory, its row, snapshots to be saved, the second half of `persist_device_task` |
| `exp` | the `exports` row: state, expiry, path, target of a pending cleanup |
| `media`, `entry`, `zip` | directory of a key, its entry in the export index, package of a task |
| `claimed` | `device_download_history` |
| `sent` | history variable: tasks whose file was sent to a client to the last byte |
| `pc`, `job` | request threads and the cleaner between their transactions |

Each transaction, each critical section and each removal of files is one action, so every
gap between reading a row and writing it is open to the other threads and to a crash.

Run `device_exports` (two tasks for one work, one request thread and the cleaner, one of
them packed, three faults or requests): an export counts as delivered only if the history
has it, and the history has a work only if some export of it was sent to the last byte
(`ExportsAreSafe`); no export stays for ever (`NothingLingers`, which says nothing of the
rows of ended tasks). A transfer is `BeginDownload`, then `Abort` or `LastByte`, then
`Complete`; several clients may be at it, of one export too. Two tasks of one work are what a
selection after an expiry makes, and what lets one cleanup meet the files of another.
Fairness: requests finish, runs end and are saved (`TaskQueue`), the clock advances, and the
cleaner, which wakes every minute, takes a row that stays due again and again (strong
fairness: its choice among the rows is a loop over all of them).

## 7. The library

`MediaLibrary` follows a work from its work directory to the catalog and out of it.

| variable | code |
|---|---|
| `files`, `backup`, `work`, `step`, `old`, `task` | final, `.bili_backup` and `.bili_tmp` directories, place of the promotion, `had_old`, what will be put |
| `index`, `saved`, `dirty` | entries in memory and on disk; the token differs from `_last_index_token` |
| `row`, `tagged`, `tomb`, `groups` | rows of media, tags, `deleted_media`, groups |
| `copy`, `copyRow`, `transcode` | compatible copies in the cache, their rows, their transcodes |
| `lock`, `pc`, `job` | `mutation_lock`, place and work of each request |
| `unseen`, `cut`, `gone` | history variables that name the exceptions below |

Workers write files and index without `mutation_lock`; requests hold it. A work has one
directory, a deletion fails at one place, a work is in one transcode at a time.

Run `media_library` (two works, two groups, one request thread, two downloads, three
events): after a sync the catalog shows no work the index has not, and file rows have their
files (`LibraryIsSafe`); when the catalog has nothing to do it shows each valid entry's
version (`SyncMissesNothing`); the media that the index names exist (`MediaKept`); the
thread of every transcode ends (`TranscodesEnd`; fairness of the transcoding threads alone),
whether it waits for the semaphore, runs or has written the copy. It ends with a row that
says success or failed, or, when the row itself cannot be written (`Fails`, `RunTranscode`),
leaves it queued or running until the next start (`stuck`; section 11, item 9). Two works are
needed for one semaphore to be contended and for the change of one work to hide that of the
other; two downloads for a promotion over old media; three events for a failure within
the operation that follows another.

The exceptions in these properties are behaviours of the code: see section 11, items 6 to 9.

## 8. Accounts, sessions and the upgrade of their database

`SessionLife` is the promise: a session opens with the password of the moment, works while
that password is the account's or the change came from itself, and once closed stays
closed. `Database` starts the process on an old database: copy, one migrating transaction,
pruning, with failures, deaths and restarts in both modes. `Accounts` EXTENDS it and adds
what requests do.

| variable | code |
|---|---|
| `account`, `rows`, `seen` | tables `users` and `sessions`, and the place of each session in the order of `last_seen_at` |
| `lock` | `_mutation_lock` of `AuthStore` |
| `pc`, `job` | place of each request; what the session check read, which its handler goes on with |
| `torn` | history: users whose disabling a restart cut in two |
| `mode`, `boot`, `schema`, `origin`, `backups`, `owner` | the start of the process, `user_version` now and in the file that was found, the copies, the owner of an old task |

A login verifies the password without the lock and opens the session with it; the check of
a request and the touch of its session are different statements. Both are therefore two
steps.

Run `accounts` (two users, three passwords, two threads, two live sessions per user, three
sessions, six events of which an old database has used three, two copies kept): the limit
of sessions holds, a live session has the present password, a disabled account has none
(`SessionsAreSafe`); a login revokes the least recently seen sessions, never its own
(`LoginEvictsOldest`); sessions live as promised (`ImplementsSession`); a whole copy of the
old database stays (`OldIsKept`); one account is the administrator and a server never runs
with the default password (`OneAdmin`). Two threads are what a login and a change need;
three sessions exceed the limit of two; the code keeps three copies and ten sessions, the
model two and two, so that both limits are reached.

Assumed: the data root's lock excludes a second process, the clock that orders copies and
`last_seen_at` does not go back. An old database that has accounts has an enabled one.

## 9. The launcher

`Launcher` has several launcher processes in one EXE directory: the unpacked resources, the
lock of each data root, the session directory of each start, the child and its job object.
A handler of the window is one step, or one step up to each point where the child or
another launcher can see it.

| variable | code |
|---|---|
| `holder` | `DataRootLock` |
| `tree`, `aside` | `resources/` and the backup `ensure_resources` moved away |
| `pc`, `root`, `due`, `dialog`, `shown` | window: bootstrap, layout, timers, dialog, service |
| `begun`, `mine` | the session `start` is creating; the manager's |
| `session`, `child`, `jobbed` | session directory and journal, child process, job object |
| `moved` | history variable: sessions whose data root was changed under their child |

Run `launcher` (two launchers, two data roots, two sessions, one fault): a backend that
works has the lock of its root through its launcher, alone (`ServersAreSafe`), and its
session directory; a child nobody watches ends (`OrphansEnd`); a start ends (`StartEnds`).
Fairness: a handler that began goes on, timers fire, a child that waits reads its journal
and the clock. Nothing makes a child get ready or stop, and a stop may fail (`KillFails`): the
kill raises, which the user is told, or the killed child is still there after five seconds,
which no handler expects. In both cases the start ends: it is shown as late, or the deadline
stays and the next poll stops the child again. The user may open the folder dialog before the
first start; the session whose root that moves is in `moved`, which `ServersAreSafe` excepts
(section 11, item 12). One fault is one crash or one
failed operation, at every step of a start; more exceed the time a run may take.

`DockerExport` has the job that builds an image and publishes it as three files, its
journal, the recovery at the next start, and the removal of images. `ExportTriad` is its
promise: the directory shows what was confirmed or the three files of one export.

| variable | code |
|---|---|
| `target`, `temp`, `bak` | the three files, the temporary files and the backups of each job |
| `journal`, `image` | `image-export-<job>.json`, images in the engine |
| `plan`, `confirmed` | identities the preflight showed; history: what the user agreed to |
| `retained`, `blocked`, `stale`, `swept` | retained image, `_docker_recovery_blocked`, stale images and their check; with `job`, `plan` and `serial` the memory of the process, which `Vanish` forgets |
| `disturbed` | history variable: the protocol was disturbed |

No lock keeps two launchers of one EXE directory apart, and others may change the files at
any time (`Change`). The protocol is disturbed, for good, when a launcher takes a step while
another has a job in hand (`Working`: it recovers, or is between the beginning of an export
and its end), or when the files are changed while a journal says "publishing" or "committed"
(`Replacing`), also between a crash and the next start. Both can happen, and an old file can
then be lost (section 11, items 11 and 13): the properties speak of the states before. They do
speak of launchers that take turns, of a crash of one that another recovers, of windows that
wait at the same confirmation, and of changes between preflight and publication.

Run `docker_export` (two interchangeable launchers, two jobs, two saves, two events among
failures, crashes and changes by others): what is replaced exists in place or as a backup,
every backup and image has a journal (`ExportIsSafe`); the three files change together
(`ImplementsTriad`). While a journal says "publishing", the files shown are those it
promises: the refinement mapping is `Shown`. TLC does not go on from a disturbed state (the
constraint `Undisturbed`), of which both properties say nothing. Two events allow a
failed publication whose rollback fails or crashes, or a crash whose recovery does; the
recovery at the next start costs none, and it may be that of the other launcher. Two jobs let
each launcher have its own, two saves let one export replace another. The theorems have no
bound.

Deadlock is not checked in the runs of sections 5 to 9: when the bounds are used up there
is nothing left to do.

## 10. Proofs

Every invariant and every action property of the runs that pass is a theorem, for every value
of the constants, and so are the four refinements. The constants get the named assumptions of
the modules and no more, but for the hypotheses that the theorems below state. The last column
also names the history variables that the properties except.

| module | theorems | needs, excepts |
|---|---|---|
| `TaskQueue_proofs` | `TypeCorrect`, `TasksInPlace`, `WorkersSafe`, `IntentSafe`, `NoneStranded`, `OnePerKey` | |
| | `AnswersDurable` | `LossyTasks = {}` |
| | `RowsTrue` | `[]FewActive` |
| | `MemoryFits`, `RowsTrueWhileUp`, `Implements` | `SpecUp`: the process is not restarted |
| `CreatorImports_proofs` | `JobsSafe`, `ImportsLiveTheirLife`, `ItemsSafe`, `EndEarned`, `OneLate`, `MissesNothing` | |
| `Download_proofs` | `EndsSafe`, `EndsStand` | |
| `DeviceExports_proofs` | `ExportsSafe` | |
| `MediaLibrary_proofs` | `LibrarySafe`, `SyncComplete`, `MediaIsKept` | excepts `cut`, `unseen`, `gone` (items 6 to 8) |
| `Accounts_proofs` | `OldKept`, `SessionsSafe`, `EvictsOldest`, `OneAdminAlways`, `SessionsLive` | `SessionsSafe` excepts `torn` (item 10) |
| `DockerExport_proofs` | `ExportSafe`, `ExportImplementsTriad` | both except `disturbed` (items 11, 13) |
| `Launcher_proofs` | `ServersSafe` | excepts `moved` (item 12) |

All of them have the same shape: an inductive invariant (`IInv`, with the additions named below),
a lemma for each action or group of actions with one frame, and one
temporal step. What follows says what the invariants add and why they need it.

Only model-checked: the liveness properties (`StopCommits`, `QueuedMovesOn`, `RequestsEnd`,
`StoppingEnds`, `JobsEnd`, `NothingLingers`, `TranscodesEnd`, `OrphansEnd`, `StartEnds`,
`RunEnds`), because fairness and ENABLED are out of the prover's reach. The instances of TLC
check the assumptions too.

### The task queue
For any tasks, keys, owners, workers, requests and limits, over crashes, restarts and failing
saves. `TypeOK`, `TasksAreInPlace`, `WorkersAreSafe` and `StopIntentTracked` are not inductive
alone and are proved together, with `ThreadsPlaced`, which says that a busy thread has a task
and that a worker holds no permit before it acquired one. `SlotsConserved` bounds `slots`
(`TypeOK`) when a permit comes back; `LineIsQueued` says that the popped task is queued, hence
run by nobody (`OneWorkerPerTask`); `HistoryIsEnded` says that trimming takes only ended tasks,
which keeps the three others; `OneWorkerPerTask` says that a finishing task is running, hence
not listed. The heart is `SettleEffect`, the effect of the step that ends a task.

Rows. `StoreInv` says who owes a flush, which thread may be purging, and what an answered
creation rests on (its row, or its snapshot and the debt of its own request): that gives
`NoStrandedSnapshot` and `AnsweredIsDurable`. The latter is about a store that fails no save
(`LossyTasks = {}`), since `_flush_notifications` swallows the exceptions of its callback.
`RowsInv` says of each task that the last snapshot that waits, or else its row, tells its
status. What could make it false is a trimming that forgets a task with a waiting snapshot; it
cannot while the active tasks alone never fill the memory (`FewActive`), and they do not:
`max_history` is 5000 and `max_pending` 100, and only a reload could add more. Without a
restart this follows (`RowsTrueWhileUp`), from the invariant that also bounds the memory
(`MemoryFits`).

`OnePerKey` is about steps: enqueue and retry look for an active task of the key where they
publish theirs. The refinement of `TaskLifecycle` needs `PhasesFit` (the phase of a queued or
running task) and is about a process that is not restarted, as that module has no restart.

### Creator imports
Control. `OneAlivePerUid`, `RunningIsActive` and `WaitingIsInLine` need each other: that a job
joins the line once needs that only waiting jobs, and cancelled ones whose resumption was lost,
are in it (`LineIsWaiting`); that the worker takes a job only when none runs needs
`WorkerPlaced`, which says what the worker may assume of its job at each place; that the
trimming forgets no job that is alive needs `AliveIsKnown`, which in turn makes
`_ensure_uid_available_locked` sufficient. `WorkerPlaced` is where the races are: between
"unfinished" and "finish" the job may have been resumed, and cancelled again, by others. The
steps of the worker are first shown to be one of eight as the control sees them
(`WorkIsControlStep`), and the requests that put a job in line to be one (`JoinsLine`); the
refinement of `ImportLifecycle` then needs one mapping for each.

Items. Of each job the invariant says that no video is in `todo` and `failed` twice (`Once`),
that what was discovered is queued, skipped, failed or to do (`Counted`), that nothing was
read before the discovery ended (`Unread`), and that an end is earned (`Earned`);
`ItemsPlaced` says what the worker's place adds. The window is about `HeldBy`, the active
tasks a job created: only the worker adds one, when it has seen room, and others only take
away.

Discovery. `_discover` believes a pass whose total did not change. The list may change all the
same, by a publication and a withdrawal. The argument: publications come above a video that
stays listed, and what is at or below it (`Below`) only becomes less; so, as long as the
pages show one total, it only moves down. A video that was collected on none of the pages
read so far is therefore past all of them (`Past`), and on the last page none is left
(`Seen` between the pages, `InHand` with a page read and not yet recorded).

### Download
A success needs the way from verify to promote, which is entered with the event unset
(`Obeyed`) and after a process that exited well (`Judged`); what was recorded was printed by
some run that had begun (`Vouched`, `Printed`); as long as no kill or removal failed, only the
run at hand has a process or a work directory (`Clean`). No clause mentions the order in which
readers end: that is why late readers are harmless.

### Device exports
Threads act on rows they read earlier and write rows without a second look, so the invariant
is about what a thread carries: a thread on its way to a row that says "downloaded" has the
fact in the history behind it (`Carried`), and no fact is ever withdrawn. A thread that is
about to record a fact has sent every byte of that export (`Earned`), whatever has become of
the row meanwhile.

### The library
`RowsIndexed` and `CopyRowsKept`: a row without an entry, or the row of a copy without a file,
belongs to the deletion that holds the lock. `CatalogCurrent` gives `SyncMissesNothing`: when
the token is the remembered one, memory and index file agree but for what `unseen` lists; an
entry that a worker puts after the snapshot of a synchronisation has a new version
(`Unsaved`), so it sets the dirty mark or differs from the file (`SeenIsSaved`). `MediaInv`:
a work named by the index, its file or the snapshot of a request has its media, in place or as
the backup of a promotion, or is in `gone`. Two facts about every step carry that: where a new
entry of the index, of its file or of a snapshot can come from (`IndexFrom`, `SeenFrom`), and
that media that disappears is accounted for.

### Accounts, sessions and the upgrade
`OldIsKept` says nothing of a start that is under way; `UpgradeInv` adds what each place of the
start says of the newest copy: it is begun for the present schema, whole from "migrating" on,
and of the schema that was found once the present schema differs. The pruning keeps the newest
(`SuffixNewest`, which is where `KeptBackups` must be positive).

The invariant of the sessions has what `_mutation_lock` excludes (`Exclusive`), what a request
that was admitted may still rely on (`Works`), and the one administrator (`Administered`:
`Created` is injective, as `id` breaks the ties of `created_at`). `SessionLimit` needs counting:
`seen` gives each session a place of its own (`Ordered`), and a login spares the live sessions
with fewer than `MaxLive - 1` others seen after them; all others that are spared were seen
after the first of them, so there are at most `MaxLive - 1` (`SinceIsFinite`, `SparedFit`). That
the evicted ones were seen before the spared ones is `EvictedFirst`. Every other step leaves at most as many live sessions as there were (`Fewer`).
`SessionLife` is implemented by mapping each row to its life (`Lives`, `Belonging`).

### The launcher
Docker export. `Contained` says what disk, journals and images say of each other in every
state that is not disturbed, and `Placed` what the place of a launcher adds: which of the three
files have been moved, which backups are left, what the journal promises. A launcher without a
job in hand owns nothing, so its `Placed` stands whatever the others do; one that has a job is
the only one that steps, or the step disturbs. Hence it is enough to follow one launcher
(`StepAlone`) and to show that the others stay where they are (`OthersStay`). The step from
"publishing" to "committed" is where `ExportTriad` changes its mind: until then the mapping
shows what the journal promises.

Backend. The argument goes along the chain of custody of a child: the start in hand has a bare
session of the locked root, and a child is in the job object before its session becomes
complete (`StartInHand`); a child works only after that (`Earned`); and a child that lives with
a complete session is the one its manager has, on the root its launcher has now (`Held`). The
root changes under it only by a dialog that was open when it started, and then its session is
in `moved` (item 12); the end of its launcher, which frees the lock, ends it too.

## 11. Disagreements with the documents

`retry_cleanup` is a run that ends in a counterexample of a few steps: the delayed clean-up
of a retry removes the directory of the new run, against `docs/设计文档.md:90`.

The following are in the models, as the code does them, and are what the properties except
or do not claim. No run states them.

Queue and download
1. A stop accepted after the run asked its event for the last time is dropped, and the task
   ends as success or failure (`app/queue.py:1653`); `docs/设计文档.md:92` promises `cancelled`.
2. Two overlapping retries, or a retry and a creation, exceed the limit of
   `docs/需求文档.md:66`: the quota is read in an earlier critical section. A cancellation that
   overlaps a pause of a queued task is answered ok and the task ends paused, though
   `docs/字段契约.md:335` says paused tasks refuse it.
3. A reader that is later than two seconds counts tracks of an earlier run in the new one,
   writes into the log of a retried task (`docs/需求文档.md:62` keeps the newest run's only), and
   a run can succeed although its own track below the demanded quality was not read yet
   (`app/bbdown.py:383`, `docs/需求文档.md:46`).

Exports
4. `_cleanup_export_files` finds the directory through the entry that the index has for the key
   now: the removal of one export takes the files of another of the same work that is ready
   (`app/task_store.py:632`, `docs/需求文档.md:93`). The retention of ended tasks acts on rows it
   read earlier: it can remove the export that a retry has registered since, or that is being
   sent (`app/task_store.py:882`).

Imports
5. The window of an import counts only the tasks of one job (`app/creator_imports.py:704`,
   `docs/设计文档.md:86`); a job resumed between the worker's last look at the event and its write
   of the final status is cancelled (`app/creator_imports.py:486`, `docs/字段契约.md:236`); a running
   import whose cancellation was accepted can end completed, partial or failed
   (`tests/test_creator_imports.py:362` expects cancelled); an import can take a place that
   `docs/设计文档.md:86` keeps for manual requests; an item is looked up in the deletion history
   before, not after, the wait for room (`docs/需求文档.md:40`).

Library
6. The catalog remembers the token it reads after it changed or patched the index
   (`app/catalog_store.py:228`, also 257, 730, 738): a change in between is not read before the
   next one (`docs/设计文档.md:168`; `unseen`).
7. `put` changes the memory before `_save` raises (`app/index_store.py:252`): the index is ahead of
   the files. A crash between the two renames of a promotion leaves the media only in
   `.bili_backup`, which a retry removes (`app/artifacts.py:138`; `gone`).
8. A deletion between the promotion and the put leaves an entry without files; one that is
   rolled back while the files were away leaves a work unlisted; a crash in the middle loses the
   tombstone and leaves copies without rows or rows without copies (`cut`); a search that began
   before a second deletion removes its tombstone (`app/routes.py:343`).
9. `merge_group` can delete the default group, and `delete_group` looks before it deletes
   without the lock: works that came in between lose their group. A transcode whose first
   UPDATE raises, or the UPDATE of its handler, ends without a word: its row stays queued or
   running until the next start (`app/catalog_store.py:812`, 888; `stuck`; the model keeps one
   row per work, so a next transcode of the work replaces it there).

Accounts and database
10. A crash between the two statements of `set_user_disabled` (`app/account_store.py:642`) leaves
    the sessions of a disabled account; they open again when it is enabled
    (`docs/需求文档.md:19`; `torn`). In server mode an old database without accounts cannot be
    upgraded before a local start (`docs/字段契约.md`, section 11, promises a temporary
    administrator); failed upgrades add copies that only a successful one prunes, and partial
    copies count among the three.

Launcher
11. No lock keeps the Docker jobs of two launchers of one EXE directory apart.
    `recover_pending_outputs` takes the journal of a publication under way in the other for an
    interrupted one (`docker_jobs.py:915`): an old file can be lost. `ExportIsSafe` and
    `ImplementsTriad` end where a launcher steps while another has a job in hand (`disturbed`),
    which is more than the steps that do harm. A crash between the journal "failed" and the
    removal leaves temporary files.
12. The folder dialog looks for a running child when it opens (`gui.py:344`), and the timer of
    the first start goes on while it is open (`gui.py:279`): a user who opens it in the first
    100 ms can move the data root, and release its lock, under the child. `ServersAreSafe`
    excepts the lock of that child (`moved`).
13. The rollback and the recovery of a publication remove what they find in the place of a
    file that did not exist, or that has a backup (`docker_jobs.py:900`-907): a file that
    somebody put there after a crash is lost. A change to a file between the check of its
    identity (`docker_jobs.py:844`) and its rename is found by the check of the backup (866), and
    the rollback then stops (`disturbed`).
14. A killed backend that does not end in five seconds makes `stop` raise `TimeoutExpired`
    (`backend_process.py:646`), which `gui.py:479` and 518 do not expect: the user is told nothing,
    the window keeps the state it had, and the next poll or click tries again (`KillFails`).

## 12. Not modelled

- Two queues and their order of start and stop (`app/state.py`): `TaskQueue` has the workers of
  both as one set, which is what the shared permits see; nothing else is shared.
- Task logs, previews, the change counter and the browser's event stream and cache: a missed
  change is healed by the next answer, and no decision of the server depends on them.
- CSRF, Host and body checks, the limit on failed logins, the audit log: checks of one
  request, without a second actor. QR login: its states are those of another service.
- Of the upgrade: columns, the back-fill of the device history, legacy tags.
- Search, quality parsing of names, configuration, cookies, paths, streaming of ranges, covers,
  pages, build tools, scripts, the live test tools: input, output and conversion, tested
  directly.
- Of the launcher: tray, settings, the end of the Windows session while a stop raises, the answer
  of another server on the same port, journals without a pid, which nothing removes.
- SQLite, Docker, BBDown, FFmpeg and the operating system are taken as what the code assumes of
  them: a transaction is atomic, a rename is atomic, a lock ends with its process.

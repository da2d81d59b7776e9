---------------------------- MODULE DockerExport ----------------------------
(***************************************************************************)
(* The export of a Docker image as three files by the Windows launcher     *)
(* (docker_jobs.py and the window of gui.py that runs it): the job of the  *)
(* worker thread, the recovery of a journal at the next start, and the     *)
(* removal of the images that the launcher built.                          *)
(*                                                                         *)
(* One build and one output directory.  A step is one operation on a file, *)
(* on a journal or on the Docker engine; it may fail, and the process may  *)
(* end before any step.  The paths of temporary files and backups carry    *)
(* the number of the job.                                                  *)
(*                                                                         *)
(* ..._Mutant... operators are wrong versions that no specification uses.  *)
(***************************************************************************)
EXTENDS Naturals, Sequences

CONSTANTS
  Launchers,   \* launcher processes of one EXE directory
  MaxJobs, MaxSaves,
  MaxEvents    \* bound: failed operations, crashes, and changes by others

ASSUME DockerAssumption == MaxJobs \in Nat \ {0} /\ MaxSaves \in Nat /\ MaxEvents \in Nat

VARIABLES
  target,      \* the content of the three files of the directory
  temp, bak,   \* per job, the temporary files and the backups
  journal,     \* per job, its journal: image-export-<job>.json
  image,       \* jobs whose image is in the Docker engine
  pc, at,      \* per launcher, what it does and to which file
  job,         \* the job of the worker, or the journal that is recovered
  plan,        \* the identities that the preflight showed the user
  serial,      \* the number of the save under way
  retained,    \* the image that the session keeps for another try (0: none)
  blocked,     \* launchers whose recovery failed: they export nothing
  stale,       \* images that the check of the session found, to be removed
  swept,       \* launchers that made that check
  jobs, saves, events,
  confirmed,   \* history: what was confirmed for the last export that began
  disturbed    \* history: launchers interleaved their steps on jobs, or the files were
               \* changed by others during their publication

disk == <<target, temp, bak>>
mine == <<plan, serial, retained, blocked, stale, swept>>
bounds == <<jobs, saves, events>>
vars == <<disk, journal, image, pc, at, job, mine, bounds, confirmed, disturbed>>

Order == <<"tar", "checksum", "manifest">>
Files == {"tar", "checksum", "manifest"}
Jobs  == 1 .. MaxJobs
None  == <<"none", 0>>
Empty == [f \in Files |-> None]
Triad(n) == [f \in Files |-> <<"export", n>>]
Recoverable == {"exporting", "publishing", "committed"}
NoJournal == [state |-> "none", old |-> Empty, new |-> 0]
State(j) == journal[j].state
Pending == {j \in Jobs : State(j) \in Recoverable}
Set(j, s) == journal' = [journal EXCEPT ![j].state = s]

At(l, p) == pc[l] = p
Goto(l, p) == pc' = [pc EXCEPT ![l] = p] /\ at' = [at EXCEPT ![l] = 1]
File(l) == Order[at[l]]
\* The next file, or p after the last one.
Advance(l, p) ==
  IF at[l] < Len(Order) THEN at' = [at EXCEPT ![l] = @ + 1] /\ UNCHANGED pc ELSE Goto(l, p)
Spend == events < MaxEvents /\ events' = events + 1

Init ==
  /\ target \in {Empty, [f \in Files |-> <<"user", 0>>], [Empty EXCEPT !["tar"] = <<"user", 0>>]}
  /\ temp = [j \in Jobs |-> Empty] /\ bak = [j \in Jobs |-> Empty]
  /\ journal = [j \in Jobs |-> NoJournal] /\ image = {}
  /\ pc = [l \in Launchers |-> "off"] /\ at = [l \in Launchers |-> 1]
  /\ job = [l \in Launchers |-> 0] /\ plan = [l \in Launchers |-> Empty]
  /\ serial = [l \in Launchers |-> 0] /\ retained = [l \in Launchers |-> 0]
  /\ blocked = {} /\ stale = [l \in Launchers |-> {}] /\ swept = {}
  /\ jobs = 0 /\ saves = 0 /\ events = 0
  /\ confirmed = target /\ disturbed = FALSE

-----------------------------------------------------------------------------
(* Operations that publication and recovery share.                         *)

Restored_MutantUnlink(j, f) ==
  LET old == journal[j].old[f] IN
  IF bak[j][f] # None THEN [can |-> bak[j][f] = old, file |-> old, bak |-> None]
  ELSE [can |-> TRUE, file |-> None, bak |-> None]
\* _restore_old_outputs for one file: whether it succeeds, and the two files then.
Restored(j, f) ==
  LET old == journal[j].old[f] IN
  IF bak[j][f] # None THEN [can |-> bak[j][f] = old, file |-> old, bak |-> None]
  ELSE IF old = None THEN [can |-> TRUE, file |-> None, bak |-> None]
  ELSE [can |-> target[f] = old, file |-> target[f], bak |-> None]

\* One file is put back, as one step: between the removal of the new file and the
\* rename of the old one the directory is as during the publication.
PutBack(l, done, failed) ==
  LET j == job[l] f == File(l) r == Restored(j, f) IN
  IF r.can
    THEN /\ target' = [target EXCEPT ![f] = r.file]
         /\ bak' = [bak EXCEPT ![j][f] = r.bak]
         /\ Advance(l, done)
    ELSE Goto(l, failed) /\ UNCHANGED <<target, bak>>

RemoveTemp(l, next) ==
  /\ temp' = [temp EXCEPT ![job[l]][File(l)] = None]
  /\ Advance(l, next)
  /\ UNCHANGED <<target, bak>>

RemoveBackup(l, next) ==
  /\ bak' = [bak EXCEPT ![job[l]][File(l)] = None]
  /\ Advance(l, next)
  /\ UNCHANGED <<target, temp>>

-----------------------------------------------------------------------------
(* The start of a launcher: recover_pending_outputs.                       *)

Boot(l) ==
  /\ At(l, "off") /\ Goto(l, "recover")
  /\ UNCHANGED <<disk, journal, image, job, mine, bounds, confirmed>>

Arrived(j) == target = Triad(journal[j].new)
\* The three files are validated against the manifest of the journal: a complete
\* publication is kept, any other one is undone.
Resume(j) ==
  IF State(j) = "exporting" THEN "r_temps"
  ELSE IF Arrived(j) THEN "r_drop" ELSE "r_restore"

RecoverNext(l) ==
  /\ At(l, "recover")
  /\ IF Pending = {}
       THEN Goto(l, "idle") /\ UNCHANGED job
       ELSE \E j \in Pending : job' = [job EXCEPT ![l] = j] /\ Goto(l, Resume(j))
  /\ UNCHANGED <<disk, journal, image, mine, bounds, confirmed>>

RecoverFile(l) ==
  /\ \/ At(l, "r_drop") /\ RemoveBackup(l, "r_temps")
     \/ At(l, "r_restore") /\ PutBack(l, "r_verify", "block") /\ UNCHANGED temp
     \/ At(l, "r_temps") /\ RemoveTemp(l, "r_write")
  /\ UNCHANGED <<journal, image, job, mine, bounds, confirmed>>

RecoverVerify(l) ==
  /\ At(l, "r_verify")
  /\ Goto(l, IF target = journal[job[l]].old THEN "r_temps" ELSE "block")
  /\ UNCHANGED <<disk, journal, image, job, mine, bounds, confirmed>>

RecoverWrite(l) ==
  /\ At(l, "r_write")
  /\ Set(job[l], "cleanup-required") /\ Goto(l, "recover")
  /\ UNCHANGED <<disk, image, job, mine, bounds, confirmed>>

\* The recovery raised: _docker_recovery_blocked, or the start stopped there.
Block(l) ==
  /\ At(l, "block") /\ Goto(l, "idle")
  /\ blocked' = blocked \cup {l}
  /\ UNCHANGED <<disk, journal, image, job, plan, serial, retained, stale, swept, bounds, confirmed>>

-----------------------------------------------------------------------------
(* The export.                                                             *)

\* choose_docker_export: the preflight, and the confirmation of the user.
Choose(l) ==
  /\ At(l, "idle") /\ l \notin blocked /\ saves < MaxSaves
  /\ plan' = [plan EXCEPT ![l] = target]
  /\ Goto(l, "confirmed")
  /\ UNCHANGED <<disk, journal, image, job, serial, retained, blocked, stale, swept, bounds, confirmed>>

\* The beginning of export_image: nothing may be pending, and the files are those
\* of the preflight; the retained image is used again, or a new job is begun.
BeginExport(l) ==
  /\ At(l, "confirmed")
  /\ IF Pending # {} \/ target # plan[l]
       THEN Goto(l, "idle") /\ UNCHANGED <<journal, job, retained, jobs, confirmed>>
       ELSE /\ confirmed' = plan[l]
            /\ IF retained[l] \in image
                 THEN job' = [job EXCEPT ![l] = retained[l]] /\ Goto(l, "ready")
                      /\ UNCHANGED <<journal, retained, jobs>>
                 ELSE /\ jobs < MaxJobs /\ jobs' = jobs + 1
                      /\ job' = [job EXCEPT ![l] = jobs'] /\ Set(jobs', "building")
                      /\ retained' = [retained EXCEPT ![l] = 0]
                      /\ Goto(l, "build")
  /\ UNCHANGED <<disk, image, plan, serial, blocked, stale, swept, saves, events>>

\* docker build; when it fails the image may be there or not.
Build(l) ==
  /\ At(l, "build")
  /\ retained' = [retained EXCEPT ![l] = job[l]]
  /\ \/ image' = image \cup {job[l]} /\ Goto(l, "built") /\ UNCHANGED <<journal, events>>
     \/ /\ Spend /\ image' \in {image, image \cup {job[l]}}
        /\ (Set(job[l], "failed") \/ UNCHANGED journal) /\ Goto(l, "idle")
  /\ UNCHANGED <<disk, job, plan, serial, blocked, stale, swept, jobs, saves, confirmed>>

MarkReady(l) ==
  /\ At(l, "built") /\ Set(job[l], "ready") /\ Goto(l, "ready")
  /\ UNCHANGED <<disk, image, job, mine, bounds, confirmed>>

\* The image is verified, and no file of an earlier try is in the way.
BeginSave(l) ==
  LET j == job[l] IN
  /\ At(l, "ready")
  /\ IF j \notin image \/ temp[j] # Empty \/ bak[j] # Empty
       THEN Goto(l, "idle") /\ UNCHANGED <<journal, serial, saves>>
       ELSE /\ saves < MaxSaves /\ saves' = saves + 1
            /\ serial' = [serial EXCEPT ![l] = saves']
            /\ Set(j, "exporting") /\ Goto(l, "save")
  /\ UNCHANGED <<disk, image, job, plan, retained, blocked, stale, swept, jobs, events, confirmed>>

\* docker image save, and the two files that describe it.
Save(l) ==
  /\ At(l, "save")
  /\ temp' = [temp EXCEPT ![job[l]][File(l)] = <<"export", serial[l]>>]
  /\ Advance(l, "publish")
  /\ UNCHANGED <<target, bak, journal, image, job, mine, bounds, confirmed>>

Publish_MutantUnchecked(l) ==
  LET j == job[l] IN
  /\ At(l, "publish")
  /\ IF temp[j] = Triad(serial[l])
       THEN /\ journal' = [journal EXCEPT ![j] =
                 [state |-> "publishing", old |-> target, new |-> serial[l]]]
            /\ Goto(l, "backup")
       ELSE Goto(l, "undo") /\ UNCHANGED journal
  /\ UNCHANGED <<disk, image, job, mine, bounds, confirmed>>
\* The beginning of _publish_transaction: the files are still those of the
\* preflight, and the journal says what they are.
Publish(l) ==
  LET j == job[l] IN
  /\ At(l, "publish")
  /\ IF temp[j] = Triad(serial[l]) /\ target = plan[l]
       THEN /\ journal' = [journal EXCEPT ![j] =
                 [state |-> "publishing", old |-> plan[l], new |-> serial[l]]]
            /\ Goto(l, "backup")
       ELSE Goto(l, "undo") /\ UNCHANGED journal
  /\ UNCHANGED <<disk, image, job, mine, bounds, confirmed>>

\* os.replace(target, backup) for the files that existed.
Backup(l) ==
  LET j == job[l] f == File(l) IN
  /\ At(l, "backup")
  /\ IF journal[j].old[f] = None THEN Advance(l, "promote") /\ UNCHANGED <<target, bak>>
     ELSE IF target[f] = None THEN Goto(l, "restore") /\ UNCHANGED <<target, bak>>
     ELSE /\ bak' = [bak EXCEPT ![j][f] = target[f]]
          /\ target' = [target EXCEPT ![f] = None]
          /\ Advance(l, "promote")
  /\ UNCHANGED <<temp, journal, image, job, mine, bounds, confirmed>>

\* The backups are verified, then os.replace(temporary, target).
Promote(l) ==
  LET j == job[l] f == File(l) IN
  /\ At(l, "promote")
  /\ IF temp[j][f] = None \/ (at[l] = 1 /\ bak[j] # journal[j].old)
       THEN Goto(l, "restore") /\ UNCHANGED <<target, temp>>
       ELSE /\ target' = [target EXCEPT ![f] = temp[j][f]]
            /\ temp' = [temp EXCEPT ![j][f] = None]
            /\ Advance(l, "commit")
  /\ UNCHANGED <<bak, journal, image, job, mine, bounds, confirmed>>

Commit(l) ==
  /\ At(l, "commit")
  /\ IF target = Triad(serial[l])
       THEN Set(job[l], "committed") /\ Goto(l, "drop")
       ELSE Goto(l, "restore") /\ UNCHANGED journal
  /\ UNCHANGED <<disk, image, job, mine, bounds, confirmed>>

\* The backups of a committed export are removed, then the journal asks for the
\* removal of the image only.
Finish(l) ==
  \/ /\ At(l, "drop") /\ RemoveBackup(l, "finish")
     /\ UNCHANGED <<journal, image, job, mine, bounds, confirmed>>
  \/ /\ At(l, "finish") /\ Set(job[l], "cleanup-required") /\ Goto(l, "rmi")
     /\ UNCHANGED <<disk, image, job, mine, bounds, confirmed>>

\* docker image rm; an image that resists is retained.
RemoveImage(l) ==
  /\ At(l, "rmi")
  /\ \/ image' = image \ {job[l]} /\ Goto(l, "forget") /\ UNCHANGED <<retained, events>>
     \/ Spend /\ Goto(l, "idle") /\ retained' = [retained EXCEPT ![l] = job[l]] /\ UNCHANGED image
  /\ UNCHANGED <<disk, journal, job, plan, serial, blocked, stale, swept, jobs, saves, confirmed>>

Forget(l) ==
  /\ At(l, "forget")
  /\ journal' = [journal EXCEPT ![job[l]] = NoJournal]
  /\ retained' = [retained EXCEPT ![l] = 0]
  /\ Goto(l, "idle")
  /\ UNCHANGED <<disk, image, job, plan, serial, blocked, stale, swept, bounds, confirmed>>

-----------------------------------------------------------------------------
(* Failures of the export.                                                 *)

\* The publication failed: the old files are put back, and verified, before the
\* journal says so.  If that fails the journal stays for the next start.
Restore(l) ==
  \/ /\ At(l, "restore") /\ PutBack(l, "verify", "undo")
     /\ UNCHANGED <<temp, journal, image, job, mine, bounds, confirmed>>
  \/ /\ At(l, "verify")
     /\ IF target = journal[job[l]].old THEN Set(job[l], "failed") ELSE UNCHANGED journal
     /\ Goto(l, "undo")
     /\ UNCHANGED <<disk, image, job, mine, bounds, confirmed>>

\* The handler of export_image: a job that was exporting removes its temporary
\* files and fails; a journal that needs recovery is kept; any other one fails.
Undo(l) ==
  LET j == job[l] IN
  /\ At(l, "undo")
  /\ IF State(j) = "exporting" THEN Goto(l, "unwind") /\ UNCHANGED journal
     ELSE /\ Goto(l, "finally")
          /\ IF State(j) \in Recoverable THEN UNCHANGED journal ELSE Set(j, "failed")
  /\ retained' = [retained EXCEPT ![l] = j]
  /\ UNCHANGED <<disk, image, job, plan, serial, blocked, stale, swept, bounds, confirmed>>

Unwind(l) ==
  \/ /\ At(l, "unwind") /\ RemoveTemp(l, "fail")
     /\ UNCHANGED <<journal, image, job, mine, bounds, confirmed>>
  \/ /\ At(l, "fail") /\ Set(job[l], "failed") /\ Goto(l, "finally")
     /\ UNCHANGED <<disk, image, job, mine, bounds, confirmed>>
  \/ /\ At(l, "finally") /\ RemoveTemp(l, "idle")
     /\ UNCHANGED <<journal, image, job, mine, bounds, confirmed>>

\* The operations that lead to each place when they raise.
Handler ==
  [block   |-> {"r_drop", "r_restore", "r_temps", "r_write"},
   undo    |-> {"ready", "save", "publish", "drop", "finish", "restore", "verify"},
   restore |-> {"backup", "promote", "commit"},
   finally |-> {"undo", "unwind", "fail"},
   idle    |-> {"built", "finally", "forget"}]

Fail(l) ==
  /\ \E p \in DOMAIN Handler : pc[l] \in Handler[p] /\ Goto(l, p)
  /\ Spend
  /\ UNCHANGED <<disk, journal, image, job, mine, jobs, saves, confirmed>>

-----------------------------------------------------------------------------
(* Images that stayed behind.                                              *)

Leftover == {j \in Jobs : State(j) \notin Recoverable \cup {"none"}}

\* _check_stale_images, once in a session: journals without an image are removed,
\* and the user has the other images removed.
CheckStale(l) ==
  /\ At(l, "idle") /\ l \notin blocked \cup swept
  /\ swept' = swept \cup {l}
  /\ journal' = [j \in Jobs |-> IF j \in Leftover \ image THEN NoJournal ELSE journal[j]]
  /\ stale' \in {[stale EXCEPT ![l] = s] : s \in {{}, Leftover \cap image}}
  /\ Goto(l, IF stale'[l] = {} THEN "idle" ELSE "clean")
  /\ UNCHANGED <<disk, image, job, plan, serial, retained, blocked, bounds, confirmed>>

\* cleanup_stale_image for each of them; the first failure ends the job.
CleanStale(l) ==
  /\ At(l, "clean")
  /\ IF stale[l] = {} THEN Goto(l, "idle") /\ UNCHANGED <<journal, image, stale, events>>
     ELSE \E j \in stale[l] :
       \/ /\ j \in image /\ State(j) \notin Recoverable \cup {"none"}
          /\ image' = image \ {j} /\ journal' = [journal EXCEPT ![j] = NoJournal]
          /\ stale' = [stale EXCEPT ![l] = @ \ {j}]
          /\ UNCHANGED <<pc, at, events>>
       \/ /\ IF j \in image /\ State(j) \notin Recoverable \cup {"none"} THEN Spend ELSE UNCHANGED events
          /\ Goto(l, "idle") /\ stale' = [stale EXCEPT ![l] = {}]
          /\ UNCHANGED <<journal, image>>
  /\ UNCHANGED <<disk, job, plan, serial, retained, blocked, swept, jobs, saves, confirmed>>

\* The process ends, and what it has in memory with it.
Vanish(l) ==
  /\ Goto(l, "off")
  /\ job' = [job EXCEPT ![l] = 0] /\ plan' = [plan EXCEPT ![l] = Empty]
  /\ serial' = [serial EXCEPT ![l] = 0] /\ retained' = [retained EXCEPT ![l] = 0]
  /\ blocked' = blocked \ {l} /\ stale' = [stale EXCEPT ![l] = {}] /\ swept' = swept \ {l}

\* explicit_exit with cleanup_session_image: the journal of an output that waits
\* for recovery outlives the image.
Exit(l) ==
  LET j == retained[l] IN
  /\ At(l, "idle") /\ Vanish(l)
  /\ IF j \in image /\ State(j) # "none"
       THEN \/ /\ image' = image \ {j}
               /\ journal' = IF State(j) \in Recoverable THEN journal
                             ELSE [journal EXCEPT ![j] = NoJournal]
               /\ UNCHANGED events
            \/ Spend /\ UNCHANGED <<image, journal>>
       ELSE UNCHANGED <<image, journal, events>>
  /\ UNCHANGED <<disk, jobs, saves, confirmed>>

\* A crash, or the end of the Windows session, at any point.
Crash(l) ==
  /\ ~At(l, "off") /\ Spend /\ Vanish(l)
  /\ UNCHANGED <<disk, journal, image, jobs, saves, confirmed>>

\* Somebody else removes or writes one of the files, at any time.
Change ==
  /\ Spend
  /\ \E f \in Files : target' = [target EXCEPT ![f] = IF @ = None THEN <<"user", events'>> ELSE None]
  /\ UNCHANGED <<temp, bak, journal, image, pc, at, job, mine, jobs, saves, confirmed>>

RecoveryStep(l) == Boot(l) \/ RecoverNext(l) \/ RecoverFile(l) \/ RecoverVerify(l) \/ RecoverWrite(l) \/ Block(l)
ExportStep(l) ==
  \/ Choose(l) \/ BeginExport(l) \/ Build(l) \/ MarkReady(l) \/ BeginSave(l) \/ Save(l) \/ Publish(l)
  \/ Backup(l) \/ Promote(l) \/ Commit(l) \/ Finish(l) \/ RemoveImage(l) \/ Forget(l)
FailureStep(l) == Restore(l) \/ Undo(l) \/ Unwind(l) \/ Fail(l) \/ Crash(l)
CleanupStep(l) == CheckStale(l) \/ CleanStale(l) \/ Exit(l)
Step(l) == RecoveryStep(l) \/ ExportStep(l) \/ FailureStep(l) \/ CleanupStep(l)

\* A launcher that has a job in hand; no lock keeps the others away from it.
Working(l) == pc[l] \notin {"off", "recover", "block", "idle", "confirmed", "clean"}
Replacing  == \E j \in Jobs : State(j) \in {"publishing", "committed"}
Disturbs(when) == disturbed' = (disturbed \/ when)

Next ==
  \/ \E l \in Launchers : Step(l) /\ Disturbs(\E m \in Launchers \ {l} : Working(m))
  \/ Change /\ Disturbs(Replacing)

Spec == Init /\ [][Next]_vars

-----------------------------------------------------------------------------
(* Properties.                                                             *)

Contents == {<<"none", 0>>} \cup ({"user"} \X (0 .. MaxEvents)) \cup ({"export"} \X (1 .. MaxSaves))
Phases == (UNION {Handler[p] : p \in DOMAIN Handler}) \cup
  {"off", "recover", "r_verify", "block", "idle", "confirmed", "build", "rmi", "clean"}

TypeOK ==
  /\ target \in [Files -> Contents] /\ temp \in [Jobs -> [Files -> Contents]]
  /\ bak \in [Jobs -> [Files -> Contents]]
  /\ \A j \in Jobs :
       /\ State(j) \in Recoverable \cup {"none", "building", "ready", "failed", "cleanup-required"}
       /\ journal[j].old \in [Files -> Contents] /\ journal[j].new \in 0 .. MaxSaves
  /\ image \subseteq Jobs
  /\ pc \in [Launchers -> Phases] /\ at \in [Launchers -> 1 .. Len(Order)]
  /\ job \in [Launchers -> Jobs \cup {0}] /\ retained \in [Launchers -> Jobs \cup {0}]
  /\ plan \in [Launchers -> [Files -> Contents]] /\ serial \in [Launchers -> 0 .. MaxSaves]
  /\ blocked \subseteq Launchers /\ swept \subseteq Launchers
  /\ stale \in [Launchers -> SUBSET Jobs]
  /\ jobs \in 0 .. MaxJobs /\ saves \in 0 .. MaxSaves /\ events \in 0 .. MaxEvents
  /\ confirmed \in [Files -> Contents] /\ disturbed \in BOOLEAN

\* Until the new files are complete, each file that the export replaces exists, in its
\* place or as a backup: whatever fails, wherever the process ends, however often.
OldIsSafe ==
  \A j \in Jobs : State(j) = "publishing" /\ ~Arrived(j) =>
    \A f \in Files : journal[j].old[f] # None => journal[j].old[f] \in {target[f], bak[j][f]}

\* A backup has a journal that restores or removes it: none is left behind.
BackupHasJournal ==
  \A j \in Jobs : bak[j] # Empty => State(j) \in {"publishing", "committed"}

\* An image of the launcher has a journal, which is how later sessions find it.
ImageHasJournal == \A j \in image : State(j) # "none"

\* Whatever a failure or a crash leaves can be put right later, while exports and
\* recoveries of several launchers come one after the other, and others change the
\* files at any time but during a publication.
ExportIsSafe ==
  ~disturbed => TypeOK /\ OldIsSafe /\ BackupHasJournal /\ ImageHasJournal

\* What the protocol answers for: while a journal says publishing, the files that it
\* names; otherwise the files of the directory.
Shown ==
  IF \E j \in Jobs : State(j) = "publishing"
    THEN journal[CHOOSE j \in Jobs : State(j) = "publishing"].old
    ELSE target

\* The three files change together, from what the user confirmed to one export, over
\* failures, crashes, recoveries, repeated tries, several launchers and changes by
\* others, until the protocol was disturbed.
Promise == INSTANCE ExportTriad WITH shown <- Shown, Exports <- 1 .. MaxSaves
ImplementsTriad == Promise!Spec
=============================================================================

------------------------------ MODULE Download ------------------------------
(***************************************************************************)
(* The runs of one download task: DownloadQueue._run_one (app/queue.py)    *)
(* with the BBDown process it starts and watches, and the thread that      *)
(* reads what BBDown prints (app/bbdown.py).  BBDown prints the video      *)
(* track it chose for each part (app/quality.py); a track below what the   *)
(* task asks for cancels the run.                                          *)
(*                                                                         *)
(* The worker waits two seconds for the reader and goes on without it, so  *)
(* a reader can record into a task that has ended, or into its next run.   *)
(* Queueing, promotion and the library are modelled in TaskQueue and       *)
(* MediaLibrary.  The task asks for a quality, as the default does.        *)
(*                                                                         *)
(* ..._Mutant... operators are wrong versions that no specification uses.  *)
(***************************************************************************)
EXTENDS Naturals, SequencesExt

CONSTANTS
  Parts,       \* parts of the work
  MaxRuns,     \* bound: the runs of the task
  MaxEvents    \* bound: failed operations

ASSUME DownloadAssumption ==
  Parts \in Nat \ {0} /\ MaxRuns \in Nat \ {0} /\ MaxEvents \in Nat

VARIABLES
  status, phase,  \* of the task
  run,            \* its latest run
  pc,             \* what the worker does
  res,            \* the BbdownResult of the run
  expected, verified, tracks, qerror,   \* the quality_... fields and selected_tracks
  cancel,         \* per run, its cancel event
  stop,           \* when the user cancelled the run: no, early or late
  proc,           \* per run, its BBDown process
  printed,        \* per run, the number of tracks that BBDown printed
  pipe,           \* per run, what its reader has not read yet
  held,           \* per run, a line in the parser without its end
  reader,         \* per run, its reader thread
  work,           \* whether the work directory exists
  kept,           \* the run whose files are in the library
  events

fields == <<expected, verified, tracks, qerror>>
output == <<printed, pipe, held, reader>>
files  == <<work, kept>>
vars   == <<status, phase, run, pc, res, fields, cancel, stop, proc, output, files, events>>

Runs  == 1 .. MaxRuns
Ended == {"success", "failed", "cancelled"}
None  == [run |-> 0, part |-> 0, low |-> FALSE]
Tracks == [run : Runs, part : 1 .. Parts, low : BOOLEAN]
Spend == events < MaxEvents /\ events' = events + 1
Goto(p) == pc' = p
At(p) == pc = p

Init ==
  /\ status = "queued" /\ phase = "queued" /\ run = 1 /\ pc = "idle" /\ res = "none"
  /\ expected = 0 /\ verified = FALSE /\ tracks = <<>> /\ qerror = FALSE
  /\ cancel = [r \in Runs |-> FALSE] /\ stop = "no"
  /\ proc = [r \in Runs |-> "none"] /\ printed = [r \in Runs |-> 0]
  /\ pipe = [r \in Runs |-> <<>>] /\ held = [r \in Runs |-> None]
  /\ reader = [r \in Runs |-> "none"]
  /\ work = FALSE /\ kept = 0 /\ events = 0

-----------------------------------------------------------------------------
(* What ends a run.                                                        *)

\* _finish.
Finish(s) == status' = s /\ phase' = "ended" /\ Goto("idle")

\* The handler of exceptions, whose promotion is undone.
Outcome == IF ~qerror /\ cancel[run] THEN "cancelled" ELSE "failed"

\* cleanup_work_dir and _finish; the removal may fail, and fail again in the handler.
Drop(s) ==
  \/ Finish(s) /\ work' = FALSE /\ UNCHANGED events
  \/ work /\ Spend /\ Finish(Outcome) /\ UNCHANGED work

-----------------------------------------------------------------------------
(* The worker.                                                             *)

Begin ==
  /\ At("idle") /\ status = "queued"
  /\ status' = "running" /\ phase' = "check" /\ Goto("check")
  /\ UNCHANGED <<run, res, fields, cancel, stop, proc, output, files, events>>

\* run_bbdown_info: BBDown lists the tracks of each part, and is ended by the event,
\* by a time-out or on its own.
Check ==
  /\ At("check")
  /\ \/ cancel[run] /\ Finish("cancelled")
     \/ ~cancel[run] /\ Finish("failed")
     \/ ~cancel[run] /\ Goto("decide") /\ UNCHANGED <<status, phase>>
  /\ UNCHANGED <<run, res, fields, cancel, stop, proc, output, files, events>>

\* parse_track_blocks: for each part whether its tracks are good enough.
Offers == [1 .. Parts -> SUBSET BOOLEAN \ {{}}]
\* decide_quality: the best track of every part is.
Acceptable(offer) == \A p \in 1 .. Parts : TRUE \in offer[p]

Decide ==
  /\ At("decide")
  /\ \E offer \in Offers :
       IF Acceptable(offer)
       THEN expected' = Parts /\ verified' = FALSE /\ Goto("prepare") /\ UNCHANGED <<status, phase>>
       ELSE Finish(Outcome) /\ UNCHANGED <<expected, verified>>
  /\ UNCHANGED <<run, res, tracks, qerror, cancel, stop, proc, output, files, events>>

\* BBDown or FFmpeg is missing when a command line is put together.
ToolsMissing ==
  /\ pc \in {"check", "prepare"} /\ Spend
  /\ Finish(Outcome) /\ work' = FALSE
  /\ UNCHANGED <<run, res, fields, cancel, stop, proc, output, kept>>

\* prepare_work_dir, and the start of _run_streaming.
Start ==
  /\ At("prepare") /\ work' = TRUE
  /\ IF cancel[run] THEN res' = "cancelled" /\ Goto("flush") /\ UNCHANGED <<proc, reader>>
     ELSE /\ proc' = [proc EXCEPT ![run] = "running"]
          /\ reader' = [reader EXCEPT ![run] = "reading"]
          /\ Goto("poll") /\ UNCHANGED res
  /\ UNCHANGED <<status, phase, run, fields, cancel, stop, printed, pipe, held, kept, events>>

\* An OSError of the preparation or of Popen.
StartFails ==
  /\ At("prepare") /\ events < MaxEvents /\ events' = events + 1
  /\ Finish(Outcome) /\ work' = FALSE
  /\ UNCHANGED <<run, res, fields, cancel, stop, proc, output, kept>>

\* _terminate_process_tree, which the process may resist.
Kill ==
  \/ proc' = [proc EXCEPT ![run] = IF @ = "running" THEN "killed" ELSE @] /\ UNCHANGED events
  \/ proc[run] = "running" /\ Spend /\ UNCHANGED proc

Poll_MutantNoDeadline ==
  /\ At("poll") /\ Goto("wait")
  /\ \/ /\ proc[run] # "running"
        /\ res' = IF proc[run] = "ok" THEN "ok" ELSE "bad"
        /\ UNCHANGED <<proc, events>>
     \/ proc[run] = "running" /\ cancel[run] /\ res' = "cancelled" /\ Kill
  /\ UNCHANGED <<status, phase, run, fields, cancel, stop, output, files>>
\* The loop of _run_streaming: the process ended, the event is set, or the deadline
\* has passed.
Poll ==
  /\ At("poll") /\ Goto("wait")
  /\ \/ /\ proc[run] # "running"
        /\ res' = IF proc[run] = "ok" THEN "ok" ELSE "bad"
        /\ UNCHANGED <<proc, events>>
     \/ /\ proc[run] = "running"
        /\ res' = IF cancel[run] THEN "cancelled" ELSE "timeout"
        /\ Kill
  /\ UNCHANGED <<status, phase, run, fields, cancel, stop, output, files>>

\* The wait for the process, which is killed again when it goes on.
Wait ==
  /\ At("wait")
  /\ \/ proc[run] # "running" /\ Goto("join") /\ UNCHANGED <<proc, status, phase, work, events>>
     \/ proc[run] = "running" /\ Kill /\ proc'[run] # "running" /\ Goto("join")
        /\ UNCHANGED <<status, phase, work>>
     \/ proc[run] = "running" /\ Spend /\ Finish(Outcome) /\ work' = FALSE /\ UNCHANGED proc
  /\ UNCHANGED <<run, res, fields, cancel, stop, output, kept>>

\* reader.join(timeout=2): the reader has ended, or it is late.
Join ==
  /\ At("join") /\ Goto("flush")
  /\ UNCHANGED <<status, phase, run, res, fields, cancel, stop, proc, output, files, events>>

\* _record_selected_track, with the event of the run that printed the track.
Record(r, t) ==
  /\ tracks' = Append(tracks, t)
  /\ verified' = (expected > 0 /\ Len(tracks') >= expected)
  /\ qerror' = (qerror \/ t.low)
  /\ cancel' = [cancel EXCEPT ![r] = @ \/ t.low]

\* selected_parser.flush: the parser has no lock, so a reader that is late can take
\* the same line.
Flush ==
  /\ At("flush") /\ Goto("judge")
  /\ \/ held[run] = None /\ UNCHANGED <<tracks, verified, qerror, cancel, held>>
     \/ /\ held[run] # None /\ Record(run, held[run])
        /\ \/ held' = [held EXCEPT ![run] = None]
           \/ reader[run] = "reading" /\ UNCHANGED held
  /\ UNCHANGED <<status, phase, run, res, expected, stop, proc, printed, pipe, reader, files, events>>

\* The tests after the process, in the order of the code and without the lock.
Judge ==
  /\ At("judge")
  /\ \/ qerror /\ Drop("failed")
     \/ ~qerror /\ Goto("result") /\ UNCHANGED <<status, phase, work, events>>
  /\ UNCHANGED <<run, res, fields, cancel, stop, proc, output, kept>>

Result_MutantResultOnly ==
  /\ At("result")
  /\ \/ res = "cancelled" /\ Drop("cancelled")
     \/ res \in {"timeout", "bad"} /\ Drop("failed")
     \/ res = "ok" /\ Goto("verify") /\ UNCHANGED <<status, phase, work, events>>
  /\ UNCHANGED <<run, res, fields, cancel, stop, proc, output, kept>>
Result ==
  /\ At("result")
  /\ \/ (res = "cancelled" \/ cancel[run]) /\ Drop("cancelled")
     \/ res \in {"timeout", "bad"} /\ ~cancel[run] /\ Drop("failed")
     \/ res = "ok" /\ ~cancel[run] /\ Goto("verify") /\ UNCHANGED <<status, phase, work, events>>
  /\ UNCHANGED <<run, res, fields, cancel, stop, proc, output, kept>>

Verify ==
  /\ At("verify")
  /\ \/ ~verified /\ Drop("failed")
     \/ /\ verified /\ Goto("promote")
        /\ phase' = IF phase = "stopping" THEN phase ELSE "finalizing"
        /\ UNCHANGED <<status, work, events>>
  /\ UNCHANGED <<run, res, fields, cancel, stop, proc, output, kept>>

\* The promotion and the index; a failure puts the earlier files back.
Promote ==
  /\ At("promote")
  /\ \/ Finish("success") /\ work' = FALSE /\ kept' = run /\ UNCHANGED events
     \/ Spend /\ Finish(Outcome) /\ work' = FALSE /\ UNCHANGED kept
  /\ UNCHANGED <<run, res, fields, cancel, stop, proc, output>>

-----------------------------------------------------------------------------
(* BBDown and the readers.                                                 *)

Prints(r) ==
  /\ proc[r] = "running" /\ printed[r] < Parts
  /\ printed' = [printed EXCEPT ![r] = @ + 1]
  /\ \E low \in BOOLEAN :
       pipe' = [pipe EXCEPT ![r] = Append(@, [run |-> r, part |-> printed'[r], low |-> low])]
  /\ UNCHANGED <<status, phase, run, pc, res, fields, cancel, stop, proc, held, reader, files, events>>

ExitProc(r) ==
  /\ proc[r] = "running"
  /\ \E code \in {"ok", "bad"} : proc' = [proc EXCEPT ![r] = code]
  /\ UNCHANGED <<status, phase, run, pc, res, fields, cancel, stop, output, files, events>>

Shown_MutantUnguarded == phase' = "load"
\* _set_progress, by the output of whatever run.
Shown == phase' = IF status = "running" /\ phase # "stopping" THEN "load" ELSE phase

\* _EncodingProbe keeps the output back until it knows its code, at the end at latest.
Readable(r) == reader[r] = "reading" /\ pipe[r] # <<>>

\* A chunk of output: a line is in the parser until its end is read.
ReadPart(r) ==
  /\ Readable(r) /\ held[r] = None
  /\ held' = [held EXCEPT ![r] = Head(pipe[r])] /\ pipe' = [pipe EXCEPT ![r] = Tail(@)]
  /\ Shown
  /\ UNCHANGED <<status, run, pc, res, fields, cancel, stop, proc, printed, reader, files, events>>

ReadEnd(r) ==
  /\ reader[r] = "reading" /\ held[r] # None
  /\ Record(r, held[r]) /\ held' = [held EXCEPT ![r] = None]
  /\ Shown
  /\ UNCHANGED <<status, run, pc, res, expected, stop, proc, printed, pipe, reader, files, events>>

\* The output ends, perhaps within a line.
ReaderEnds(r) ==
  /\ reader[r] = "reading" /\ pipe[r] = <<>> /\ proc[r] # "running"
  /\ reader' = [reader EXCEPT ![r] = "ended"]
  /\ UNCHANGED <<status, phase, run, pc, res, fields, cancel, stop, proc, printed, pipe, held, files, events>>

-----------------------------------------------------------------------------
(* The user.                                                               *)

\* cancel: late once the run is past the last test of its event.
Cancel ==
  /\ status = "running" /\ phase # "stopping" /\ phase' = "stopping"
  /\ cancel' = [cancel EXCEPT ![run] = TRUE]
  /\ stop' = IF pc \in {"verify", "promote"} THEN "late" ELSE "early"
  /\ UNCHANGED <<status, run, pc, res, fields, proc, output, files, events>>

\* retry_task: the same task with a new event.
Retry ==
  /\ status \in Ended /\ run < MaxRuns
  /\ status' = "queued" /\ phase' = "queued" /\ run' = run + 1 /\ res' = "none" /\ stop' = "no"
  /\ expected' = 0 /\ verified' = FALSE /\ tracks' = <<>> /\ qerror' = FALSE /\ work' = FALSE
  /\ UNCHANGED <<pc, cancel, proc, output, kept, events>>

Worker == \/ Begin \/ Check \/ Decide \/ ToolsMissing \/ Start \/ StartFails \/ Poll \/ Wait \/ Join \/ Flush
          \/ Judge \/ Result \/ Verify \/ Promote
Reading(r) == ReadPart(r) \/ ReadEnd(r) \/ ReaderEnds(r)
Next == Worker \/ Cancel \/ Retry \/ \E r \in Runs : Prints(r) \/ ExitProc(r) \/ Reading(r)

Spec == Init /\ [][Next]_vars

\* The worker goes on; BBDown, its readers and the user owe nothing.
FairSpec == Spec /\ WF_vars(Worker)

-----------------------------------------------------------------------------
(* Properties.                                                             *)

TypeOK ==
  /\ status \in Ended \cup {"queued", "running"}
  /\ phase \in {"queued", "check", "load", "finalizing", "stopping", "ended"}
  /\ run \in Runs
  /\ pc \in {"idle", "check", "decide", "prepare", "poll", "wait", "join", "flush", "judge", "result", "verify", "promote"}
  /\ res \in {"none", "ok", "bad", "cancelled", "timeout"}
  /\ expected \in {0, Parts} /\ verified \in BOOLEAN /\ tracks \in Seq(Tracks) /\ qerror \in BOOLEAN
  /\ cancel \in [Runs -> BOOLEAN] /\ stop \in {"no", "early", "late"}
  /\ proc \in [Runs -> {"none", "running", "ok", "bad", "killed"}]
  /\ printed \in [Runs -> 0 .. Parts] /\ pipe \in [Runs -> Seq(Tracks)]
  /\ held \in [Runs -> Tracks \cup {None}] /\ reader \in [Runs -> {"none", "reading", "ended"}]
  /\ work \in BOOLEAN /\ kept \in 0 .. MaxRuns /\ events \in 0 .. MaxEvents

\* A cancellation that comes before the last test of the event, while BBDown runs, exits
\* or is waited for, is never answered by a success.
CancelWins == stop = "early" => status # "success"

\* No failure hidden: nothing BBDown downloads after a run that ended, and no work
\* directory stays, unless a kill or a removal failed.
EndIsClean ==
  status \in Ended /\ events = 0 => ~work /\ \A r \in Runs : proc[r] # "running"

\* The library gets the files of a process that exited well, whatever a late reader
\* reports; the tracks that vouch for them were printed by it or, late, by an earlier run.
FilesAreFinished ==
  kept # 0 => proc[kept] = "ok" /\ \E r \in 1 .. kept : printed[r] > 0

\* How a run may end.
EndsAreSafe == TypeOK /\ CancelWins /\ EndIsClean /\ FilesAreFinished

\* Late output of this or an earlier run does not move a task that has ended.
EndStands == [][(status \in Ended /\ run' = run) => UNCHANGED <<status, phase>>]_vars

\* A run ends whatever BBDown and its reader do: hang, resist a kill, or print for ever.
RunEnds == status = "running" ~> status \in Ended
=============================================================================

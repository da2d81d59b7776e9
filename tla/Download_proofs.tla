--------------------------- MODULE Download_proofs ---------------------------
(***************************************************************************)
(* Proofs about Download, for any number of parts, runs and failures: how  *)
(* a run may end, whatever BBDown, its late readers and the user do.       *)
(*                                                                         *)
(* A success needs the way verify - promote, which is entered with the     *)
(* event unset (Obeyed) and with a process that exited well (Judged); what *)
(* was recorded was printed by a run that had begun (Vouched, Printed); as *)
(* long as no operation failed, only the run at hand has a process or a    *)
(* work directory (Clean).                                                 *)
(***************************************************************************)
EXTENDS Download, TLAPS

Promoting == {"verify", "promote"}
Preparing == {"check", "decide", "prepare"}
InWork    == {"poll", "wait", "join", "flush", "judge", "result", "verify", "promote"}

\* Where the worker is tells whether the task runs.
Placed == status = "running" <=> pc # "idle"

\* The result is of the process of this run.
Judged ==
  /\ status = "queued" \/ pc \in Preparing => res = "none"
  /\ res = "ok" => proc[run] = "ok"
  /\ pc \in Promoting => res = "ok"

\* An early cancellation has set the event, before its last test.
Obeyed == stop = "early" => cancel[run] /\ status # "success" /\ pc \notin Promoting

Clean ==
  events = 0 =>
    /\ work => pc \in InWork
    /\ \A r \in Runs : proc[r] = "running" => r = run /\ pc = "poll"

\* Runs to come have no process; what is read was printed.
Printed ==
  \A r \in Runs :
    /\ r > run => proc[r] = "none" /\ printed[r] = 0
    /\ pipe[r] # <<>> \/ held[r] # None => printed[r] > 0

SomePrinted == \E r \in 1 .. run : printed[r] > 0

Vouched == verified \/ pc = "promote" => SomePrinted

\* The files in the library, which a run that has not succeeded did not put there.
Kept ==
  /\ kept <= run /\ (status # "success" => kept < run)
  /\ FilesAreFinished

IInv == /\ TypeOK /\ Placed /\ Judged /\ Obeyed
        /\ Clean /\ Printed /\ Vouched /\ Kept

TaskTyped ==
  /\ status \in Ended \cup {"queued", "running"}
  /\ phase \in {"queued", "check", "load", "finalizing", "stopping", "ended"}
  /\ run \in Runs
  /\ pc \in {"idle", "check", "decide", "prepare", "poll", "wait", "join", "flush", "judge", "result", "verify", "promote"}
  /\ res \in {"none", "ok", "bad", "cancelled", "timeout"}
  /\ stop \in {"no", "early", "late"}

FieldsTyped ==
  /\ expected \in {0, Parts} /\ verified \in BOOLEAN /\ tracks \in Seq(Tracks) /\ qerror \in BOOLEAN
  /\ cancel \in [Runs -> BOOLEAN]

OutputTyped ==
  /\ proc \in [Runs -> {"none", "running", "ok", "bad", "killed"}]
  /\ printed \in [Runs -> 0 .. Parts] /\ pipe \in [Runs -> Seq(Tracks)]
  /\ held \in [Runs -> Tracks \cup {None}] /\ reader \in [Runs -> {"none", "reading", "ended"}]

FilesTyped == work \in BOOLEAN /\ kept \in 0 .. MaxRuns /\ events \in 0 .. MaxEvents

LEMMA RunsAre == Runs \subseteq Nat \ {0} /\ 1 \in Runs /\ \A r \in Runs : r <= MaxRuns
BY DownloadAssumption DEF Runs

LEMMA InitIInv == Init => IInv
<1> SUFFICES ASSUME Init  PROVE IInv
  OBVIOUS
<1>1. TypeOK
  <2>1. 0 \in 0 .. Parts /\ 0 \in 0 .. MaxRuns /\ 0 \in 0 .. MaxEvents /\ <<>> \in Seq(Tracks)
    BY DownloadAssumption
  <2>2. TaskTyped
    BY RunsAre DEF Init, TaskTyped
  <2>3. FieldsTyped /\ OutputTyped /\ FilesTyped
    BY <2>1 DEF Init, FieldsTyped, OutputTyped, FilesTyped
  <2>. QED  BY <2>2, <2>3 DEF TypeOK, TaskTyped, FieldsTyped, OutputTyped, FilesTyped
<1>2. Placed /\ Judged /\ Obeyed /\ Clean /\ Vouched
  BY DEF Init, Placed, Judged, Obeyed, Clean, Vouched, Preparing, Promoting
<1>3. Printed
  BY DEF Init, Printed
<1>4. Kept
  BY DEF Init, Kept, FilesAreFinished
<1>. QED  BY <1>1, <1>2, <1>3, <1>4 DEF IInv

(* The steps, by what they may change.                                     *)

\* A track that is recorded keeps the types.
LEMMA RecordTyped ==
  ASSUME TypeOK, NEW r \in Runs, NEW t \in Tracks, Record(r, t)
  PROVE  tracks' \in Seq(Tracks) /\ verified' \in BOOLEAN /\ qerror' \in BOOLEAN /\ cancel' \in [Runs -> BOOLEAN]
<1>1. tracks' \in Seq(Tracks)
  BY DEF Record, TypeOK
<1>2. t.low \in BOOLEAN
  BY DEF Tracks
<1>. QED  BY <1>1, <1>2 DEF Record, TypeOK

LEMMA NextTyped == ASSUME TypeOK, Next PROVE TypeOK'
<1>0. /\ 0 \in 0 .. MaxRuns /\ <<>> \in Seq(Tracks)
      /\ Spend => events' \in 0 .. MaxEvents
  BY DownloadAssumption DEF Spend, TypeOK
<1>1. CASE Begin \/ Check \/ Decide \/ ToolsMissing \/ StartFails
  <2>1. TaskTyped' /\ expected' \in {0, Parts} /\ verified' \in BOOLEAN
    <3>1. CASE Decide
      BY <3>1 DEF Decide, Finish, Outcome, Goto, Ended, TypeOK, TaskTyped
    <3>2. CASE Begin \/ Check
      BY <3>2 DEF Begin, Check, Finish, Goto, Ended, TypeOK, TaskTyped, fields
    <3>3. CASE ToolsMissing \/ StartFails
      BY <3>3 DEF ToolsMissing, StartFails, Finish, Outcome, Goto, Ended, TypeOK, TaskTyped, fields
    <3>. QED  BY <1>1, <3>1, <3>2, <3>3
  <2>2. UNCHANGED <<tracks, qerror, cancel, proc, output, kept>>
    BY <1>1 DEF Begin, Check, Decide, ToolsMissing, StartFails, fields, files
  <2>3. FilesTyped'
    BY <1>0, <1>1 DEF Begin, Check, Decide, ToolsMissing, StartFails, Spend, TypeOK, FilesTyped, files
  <2>. QED  BY <2>1, <2>2, <2>3
          DEF TypeOK, TaskTyped, FieldsTyped, OutputTyped, FilesTyped, fields, output, files
<1>2. CASE Start
  BY <1>2 DEF Start, TypeOK, fields, Goto
<1>3. CASE Poll \/ Wait
  <2>1. TaskTyped' /\ UNCHANGED <<fields, cancel, output, kept>>
    BY <1>3 DEF Poll, Wait, Finish, Outcome, Goto, Ended, TypeOK, TaskTyped, files
  <2>2. proc' \in [Runs -> {"none", "running", "ok", "bad", "killed"}]
    BY <1>3 DEF Poll, Wait, Kill, TypeOK
  <2>3. FilesTyped'
    BY <1>0, <1>3 DEF Poll, Wait, Kill, TypeOK, FilesTyped, files
  <2>. QED  BY <2>1, <2>2, <2>3
          DEF TypeOK, TaskTyped, FieldsTyped, OutputTyped, FilesTyped, fields, output, files
<1>4. CASE Join
  BY <1>4 DEF Join, Goto, TypeOK, fields, output, files
<1>5. CASE Flush
  <2>1. /\ TaskTyped' /\ FilesTyped' /\ UNCHANGED <<expected, proc, printed, pipe, reader>>
    BY <1>5 DEF Flush, Goto, TypeOK, TaskTyped, FilesTyped, files
  <2>2. CASE UNCHANGED <<tracks, verified, qerror, cancel, held>>
    BY <2>1, <2>2
          DEF TypeOK, TaskTyped, FieldsTyped, OutputTyped, FilesTyped, fields, output, files
  <2>3. CASE held[run] # None /\ Record(run, held[run]) /\ (held' = [held EXCEPT ![run] = None] \/ held' = held)
    <3>1. run \in Runs /\ held[run] \in Tracks
      BY <2>3 DEF TypeOK
    <3>2. FieldsTyped'
      BY <2>1, <2>3, <3>1, RecordTyped DEF TypeOK, FieldsTyped
    <3>3. OutputTyped'
      BY <2>1, <2>3 DEF TypeOK, OutputTyped
    <3>. QED  BY <2>1, <3>2, <3>3
          DEF TypeOK, TaskTyped, FieldsTyped, OutputTyped, FilesTyped, fields, output, files
  <2>. QED  BY <1>5, <2>2, <2>3 DEF Flush
<1>6. CASE Judge \/ Result \/ Verify \/ Promote
  <2>1. TaskTyped'
    BY <1>6 DEF Judge, Result, Verify, Promote, Drop, Finish, Outcome, Goto, Ended, TypeOK, TaskTyped
  <2>2. UNCHANGED <<fields, cancel, proc, output>>
    BY <1>6 DEF Judge, Result, Verify, Promote
  <2>3. FilesTyped'
    <3>1. run \in 0 .. MaxRuns
      BY RunsAre, DownloadAssumption DEF TypeOK
    <3>. QED  BY <1>0, <1>6, <3>1 DEF Judge, Result, Verify, Promote, Drop, TypeOK, FilesTyped
  <2>. QED  BY <2>1, <2>2, <2>3
          DEF TypeOK, TaskTyped, FieldsTyped, OutputTyped, FilesTyped, fields, output, files
<1>7. CASE Cancel
  BY <1>7 DEF Cancel, TypeOK, fields, output, files
<1>8. CASE Retry
  <2>1. run + 1 \in Runs
    BY <1>8, DownloadAssumption DEF Retry, TypeOK, Runs
  <2>2. TaskTyped' /\ UNCHANGED <<cancel, proc, output, kept, events>>
    BY <1>8, <2>1 DEF Retry, TypeOK, TaskTyped
  <2>3. FieldsTyped' /\ work' \in BOOLEAN
    BY <1>0, <1>8, <2>2 DEF Retry, TypeOK, FieldsTyped
  <2>. QED  BY <2>2, <2>3
          DEF TypeOK, TaskTyped, FieldsTyped, OutputTyped, FilesTyped, fields, output, files
<1>9. ASSUME NEW r \in Runs, Prints(r)  PROVE TypeOK'
  <2> DEFINE t(low) == [run |-> r, part |-> printed'[r], low |-> low]
  <2>1. /\ printed' \in [Runs -> 0 .. Parts] /\ printed'[r] \in 1 .. Parts
    <3>1. printed[r] \in Nat /\ printed[r] < Parts /\ Parts \in Nat
      BY <1>9, DownloadAssumption DEF Prints, TypeOK
    <3>2. printed[r] + 1 \in 0 .. Parts /\ printed[r] + 1 \in 1 .. Parts
      BY <3>1
    <3>. QED  BY <1>9, <3>2 DEF Prints, TypeOK
  <2>2. PICK low \in BOOLEAN : pipe' = [pipe EXCEPT ![r] = Append(pipe[r], t(low))]
    BY <1>9 DEF Prints
  <2>3. t(low) \in Tracks
    BY <2>1 DEF Tracks
  <2>4. Append(pipe[r], t(low)) \in Seq(Tracks)
    BY <2>3 DEF TypeOK
  <2>5. pipe' \in [Runs -> Seq(Tracks)]
    BY <2>2, <2>4 DEF TypeOK
  <2>. QED  BY <1>9, <2>1, <2>5 DEF Prints, TypeOK, fields, files
<1>10. ASSUME NEW r \in Runs, ExitProc(r) \/ ReaderEnds(r)  PROVE TypeOK'
  <2>1. CASE ExitProc(r)
    BY <2>1 DEF ExitProc, TypeOK, fields, output, files
  <2>2. CASE ReaderEnds(r)
    BY <2>2 DEF ReaderEnds, TypeOK, fields, files
  <2>. QED  BY <1>10, <2>1, <2>2
<1>11. ASSUME NEW r \in Runs, ReadPart(r)  PROVE TypeOK'
  <2>1. Head(pipe[r]) \in Tracks /\ Tail(pipe[r]) \in Seq(Tracks)
    BY <1>11 DEF ReadPart, Readable, TypeOK
  <2>2. phase' \in {"queued", "check", "load", "finalizing", "stopping", "ended"}
    BY <1>11 DEF ReadPart, Shown, TypeOK
  <2>3. pipe' \in [Runs -> Seq(Tracks)] /\ held' \in [Runs -> Tracks \cup {None}]
    BY <1>11, <2>1 DEF ReadPart, TypeOK
  <2>. QED  BY <1>11, <2>2, <2>3 DEF ReadPart, TypeOK, fields, files
<1>12. ASSUME NEW r \in Runs, ReadEnd(r)  PROVE TypeOK'
  <2>1. held[r] \in Tracks /\ Record(r, held[r])
    BY <1>12 DEF ReadEnd, TypeOK
  <2>2. TaskTyped' /\ FilesTyped'
    BY <1>12 DEF ReadEnd, Shown, TypeOK, TaskTyped, FilesTyped, files
  <2>3. FieldsTyped'
    BY <1>12, <2>1, RecordTyped DEF ReadEnd, TypeOK, FieldsTyped
  <2>4. OutputTyped'
    BY <1>12 DEF ReadEnd, TypeOK, OutputTyped
  <2>. QED  BY <2>2, <2>3, <2>4
          DEF TypeOK, TaskTyped, FieldsTyped, OutputTyped, FilesTyped, fields, output, files
<1>. QED  BY <1>1, <1>2, <1>3, <1>4, <1>5, <1>6, <1>7, <1>8, <1>9, <1>10, <1>11, <1>12
          DEF Next, Worker, Reading

LEMMA NextPlaced == ASSUME TypeOK, Placed, Next PROVE Placed'
<1>1. CASE Begin \/ Check \/ Decide \/ ToolsMissing \/ StartFails
  BY <1>1 DEF Begin, Check, Decide, ToolsMissing, StartFails, Finish, Outcome, Goto, At, Placed
<1>2. CASE Start \/ Poll \/ Wait \/ Join \/ Flush
  BY <1>2 DEF Start, Poll, Wait, Join, Flush, Finish, Outcome, Goto, At, Placed
<1>3. CASE Judge \/ Result \/ Verify \/ Promote
  BY <1>3 DEF Judge, Result, Verify, Promote, Drop, Finish, Outcome, Goto, At, Placed
<1>4. CASE Cancel \/ Retry
  BY <1>4 DEF Cancel, Retry, Ended, Placed
<1>5. ASSUME NEW r \in Runs, Prints(r) \/ ExitProc(r) \/ Reading(r)  PROVE Placed'
  BY <1>5 DEF Prints, ExitProc, Reading, ReadPart, ReadEnd, ReaderEnds, Placed
<1>. QED  BY <1>1, <1>2, <1>3, <1>4, <1>5 DEF Next, Worker

LEMMA NextJudged == ASSUME TypeOK, Placed, Judged, Printed, Next PROVE Judged'
<1>1. CASE Begin \/ Check \/ Decide \/ ToolsMissing \/ StartFails
  BY <1>1 DEF Begin, Check, Decide, ToolsMissing, StartFails, Finish, Outcome, Goto, At, Placed, Judged,
              Preparing, Promoting
<1>2. CASE Start
  BY <1>2 DEF Start, Goto, At, TypeOK, Placed, Judged, Preparing, Promoting
<1>3. CASE Poll
  BY <1>3 DEF Poll, Kill, Goto, At, TypeOK, Placed, Judged, Preparing, Promoting
<1>4. CASE Wait
  BY <1>4 DEF Wait, Kill, Finish, Outcome, Goto, At, TypeOK, Placed, Judged, Preparing, Promoting
<1>5. CASE Join \/ Flush
  BY <1>5 DEF Join, Flush, Goto, At, Placed, Judged, Preparing, Promoting
<1>6. CASE Judge \/ Result \/ Verify \/ Promote
  BY <1>6 DEF Judge, Result, Verify, Promote, Drop, Finish, Outcome, Goto, At, Placed, Judged,
              Preparing, Promoting
<1>7. CASE Cancel
  BY <1>7 DEF Cancel, Judged
<1>8. CASE Retry
  BY <1>8 DEF Retry, Ended, Placed, Judged, Preparing, Promoting
<1>9. ASSUME NEW r \in Runs, Prints(r) \/ Reading(r)  PROVE Judged'
  BY <1>9 DEF Prints, Reading, ReadPart, ReadEnd, ReaderEnds, Judged
<1>10. ASSUME NEW r \in Runs, ExitProc(r)  PROVE Judged'
  BY <1>10 DEF ExitProc, TypeOK, Judged
<1>. QED  BY <1>1, <1>2, <1>3, <1>4, <1>5, <1>6, <1>7, <1>8, <1>9, <1>10 DEF Next, Worker

\* The recorded tracks set events, they clear none.
LEMMA RecordSets ==
  ASSUME TypeOK, NEW r \in Runs, NEW t, Record(r, t)
  PROVE  \A i \in Runs : cancel[i] => cancel'[i]
BY DEF Record, TypeOK

LEMMA NextObeyed == ASSUME TypeOK, Placed, Obeyed, Next PROVE Obeyed'
<1>1. CASE Begin \/ Check \/ Decide \/ ToolsMissing \/ StartFails
  BY <1>1 DEF Begin, Check, Decide, ToolsMissing, StartFails, Finish, Outcome, Goto, At, Obeyed, Promoting
<1>2. CASE Start \/ Poll \/ Wait \/ Join
  BY <1>2 DEF Start, Poll, Wait, Join, Finish, Outcome, Goto, At, Obeyed, Promoting
<1>3. CASE Flush
  <2>1. \A i \in Runs : cancel[i] => cancel'[i]
    BY <1>3, RecordSets DEF Flush, TypeOK
  <2>. QED  BY <1>3, <2>1 DEF Flush, Goto, Obeyed, Promoting, TypeOK
<1>4. CASE Judge \/ Result \/ Verify \/ Promote
  BY <1>4 DEF Judge, Result, Verify, Promote, Drop, Finish, Outcome, Goto, At, Obeyed, Promoting
<1>5. CASE Cancel
  BY <1>5 DEF Cancel, TypeOK, Obeyed, Promoting
<1>6. CASE Retry
  BY <1>6 DEF Retry, Obeyed
<1>7. ASSUME NEW r \in Runs, Prints(r) \/ ExitProc(r) \/ ReadPart(r) \/ ReaderEnds(r)  PROVE Obeyed'
  BY <1>7 DEF Prints, ExitProc, ReadPart, ReaderEnds, Obeyed
<1>8. ASSUME NEW r \in Runs, ReadEnd(r)  PROVE Obeyed'
  <2>1. \A i \in Runs : cancel[i] => cancel'[i]
    BY <1>8, RecordSets DEF ReadEnd
  <2>. QED  BY <1>8, <2>1 DEF ReadEnd, Obeyed, TypeOK
<1>. QED  BY <1>1, <1>2, <1>3, <1>4, <1>5, <1>6, <1>7, <1>8 DEF Next, Worker, Reading

LEMMA NextClean == ASSUME TypeOK, Placed, Clean, Next PROVE Clean'
<1>0. events \in Nat /\ (Spend => events' # 0)
  BY DownloadAssumption DEF TypeOK, Spend
<1> USE DEF Clean, InWork
<1>1. CASE Begin \/ Check \/ Decide
  BY <1>1 DEF Begin, Check, Decide, Finish, Goto, At, files, Placed
<1>2. CASE ToolsMissing \/ StartFails
  BY <1>0, <1>2 DEF ToolsMissing, StartFails, Spend
<1>3. CASE Start
  BY <1>3 DEF Start, Goto, At, TypeOK
<1>4. CASE Poll
  BY <1>0, <1>4 DEF Poll, Kill, Goto, At, TypeOK, files
<1>5. CASE Wait
  BY <1>0, <1>5 DEF Wait, Kill, Goto, At, TypeOK
<1>6. CASE Join \/ Flush
  BY <1>6 DEF Join, Flush, Goto, At, files
<1>7. CASE Judge \/ Result \/ Verify \/ Promote
  BY <1>0, <1>7 DEF Judge, Result, Verify, Promote, Drop, Finish, Goto, At, TypeOK
<1>8. CASE Cancel
  BY <1>8 DEF Cancel, files
<1>9. CASE Retry
  BY <1>9 DEF Retry, Ended, Placed
<1>10. ASSUME NEW r \in Runs, Prints(r) \/ ExitProc(r) \/ Reading(r)  PROVE Clean'
  BY <1>10 DEF Prints, ExitProc, Reading, ReadPart, ReadEnd, ReaderEnds, TypeOK, files
<1>. QED  BY <1>1, <1>2, <1>3, <1>4, <1>5, <1>6, <1>7, <1>8, <1>9, <1>10 DEF Next, Worker

LEMMA NextPrinted == ASSUME TypeOK, Printed, Next PROVE Printed'
<1>0. run \in Nat /\ Runs \subseteq Nat
  BY RunsAre DEF TypeOK
<1>1. CASE Begin \/ Check \/ Decide \/ ToolsMissing \/ StartFails \/ Join \/ Judge \/ Result \/ Verify
           \/ Promote \/ Cancel
  <2>1. UNCHANGED <<run, proc, printed, pipe, held>>
    BY <1>1 DEF Begin, Check, Decide, ToolsMissing, StartFails, Join, Judge, Result, Verify, Promote,
                Cancel, output
  <2>. QED  BY <2>1 DEF Printed
<1>2. CASE Start
  BY <1>0, <1>2 DEF Start, Printed, TypeOK
<1>3. CASE Poll \/ Wait
  <2>1. UNCHANGED <<run, printed, pipe, held>> /\ \A r \in Runs : r # run => proc'[r] = proc[r]
    BY <1>3 DEF Poll, Wait, Kill, output, TypeOK
  <2>. QED  BY <1>0, <2>1 DEF Printed
<1>4. CASE Flush
  BY <1>4 DEF Flush, Printed, TypeOK
<1>5. CASE Retry
  <2>1. run' = run + 1 /\ UNCHANGED <<proc, printed, pipe, held>>
    BY <1>5 DEF Retry, output
  <2>2. \A r \in Runs : r > run + 1 => r > run
    BY <1>0
  <2>. QED  BY <2>1, <2>2 DEF Printed
<1>6. ASSUME NEW r \in Runs, Prints(r)  PROVE Printed'
  <2>1. proc[r] = "running" /\ printed[r] \in Nat /\ printed' = [printed EXCEPT ![r] = printed[r] + 1]
    BY <1>6, DownloadAssumption DEF Prints, TypeOK
  <2>2. ~(r > run) /\ printed'[r] > 0
    BY <2>1 DEF Printed, TypeOK
  <2>3. \A i \in Runs : i # r => printed'[i] = printed[i] /\ pipe'[i] = pipe[i]
    BY <1>6, <2>1 DEF Prints, TypeOK
  <2>. QED  BY <1>6, <2>2, <2>3 DEF Prints, Printed
<1>7. ASSUME NEW r \in Runs, ExitProc(r)  PROVE Printed'
  BY <1>7 DEF ExitProc, Printed, TypeOK, output
<1>8. ASSUME NEW r \in Runs, ReadPart(r)  PROVE Printed'
  <2>1. printed[r] > 0
    BY <1>8 DEF ReadPart, Readable, Printed
  <2>2. \A i \in Runs : i # r => held'[i] = held[i] /\ pipe'[i] = pipe[i]
    BY <1>8 DEF ReadPart, TypeOK
  <2>. QED  BY <1>8, <2>1, <2>2 DEF ReadPart, Printed
<1>9. ASSUME NEW r \in Runs, ReadEnd(r) \/ ReaderEnds(r)  PROVE Printed'
  BY <1>9 DEF ReadEnd, ReaderEnds, Printed, TypeOK
<1>. QED  BY <1>1, <1>2, <1>3, <1>4, <1>5, <1>6, <1>7, <1>8, <1>9 DEF Next, Worker, Reading

\* What was read from a run was printed by one that had begun.
LEMMA HeldPrinted ==
  ASSUME TypeOK, Printed, NEW r \in Runs, held[r] # None PROVE SomePrinted
<1>1. printed[r] > 0 /\ printed[r] # 0
  BY DEF Printed, TypeOK
<1>2. ~(r > run)
  BY <1>1 DEF Printed
<1>3. r \in 1 .. run
  BY <1>2, RunsAre DEF TypeOK
<1>. QED  BY <1>1, <1>3 DEF SomePrinted

\* What was printed stays so.
LEMMA PrintedStays ==
  ASSUME TypeOK, Next
  PROVE  /\ \A r \in Runs : printed[r] > 0 => printed'[r] > 0
         /\ run' = run \/ (run' = run + 1 /\ Retry)
<1>1. printed' = printed \/ \E r \in Runs : Prints(r)
  BY DEF Next, Worker, Begin, Check, Decide, ToolsMissing, Start, StartFails, Poll, Wait, Join, Flush,
         Judge, Result, Verify, Promote, Cancel, Retry, ExitProc, Reading, ReadPart, ReadEnd, ReaderEnds,
         output
<1>2. ASSUME NEW r \in Runs, Prints(r)  PROVE \A i \in Runs : printed[i] > 0 => printed'[i] > 0
  <2>1. printed[r] \in Nat /\ printed' = [printed EXCEPT ![r] = printed[r] + 1]
    BY <1>2, DownloadAssumption DEF Prints, TypeOK
  <2>. QED  BY <2>1 DEF TypeOK
<1>3. run' = run \/ Retry
  BY DEF Next, Worker, Begin, Check, Decide, ToolsMissing, Start, StartFails, Poll, Wait, Join, Flush,
         Judge, Result, Verify, Promote, Cancel, Prints, ExitProc, Reading, ReadPart, ReadEnd, ReaderEnds
<1>. QED  BY <1>1, <1>2, <1>3 DEF Retry

LEMMA SomePrintedStays == ASSUME TypeOK, Next, SomePrinted PROVE SomePrinted'
<1>1. PICK r \in 1 .. run : printed[r] > 0
  BY DEF SomePrinted
<1>2. run \in Nat /\ run <= MaxRuns /\ MaxRuns \in Nat
  BY RunsAre, DownloadAssumption DEF TypeOK
<1>3. r \in Runs
  BY <1>2 DEF Runs
<1>4. printed'[r] > 0 /\ r \in 1 .. run'
  BY <1>1, <1>2, <1>3, PrintedStays
<1>. QED  BY <1>4 DEF SomePrinted

LEMMA NextVouched == ASSUME TypeOK, Printed, Vouched, Next PROVE Vouched'
<1>0. SomePrinted => SomePrinted'
  BY SomePrintedStays
<1>1. CASE Begin \/ Check \/ Decide \/ ToolsMissing \/ StartFails
  BY <1>0, <1>1 DEF Begin, Check, Decide, ToolsMissing, StartFails, Finish, Goto, At, fields, Vouched
<1>2. CASE Start \/ Poll \/ Wait \/ Join
  BY <1>0, <1>2 DEF Start, Poll, Wait, Join, Finish, Goto, At, fields, Vouched
<1>3. CASE Flush
  <2>1. CASE held[run] = None
    BY <1>0, <1>3, <2>1 DEF Flush, Goto, Vouched
  <2>2. CASE held[run] # None
    <3>1. SomePrinted
      BY <2>2, HeldPrinted DEF TypeOK
    <3>. QED  BY <1>0, <3>1 DEF Vouched
  <2>. QED  BY <2>1, <2>2
<1>4. CASE Judge \/ Result \/ Verify \/ Promote
  BY <1>0, <1>4 DEF Judge, Result, Verify, Promote, Drop, Finish, Goto, At, fields, Vouched
<1>5. CASE Cancel \/ Retry
  BY <1>0, <1>5 DEF Cancel, Retry, fields, Vouched
<1>6. ASSUME NEW r \in Runs, Prints(r) \/ ExitProc(r) \/ ReadPart(r) \/ ReaderEnds(r)  PROVE Vouched'
  BY <1>0, <1>6 DEF Prints, ExitProc, ReadPart, ReaderEnds, fields, Vouched
<1>7. ASSUME NEW r \in Runs, ReadEnd(r)  PROVE Vouched'
  <2>1. SomePrinted
    BY <1>7, HeldPrinted DEF ReadEnd
  <2>. QED  BY <1>0, <2>1 DEF Vouched
<1>. QED  BY <1>1, <1>2, <1>3, <1>4, <1>5, <1>6, <1>7 DEF Next, Worker, Reading

\* A process that exited well is not started again.
LEMMA WellStays ==
  ASSUME TypeOK, Placed, Kept, Next, kept # 0 PROVE kept \in Runs /\ proc'[kept] = "ok"
<1>1. kept \in Runs /\ proc[kept] = "ok" /\ kept \in Nat /\ run \in Nat /\ MaxRuns \in Nat
  BY DownloadAssumption, RunsAre DEF TypeOK, Kept, FilesAreFinished, Runs
<1>2. \/ proc' = proc
      \/ Start
      \/ Poll \/ Wait
      \/ \E r \in Runs : ExitProc(r)
  BY DEF Next, Worker, Begin, Check, Decide, ToolsMissing, StartFails, Join, Flush,
         Judge, Result, Verify, Promote, Cancel, Retry, Prints, Reading, ReadPart, ReadEnd, ReaderEnds
<1>3. CASE Start
  <2>1. status # "success"
    BY <1>3 DEF Start, At, Placed
  <2>2. kept # run
    BY <1>1, <2>1 DEF Kept
  <2>. QED  BY <1>1, <1>3, <2>2 DEF Start, TypeOK
<1>4. CASE Poll \/ Wait
  BY <1>1, <1>4 DEF Poll, Wait, Kill, TypeOK
<1>5. ASSUME NEW r \in Runs, ExitProc(r)  PROVE proc'[kept] = "ok"
  BY <1>1, <1>5 DEF ExitProc, TypeOK
<1>. QED  BY <1>1, <1>2, <1>3, <1>4, <1>5

LEMMA NextKept ==
  ASSUME TypeOK, TypeOK', Placed, Judged, Vouched, Kept, Next PROVE Kept'
<1>0. kept \in Nat /\ run \in Nat /\ run >= 1
  BY DownloadAssumption, RunsAre DEF TypeOK
<1>1. CASE At("promote") /\ Promote
  <2>1. CASE kept' = kept /\ status' = Outcome
    <3>1. kept' = kept /\ run' = run /\ proc' = proc /\ printed' = printed /\ kept < run
      BY <1>1, <2>1 DEF Promote, output, Placed, At, Kept
    <3>. QED  BY <3>1 DEF Kept, FilesAreFinished
  <2>2. CASE kept' = run
    <3>1. run' = run /\ proc' = proc /\ printed' = printed /\ (status' # "success" => kept' = kept)
      BY <1>1 DEF Promote, Finish, output
    <3>2. proc[run] = "ok" /\ SomePrinted
      BY <1>1 DEF At, Judged, Promoting, Vouched
    <3>3. status # "success" => kept < run
      BY DEF Kept
    <3>4. status # "success"
      BY <1>1 DEF At, Placed
    <3>. QED  BY <1>0, <2>2, <3>1, <3>2, <3>3, <3>4 DEF Kept, FilesAreFinished, SomePrinted
  <2>. QED  BY <1>1, <2>1, <2>2 DEF Promote, Finish
<1>2. CASE ~Promote
  <2>1. kept' = kept
    BY <1>2 DEF Next, Worker, Begin, Check, Decide, ToolsMissing, Start, StartFails, Poll, Wait, Join,
                Flush, Judge, Result, Verify, Cancel, Retry, Prints, ExitProc, Reading, ReadPart,
                ReadEnd, ReaderEnds, files
  <2>2. FilesAreFinished'
    <3>1. ASSUME kept # 0  PROVE proc'[kept] = "ok" /\ \E r \in 1 .. kept : printed'[r] > 0
      <4>1. proc'[kept] = "ok" /\ kept \in Runs
        BY <3>1, WellStays
      <4>2. PICK r \in 1 .. kept : printed[r] > 0
        BY <3>1 DEF Kept, FilesAreFinished
      <4>3. r \in Runs
        BY <1>0, <4>1, DownloadAssumption DEF Runs
      <4>4. printed'[r] > 0
        BY <4>2, <4>3, PrintedStays
      <4>. QED  BY <4>1, <4>4
    <3>. QED  BY <2>1, <3>1 DEF FilesAreFinished
  <2>3. CASE Retry
    BY <1>0, <2>1, <2>2, <2>3 DEF Retry, Kept
  <2>4. CASE ~Retry
    <3>1. run' = run
      BY <2>4, PrintedStays
    <3>2. status' = "success" => status = "success"
      BY <1>2, <2>4 DEF Next, Worker, Begin, Check, Decide, ToolsMissing, Start, StartFails, Poll, Wait,
                Join, Flush, Judge, Result, Verify, Cancel, Prints, ExitProc, Reading, ReadPart,
                ReadEnd, ReaderEnds, Drop, Finish, Outcome
    <3>3. status = "success" /\ status' # "success" => FALSE
      <4>1. status = "success" => pc = "idle"
        BY DEF Placed, TypeOK
      <4>2. status = "success" => status' = status
        BY <1>2, <2>4, <4>1 DEF Next, Worker, Begin, Check, Decide, ToolsMissing, Start, StartFails, Poll,
                Wait, Join, Flush, Judge, Result, Verify, Cancel, Prints, ExitProc, Reading, ReadPart,
                ReadEnd, ReaderEnds, At
      <4>. QED  BY <4>2
    <3>. QED  BY <2>1, <2>2, <3>1, <3>2, <3>3 DEF Kept
  <2>. QED  BY <2>3, <2>4
<1>. QED  BY <1>1, <1>2 DEF Promote

LEMMA NextIInv == IInv /\ [Next]_vars => IInv'
<1>1. ASSUME IInv, Next  PROVE IInv'
  <2>1. TypeOK'
    BY <1>1, NextTyped DEF IInv
  <2>2. Placed' /\ Judged' /\ Obeyed' /\ Clean'
    BY <1>1, NextPlaced, NextJudged, NextObeyed, NextClean DEF IInv
  <2>3. Printed' /\ Vouched' /\ Kept'
    BY <1>1, <2>1, NextPrinted, NextVouched, NextKept DEF IInv
  <2>. QED  BY <2>1, <2>2, <2>3 DEF IInv
<1>2. ASSUME IInv, UNCHANGED vars  PROVE IInv'
  <2>1. UNCHANGED <<status, phase, run, pc, res, expected, verified, tracks, qerror, cancel, stop, proc,
                    printed, pipe, held, reader, work, kept, events>>
    BY <1>2 DEF vars, fields, output, files
  <2>2. TypeOK' /\ Placed' /\ Judged' /\ Obeyed' /\ Clean'
    BY <1>2, <2>1 DEF IInv, TypeOK, Placed, Judged, Obeyed, Clean
  <2>3. Printed' /\ Vouched' /\ Kept'
    BY <1>2, <2>1 DEF IInv, Printed, Vouched, SomePrinted, Kept, FilesAreFinished
  <2>. QED  BY <2>2, <2>3 DEF IInv
<1>. QED  BY <1>1, <1>2

\* The inductive invariant of the runs of a task.
THEOREM DownloadInv == Spec => []IInv
BY InitIInv, NextIInv, PTL DEF Spec

\* An early cancellation is never answered by a success; a run that ends leaves no
\* process and no work directory, unless a kill or a removal failed; and the library
\* gets the files of a process that exited well, for which printed tracks vouch
\* (_run_one, _run_streaming, _record_selected_track).
THEOREM EndsSafe == Spec => []EndsAreSafe
<1>1. IInv => EndsAreSafe
  <2> SUFFICES ASSUME IInv  PROVE EndsAreSafe
    OBVIOUS
  <2>1. TypeOK /\ FilesAreFinished
    BY DEF IInv, Kept
  <2>2. CancelWins
    BY DEF IInv, Obeyed, CancelWins
  <2>3. EndIsClean
    <3>1. status \in Ended => pc = "idle"
      BY DEF IInv, Placed, Ended
    <3>. QED  BY <3>1 DEF IInv, Clean, InWork, EndIsClean
  <2>. QED  BY <2>1, <2>2, <2>3 DEF EndsAreSafe
<1>. QED  BY <1>1, DownloadInv, PTL

\* Late output of this or an earlier run, and a late cancellation, do not move a task
\* that has ended; only a retry does (_set_progress, _finish, cancel).
THEOREM EndsStand == Spec => EndStands
<1>1. IInv /\ [Next]_vars => [(status \in Ended /\ run' = run) => UNCHANGED <<status, phase>>]_vars
  <2> SUFFICES ASSUME IInv, Next, status \in Ended, run' = run  PROVE UNCHANGED <<status, phase>>
    OBVIOUS
  <2>1. pc = "idle" /\ status # "running" /\ status # "queued"
    BY DEF IInv, Placed, Ended
  <2>2. CASE Worker
    BY <2>1, <2>2 DEF Worker, Begin, Check, Decide, ToolsMissing, Start, StartFails, Poll, Wait, Join,
                      Flush, Judge, Result, Verify, Promote, At
  <2>3. CASE Cancel \/ Retry
    <3>1. run \in Nat
      BY RunsAre DEF IInv, TypeOK
    <3>. QED  BY <2>1, <2>3, <3>1 DEF Cancel, Retry
  <2>4. ASSUME NEW r \in Runs, Prints(r) \/ ExitProc(r) \/ Reading(r)  PROVE UNCHANGED <<status, phase>>
    BY <2>1, <2>4 DEF Prints, ExitProc, Reading, ReadPart, ReadEnd, ReaderEnds, Shown
  <2>. QED  BY <2>2, <2>3, <2>4 DEF Next
<1>. QED  BY <1>1, DownloadInv, PTL DEF Spec, EndStands

=============================================================================

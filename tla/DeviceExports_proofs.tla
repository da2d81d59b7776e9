------------------------ MODULE DeviceExports_proofs ------------------------
(***************************************************************************)
(* Proofs about DeviceExports, for any tasks, keys, requests and faults:   *)
(* an export that counts as downloaded, or whose cleanup is the end of a   *)
(* delivery, has the fact in the history of its owner, and the history has *)
(* no fact that was not earned by sending every byte.                      *)
(*                                                                         *)
(* Threads act on rows they read earlier and write rows without a second   *)
(* look, so the invariant is about what a thread carries: a thread on its  *)
(* way to a row that says downloaded has the fact behind it (Carried), and *)
(* no fact is ever withdrawn.                                              *)
(***************************************************************************)
EXTENDS DeviceExports, FiniteSetTheorems, SequenceTheorems, TLAPS

Places == {"idle", "enqueue", "register", "mark", "stream", "sent",
           "clean", "cleaned", "resisted", "drop", "unrecord"}
Removing == {"clean", "cleaned", "resisted"}
Targets  == {"none"} \cup Ended
Exports  == [state : States, target : Targets, due : BOOLEAN, path : BOOLEAN]
Jobs     == [op : Ops, task : Tasks \cup {Nobody}, target : Targets]
Statuses == {"none", "active"} \cup Terminal

QueueTyped ==
  /\ task \in [Tasks -> {"new", "gone", "active"} \cup Terminal]
  /\ rec \in [Tasks -> Statuses] /\ notes \in Seq(Tasks \X Statuses)
  /\ applying \in (Tasks \X Terminal) \cup {NoNote}
ExportTyped ==
  /\ exp \in [Tasks -> Exports]
  /\ \A t \in Tasks : exp[t].state = "cleanup_pending" => exp[t].target # "none"
FilesTyped ==
  /\ media \in [Keys -> Tasks \cup {Nobody}] /\ entry \subseteq Keys /\ zip \subseteq Tasks
  /\ claimed \subseteq Keys /\ sent \subseteq Tasks /\ events \in 0 .. MaxEvents
ThreadsTyped == pc \in [Threads -> Places] /\ job \in [Threads -> Jobs]

Typed == QueueTyped /\ ExportTyped /\ FilesTyped /\ ThreadsTyped

\* A thread that does something has a task, and one that removes files knows what the
\* row will say.
Placed ==
  \A th \in Threads :
    /\ pc[th] # "idle" => job[th].task \in Tasks
    /\ pc[th] \in Removing => job[th].target # "none"

\* The fact of an ordinary user's task is in the history.
ToldIn(t, history) == KeyOf[t] \in UserKeys => KeyOf[t] \in history

Carried ==
  \A th \in Threads : pc[th] \in Removing /\ job[th].target = "downloaded" =>
                        ToldIn(job[th].task, claimed)

Core == Typed /\ Placed /\ DeliveryRecorded /\ Carried

\* What the history says follows a delivery, and so does a thread that is to write it.
Earned ==
  /\ DeliveryEarned
  /\ \A th \in Threads : pc[th] = "sent" => job[th].task \in sent

IInv == Core /\ Earned

LEMMA TypedIsTypeOK ==
  ASSUME Typed
  PROVE  TypeOK
BY DEF Typed, QueueTyped, ExportTyped, FilesTyped, ThreadsTyped, TypeOK, Jobs,
       Statuses, Exports, Targets, Places

\* A thread enters a place with a job, and the others stay.
LEMMA Entered ==
  ASSUME ThreadsTyped, NEW th \in Threads, NEW p \in Places, NEW j \in Jobs, Enter(th, p, j)
  PROVE  /\ ThreadsTyped' /\ pc'[th] = p /\ job'[th] = j
         /\ \A u \in Threads \ {th} : pc'[u] = pc[u] /\ job'[u] = job[u]
BY DEF Enter, ThreadsTyped

\* What must be shown of a step of a thread: its own place and job, as the facts grow.
LEMMA ThreadStep ==
  ASSUME ThreadsTyped, Placed, Carried, claimed \subseteq claimed',
         NEW th \in Threads, NEW p \in Places, NEW j \in Jobs, Enter(th, p, j),
         p # "idle" => j.task \in Tasks,
         p \in Removing => j.target # "none",
         p \in Removing /\ j.target = "downloaded" => ToldIn(j.task, claimed')
  PROVE  ThreadsTyped' /\ Placed' /\ Carried'
<1>1. /\ ThreadsTyped' /\ pc'[th] = p /\ job'[th] = j
      /\ \A u \in Threads \ {th} : pc'[u] = pc[u] /\ job'[u] = job[u]
  BY Entered
<1>2. Placed'
  BY <1>1 DEF Placed
<1>3. ASSUME NEW u \in Threads, pc'[u] \in Removing, job'[u].target = "downloaded"
      PROVE  ToldIn(job'[u].task, claimed')
  BY <1>1, <1>3 DEF Carried, ToldIn
<1>4. Carried'
  BY <1>3 DEF Carried, ToldIn
<1>. QED  BY <1>1, <1>2, <1>4

LEMMA ThreadsStay ==
  ASSUME ThreadsTyped, Placed, Carried, claimed \subseteq claimed', UNCHANGED <<pc, job>>
  PROVE  ThreadsTyped' /\ Placed' /\ Carried'
BY DEF ThreadsTyped, Placed, Carried, ToldIn

\* A step that writes one export: a cleanup that is pending knows its end, and what says
\* downloaded has the fact.
LEMMA ExportStep ==
  ASSUME ExportTyped, DeliveryRecorded, claimed \subseteq claimed',
         NEW t \in Tasks, NEW e \in Exports, exp' = [exp EXCEPT ![t] = e],
         e.state = "cleanup_pending" => e.target # "none",
         "downloaded" \in {e.state, e.target} => ToldIn(t, claimed')
  PROVE  ExportTyped' /\ DeliveryRecorded'
<1>1. exp'[t] = e /\ \A u \in Tasks \ {t} : exp'[u] = exp[u]
  BY DEF ExportTyped
<1>2. ExportTyped'
  BY <1>1 DEF ExportTyped
<1>. QED  BY <1>1, <1>2 DEF DeliveryRecorded, ToldIn

LEMMA ExportStays ==
  ASSUME ExportTyped, DeliveryRecorded, claimed \subseteq claimed', exp' = exp
  PROVE  ExportTyped' /\ DeliveryRecorded'
BY DEF ExportTyped, DeliveryRecorded

LEMMA JobFacts ==
  /\ NoJob \in Jobs /\ NoExport \in Exports /\ Fresh \in Exports
  /\ Fresh.state = "preparing" /\ Fresh.target = "none"
  /\ NoExport.state = "none" /\ NoExport.target = "none"
  /\ \A o \in Ops, t \in Tasks, g \in Targets :
       Job(o, t, g) \in Jobs /\ Job(o, t, g).task = t /\ Job(o, t, g).target = g
BY DEF NoJob, NoExport, Fresh, Job, Jobs, Exports, Ops, Targets, Ended, States, Protected

-----------------------------------------------------------------------------
(* Every step.                                                             *)

LEMMA QueueStays ==
  ASSUME QueueTyped, UNCHANGED queueVars
  PROVE  QueueTyped'
BY DEF QueueTyped, queueVars

LEMMA FilesStay ==
  ASSUME FilesTyped, UNCHANGED <<fileVars, claimed, sent>>, events' = events \/ Spend
  PROVE  FilesTyped' /\ claimed \subseteq claimed'
BY ExportsAssumption DEF FilesTyped, fileVars, Spend

\* A notification joins the others.
LEMMA Notified ==
  ASSUME notes \in Seq(Tasks \X Statuses), NEW t \in Tasks, NEW s \in Statuses
  PROVE  Append(notes, <<t, s>>) \in Seq(Tasks \X Statuses)
OBVIOUS

LEMMA ClientFacts == \A c \in Clients : c \in Threads
BY DEF Threads

LEMMA CreateSteps ==
  ASSUME Core, NEW c \in Clients, CreateStep(c)
  PROVE  Core'
<1>. USE DEF Core, Typed
<1>1. ASSUME NEW t \in Tasks, BeginCreate(c, t)
      PROVE  Core'
  <2>1. PICK o \in {"create", "select"} : Enter(c, "enqueue", Job(o, t, "none"))
    BY <1>1 DEF BeginCreate
  <2>2. FilesTyped' /\ claimed \subseteq claimed'
    BY <1>1, FilesStay DEF BeginCreate, Request
  <2>3. Job(o, t, "none") \in Jobs /\ Job(o, t, "none").task = t
    BY JobFacts DEF Ops, Targets
  <2>4. ThreadsTyped' /\ Placed' /\ Carried'
    BY <2>1, <2>2, <2>3, ThreadStep, ClientFacts DEF Places, Removing
  <2>5. ExportTyped' /\ DeliveryRecorded' /\ QueueTyped'
    BY <1>1, <2>2, ExportStays, QueueStays DEF BeginCreate
  <2>. QED  BY <2>2, <2>4, <2>5
<1>2. ASSUME Enqueue(c)
      PROVE  Core'
  <2>. DEFINE t == job[c].task
  <2>1. t \in Tasks /\ job[c] \in Jobs
    BY <1>2, ClientFacts DEF Enqueue, At, Placed, ThreadsTyped
  <2>2. FilesTyped' /\ claimed \subseteq claimed'
    BY <1>2, FilesStay DEF Enqueue
  <2>3. QueueTyped'
    <3>1. /\ notes' = notes /\ applying' = applying
          /\ \/ UNCHANGED <<task, rec>>
             \/ task' = [task EXCEPT ![t] = "active"] /\ rec' = [rec EXCEPT ![t] = "active"]
      BY <1>2 DEF Enqueue
    <3>. HIDE DEF t
    <3>. QED  BY <2>1, <3>1 DEF QueueTyped, Statuses
  <2>4. ThreadsTyped' /\ Placed' /\ Carried'
    <3>1. Enter(c, "idle", NoJob) \/ Enter(c, "register", job[c])
      BY <1>2 DEF Enqueue, Leave, Go
    <3>2. CASE Enter(c, "idle", NoJob)
      BY <2>2, <3>2, JobFacts, ThreadStep, ClientFacts DEF Places, Removing
    <3>3. CASE Enter(c, "register", job[c])
      BY <2>1, <2>2, <3>3, ThreadStep, ClientFacts DEF Places, Removing
    <3>. QED  BY <3>1, <3>2, <3>3
  <2>5. ExportTyped' /\ DeliveryRecorded'
    <3>1. exp' = exp \/ exp' = [exp EXCEPT ![t] = Fresh]
      BY <1>2 DEF Enqueue
    <3>. HIDE DEF t
    <3>. QED  BY <2>1, <2>2, <3>1, JobFacts, ExportStays, ExportStep
  <2>. QED  BY <2>2, <2>3, <2>4, <2>5
<1>3. ASSUME NEW t \in Tasks, Retry(c, t)
      PROVE  Core'
  <2>1. FilesTyped' /\ claimed \subseteq claimed'
    BY <1>3, FilesStay DEF Retry, Request
  <2>2. QueueTyped'
    <3>1. /\ task' = [task EXCEPT ![t] = "active"] /\ notes' = Append(notes, <<t, "active">>)
          /\ UNCHANGED <<rec, applying>>
      BY <1>3 DEF Retry
    <3>2. notes' \in Seq(Tasks \X Statuses)
      BY <3>1, Notified DEF QueueTyped, Statuses
    <3>. QED  BY <3>1, <3>2 DEF QueueTyped
  <2>3. Enter(c, "register", Job("retry", t, "none"))
    BY <1>3 DEF Retry
  <2>4. Job("retry", t, "none") \in Jobs /\ Job("retry", t, "none").task = t
    BY JobFacts DEF Ops, Targets
  <2>5. ThreadsTyped' /\ Placed' /\ Carried'
    BY <2>1, <2>3, <2>4, ThreadStep, ClientFacts DEF Places, Removing
  <2>6. ExportTyped' /\ DeliveryRecorded'
    BY <1>3, <2>1, ExportStays DEF Retry
  <2>. QED  BY <2>1, <2>2, <2>5, <2>6
<1>4. ASSUME Register(c)
      PROVE  Core'
  <2>. DEFINE t == job[c].task
  <2>1. t \in Tasks
    BY <1>4, ClientFacts DEF Register, At, Placed
  <2>2. FilesTyped' /\ claimed \subseteq claimed'
    BY <1>4, FilesStay DEF Register
  <2>3. exp' = [exp EXCEPT ![t] = Fresh] /\ Enter(c, "idle", NoJob)
    BY <1>4 DEF Register, Leave
  <2>. HIDE DEF t
  <2>4. ThreadsTyped' /\ Placed' /\ Carried'
    BY <2>2, <2>3, JobFacts, ThreadStep, ClientFacts DEF Places, Removing
  <2>5. ExportTyped' /\ DeliveryRecorded'
    BY <2>1, <2>2, <2>3, JobFacts, ExportStep
  <2>6. QueueTyped'
    BY <1>4, QueueStays DEF Register
  <2>. QED  BY <2>2, <2>4, <2>5, <2>6
<1>. QED  BY <1>1, <1>2, <1>3, <1>4 DEF CreateStep

LEMMA RunSteps ==
  ASSUME Core, FlushStep \/ \E t \in Tasks : Succeed(t) \/ Fail(t) \/ Expire(t)
  PROVE  Core'
<1>. USE DEF Core, Typed
<1>1. ASSUME NEW t \in Tasks, Succeed(t) \/ Fail(t)
      PROVE  Core'
  <2>1. PICK s \in Terminal : task' = [task EXCEPT ![t] = s] /\ notes' = Append(notes, <<t, s>>)
    BY <1>1 DEF Succeed, Fail, Terminal
  <2>2. notes' \in Seq(Tasks \X Statuses)
    BY <2>1, Notified DEF QueueTyped, Statuses
  <2>3. QueueTyped'
    BY <1>1, <2>1, <2>2 DEF QueueTyped, Succeed, Fail
  <2>4. FilesTyped' /\ claimed \subseteq claimed'
    BY <1>1, ExportsAssumption DEF FilesTyped, Succeed, Fail, fileVars
  <2>5. UNCHANGED <<exp, pc, job>>
    BY <1>1 DEF Succeed, Fail
  <2>. QED  BY <2>3, <2>4, <2>5, ThreadsStay, ExportStays
<1>2. ASSUME NEW t \in Tasks, Expire(t)
      PROVE  Core'
  <2>1. FilesTyped' /\ claimed \subseteq claimed' /\ QueueTyped'
    BY <1>2, FilesStay, QueueStays DEF Expire
  <2>2. UNCHANGED <<pc, job>> /\ exp' = [exp EXCEPT ![t] = [exp[t] EXCEPT !.due = TRUE]]
    BY <1>2 DEF Expire
  <2>. DEFINE e == [exp[t] EXCEPT !.due = TRUE]
  <2>3. e \in Exports /\ e.state = exp[t].state /\ e.target = exp[t].target
    BY DEF ExportTyped, Exports
  <2>4. /\ exp[t].state = "cleanup_pending" => exp[t].target # "none"
        /\ "downloaded" \in {exp[t].state, exp[t].target} => ToldIn(t, claimed')
    BY <2>1 DEF ExportTyped, DeliveryRecorded, ToldIn
  <2>. HIDE DEF e
  <2>5. ExportTyped' /\ DeliveryRecorded'
    <3>1. exp' = [exp EXCEPT ![t] = e]
      BY <2>2 DEF e
    <3>. QED  BY <2>1, <2>3, <2>4, <3>1, ExportStep
  <2>. QED  BY <2>1, <2>2, <2>5, ThreadsStay
<1>3. ASSUME SaveSnapshot
      PROVE  Core'
  <2>1. PICK n \in Tasks \X Statuses : n = Head(notes)
    BY <1>3 DEF SaveSnapshot, QueueTyped
  <2>2. n[1] \in Tasks /\ n[2] \in Statuses
    OBVIOUS
  <2>3. /\ rec' = [rec EXCEPT ![n[1]] = n[2]] /\ applying' \in ({n} \cap (Tasks \X Terminal)) \cup {NoNote}
        /\ task' = task /\ notes' = Tail(notes)
    BY <1>3, <2>1 DEF SaveSnapshot
  <2>4. notes' \in Seq(Tasks \X Statuses)
    BY <1>3, <2>3 DEF SaveSnapshot, QueueTyped
  <2>5. QueueTyped'
    BY <2>2, <2>3, <2>4 DEF QueueTyped
  <2>6. FilesTyped' /\ claimed \subseteq claimed'
    BY <1>3, FilesStay DEF SaveSnapshot
  <2>7. UNCHANGED <<exp, pc, job>>
    BY <1>3 DEF SaveSnapshot
  <2>. QED  BY <2>5, <2>6, <2>7, ThreadsStay, ExportStays
<1>4. ASSUME UpdateExport
      PROVE  Core'
  <2>. DEFINE t == applying[1]  e == Updated(exp[t], applying[2])
  <2>1. t \in Tasks /\ UNCHANGED <<pc, job>> /\ (exp' = exp \/ exp' = [exp EXCEPT ![t] = e])
    BY <1>4 DEF UpdateExport, QueueTyped, ExportTyped
  <2>2. FilesTyped' /\ claimed \subseteq claimed'
    BY <1>4, FilesStay DEF UpdateExport
  <2>3. QueueTyped'
    BY <1>4 DEF UpdateExport, QueueTyped
  <2>4. e \in Exports /\ e.state \in {exp[t].state, "failed"} /\ e.target = exp[t].target
    <3>1. exp[t] \in Exports
      BY <2>1 DEF ExportTyped
    <3>. HIDE DEF t
    <3>. QED  BY <3>1 DEF Updated, Exports, States
  <2>5. /\ exp[t].state = "cleanup_pending" => exp[t].target # "none"
        /\ "downloaded" \in {exp[t].state, exp[t].target} => ToldIn(t, claimed')
    BY <2>1, <2>2 DEF ExportTyped, DeliveryRecorded, ToldIn
  <2>. HIDE DEF e, t
  <2>6. ExportTyped' /\ DeliveryRecorded'
    BY <2>1, <2>2, <2>4, <2>5, ExportStep, ExportStays
  <2>. QED  BY <2>1, <2>2, <2>3, <2>6, ThreadsStay
<1>. QED  BY <1>1, <1>2, <1>3, <1>4 DEF FlushStep

LEMMA DeliverSteps ==
  ASSUME Core, NEW c \in Clients, DeliverStep(c)
  PROVE  Core'
<1>. USE DEF Core, Typed
<1>1. ASSUME NEW t \in Tasks, BeginDownload(c, t)
      PROVE  Core'
  <2>1. /\ UNCHANGED <<queueVars, exp, media, entry, claimed, sent>> /\ Spend
        /\ zip' = zip \/ zip' = zip \cup ({t} \cap Zipped)
    BY <1>1 DEF BeginDownload, Request
  <2>2. FilesTyped' /\ claimed \subseteq claimed'
    BY <2>1, ExportsAssumption DEF FilesTyped, Spend
  <2>3. \/ Enter(c, "clean", Job("expire", t, "expired"))
        \/ \E p \in {"stream", "mark"} : Enter(c, p, Job("download", t, "none"))
    BY <1>1 DEF BeginDownload
  <2>4. /\ Job("expire", t, "expired") \in Jobs /\ Job("expire", t, "expired").task = t
        /\ Job("expire", t, "expired").target = "expired"
        /\ Job("download", t, "none") \in Jobs /\ Job("download", t, "none").task = t
    BY JobFacts DEF Ops, Targets, Ended
  <2>5. ThreadsTyped' /\ Placed' /\ Carried'
    <3>1. CASE Enter(c, "clean", Job("expire", t, "expired"))
      BY <2>2, <2>4, <3>1, ThreadStep, ClientFacts DEF Places, Removing
    <3>2. ASSUME NEW p \in {"stream", "mark"}, Enter(c, p, Job("download", t, "none"))
          PROVE  ThreadsTyped' /\ Placed' /\ Carried'
      BY <2>2, <2>4, <3>2, ThreadStep, ClientFacts DEF Places, Removing
    <3>. QED  BY <2>3, <3>1, <3>2
  <2>. QED  BY <2>1, <2>2, <2>5, QueueStays, ExportStays
<1>2. ASSUME MarkReady(c)
      PROVE  Core'
  <2>. DEFINE t == job[c].task
              e == [exp[t] EXCEPT !.state = "ready", !.path = t \notin Zipped, !.due = FALSE]
  <2>1. t \in Tasks /\ job[c] \in Jobs
    BY <1>2, ClientFacts DEF MarkReady, At, Placed, ThreadsTyped
  <2>2. FilesTyped' /\ claimed \subseteq claimed' /\ QueueTyped'
    BY <1>2, FilesStay, QueueStays DEF MarkReady
  <2>3. exp' = exp \/ exp' = [exp EXCEPT ![t] = e]
    <3>1. exp[t] \in Exports /\ exp \in [Tasks -> Exports]
      BY <2>1 DEF ExportTyped
    <3>. QED  BY <1>2, <2>1, <3>1 DEF MarkReady
  <2>4. e \in Exports /\ e.state = "ready" /\ e.target = exp[t].target
    <3>1. (t \notin Zipped) \in BOOLEAN /\ exp[t] \in Exports
      BY <2>1 DEF ExportTyped
    <3>. DEFINE b == t \notin Zipped
    <3>2. b \in BOOLEAN
      BY <3>1
    <3>3. e = [exp[t] EXCEPT !.state = "ready", !.path = b, !.due = FALSE]
      OBVIOUS
    <3>. HIDE DEF b, e, t
    <3>. QED  BY <3>1, <3>2, <3>3 DEF Exports, States, Protected
  <2>5. "downloaded" = exp[t].target => ToldIn(t, claimed')
    BY <2>1, <2>2 DEF DeliveryRecorded, ToldIn
  <2>6. Enter(c, "idle", NoJob) \/ Enter(c, "stream", job[c])
    BY <1>2 DEF MarkReady, Leave, Go
  <2>7. ThreadsTyped' /\ Placed' /\ Carried'
    <3>1. CASE Enter(c, "idle", NoJob)
      BY <2>2, <3>1, JobFacts, ThreadStep, ClientFacts DEF Places, Removing
    <3>2. CASE Enter(c, "stream", job[c])
      BY <2>1, <2>2, <3>2, ThreadStep, ClientFacts DEF Places, Removing
    <3>. QED  BY <2>6, <3>1, <3>2
  <2>. HIDE DEF e, t
  <2>8. ExportTyped' /\ DeliveryRecorded'
    BY <2>1, <2>2, <2>3, <2>4, <2>5, ExportStep, ExportStays
  <2>. QED  BY <2>2, <2>7, <2>8
<1>5. ASSUME LastByte(c)
      PROVE  Core'
  <2>1. job[c].task \in Tasks /\ job[c] \in Jobs
    BY <1>5, ClientFacts DEF LastByte, At, Placed, ThreadsTyped
  <2>2. QueueTyped' /\ FilesTyped' /\ claimed \subseteq claimed' /\ exp' = exp
    BY <1>5, <2>1, QueueStays DEF LastByte, FilesTyped, fileVars
  <2>3. Enter(c, "sent", job[c])
    BY <1>5 DEF LastByte, Go
  <2>4. ThreadsTyped' /\ Placed' /\ Carried'
    BY <2>1, <2>2, <2>3, ThreadStep, ClientFacts DEF Places, Removing
  <2>. QED  BY <2>2, <2>4, ExportStays
<1>3. ASSUME Abort(c)
      PROVE  Core'
  <2>1. FilesTyped' /\ claimed \subseteq claimed' /\ QueueTyped'
    BY <1>3, FilesStay, QueueStays DEF Abort
  <2>2. Enter(c, "idle", NoJob) /\ exp' = exp
    BY <1>3 DEF Abort, Leave
  <2>3. ThreadsTyped' /\ Placed' /\ Carried'
    BY <2>1, <2>2, JobFacts, ThreadStep, ClientFacts DEF Places, Removing
  <2>. QED  BY <2>1, <2>2, <2>3, ExportStays
<1>4. ASSUME Complete(c)
      PROVE  Core'
  <2>. DEFINE t == job[c].task
              e == [exp[t] EXCEPT !.state = "cleanup_pending", !.target = "downloaded"]
  <2>1. t \in Tasks
    BY <1>4, ClientFacts DEF Complete, At, Placed
  <2>2. QueueTyped' /\ claimed \subseteq claimed' /\ FilesTyped'
    <3>1. claimed' \in {claimed, claimed \cup {KeyOf[t]}} /\ UNCHANGED <<fileVars, sent, events, queueVars>>
      BY <1>4 DEF Complete, Fact
    <3>2. KeyOf[t] \in Keys
      BY <2>1, ExportsAssumption
    <3>. HIDE DEF t
    <3>. QED  BY <3>1, <3>2, QueueStays DEF FilesTyped, fileVars
  <2>3. CASE UNCHANGED exp /\ Enter(c, "idle", NoJob)
    <3>1. ThreadsTyped' /\ Placed' /\ Carried'
      BY <2>2, <2>3, JobFacts, ThreadStep, ClientFacts DEF Places, Removing
    <3>. QED  BY <2>2, <2>3, <3>1, ExportStays
  <2>4. CASE /\ exp' = [exp EXCEPT ![t] = e] /\ claimed' = Fact(t)
             /\ Enter(c, "clean", Job("complete", t, "downloaded"))
    <3>1. ToldIn(t, claimed')
      BY <2>4 DEF ToldIn, Fact
    <3>2. e \in Exports /\ e.state = "cleanup_pending" /\ e.target = "downloaded"
      BY <2>1 DEF ExportTyped, Exports, States, Protected, Targets, Ended
    <3>. DEFINE j == Job("complete", t, "downloaded")
    <3>3. j \in Jobs /\ j.task = t /\ j.target = "downloaded"
      BY <2>1, JobFacts DEF Ops, Targets, Ended
    <3>. HIDE DEF e, t, j
    <3>4. exp' = [exp EXCEPT ![t] = e] /\ Enter(c, "clean", j)
      BY <2>4 DEF j
    <3>5. ExportTyped' /\ DeliveryRecorded'
      BY <2>1, <2>2, <3>1, <3>2, <3>4, ExportStep
    <3>6. ThreadsTyped' /\ Placed' /\ Carried'
      BY <2>1, <2>2, <3>1, <3>3, <3>4, ThreadStep, ClientFacts DEF Places
    <3>. QED  BY <2>2, <3>5, <3>6
  <2>5. \/ UNCHANGED exp /\ Enter(c, "idle", NoJob)
        \/ /\ exp' = [exp EXCEPT ![t] = e] /\ claimed' = Fact(t)
           /\ Enter(c, "clean", Job("complete", t, "downloaded"))
    <3>1. exp[t] \in Exports /\ exp \in [Tasks -> Exports]
      BY <2>1 DEF ExportTyped
    <3>. QED  BY <1>4, <2>1, <3>1 DEF Complete, Leave
  <2>. QED  BY <2>3, <2>4, <2>5
<1>. QED  BY <1>1, <1>2, <1>3, <1>4, <1>5 DEF DeliverStep

\* Where a thread goes when the export of its task is out of the way.
LEMMA GoOnFacts ==
  ASSUME Core, NEW th \in Threads, pc[th] \in Removing, GoOn(th), claimed \subseteq claimed'
  PROVE  ThreadsTyped' /\ Placed' /\ Carried'
<1>. USE DEF Core, Typed
<1>1. job[th].task \in Tasks /\ job[th] \in Jobs
  BY DEF Placed, Removing, ThreadsTyped
<1>2. Enter(th, "idle", NoJob) \/ Enter(th, "drop", job[th]) \/ Enter(th, "unrecord", job[th])
  BY DEF GoOn, Leave, Go, After
<1>3. CASE Enter(th, "idle", NoJob)
  BY <1>3, JobFacts, ThreadStep DEF Places, Removing
<1>4. CASE Enter(th, "drop", job[th])
  BY <1>1, <1>4, ThreadStep DEF Places, Removing
<1>5. CASE Enter(th, "unrecord", job[th])
  BY <1>1, <1>5, ThreadStep DEF Places, Removing
<1>. QED  BY <1>2, <1>3, <1>4, <1>5

LEMMA RemoveSteps ==
  ASSUME Core, NEW th \in Threads, RemoveStep(th)
  PROVE  Core'
<1>. USE DEF Core, Typed
<1>1. ASSUME Clean(th)
      PROVE  Core'
  <2>. DEFINE t == job[th].task  k == KeyOf[t]
  <2>1. t \in Tasks /\ job[th] \in Jobs /\ pc[th] = "clean"
    BY <1>1 DEF Clean, At, Placed, ThreadsTyped
  <2>2. UNCHANGED <<queueVars, exp, claimed, sent>>
    BY <1>1 DEF Clean
  <2>3. \/ GoOn(th) /\ UNCHANGED <<fileVars, events>>
        \/ /\ events' = events \/ Spend
           /\ zip' \subseteq zip /\ entry' \subseteq entry
           /\ media' = media \/ media' = [media EXCEPT ![k] = Nobody]
           /\ Enter(th, "cleaned", job[th]) \/ Enter(th, "resisted", job[th])
    <3>1. CASE ~HasExport(t)
      BY <1>1, <3>1 DEF Clean
    <3>2. CASE HasExport(t)
      <4>1. PICK kept \in SUBSET Removable(t) :
              /\ IF kept = {} THEN UNCHANGED events ELSE Spend
              /\ zip' = IF "zip" \in kept THEN zip ELSE zip \ {t}
              /\ media' = IF "media" \in Removable(t) \ kept
                            THEN [media EXCEPT ![k] = Nobody] ELSE media
              /\ entry' = entry \ {k}
              /\ Go(th, IF kept = {} THEN "cleaned" ELSE "resisted")
        BY <1>1, <3>2 DEF Clean
      <4>. QED  BY <4>1 DEF Go
    <3>. QED  BY <3>1, <3>2
  <2>. HIDE DEF k
  <2>4. FilesTyped' /\ claimed \subseteq claimed'
    BY <2>2, <2>3, ExportsAssumption DEF FilesTyped, fileVars, Spend
  <2>5. ThreadsTyped' /\ Placed' /\ Carried'
    <3>1. CASE GoOn(th)
      BY <2>1, <2>4, <3>1, GoOnFacts DEF Removing
    <3>2. ASSUME NEW p \in {"cleaned", "resisted"}, Enter(th, p, job[th])
          PROVE  ThreadsTyped' /\ Placed' /\ Carried'
      <4>1. /\ job[th].target # "none"
            /\ job[th].target = "downloaded" => ToldIn(t, claimed')
        BY <2>1, <2>4 DEF Placed, Carried, Removing, ToldIn
      <4>. QED  BY <2>1, <2>4, <3>2, <4>1, ThreadStep DEF Places
    <3>. QED  BY <2>3, <3>1, <3>2
  <2>. QED  BY <2>2, <2>4, <2>5, QueueStays, ExportStays
<1>2. ASSUME Write(th)
      PROVE  Core'
  <2>. DEFINE t == job[th].task  e == Outcome(job[th], exp[t], At(th, "cleaned"))
  <2>1. t \in Tasks /\ job[th] \in Jobs /\ pc[th] \in Removing
    BY <1>2 DEF Write, Placed, ThreadsTyped, Removing
  <2>2. QueueTyped' /\ FilesTyped' /\ claimed \subseteq claimed'
    BY <1>2, QueueStays, FilesStay DEF Write
  <2>3. exp' = [exp EXCEPT ![t] = e]
    BY <1>2, <2>1 DEF Write, ExportTyped
  <2>4. /\ job[th].target \in Ended
        /\ job[th].target = "downloaded" => ToldIn(t, claimed')
    BY <2>1, <2>2 DEF Placed, Carried, ToldIn, Jobs, Targets
  <2>5. /\ exp[t] \in Exports
        /\ exp[t].state = "cleanup_pending" => exp[t].target # "none"
        /\ "downloaded" \in {exp[t].state, exp[t].target} => ToldIn(t, claimed')
    BY <2>1, <2>2 DEF ExportTyped, DeliveryRecorded, ToldIn
  <2>6. /\ e \in Exports
        /\ e.state = "cleanup_pending" => e.target # "none"
        /\ "downloaded" \in {e.state, e.target} => ToldIn(t, claimed')
    <3>. HIDE DEF t
    <3>1. CASE e = NoExport
      BY <3>1, JobFacts
    <3>2. CASE e = [exp[t] EXCEPT !.state = job[th].target, !.target = "none"]
      BY <2>4, <2>5, <3>2 DEF Exports, States, Targets, Ended
    <3>3. CASE e = exp[t]
      BY <2>5, <3>3
    <3>4. CASE e = [exp[t] EXCEPT !.state = "cleanup_pending", !.target = job[th].target]
      BY <2>4, <2>5, <3>4 DEF Exports, States, Targets, Ended, Protected
    <3>. QED  BY <3>1, <3>2, <3>3, <3>4 DEF Outcome
  <2>. HIDE DEF e, t
  <2>7. ExportTyped' /\ DeliveryRecorded'
    BY <2>1, <2>2, <2>3, <2>6, ExportStep
  <2>8. ThreadsTyped' /\ Placed' /\ Carried'
    BY <1>2, <2>1, <2>2, GoOnFacts DEF Write
  <2>. QED  BY <2>2, <2>7, <2>8
<1>3. ASSUME Unrecord(th)
      PROVE  Core'
  <2>. DEFINE t == job[th].task
  <2>1. /\ rec' = [rec EXCEPT ![t] = "none"] /\ UNCHANGED <<task, notes, applying, exp>>
        /\ Enter(th, "idle", NoJob)
    BY <1>3 DEF Unrecord, Leave
  <2>2. FilesTyped' /\ claimed \subseteq claimed'
    BY <1>3, FilesStay DEF Unrecord
  <2>. HIDE DEF t
  <2>3. QueueTyped'
    BY <2>1 DEF QueueTyped, Statuses
  <2>4. ThreadsTyped' /\ Placed' /\ Carried'
    BY <2>1, <2>2, JobFacts, ThreadStep DEF Places, Removing
  <2>. QED  BY <2>1, <2>2, <2>3, <2>4, ExportStays
<1>. QED  BY <1>1, <1>2, <1>3 DEF RemoveStep

LEMMA DiscardSteps ==
  ASSUME Core, NEW c \in Clients, DiscardStep(c)
  PROVE  Core'
<1>. USE DEF Core, Typed
<1>1. ASSUME NEW t \in Tasks, BeginDiscard(c, t)
      PROVE  Core'
  <2>1. PICK o \in {"discard", "delete"} : Enter(c, "clean", Job(o, t, "discarded"))
    BY <1>1 DEF BeginDiscard
  <2>2. QueueTyped' /\ FilesTyped' /\ claimed \subseteq claimed' /\ exp' = exp
    BY <1>1, QueueStays, FilesStay DEF BeginDiscard, Request
  <2>. DEFINE j == Job(o, t, "discarded")
  <2>3. j \in Jobs /\ j.task = t /\ j.target = "discarded"
    BY JobFacts DEF Ops, Targets, Ended
  <2>4. Enter(c, "clean", j)
    BY <2>1
  <2>. HIDE DEF j
  <2>5. ThreadsTyped' /\ Placed' /\ Carried'
    BY <2>2, <2>3, <2>4, ThreadStep, ClientFacts DEF Places
  <2>. QED  BY <2>2, <2>5, ExportStays
<1>2. ASSUME Drop(c)
      PROVE  Core'
  <2>. DEFINE t == job[c].task
  <2>1. t \in Tasks /\ job[c] \in Jobs
    BY <1>2, ClientFacts DEF Drop, At, Placed, ThreadsTyped
  <2>2. FilesTyped' /\ claimed \subseteq claimed' /\ exp' = exp
    BY <1>2, FilesStay DEF Drop
  <2>3. /\ rec' = rec /\ applying' = applying
        /\ \/ UNCHANGED <<task, notes>>
           \/ task' = [task EXCEPT ![t] = "gone"] /\ notes' = Append(notes, <<t, "none">>)
        /\ Enter(c, "idle", NoJob) \/ Enter(c, "unrecord", job[c])
    BY <1>2 DEF Drop, Leave, Go
  <2>. HIDE DEF t
  <2>4. Append(notes, <<t, "none">>) \in Seq(Tasks \X Statuses)
    BY <2>1, Notified DEF QueueTyped, Statuses
  <2>5. QueueTyped'
    BY <2>3, <2>4 DEF QueueTyped
  <2>6. ThreadsTyped' /\ Placed' /\ Carried'
    <3>1. CASE Enter(c, "idle", NoJob)
      BY <2>2, <3>1, JobFacts, ThreadStep, ClientFacts DEF Places, Removing
    <3>2. CASE Enter(c, "unrecord", job[c])
      BY <2>1, <2>2, <3>2, ThreadStep, ClientFacts DEF Places, Removing, t
    <3>. QED  BY <2>3, <3>1, <3>2
  <2>. QED  BY <2>2, <2>5, <2>6, ExportStays
<1>. QED  BY <1>1, <1>2 DEF DiscardStep

LEMMA SelectSteps ==
  ASSUME Core, NEW t \in Tasks, Select(t)
  PROVE  Core'
<1>. USE DEF Core, Typed
<1>1. PICK o \in {"expire", "repeat", "history"}, g \in {"expired", exp[t].target} :
        /\ Enter(Cleaner, "clean", Job(o, t, g))
        /\ g # "expired" => exp[t].state = "cleanup_pending"
  BY DEF Select
<1>2. QueueTyped' /\ FilesTyped' /\ claimed \subseteq claimed' /\ exp' = exp
  BY QueueStays, FilesStay DEF Select
<1>. DEFINE j == Job(o, t, g)
<1>3. exp[t].target \in Targets /\ Cleaner \in Threads /\ o \in Ops /\ "expired" \in Targets
  BY DEF ExportTyped, Exports, Threads, Ops, Targets, Ended
<1>4. j \in Jobs /\ j.task = t /\ j.target = g
  BY <1>3, JobFacts
<1>5. Enter(Cleaner, "clean", j)
  BY <1>1
<1>6. g # "none" /\ (g = "downloaded" => ToldIn(t, claimed'))
  BY <1>1, <1>2 DEF ExportTyped, DeliveryRecorded, ToldIn
<1>. HIDE DEF j
<1>7. ThreadsTyped' /\ Placed' /\ Carried'
  BY <1>2, <1>3, <1>4, <1>5, <1>6, ThreadStep DEF Places
<1>. QED  BY <1>2, <1>7, ExportStays

LEMMA CrashStep ==
  ASSUME Core, Crash
  PROVE  Core'
<1>. USE DEF Core, Typed
<1>1. FilesTyped' /\ claimed \subseteq claimed' /\ exp' = exp
  BY FilesStay DEF Crash
<1>2. notes' \in Seq(Tasks \X Statuses)
  <2>. DEFINE U == {u \in Tasks : rec[u] = "active"}  S == {<<t, "failed">> : t \in U}
              n == Cardinality(S)
  <2>1. IsFiniteSet(U)
    BY ExportsAssumption, FS_Subset
  <2>2. [t \in U |-> <<t, "failed">>] \in Surjection(U, S)
    BY DEF Surjection
  <2>3. IsFiniteSet(S)
    BY <2>1, <2>2, FS_Surjection
  <2>4. n \in Nat
    BY <2>3, FS_CardinalityType
  <2>5. S \subseteq Tasks \X Statuses
    BY DEF Statuses, Terminal
  <2>6. notes' \in [1 .. n -> S]
    BY DEF Crash, SetToSeqs
  <2>. HIDE DEF n, S
  <2>. QED  BY <2>4, <2>5, <2>6
<1>3. QueueTyped'
  <2>1. task' = [t \in Tasks |-> task'[t]]
    BY DEF Crash
  <2>2. ASSUME NEW t \in Tasks
        PROVE  task'[t] \in {"new", "gone", "active"} \cup Terminal
    <3>1. task'[t] = CASE rec[t] = "active"   -> "failed"
                       [] rec[t] \in Terminal -> rec[t]
                       [] rec[t] = "none" /\ task[t] = "new" -> "new"
                       [] OTHER               -> "gone"
      BY DEF Crash
    <3>2. CASE rec[t] = "active"
      BY <3>1, <3>2 DEF Terminal
    <3>3. CASE rec[t] \in Terminal
      BY <3>1, <3>3 DEF Terminal
    <3>4. CASE rec[t] = "none"
      <4>1. task'[t] \in {"new", "gone"}
        BY <3>1, <3>4 DEF Terminal
      <4>. QED  BY <4>1
    <3>. QED  BY <3>2, <3>3, <3>4 DEF QueueTyped, Statuses
  <2>3. rec' = rec /\ applying' = NoNote
    BY DEF Crash
  <2>. QED  BY <1>2, <2>1, <2>2, <2>3 DEF QueueTyped
<1>4. pc' = [th \in Threads |-> "idle"] /\ job' = [th \in Threads |-> NoJob]
  BY DEF Crash
<1>5. ThreadsTyped' /\ Placed' /\ Carried'
  BY <1>4, JobFacts DEF ThreadsTyped, Placed, Carried, Places, Removing
<1>. QED  BY <1>1, <1>3, <1>5, ExportStays

-----------------------------------------------------------------------------
(* Exports are safe.                                                       *)

LEMMA InitIInv == Init => IInv
<1>1. SUFFICES ASSUME Init PROVE IInv
  OBVIOUS
<1>2. QueueTyped /\ FilesTyped
  <2>1. notes \in Seq(Tasks \X Statuses)
    BY <1>1 DEF Init
  <2>. QED  BY <1>1, <2>1, ExportsAssumption DEF Init, QueueTyped, FilesTyped, Statuses
<1>3. ExportTyped /\ DeliveryRecorded
  BY <1>1, JobFacts DEF Init, ExportTyped, DeliveryRecorded
<1>4. ThreadsTyped /\ Placed /\ Carried
  BY <1>1, JobFacts DEF Init, ThreadsTyped, Placed, Carried, Places, Removing
<1>5. Earned
  BY <1>1 DEF Init, Earned, DeliveryEarned
<1>. QED  BY <1>2, <1>3, <1>4, <1>5 DEF IInv, Core, Typed

LEMMA NextCore == Core /\ [Next]_vars => Core'
<1>1. SUFFICES ASSUME Core, [Next]_vars PROVE Core'
  OBVIOUS
<1>2. CASE Next
  <2>1. \A th \in Threads : RemoveStep(th) => Core'
    BY <1>1, RemoveSteps
  <2>2. \A c \in Clients : CreateStep(c) \/ DeliverStep(c) \/ DiscardStep(c) \/ RemoveStep(c) => Core'
    BY <1>1, <2>1, CreateSteps, DeliverSteps, DiscardSteps, ClientFacts
  <2>3. CleanerStep => Core'
    BY <1>1, <2>1, SelectSteps DEF CleanerStep, Threads
  <2>. QED  BY <1>1, <1>2, <2>2, <2>3, RunSteps, CrashStep DEF Next
<1>3. CASE UNCHANGED vars
  <2>1. QueueTyped' /\ ExportTyped' /\ FilesTyped' /\ ThreadsTyped'
    BY <1>1, <1>3 DEF Core, Typed, QueueTyped, ExportTyped, FilesTyped, ThreadsTyped,
       vars, queueVars, fileVars
  <2>2. Placed' /\ DeliveryRecorded' /\ Carried'
    BY <1>1, <1>3 DEF Core, Placed, DeliveryRecorded, Carried, ToldIn, vars, queueVars, fileVars
  <2>. QED  BY <2>1, <2>2 DEF Core, Typed
<1>. QED  BY <1>1, <1>2, <1>3

\* A step that leaves the history alone and sends nobody to write it.
LEMMA EarnedStays ==
  ASSUME ThreadsTyped, Earned, UNCHANGED <<claimed, sent>>,
         \A th \in Threads : pc'[th] = "sent" => pc[th] = "sent" /\ job'[th] = job[th]
  PROVE  Earned'
BY DEF Earned, DeliveryEarned

LEMMA EarnedEntered ==
  ASSUME ThreadsTyped, Earned, UNCHANGED <<claimed, sent>>,
         NEW th \in Threads, NEW p \in Places \ {"sent"}, NEW j, Enter(th, p, j)
  PROVE  Earned'
<1>1. \A u \in Threads : pc'[u] = "sent" => pc[u] = "sent" /\ job'[u] = job[u]
  BY DEF Enter, ThreadsTyped
<1>. QED  BY <1>1, EarnedStays

\* Where the steps of the threads go, but for the two that are about the history.
LEMMA ThreadGoes ==
  ASSUME NEW th \in Threads,
         \/ th \in Clients /\ (CreateStep(th) \/ DeliverStep(th) \/ DiscardStep(th))
         \/ RemoveStep(th) \/ (th = Cleaner /\ CleanerStep)
  PROVE  \/ LastByte(th) \/ Complete(th)
         \/ UNCHANGED <<claimed, sent>> /\ \E p \in Places \ {"sent"} : \E j : Enter(th, p, j)
<1>. DEFINE Goes == UNCHANGED <<claimed, sent>> /\ \E p \in Places \ {"sent"} : \E j : Enter(th, p, j)
<1>1. ASSUME CreateStep(th)
      PROVE  Goes
  BY <1>1 DEF CreateStep, BeginCreate, Retry, Enqueue, Register, Places, Leave, Go
<1>2. ASSUME NEW t \in Tasks, BeginDownload(th, t)
      PROVE  Goes
  BY <1>2 DEF BeginDownload, Places
<1>3. ASSUME MarkReady(th) \/ Abort(th)
      PROVE  Goes
  BY <1>3 DEF MarkReady, Abort, Places, Leave, Go
<1>4. ASSUME DiscardStep(th)
      PROVE  Goes
  BY <1>4 DEF DiscardStep, BeginDiscard, Drop, Places, Leave, Go
<1>5. ASSUME RemoveStep(th)
      PROVE  Goes
  <2>1. CASE Clean(th)
    <3>1. GoOn(th) \/ Go(th, "cleaned") \/ Go(th, "resisted")
      BY <2>1 DEF Clean
    <3>. QED  BY <2>1, <3>1 DEF Clean, GoOn, After, Places, Leave, Go
  <2>2. CASE Write(th)
    BY <2>2 DEF Write, GoOn, After, Places, Leave, Go
  <2>3. CASE Unrecord(th)
    BY <2>3 DEF Unrecord, Places, Leave
  <2>. QED  BY <1>5, <2>1, <2>2, <2>3 DEF RemoveStep
<1>6. ASSUME th = Cleaner, CleanerStep
      PROVE  Goes
  <2>1. ASSUME NEW t \in Tasks, Select(t)
        PROVE  Goes
    BY <1>6, <2>1 DEF Select, Places
  <2>. QED  BY <1>5, <1>6, <2>1 DEF CleanerStep
<1>. QED  BY <1>1, <1>2, <1>3, <1>4, <1>5, <1>6 DEF DeliverStep

\* Only who sent every byte is on the way to the history.
LEMMA HistorySteps ==
  ASSUME IInv, NEW c \in Threads, LastByte(c) \/ Complete(c)
  PROVE  Earned'
<1>. DEFINE t == job[c].task
<1>1. CASE LastByte(c)
  <2>1. /\ Enter(c, "sent", job[c]) /\ sent' = sent \cup {t} /\ claimed' = claimed
    BY <1>1 DEF LastByte, Go
  <2>2. DeliveryEarned'
    BY <2>1 DEF IInv, Earned, DeliveryEarned
  <2>3. \A u \in Threads : pc'[u] = "sent" => job'[u].task \in sent'
    BY <2>1 DEF Enter, IInv, Earned, Core, Typed, ThreadsTyped
  <2>. QED  BY <2>2, <2>3 DEF Earned
<1>2. CASE Complete(c)
  <2>1. t \in Tasks /\ t \in sent /\ sent' = sent
    BY <1>2 DEF Complete, At, IInv, Core, Placed, Earned
  <2>2. PICK p \in {"idle", "clean"} : \E j : Enter(c, p, j)
    BY <1>2 DEF Complete, Leave
  <2>3. \A u \in Threads : pc'[u] = "sent" => job'[u].task \in sent'
    BY <2>1, <2>2 DEF Enter, IInv, Earned, Core, Typed, ThreadsTyped
  <2>4. claimed' = claimed \/ (claimed' = claimed \cup {KeyOf[t]} /\ KeyOf[t] \in UserKeys)
    BY <1>2 DEF Complete, Fact
  <2>5. DeliveryEarned'
    BY <2>1, <2>4 DEF IInv, Earned, DeliveryEarned
  <2>. QED  BY <2>3, <2>5 DEF Earned
<1>. QED  BY <1>1, <1>2

LEMMA NextEarned ==
  ASSUME IInv, [Next]_vars
  PROVE  Earned'
<1>1. ThreadsTyped /\ Earned
  BY DEF IInv, Core, Typed
<1>2. ASSUME NEW th \in Threads,
             \/ th \in Clients /\ (CreateStep(th) \/ DeliverStep(th) \/ DiscardStep(th))
             \/ RemoveStep(th) \/ (th = Cleaner /\ CleanerStep)
      PROVE  Earned'
  BY <1>1, <1>2, ThreadGoes, HistorySteps, EarnedEntered
<1>3. ASSUME FlushStep \/ \E t \in Tasks : Succeed(t) \/ Fail(t) \/ Expire(t)
      PROVE  Earned'
  <2>1. UNCHANGED <<claimed, sent, pc, job>>
    BY <1>3 DEF FlushStep, SaveSnapshot, UpdateExport, Succeed, Fail, Expire
  <2>. QED  BY <1>1, <2>1, EarnedStays
<1>4. ASSUME Crash
      PROVE  Earned'
  <2>1. UNCHANGED <<claimed, sent>> /\ \A th \in Threads : pc'[th] # "sent"
    BY <1>4 DEF Crash
  <2>. QED  BY <1>1, <2>1, EarnedStays
<1>5. CASE UNCHANGED vars
  BY <1>1, <1>5, EarnedStays DEF vars
<1>6. CASE Next
  <2>1. ASSUME NEW c \in Clients, CreateStep(c) \/ DeliverStep(c) \/ DiscardStep(c) \/ RemoveStep(c)
        PROVE  Earned'
    BY <1>2, <2>1, ClientFacts
  <2>2. ASSUME CleanerStep
        PROVE  Earned'
    BY <1>2, <2>2 DEF Threads
  <2>. QED  BY <1>3, <1>4, <1>6, <2>1, <2>2 DEF Next
<1>. QED  BY <1>5, <1>6

LEMMA NextIInv == IInv /\ [Next]_vars => IInv'
BY NextCore, NextEarned DEF IInv

\* The inductive invariant of exports, their files and the threads that act on them.
THEOREM ExportsInv == Spec => []IInv
BY InitIInv, NextIInv, PTL DEF Spec

\* An export counts as downloaded, or waits for the cleanup of a delivery, only if the
\* owner's history has the fact, and the history has a fact only if every byte of an
\* export of that work was sent (sent, which LastByte alone extends):
\* for any number of tasks, keys and requests, over cleanups that fail and are repeated,
\* rows that are written late and restarts (complete_export, _cleanup_export_files,
\* retry_export_cleanup).
THEOREM ExportsSafe == Spec => []ExportsAreSafe
<1>1. ASSUME IInv
      PROVE  ExportsAreSafe
  BY <1>1, TypedIsTypeOK DEF IInv, Core, Earned, ExportsAreSafe
<1>. QED  BY <1>1, ExportsInv, PTL
=============================================================================

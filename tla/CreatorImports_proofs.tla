----------------------- MODULE CreatorImports_proofs -----------------------
(***************************************************************************)
(* The import manager, for any jobs, creators, pages, windows and bounds.  *)
(* The control: one job of a creator is alive, the job that is shown to    *)
(* run is the worker's, a waiting job is in line, and the jobs live the    *)
(* life of ImportLifecycle.  The items: each is queued, skipped, failed or *)
(* to do, and a job that ended has earned its end.  The window of a job's  *)
(* tasks.  The discovery: it misses no video that stays listed.            *)
(***************************************************************************)
EXTENDS CreatorImports, SequencesExt, SequenceTheorems, FiniteSetTheorems, TLAPS

-----------------------------------------------------------------------------
(* Sequences that list each of their elements once, as the line and the    *)
(* queues of items do.                                                     *)

\* Append adds the element to what is listed.
LEMMA AppendOnce ==
  ASSUME NEW S, NEW s \in Seq(S), NEW e \in S
  PROVE  /\ Append(s, e) \in Seq(S)
         /\ ToSet(Append(s, e)) = ToSet(s) \cup {e}
         /\ IsInjective(s) /\ e \notin ToSet(s) => IsInjective(Append(s, e))
<1>1. /\ Append(s, e) \in Seq(S) /\ Len(Append(s, e)) = Len(s) + 1
      /\ \A i \in 1..Len(s) : Append(s, e)[i] = s[i]
      /\ Append(s, e)[Len(s) + 1] = e
      /\ Len(s) \in Nat
      /\ DOMAIN s = 1..Len(s)
      /\ DOMAIN Append(s, e) = 1..(Len(s) + 1)
  BY AppendProperties, LenProperties
<1>2. ToSet(Append(s, e)) = ToSet(s) \cup {e}
  BY <1>1 DEF ToSet
<1>3. ASSUME IsInjective(s), e \notin ToSet(s) PROVE IsInjective(Append(s, e))
  BY <1>1, <1>3 DEF ToSet, IsInjective
<1> QED BY <1>1, <1>2, <1>3

\* Tail of a sequence without repetition no longer lists its head.
LEMMA TailOnce ==
  ASSUME NEW S, NEW s \in Seq(S), s # <<>>
  PROVE  /\ Tail(s) \in Seq(S) /\ Head(s) \in ToSet(s) /\ Head(s) \in S
         /\ ToSet(s) = ToSet(Tail(s)) \cup {Head(s)}
         /\ IsInjective(s) => IsInjective(Tail(s)) /\ Head(s) \notin ToSet(Tail(s))
<1> DEFINE m == Len(s)  b == Tail(s)
<1>1. /\ m \in Nat /\ m > 0 /\ DOMAIN s = 1..m
      /\ b \in Seq(S) /\ Len(b) = m - 1 /\ DOMAIN b = 1..(m - 1)
      /\ \A i \in 1..(m - 1) : b[i] = s[i + 1]
      /\ Head(s) = s[1] /\ Head(s) \in S
  BY EmptySeq, LenProperties, HeadTailProperties
<1> HIDE DEF m, b
<1>2. Head(s) \in ToSet(s) BY <1>1 DEF ToSet
<1>3. ToSet(s) = ToSet(b) \cup {Head(s)}
  <2>1. ASSUME NEW i \in 1..m PROVE s[i] \in ToSet(b) \cup {Head(s)}
    <3>1. CASE i = 1 BY <1>1, <3>1
    <3>2. CASE i # 1
      <4>1. i - 1 \in DOMAIN b /\ b[i - 1] = s[i] BY <1>1, <3>2
      <4> QED BY <4>1 DEF ToSet
    <3> QED BY <3>1, <3>2
  <2>2. ASSUME NEW i \in DOMAIN b PROVE b[i] \in ToSet(s)
    <3>1. i + 1 \in DOMAIN s /\ b[i] = s[i + 1] BY <1>1
    <3> QED BY <3>1 DEF ToSet
  <2> QED BY <2>1, <2>2, <1>2, <1>1 DEF ToSet
<1>4. ASSUME IsInjective(s) PROVE IsInjective(b)
  <2> SUFFICES ASSUME NEW i \in DOMAIN b, NEW j \in DOMAIN b, b[i] = b[j]
               PROVE  i = j
    BY DEF IsInjective
  <2>1. /\ i + 1 \in DOMAIN s /\ j + 1 \in DOMAIN s /\ s[i + 1] = s[j + 1]
        /\ i \in Nat /\ j \in Nat
    BY <1>1
  <2>2. i + 1 = j + 1 BY <2>1, <1>4 DEF IsInjective
  <2> QED BY <2>1, <2>2
<1>5. ASSUME IsInjective(s) PROVE Head(s) \notin ToSet(b)
  <2> SUFFICES ASSUME NEW i \in DOMAIN b, b[i] = Head(s) PROVE FALSE
    BY DEF ToSet
  <2>1. i + 1 \in DOMAIN s /\ 1 \in DOMAIN s /\ s[i + 1] = s[1] /\ i \in Nat /\ i > 0
    BY <1>1
  <2>2. i + 1 = 1 BY <2>1, <1>5 DEF IsInjective
  <2> QED BY <2>1, <2>2
<1> QED BY <1>1, <1>2, <1>3, <1>4, <1>5 DEF b

\* RemoveFirst takes its element off a sequence without repetition.
LEMMA RemoveOnce ==
  ASSUME NEW S, NEW s \in Seq(S), NEW e \in ToSet(s), IsInjective(s)
  PROVE  /\ RemoveFirst(s, e) \in Seq(S)
         /\ ToSet(RemoveFirst(s, e)) = ToSet(s) \ {e}
         /\ IsInjective(RemoveFirst(s, e))
<1> DEFINE m == Len(s)
<1>1. m \in Nat /\ DOMAIN s = 1..m /\ \A i \in 1..m : s[i] \in S
  BY LenProperties
<1>2. PICK k \in 1..m : s[k] = e
  BY <1>1 DEF ToSet
<1>3. RemoveFirst(s, e) = RemoveAt(s, k)
  <2>1. {i \in 1..m : s[i] = e} = {k} BY <1>1, <1>2 DEF IsInjective
  <2>2. SelectInSeq(s, LAMBDA v : v = e) = Min({k}) BY <2>1 DEF SelectInSeq
  <2>3. Min({k}) = k BY <1>1, <1>2 DEF Min
  <2> QED BY <1>2, <2>2, <2>3 DEF RemoveFirst
<1> DEFINE a == SubSeq(s, 1, k - 1)  c == SubSeq(s, k + 1, m)  r == a \o c
<1>4. a \in Seq(S) /\ Len(a) = k - 1 /\ \A i \in 1..(k - 1) : a[i] = s[i]
  <2>1. \A i \in 1..(k - 1) : s[i] \in S BY <1>1, <1>2
  <2>2. k - 1 \in Int /\ 1 \in Int BY <1>1, <1>2
  <2> DEFINE h == k - 1
  <2>3. h \in Nat /\ h = k - 1 BY <1>1, <1>2
  <2> HIDE DEF h
  <2>4. SubSeq(s, 1, h) \in Seq(S) /\ Len(SubSeq(s, 1, h)) = IF 1 <= h THEN h - 1 + 1 ELSE 0
    BY <2>1, <2>3, SubSeqProperties, Z3
  <2>5. a = SubSeq(s, 1, h) BY <2>3
  <2> QED BY <2>3, <2>4, <2>5
<1>5. c \in Seq(S) /\ Len(c) = m - k /\ \A i \in 1..(m - k) : c[i] = s[k + i]
  <2>1. \A i \in (k + 1)..m : s[i] \in S BY <1>1, <1>2
  <2>2. c \in Seq(S) /\ Len(c) = IF k + 1 <= m THEN m - (k + 1) + 1 ELSE 0
    BY <2>1, <1>1, <1>2, SubSeqProperties, Z3
  <2> HIDE DEF c, m
  <2>3. Len(c) = m - k
    <3>1. CASE k + 1 <= m BY <2>2, <1>1, <1>2, <3>1
    <3>2. CASE ~(k + 1 <= m) BY <2>2, <1>1, <1>2, <3>2
    <3> QED BY <3>1, <3>2
  <2> USE DEF c, m
  <2>4. \A i \in 1..(m - k) : c[i] = s[k + i] BY <1>1, <1>2
  <2> QED BY <2>2, <2>3, <2>4
<1>6. r = RemoveFirst(s, e)
  BY <1>3 DEF RemoveAt
<1> HIDE DEF a, c
<1>7. /\ r \in Seq(S) /\ DOMAIN r = 1..(m - 1)
      /\ \A i \in 1..(m - 1) : r[i] = IF i < k THEN s[i] ELSE s[i + 1]
  <2>1. r \in Seq(S) /\ Len(r) = m - 1
    <3>1. r \in Seq(S) /\ Len(r) = Len(a) + Len(c) BY <1>4, <1>5, ConcatProperties
    <3> QED BY <3>1, <1>1, <1>2, <1>4, <1>5
  <2>2. DOMAIN r = 1..(m - 1) BY <2>1, LenProperties
  <2>3. \A i \in 1..(m - 1) : r[i] = IF i <= k - 1 THEN a[i] ELSE c[i - (k - 1)]
    <3>1. \A i \in 1..(Len(a) + Len(c)) : r[i] = IF i <= Len(a) THEN a[i] ELSE c[i - Len(a)]
      BY <1>4, <1>5, ConcatProperties
    <3>2. Len(a) = k - 1 /\ Len(a) + Len(c) = m - 1 BY <1>1, <1>2, <1>4, <1>5
    <3> HIDE DEF r, m
    <3> QED BY <3>1, <3>2
  <2>4. ASSUME NEW i \in 1..(m - 1) PROVE r[i] = IF i < k THEN s[i] ELSE s[i + 1]
    <3>1. CASE i < k BY <1>1, <1>2, <1>4, <2>3, <3>1
    <3>2. CASE ~(i < k)
      <4>1. i - (k - 1) \in 1..(m - k) /\ k + (i - (k - 1)) = i + 1 BY <1>1, <1>2, <3>2
      <4>2. ~(i <= k - 1) BY <1>1, <1>2, <3>2
      <4>3. r[i] = c[i - (k - 1)] BY <2>3, <4>2
      <4> QED BY <4>1, <4>3, <1>5, <3>2
    <3> QED BY <3>1, <3>2
  <2> QED BY <2>1, <2>2, <2>4
<1> HIDE DEF r
<1>8. IsInjective(r)
  <2> SUFFICES ASSUME NEW i \in 1..(m - 1), NEW j \in 1..(m - 1), r[i] = r[j] PROVE i = j
    BY <1>7 DEF IsInjective
  <2> QED BY <1>1, <1>2, <1>7 DEF IsInjective
<1>9. ToSet(r) = ToSet(s) \ {e}
  <2>1. ASSUME NEW i \in 1..(m - 1) PROVE r[i] \in ToSet(s) /\ r[i] # e
    BY <1>1, <1>2, <1>7 DEF ToSet, IsInjective
  <2>2. ASSUME NEW i \in 1..m, s[i] # e PROVE s[i] \in ToSet(r)
    <3>1. CASE i < k
      <4>1. i \in 1..(m - 1) /\ r[i] = s[i] BY <1>1, <1>2, <1>7, <3>1
      <4> QED BY <4>1, <1>7 DEF ToSet
    <3>2. CASE i > k
      <4>1. i - 1 \in 1..(m - 1) /\ ~(i - 1 < k) /\ i - 1 + 1 = i BY <1>1, <1>2, <3>2
      <4>2. r[i - 1] = s[i] BY <4>1, <1>7
      <4> QED BY <4>1, <4>2, <1>7 DEF ToSet
    <3> QED BY <1>1, <1>2, <2>2, <3>1, <3>2
  <2> QED BY <1>1, <1>7, <2>1, <2>2 DEF ToSet
<1> QED BY <1>6, <1>7, <1>8, <1>9

-----------------------------------------------------------------------------
(* The control of the jobs.                                                *)

\* What the worker does between taking a job and giving it up.
Midway == {"begin", "load", "record", "giveup", "failjob", "discovered", "announce",
           "pick", "lookup", "capacity", "create", "drained", "conclude"}

ControlTypeOK ==
  /\ status \in [Jobs -> Alive \cup Terminal \cup {"new"}]
  /\ made \in [Jobs -> Nat]
  /\ line \in Seq(Jobs)
  /\ active \in Jobs \cup {NoJob}

\* What the worker may assume of its job at each place.  A job that failed may
\* have been resumed, and even cancelled again, before the worker lets it go.
WorkerPlaced ==
  /\ active = NoJob <=> pc = "idle"
  /\ pc \in Midway => status[active] \in Running
  /\ pc = "leave" => status[active] \notin Running
  /\ pc = "unfinished" => \/ status[active] \in {"failed", "waiting", "cancelled"}
                          \/ status[active] \in Running /\ Cancelled(active)
  /\ pc = "finish" => status[active] \in Running \cup {"failed", "waiting", "cancelled"}

\* Only a job whose resumption was lost is in line without waiting.
LineIsWaiting == \A j \in ToSet(line) : status[j] \in {"waiting", "cancelled"}

AliveIsKnown == \A j \in Jobs : status[j] \in Alive => Known(j)

IInv ==
  /\ ControlTypeOK
  /\ WorkerPlaced
  /\ LineIsWaiting
  /\ AliveIsKnown
  /\ OneAlivePerUid
  /\ RunningIsActive
  /\ WaitingIsInLine

\* Trimming forgets ended jobs only.
LEMMA TrimKeeps ==
  ASSUME NEW ms \in [Jobs -> Nat], NEW st
  PROVE  /\ Trimmed(ms, st) \in [Jobs -> Nat]
         /\ \A j \in Jobs : st[j] \notin Terminal => Trimmed(ms, st)[j] = ms[j]
BY DEF Trimmed

\* The statuses are what their names say.
LEMMA StatusNames ==
  /\ \A s \in Running : s \in Alive /\ s \notin Terminal
  /\ "waiting" \in Alive /\ "waiting" \notin Running
  /\ \A s \in Terminal : s \notin Alive /\ s \notin Running
  /\ \A s \in Alive : s = "waiting" \/ s \in Running
  /\ {"discovering", "enqueuing", "stopping"} \subseteq Running
  /\ {"failed", "cancelled", "completed", "partial"} \subseteq Terminal
  /\ "new" \notin Alive /\ "new" \notin Running
BY DEF Running, Alive, Terminal

(***************************************************************************)
(* The steps of the worker with job j, as the control sees them.           *)
(***************************************************************************)
Quiet       == status' = status /\ pc \in Midway /\ pc' \in Midway
SeesCancel  == status' = status /\ pc \in Midway \cup {"unfinished"} /\ pc' = "finish"
StopsLoad(j) == status' = status /\ pc \in Midway /\ Cancelled(j) /\ pc' = "unfinished"
GivesUp(j)  == /\ status' = [status EXCEPT ![j] = "failed"]
               /\ pc \in Midway /\ pc' \in {"unfinished", "leave"}
Announces(j) == /\ status' = [status EXCEPT ![j] = "enqueuing"]
                /\ pc \in Midway /\ pc' \in Midway
Concludes(j) == /\ status' \in {[status EXCEPT ![j] = "completed"],
                                [status EXCEPT ![j] = "partial"]}
                /\ pc \in Midway /\ pc' = "leave"
Finishes(j) == status' = [status EXCEPT ![j] = "cancelled"] /\ pc = "finish" /\ pc' = "leave"
LetsGo(j)   == status' = status /\ pc = "unfinished" /\ ~Cancelled(j) /\ pc' = "leave"

ControlStep(j) ==
  \/ Quiet \/ SeesCancel \/ StopsLoad(j) \/ GivesUp(j) \/ Announces(j)
  \/ Concludes(j) \/ Finishes(j) \/ LetsGo(j)

\* Every step with a job is one of these.
LEMMA WorkIsControlStep ==
  ASSUME NEW j \in Jobs, active = j, IInv, Work(j)
  PROVE  ControlStep(j)
<1>0. pc \in Midway => status[j] \notin Terminal
  BY StatusNames DEF IInv, WorkerPlaced
<1>1. CASE (Begin(j) \/ Unfinished(j) \/ Discovered(j) \/ Drained(j)) /\ UNCHANGED jobVars
  BY <1>1 DEF Begin, Unfinished, Discovered, Drained, Look, Goto, jobVars, ControlStep,
              Quiet, SeesCancel, LetsGo, Midway
<1>2. CASE Load(j) /\ UNCHANGED jobVars
  BY <1>2 DEF Load, Arrives, RequestFails, Goto, jobVars, ControlStep, Quiet, StopsLoad, Midway
<1>3. CASE Record(j)
  <2>1. CASE RecordInvalid(j)
    BY <1>3, <2>1 DEF Record, RecordInvalid, Fails, Set, Goto, ControlStep, GivesUp, Midway
  <2>2. CASE RecordRaises(j)
    BY <1>3, <2>2 DEF Record, RecordRaises, jobVars, Goto, ControlStep, Quiet, SeesCancel,
                      Midway
  <2>3. CASE TurnPage(j)
    BY <1>3, <2>3 DEF Record, TurnPage, jobVars, Goto, ControlStep, Quiet, Midway
  <2>4. CASE NextPass(j)
    BY <1>3, <2>4 DEF Record, NextPass, jobVars, Goto, ControlStep, Quiet, Midway
  <2>5. CASE Unstable(j)
    BY <1>3, <2>5 DEF Record, Unstable, Fails, Set, Goto, ControlStep, GivesUp, Midway
  <2>6. CASE Stable(j)
    BY <1>3, <2>6 DEF Record, Stable, Goto, ControlStep, Quiet, Midway
  <2> QED BY <1>3, <2>1, <2>2, <2>3, <2>4, <2>5, <2>6 DEF Record
<1>4. CASE (Pick(j) \/ Lookup(j) \/ Capacity(j) \/ Create(j)) /\ UNCHANGED jobVars
  <2>1. pc' \in Midway /\ pc \in Midway
    BY <1>4 DEF Pick, Lookup, Capacity, Create, Onward, Skips, ItemFails, ItemDone, Creates,
                Goto, Midway
  <2> QED BY <1>4, <2>1 DEF jobVars, ControlStep, Quiet
<1>5. CASE GiveUp(j)
  BY <1>5 DEF GiveUp, Fails, Set, Goto, ControlStep, GivesUp, Midway
<1>6. CASE FailJob(j)
  BY <1>0, <1>6 DEF FailJob, Fails, Set, Goto, ControlStep, GivesUp, Midway
<1>7. CASE Announce(j)
  BY <1>7 DEF Announce, Set, Goto, ControlStep, Announces, Midway
<1>8. CASE Conclude(j)
  BY <1>8 DEF Conclude, Set, Goto, ControlStep, Concludes, Midway
<1>9. CASE Finish(j)
  BY <1>9 DEF Finish, Set, Goto, ControlStep, Finishes
<1> QED BY <1>1, <1>2, <1>3, <1>4, <1>5, <1>6, <1>7, <1>8, <1>9 DEF Work

(***************************************************************************)
(* The invariant holds at first.                                           *)
(***************************************************************************)
LEMMA InitIInv == ASSUME Init PROVE IInv
<1>1. ControlTypeOK BY DEF Init, ControlTypeOK
<1>2. WorkerPlaced BY DEF Init, WorkerPlaced, Midway
<1>3. line = <<>> /\ ToSet(line) = {} /\ IsInjective(line) BY DEF Init, ToSet, IsInjective
<1>4. \A j \in Jobs : status[j] = "new" BY DEF Init
<1>5. AliveIsKnown /\ OneAlivePerUid /\ RunningIsActive
  BY <1>4, StatusNames DEF AliveIsKnown, OneAlivePerUid, RunningIsActive
<1>6. LineIsWaiting /\ WaitingIsInLine BY <1>3, <1>4 DEF LineIsWaiting, WaitingIsInLine
<1> QED BY <1>1, <1>2, <1>5, <1>6 DEF IInv

(***************************************************************************)
(* The worker.                                                             *)
(***************************************************************************)
WorkFrame == UNCHANGED <<active, made, line, cancelSet, stopped>>

\* One job changes from a status that is alive to another one, or to an ended
\* one, and nothing else of what the invariants speak of changes.
LEMMA OneJobMoves ==
  ASSUME NEW j \in Jobs, NEW s \in Running \cup Terminal, IInv, WorkFrame,
         status' = [status EXCEPT ![j] = s],
         status[j] \in Running \/ (s = "cancelled"),
         s \in Running => active = j
  PROVE  /\ ControlTypeOK' /\ LineIsWaiting' /\ AliveIsKnown' /\ OneAlivePerUid'
         /\ RunningIsActive' /\ WaitingIsInLine'
<1> USE DEF WorkFrame
<1>0. /\ \A i \in Jobs : i # j => status'[i] = status[i]
      /\ status'[j] = s
      /\ status'[j] \in Alive => status[j] \in Alive
      /\ s # "waiting"
  BY StatusNames DEF IInv, ControlTypeOK
<1>1. ControlTypeOK' BY StatusNames DEF IInv, ControlTypeOK
<1>2. LineIsWaiting'
  <2>1. \A i \in ToSet(line) : i \in Jobs BY LenProperties DEF ToSet, IInv, ControlTypeOK
  <2>2. status[j] \in Running => j \notin ToSet(line)
    BY StatusNames DEF IInv, LineIsWaiting, Running
  <2> QED BY <1>0, <2>1, <2>2 DEF IInv, LineIsWaiting
<1>3. AliveIsKnown' BY <1>0 DEF IInv, AliveIsKnown, Known
<1>4. OneAlivePerUid' BY <1>0 DEF IInv, OneAlivePerUid
<1>5. RunningIsActive' BY <1>0 DEF IInv, RunningIsActive
<1>6. WaitingIsInLine' BY <1>0 DEF IInv, WaitingIsInLine, Known
<1> QED BY <1>1, <1>2, <1>3, <1>4, <1>5, <1>6

LEMMA NothingMoves ==
  ASSUME IInv, WorkFrame, status' = status
  PROVE  /\ ControlTypeOK' /\ LineIsWaiting' /\ AliveIsKnown' /\ OneAlivePerUid'
         /\ RunningIsActive' /\ WaitingIsInLine'
BY DEF IInv, WorkFrame, ControlTypeOK, LineIsWaiting, AliveIsKnown, OneAlivePerUid,
       RunningIsActive, WaitingIsInLine, Known

LEMMA WorkIInv ==
  ASSUME NEW j \in Jobs, JobsAssumption, active = j, IInv, ControlStep(j), WorkFrame
  PROVE  IInv'
<1> USE DEF WorkFrame
<1>0. /\ j # NoJob /\ status[j] \in Alive \cup Terminal \cup {"new"}
      /\ pc \in Midway => status[j] \in Running
      /\ \A s : [status EXCEPT ![j] = s][j] = s
  BY DEF IInv, WorkerPlaced, JobsAssumption, ControlTypeOK
<1>1. CASE Quiet
  <2>1. WorkerPlaced' BY <1>0, <1>1 DEF Quiet, Midway, WorkerPlaced
  <2> QED BY <2>1, <1>1, NothingMoves DEF Quiet, IInv
<1>2. CASE SeesCancel
  <2>1. WorkerPlaced' BY <1>0, <1>2 DEF SeesCancel, Midway, WorkerPlaced, IInv
  <2> QED BY <2>1, <1>2, NothingMoves DEF SeesCancel, IInv
<1>3. CASE StopsLoad(j)
  <2>1. WorkerPlaced' BY <1>0, <1>3 DEF StopsLoad, Midway, WorkerPlaced, Cancelled
  <2> QED BY <2>1, <1>3, NothingMoves DEF StopsLoad, IInv
<1>4. CASE GivesUp(j)
  <2>1. WorkerPlaced' BY <1>0, <1>4, StatusNames DEF GivesUp, Midway, WorkerPlaced
  <2> QED BY <2>1, <1>0, <1>4, OneJobMoves, StatusNames DEF GivesUp, IInv
<1>5. CASE Announces(j)
  <2>1. WorkerPlaced' BY <1>0, <1>5, StatusNames DEF Announces, Midway, WorkerPlaced
  <2> QED BY <2>1, <1>0, <1>5, OneJobMoves, StatusNames DEF Announces, IInv
<1>6. CASE Concludes(j)
  <2>1. WorkerPlaced' BY <1>0, <1>6, StatusNames DEF Concludes, Midway, WorkerPlaced
  <2> QED BY <2>1, <1>0, <1>6, OneJobMoves, StatusNames DEF Concludes, IInv
<1>7. CASE Finishes(j)
  <2>1. WorkerPlaced' BY <1>0, <1>7, StatusNames DEF Finishes, Midway, WorkerPlaced
  <2> QED BY <2>1, <1>0, <1>7, OneJobMoves, StatusNames DEF Finishes, IInv
<1>8. CASE LetsGo(j)
  <2>1. WorkerPlaced' BY <1>0, <1>8, StatusNames DEF LetsGo, Midway, WorkerPlaced, IInv
  <2> QED BY <2>1, <1>8, NothingMoves DEF LetsGo, IInv
<1> QED BY <1>1, <1>2, <1>3, <1>4, <1>5, <1>6, <1>7, <1>8 DEF ControlStep

\* Taking a job off the line.
LEMMA TakeIInv ==
  ASSUME JobsAssumption, IInv, Take, UNCHANGED <<cancelSet, stopped>>
  PROVE  IInv'
<1> DEFINE j == Head(line)
<1>1. /\ active = NoJob /\ NoJob \notin Jobs
      /\ line # <<>> /\ line' = Tail(line) /\ made' = made
  BY DEF Take, IInv, WorkerPlaced, JobsAssumption
<1>2. /\ line' \in Seq(Jobs) /\ j \in Jobs
      /\ ToSet(line) = ToSet(line') \cup {j}
      /\ IsInjective(line') /\ j \notin ToSet(line')
  BY <1>1, TailOnce DEF IInv, ControlTypeOK, WaitingIsInLine
<1>3. \A i \in Jobs : status[i] \notin Running
  BY <1>1 DEF IInv, RunningIsActive
<1> HIDE DEF j
<1>4. CASE status[j] = "waiting"
  <2>1. PICK s \in Running : status' = [status EXCEPT ![j] = s]
    <3>1. Known(j) BY <1>2, <1>4 DEF IInv, WaitingIsInLine
    <3> QED BY <3>1, <1>4, StatusNames DEF Take, Set, j
  <2>2. active' = j /\ pc' = "begin"
    <3>1. Known(j) BY <1>2, <1>4 DEF IInv, WaitingIsInLine
    <3> QED BY <3>1, <1>4 DEF Take, Goto, j
  <2>3. /\ \A i \in Jobs : i # j => status'[i] = status[i]
        /\ status'[j] = s /\ s \in Alive /\ s # "waiting" /\ s \notin Terminal
    BY <2>1, <1>2, StatusNames DEF IInv, ControlTypeOK, Running
  <2>4. ControlTypeOK'
    BY <1>1, <1>2, <2>1, <2>2, <2>3 DEF IInv, ControlTypeOK
  <2>5. WorkerPlaced' BY <1>1, <1>2, <2>2, <2>3, <2>1 DEF WorkerPlaced, Midway
  <2>6. \A i \in ToSet(line') : i \in Jobs /\ i # j
    BY <1>2, LenProperties DEF ToSet
  <2>7. LineIsWaiting' BY <1>2, <2>3, <2>6 DEF IInv, LineIsWaiting
  <2>8. status[j] \in Alive BY <1>4, StatusNames
  <2>9. AliveIsKnown' BY <1>1, <1>2, <2>3, <2>8 DEF IInv, AliveIsKnown, Known
  <2>10. OneAlivePerUid' BY <1>2, <2>3, <2>8 DEF IInv, OneAlivePerUid
  <2>11. RunningIsActive' BY <1>3, <2>2, <2>3 DEF RunningIsActive
  <2>12. WaitingIsInLine'
    BY <1>1, <1>2, <2>3 DEF IInv, WaitingIsInLine, Known
  <2> QED BY <2>4, <2>5, <2>7, <2>9, <2>10, <2>11, <2>12 DEF IInv
<1>5. CASE status[j] # "waiting"
  <2>1. UNCHANGED <<active, pc, status>> BY <1>5 DEF Take, j
  <2>2. WorkerPlaced' BY <2>1, <1>1 DEF IInv, WorkerPlaced, Midway, Take
  <2>3. LineIsWaiting' BY <2>1, <1>2 DEF IInv, LineIsWaiting
  <2>4. WaitingIsInLine' BY <2>1, <1>1, <1>2, <1>5 DEF IInv, WaitingIsInLine, Known
  <2>5. ControlTypeOK' /\ AliveIsKnown' /\ OneAlivePerUid' /\ RunningIsActive'
    BY <2>1, <1>1, <1>2
       DEF IInv, ControlTypeOK, AliveIsKnown, OneAlivePerUid, RunningIsActive, Known
  <2> QED BY <2>2, <2>3, <2>4, <2>5 DEF IInv
<1> QED BY <1>4, <1>5

\* Letting a job go, and trimming the history.
LEMMA LeaveIInv ==
  ASSUME JobsAssumption, IInv, Leave, UNCHANGED <<cancelSet, stopped>>
  PROVE  IInv'
<1>1. /\ pc = "leave" /\ pc' = "idle" /\ active' = NoJob
      /\ UNCHANGED <<status, line>> /\ made' = Trimmed(made, status)
  BY DEF Leave, Goto
<1>2. /\ made' \in [Jobs -> Nat]
      /\ \A j \in Jobs : status[j] \notin Terminal => made'[j] = made[j]
  BY <1>1, TrimKeeps DEF IInv, ControlTypeOK
<1>3. \A j \in Jobs : status[j] \notin Running
  BY <1>1 DEF IInv, WorkerPlaced, RunningIsActive
<1>4. ControlTypeOK' BY <1>1, <1>2 DEF IInv, ControlTypeOK
<1>5. WorkerPlaced' BY <1>1 DEF WorkerPlaced, Midway
<1>6. LineIsWaiting' /\ OneAlivePerUid' BY <1>1 DEF IInv, LineIsWaiting, OneAlivePerUid
<1>7. AliveIsKnown' BY <1>1, <1>2, StatusNames DEF IInv, AliveIsKnown, Known
<1>8. RunningIsActive' BY <1>1, <1>3 DEF RunningIsActive
<1>9. WaitingIsInLine' BY <1>1, <1>2, StatusNames DEF IInv, WaitingIsInLine, Known
<1> QED BY <1>4, <1>5, <1>6, <1>7, <1>8, <1>9 DEF IInv

\* Every step of the worker.
LEMMA WorkerIInv == ASSUME JobsAssumption, IInv, Worker PROVE IInv'
<1>0. UNCHANGED <<cancelSet, stopped>> BY DEF Worker
<1>1. CASE active # NoJob /\ Work(active)
  <2>1. active \in Jobs BY <1>1 DEF IInv, ControlTypeOK
  <2>2. WorkFrame BY <1>0, <1>1 DEF Work, WorkFrame
  <2>3. ControlStep(active) BY <1>1, <2>1, WorkIsControlStep
  <2> QED BY <2>1, <2>2, <2>3, WorkIInv
<1>2. CASE Take BY <1>0, <1>2, TakeIInv
<1>3. CASE Leave BY <1>0, <1>3, LeaveIInv
<1> QED BY <1>1, <1>2, <1>3 DEF Worker

(***************************************************************************)
(* The environment does not touch the control.                             *)
(***************************************************************************)
controlVars == <<status, made, line, active, pc, cancelSet, stopped>>

\* A step that leaves the control alone keeps the invariant.
LEMMA ControlAlone == ASSUME IInv, UNCHANGED controlVars PROVE IInv'
<1> USE DEF controlVars
<1>1. WorkerPlaced' BY DEF IInv, WorkerPlaced, Cancelled
<1> QED BY <1>1, NothingMoves DEF IInv, WorkFrame

\* Publications, withdrawals and the queue's own life are such steps.
LEMMA EnvironmentAlone ==
  ASSUME \/ \E u \in Uids : Publish(u) \/ \E v \in Videos : Withdraw(u, v)
         \/ \E k \in Keys : ManualEnqueue(k) \/ TaskEnds(k) \/ RemoveWork(k)
  PROVE  UNCHANGED controlVars
<1>1. CASE \E u \in Uids : Publish(u) \/ \E v \in Videos : Withdraw(u, v)
  BY <1>1 DEF Publish, Withdraw, SiteFrame, jobVars, requestVars, threadVars, controlVars
<1>2. CASE \E k \in Keys : ManualEnqueue(k) \/ TaskEnds(k) \/ RemoveWork(k)
  BY <1>2 DEF ManualEnqueue, TaskEnds, RemoveWork, QueueFrame, jobVars, requestVars,
              threadVars, controlVars
<1> QED BY <1>1, <1>2

(***************************************************************************)
(* The requests.                                                           *)
(***************************************************************************)

\* A job joins the line.
JoinsLine(j) ==
  /\ status[j] \in {"new", "failed", "partial"} /\ ~UidTaken(j)
  /\ status' = [status EXCEPT ![j] = "waiting"]
  /\ line' = Append(line, j)
  /\ made' \in [Jobs -> Nat] /\ made'[j] # 0
  /\ \A i \in Jobs : status[i] \in Alive => made'[i] = made[i]
  /\ stopped' = stopped /\ cancelSet' \in {cancelSet, cancelSet \ {j}}
  /\ UNCHANGED <<active, pc>>

\* A new job gets a rank that the trimming does not take away.
LEMMA StartJoins ==
  ASSUME JobsAssumption, IInv, NEW j \in Jobs, Start(j), UNCHANGED threadVars
  PROVE  JoinsLine(j)
<1> DEFINE n == Cardinality({i \in Jobs : status[i] # "new"}) + 1
           ms == Set(made, j, n)
<1>1. n \in Nat /\ n # 0
  <2>1. IsFiniteSet({i \in Jobs : status[i] # "new"}) BY FS_Subset DEF JobsAssumption
  <2> QED BY <2>1, FS_CardinalityType
<1>2. /\ status[j] = "new" /\ ~UidTaken(j)
      /\ status' = [status EXCEPT ![j] = "waiting"]
      /\ made' = Trimmed(ms, status') /\ line' = Append(line, j)
      /\ UNCHANGED <<cancelSet, stopped>>
  BY DEF Start, Set
<1> HIDE DEF n
<1>3. /\ ms \in [Jobs -> Nat] /\ ms[j] = n /\ \A i \in Jobs \ {j} : ms[i] = made[i]
  BY <1>1 DEF IInv, ControlTypeOK, Set
<1> HIDE DEF ms
<1>4. /\ made' \in [Jobs -> Nat]
      /\ \A i \in Jobs : status'[i] \notin Terminal => made'[i] = ms[i]
  <2> DEFINE st == [status EXCEPT ![j] = "waiting"]
  <2>1. made' = Trimmed(ms, st) /\ status' = st BY <1>2
  <2> HIDE DEF st
  <2> QED BY <2>1, <1>3, TrimKeeps
<1>5. status'[j] = "waiting" /\ \A i \in Jobs \ {j} : status'[i] = status[i]
  BY <1>2 DEF IInv, ControlTypeOK
<1>6. made'[j] # 0 BY <1>1, <1>3, <1>4, <1>5, StatusNames
<1>7. \A i \in Jobs : status[i] \in Alive => made'[i] = made[i]
  BY <1>2, <1>3, <1>4, <1>5, StatusNames
<1> QED BY <1>2, <1>4, <1>6, <1>7 DEF JoinsLine, threadVars

\* A resumed or retried job is known already.
LEMMA BackJoins ==
  ASSUME IInv, NEW j \in Jobs, BackInLine(j), status[j] \in {"failed", "partial"},
         UNCHANGED threadVars
  PROVE  JoinsLine(j)
BY DEF BackInLine, JoinsLine, Known, Set, threadVars, IInv, ControlTypeOK

\* A job that joins the line is the only one of its creator that is alive, and
\* was not in line before.
LEMMA JoinIInv ==
  ASSUME JobsAssumption, IInv, NEW j \in Jobs, JoinsLine(j)
  PROVE  IInv'
<1> USE DEF JoinsLine
<1>1. /\ line' \in Seq(Jobs) /\ ToSet(line') = ToSet(line) \cup {j}
      /\ IsInjective(line) /\ j \notin ToSet(line)
      /\ IsInjective(line')
  <2>1. line \in Seq(Jobs) /\ IsInjective(line) /\ j \notin ToSet(line)
    BY DEF IInv, ControlTypeOK, WaitingIsInLine, LineIsWaiting
  <2> QED BY <2>1, AppendOnce
<1>2. /\ status'[j] = "waiting" /\ \A i \in Jobs : i # j => status'[i] = status[i]
      /\ status[j] \notin Alive
  BY DEF IInv, ControlTypeOK, Alive, Running
<1>3. ControlTypeOK' BY <1>1 DEF IInv, ControlTypeOK, Alive
<1>4. WorkerPlaced'
  <2>1. CASE active = j
    BY <2>1, <1>2, StatusNames DEF IInv, WorkerPlaced, Running, Alive
  <2>2. CASE active # j
    <3>1. active \in Jobs => status'[active] = status[active] BY <2>2, <1>2
    <3>2. active \notin Jobs => active = NoJob BY DEF IInv, ControlTypeOK
    <3>3. Cancelled(active) => Cancelled(active)' BY <2>2 DEF Cancelled
    <3> QED BY <3>1, <3>2, <3>3 DEF IInv, WorkerPlaced, Midway
  <2> QED BY <2>1, <2>2
<1>5. LineIsWaiting'
  <2>1. \A i \in ToSet(line) : i \in Jobs /\ i # j
    BY <1>1, LenProperties DEF ToSet, IInv, ControlTypeOK
  <2> QED BY <1>1, <1>2, <2>1 DEF IInv, LineIsWaiting
<1>6. AliveIsKnown' BY <1>2 DEF IInv, AliveIsKnown, Known
<1>7. OneAlivePerUid'
  <2>1. \A i \in Jobs \ {j} : UidOf[i] = UidOf[j] => status[i] \notin Alive
    BY DEF UidTaken, IInv, AliveIsKnown
  <2> QED BY <1>2, <2>1 DEF IInv, OneAlivePerUid
<1>8. RunningIsActive' BY <1>2, StatusNames DEF IInv, RunningIsActive
<1>9. WaitingIsInLine'
  BY <1>1, <1>2, StatusNames DEF IInv, WaitingIsInLine, Known
<1> QED BY <1>3, <1>4, <1>5, <1>6, <1>7, <1>8, <1>9 DEF IInv

\* A waiting job that is cancelled leaves the line, and the trimming keeps the
\* jobs that are alive.
LEMMA CancelWaitingIInv ==
  ASSUME JobsAssumption, IInv, NEW j \in Jobs, CancelWaiting(j), UNCHANGED threadVars
  PROVE  IInv'
<1>1. /\ status[j] = "waiting" /\ status' = [status EXCEPT ![j] = "cancelled"]
      /\ line' = RemoveFirst(line, j) /\ made' = Trimmed(made, status')
      /\ cancelSet' = cancelSet \cup {j}
      /\ UNCHANGED <<stopped, active, pc>>
  BY DEF CancelWaiting, Set, threadVars
<1>2. /\ line' \in Seq(Jobs) /\ ToSet(line') = ToSet(line) \ {j} /\ IsInjective(line')
  BY <1>1, RemoveOnce DEF IInv, ControlTypeOK, WaitingIsInLine
<1>3. status'[j] = "cancelled" /\ \A i \in Jobs : i # j => status'[i] = status[i]
  BY <1>1 DEF IInv, ControlTypeOK
<1>4. /\ made' \in [Jobs -> Nat]
      /\ \A i \in Jobs : status'[i] \notin Terminal => made'[i] = made[i]
  <2> DEFINE st == [status EXCEPT ![j] = "cancelled"]
  <2>1. made' = Trimmed(made, st) /\ status' = st /\ made \in [Jobs -> Nat]
    BY <1>1 DEF IInv, ControlTypeOK
  <2> HIDE DEF st
  <2> QED BY <2>1, TrimKeeps
<1>5. ControlTypeOK' BY <1>1, <1>2, <1>4 DEF IInv, ControlTypeOK, Terminal
<1>6. WorkerPlaced'
  <2>1. CASE active = j
    BY <2>1, <1>1, <1>3, StatusNames DEF IInv, WorkerPlaced
  <2>2. CASE active # j
    <3>1. active \in Jobs => status'[active] = status[active] BY <2>2, <1>3
    <3>2. active \notin Jobs => active = NoJob BY DEF IInv, ControlTypeOK
    <3>3. Cancelled(active) => Cancelled(active)' BY <1>1 DEF Cancelled
    <3> QED BY <3>1, <3>2, <3>3, <1>1 DEF IInv, WorkerPlaced, Midway
  <2> QED BY <2>1, <2>2
<1>7. LineIsWaiting'
  <2>1. \A i \in ToSet(line) : i \in Jobs BY LenProperties DEF ToSet, IInv, ControlTypeOK
  <2> QED BY <1>2, <1>3, <2>1 DEF IInv, LineIsWaiting
<1>8. AliveIsKnown' BY <1>3, <1>4, StatusNames DEF IInv, AliveIsKnown, Known
<1>9. OneAlivePerUid' BY <1>3, StatusNames DEF IInv, OneAlivePerUid
<1>10. RunningIsActive' BY <1>1, <1>3, StatusNames DEF IInv, RunningIsActive
<1>11. WaitingIsInLine'
  BY <1>2, <1>3, <1>4, StatusNames DEF IInv, WaitingIsInLine, Known
<1> QED BY <1>5, <1>6, <1>7, <1>8, <1>9, <1>10, <1>11 DEF IInv

\* The running job is told to stop.
LEMMA CancelRunningIInv ==
  ASSUME JobsAssumption, IInv, NEW j \in Jobs, CancelRunning(j), UNCHANGED threadVars
  PROVE  IInv'
<1>1. /\ status[j] \in Running /\ status' = [status EXCEPT ![j] = "stopping"]
      /\ cancelSet' = cancelSet \cup {j}
      /\ UNCHANGED <<line, made, stopped, active, pc>>
  BY DEF CancelRunning, Set, threadVars
<1>2. status'[j] = "stopping" /\ \A i \in Jobs : i # j => status'[i] = status[i]
  BY <1>1 DEF IInv, ControlTypeOK
<1>3. active = j /\ "stopping" \in Running /\ status[j] \in Alive
      /\ "stopping" # "waiting" /\ status[j] \notin {"waiting", "cancelled"}
  BY <1>1, StatusNames DEF IInv, RunningIsActive, Running
<1>4. ControlTypeOK' BY <1>1, <1>3, StatusNames DEF IInv, ControlTypeOK
<1>5. WorkerPlaced'
  BY <1>1, <1>2, <1>3 DEF IInv, WorkerPlaced, Cancelled, Midway
<1>6. LineIsWaiting'
  <2>1. \A i \in ToSet(line) : i \in Jobs /\ i # j
    BY <1>3, LenProperties DEF ToSet, IInv, ControlTypeOK, LineIsWaiting
  <2> QED BY <1>1, <1>2, <2>1 DEF IInv, LineIsWaiting
<1>7. AliveIsKnown' BY <1>1, <1>2, <1>3 DEF IInv, AliveIsKnown, Known
<1>8. OneAlivePerUid' BY <1>2, <1>3 DEF IInv, OneAlivePerUid
<1>9. RunningIsActive' BY <1>1, <1>2, <1>3 DEF IInv, RunningIsActive
<1>10. WaitingIsInLine' BY <1>1, <1>2, <1>3 DEF IInv, WaitingIsInLine, Known
<1> QED BY <1>4, <1>5, <1>6, <1>7, <1>8, <1>9, <1>10 DEF IInv

\* stop() cancels exactly the waiting jobs and tells exactly the running one.
LEMMA StopShape ==
  ASSUME JobsAssumption, IInv, Stop
  PROVE  /\ \A j \in Jobs : status[j] = "waiting" => status'[j] = "cancelled"
         /\ \A j \in Jobs : status[j] \in Running => status'[j] = "stopping"
         /\ \A j \in Jobs : status[j] \notin Alive => status'[j] = status[j]
         /\ status' = [j \in Jobs |-> IF status[j] = "waiting" THEN "cancelled"
                                      ELSE IF status[j] \in Running THEN "stopping"
                                      ELSE status[j]]
<1>1. \A j \in Jobs : j \in Unstarted <=> status[j] = "waiting"
  BY DEF Unstarted, IInv, WaitingIsInLine
<1>2. \A j \in Jobs : j \in Told <=> status[j] \in Running
  BY <1>1, StatusNames DEF Told, IInv, RunningIsActive, AliveIsKnown, JobsAssumption
<1>3. status' = [j \in Jobs |-> IF j \in Unstarted THEN "cancelled"
                                ELSE IF j \in Told THEN "stopping" ELSE status[j]]
  BY DEF Stop
<1>4. status' = [j \in Jobs |-> IF status[j] = "waiting" THEN "cancelled"
                                ELSE IF status[j] \in Running THEN "stopping"
                                ELSE status[j]]
  BY <1>1, <1>2, <1>3
<1> QED BY <1>4, StatusNames

\* The service stops.
LEMMA StopIInv ==
  ASSUME JobsAssumption, IInv, Stop, UNCHANGED threadVars
  PROVE  IInv'
<1>1. /\ line' = <<>> /\ stopped' = TRUE /\ UNCHANGED <<made, active, pc>>
  BY DEF Stop, threadVars
<1>2. ToSet(line') = {} /\ IsInjective(line') /\ line' \in Seq(Jobs)
  BY <1>1 DEF ToSet, IsInjective
<1>3. \A j \in Jobs : \/ status[j] = "waiting" /\ status'[j] = "cancelled"
                      \/ status[j] \in Running /\ status'[j] = "stopping"
                      \/ status[j] \notin Alive /\ status'[j] = status[j]
  BY StopShape, StatusNames
<1>4. ControlTypeOK'
  <2>1. DOMAIN status' = Jobs /\ status' = [j \in Jobs |-> status'[j]] BY StopShape
  <2>2. \A j \in Jobs : status'[j] \in Alive \cup Terminal \cup {"new"}
    BY <1>3, StatusNames DEF IInv, ControlTypeOK
  <2> QED BY <2>1, <2>2, <1>1, <1>2 DEF IInv, ControlTypeOK
<1>5. WorkerPlaced'
  <2>1. CASE active \notin Jobs
    BY <2>1, <1>1 DEF IInv, ControlTypeOK, WorkerPlaced, Midway
  <2>2. CASE active \in Jobs
    <3>1. "stopping" \in Running /\ "cancelled" \notin Running BY StatusNames
    <3>2. /\ status[active] \in Running => status'[active] = "stopping"
          /\ status[active] = "waiting" => status'[active] = "cancelled"
          /\ status[active] \notin Alive => status'[active] = status[active]
          /\ status[active] \notin Running => status'[active] \notin Running
          /\ {"failed", "cancelled"} \cap Alive = {}
      BY <2>2, <1>3, <3>1, StatusNames
    <3> QED BY <3>1, <3>2, <1>1 DEF IInv, WorkerPlaced, Cancelled, Midway
  <2> QED BY <2>1, <2>2
<1>6. LineIsWaiting' BY <1>2 DEF LineIsWaiting
<1>7. AliveIsKnown' BY <1>1, <1>3, StatusNames DEF IInv, AliveIsKnown, Known
<1>8. OneAlivePerUid' BY <1>3, StatusNames DEF IInv, OneAlivePerUid
<1>9. RunningIsActive' BY <1>1, <1>3, StatusNames DEF IInv, RunningIsActive
<1>10. WaitingIsInLine'
  <2>1. \A j \in Jobs : status'[j] # "waiting" BY <1>3, StatusNames
  <2> QED BY <2>1, <1>2 DEF WaitingIsInLine
<1> QED BY <1>4, <1>5, <1>6, <1>7, <1>8, <1>9, <1>10 DEF IInv

\* Every request.
LEMMA RequestIInv == ASSUME JobsAssumption, IInv, Request PROVE IInv'
<1>0. UNCHANGED threadVars BY DEF Request
<1>1. CASE Stop BY <1>0, <1>1, StopIInv
<1>2. ASSUME NEW j \in Jobs,
             Start(j) \/ CancelWaiting(j) \/ CancelRunning(j) \/ Resume(j) \/ RetryFailed(j)
      PROVE  IInv'
  <2>1. CASE Start(j) BY <1>0, <2>1, StartJoins, JoinIInv
  <2>2. CASE CancelWaiting(j) BY <1>0, <2>2, CancelWaitingIInv
  <2>3. CASE CancelRunning(j) BY <1>0, <2>3, CancelRunningIInv
  <2>4. CASE Resume(j) BY <1>0, <2>4, BackJoins, JoinIInv DEF Resume
  <2>5. CASE RetryFailed(j) BY <1>0, <2>5, BackJoins, JoinIInv DEF RetryFailed
  <2> QED BY <1>2, <2>1, <2>2, <2>3, <2>4, <2>5
<1> QED BY <1>1, <1>2 DEF Request

\* A step that changes nothing changes nothing of the control.
LEMMA StutterAlone == ASSUME UNCHANGED vars PROVE UNCHANGED controlVars
BY DEF vars, jobVars, requestVars, threadVars, controlVars

\* Every step.
LEMMA NextIInv == ASSUME JobsAssumption, IInv, [Next]_vars PROVE IInv'
<1>1. CASE Request BY <1>1, RequestIInv
<1>2. CASE Worker BY <1>2, WorkerIInv
<1>3. CASE \/ \E u \in Uids : Publish(u) \/ \E v \in Videos : Withdraw(u, v)
           \/ \E k \in Keys : ManualEnqueue(k) \/ TaskEnds(k) \/ RemoveWork(k)
  BY <1>3, EnvironmentAlone, ControlAlone
<1>4. CASE UNCHANGED vars BY <1>4, StutterAlone, ControlAlone
<1> QED BY <1>1, <1>2, <1>3, <1>4 DEF Next

\* The control of the import manager is sound in every reachable state: the
\* inductive invariant that the theorems below are read off.
THEOREM ImportControl == Spec => []IInv
<1>1. Init => IInv BY InitIInv
<1>2. IInv /\ [Next]_vars => IInv' BY NextIInv, JobsAssumption
<1> QED BY <1>1, <1>2, PTL DEF Spec

\* However start, resume and retry race, at most one job of a creator waits or
\* runs (CreatorImportManager.start, resume, retry_failed).
THEOREM OneAliveJob == Spec => []OneAlivePerUid
<1>1. IInv => OneAlivePerUid BY DEF IInv
<1> QED BY <1>1, ImportControl, PTL

\* A job that is shown to run is the one the worker has (_loop, _run_job, cancel).
THEOREM RunningJobIsActive == Spec => []RunningIsActive
<1>1. IInv => RunningIsActive BY DEF IInv
<1> QED BY <1>1, ImportControl, PTL

\* A waiting job is in line, once, and the history never trims it away
\* (_trim_locked, _loop, resume).
THEOREM WaitingJobIsInLine == Spec => []WaitingIsInLine
<1>1. IInv => WaitingIsInLine BY DEF IInv
<1> QED BY <1>1, ImportControl, PTL

\* Requests and worker agree on the jobs: one alive per creator, the running one is
\* the worker's, the waiting ones are in line (start, resume, retry_failed, _loop).
THEOREM JobsSafe == Spec => []JobsAreSafe
<1>1. IInv => JobsAreSafe BY DEF IInv, JobsAreSafe
<1> QED BY <1>1, ImportControl, PTL

(***************************************************************************)
(* The jobs live the life of ImportLifecycle.                              *)
(***************************************************************************)

\* The two modules name the same statuses.
LEMMA SameNames ==
  /\ Life!Running = Running /\ Life!Alive = Alive /\ Life!Ended = Terminal
BY DEF Life!Running, Running, Life!Alive, Alive, Life!Ended, Terminal

\* A job that joins the line is accepted.
LEMMA JoinIsAccept ==
  ASSUME IInv, NEW j \in Jobs, JoinsLine(j) PROVE Life!Accept(j)
<1>1. ~Life!UidTaken(j)
  BY SameNames DEF JoinsLine, UidTaken, Life!UidTaken, IInv, AliveIsKnown
<1> QED BY <1>1 DEF JoinsLine, Life!Accept, Life!Becomes

\* A request is a step of the life.
LEMMA RequestIsLife == ASSUME JobsAssumption, IInv, Request PROVE Life!LifeNext
<1>0. UNCHANGED threadVars BY DEF Request
<1>1. CASE Stop
  <2>1. Life!Shutdown BY <1>1, StopShape, SameNames DEF Life!Shutdown
  <2> QED BY <2>1 DEF Life!LifeNext
<1>2. ASSUME NEW j \in Jobs,
             Start(j) \/ CancelWaiting(j) \/ CancelRunning(j) \/ Resume(j) \/ RetryFailed(j)
      PROVE  Life!Accept(j) \/ Life!Proceed(j) \/ Life!Drop(j)
  <2>1. CASE Start(j) BY <1>0, <2>1, StartJoins, JoinIsAccept
  <2>2. CASE CancelWaiting(j) BY <2>2 DEF CancelWaiting, Set, Life!Drop, Life!Becomes
  <2>3. CASE CancelRunning(j)
    BY <2>3, SameNames DEF CancelRunning, Set, Life!Proceed, Life!Becomes
  <2>4. CASE Resume(j) BY <1>0, <2>4, BackJoins, JoinIsAccept DEF Resume
  <2>5. CASE RetryFailed(j) BY <1>0, <2>5, BackJoins, JoinIsAccept DEF RetryFailed
  <2> QED BY <1>2, <2>1, <2>2, <2>3, <2>4, <2>5
<1> QED BY <1>1, <1>2 DEF Request, Life!LifeNext

\* So is a step of the worker, or it changes no status.
LEMMA WorkerIsLife ==
  ASSUME JobsAssumption, IInv, Worker PROVE Life!LifeNext \/ status' = status
<1>1. CASE active # NoJob /\ Work(active)
  <2> DEFINE j == active
  <2>1. j \in Jobs BY <1>1 DEF IInv, ControlTypeOK
  <2>2. ControlStep(j) BY <1>1, <2>1, WorkIsControlStep
  <2>3. pc \in Midway => status[j] \in Running BY DEF IInv, WorkerPlaced
  <2>4. status = [status EXCEPT ![j] = status[j]] BY DEF IInv, ControlTypeOK
  <2> HIDE DEF j
  <2>5. CASE GivesUp(j)
    BY <2>1, <2>3, <2>5, SameNames, StatusNames
       DEF GivesUp, Life!LifeNext, Life!Proceed, Life!Becomes
  <2>6. CASE Announces(j)
    BY <2>1, <2>3, <2>6, SameNames DEF Announces, Life!LifeNext, Life!Proceed, Life!Becomes
  <2>7. CASE Concludes(j)
    BY <2>1, <2>3, <2>7, SameNames, StatusNames
       DEF Concludes, Life!LifeNext, Life!Proceed, Life!Becomes
  <2>8. CASE Finishes(j)
    <3>1. status' = [status EXCEPT ![j] = "cancelled"] BY <2>8 DEF Finishes
    <3>2. status[j] \in Running \cup {"failed", "waiting", "cancelled"}
      BY <2>8 DEF Finishes, IInv, WorkerPlaced, j
    <3>3. CASE status[j] \in Running
      <4>1. Life!Proceed(j)
        BY <3>1, <3>3, SameNames, StatusNames DEF Life!Proceed, Life!Becomes
      <4> QED BY <4>1, <2>1 DEF Life!LifeNext
    <3>4. CASE status[j] \in {"failed", "waiting"}
      <4>1. Life!Drop(j) BY <3>1, <3>4 DEF Life!Drop, Life!Becomes
      <4> QED BY <4>1, <2>1 DEF Life!LifeNext
    <3>5. CASE status[j] = "cancelled" BY <3>1, <3>5, <2>4
    <3> QED BY <3>2, <3>3, <3>4, <3>5
  <2>9. CASE Quiet \/ SeesCancel \/ StopsLoad(j) \/ LetsGo(j)
    BY <2>9 DEF Quiet, SeesCancel, StopsLoad, LetsGo
  <2> QED BY <2>2, <2>5, <2>6, <2>7, <2>8, <2>9 DEF ControlStep
<1>2. CASE Take
  <2> DEFINE j == Head(line)
  <2>1. j \in Jobs BY <1>2, TailOnce DEF Take, IInv, ControlTypeOK
  <2>2. \A i \in Jobs : status[i] \notin Running
    BY <1>2 DEF Take, IInv, WorkerPlaced, RunningIsActive, JobsAssumption
  <2>3. CASE Known(j) /\ status[j] = "waiting"
    <3>1. Life!Begin(j)
      BY <1>2, <2>2, <2>3, SameNames DEF Take, Set, Life!Begin, Life!Becomes
    <3> QED BY <3>1, <2>1 DEF Life!LifeNext
  <2>4. CASE ~(Known(j) /\ status[j] = "waiting") BY <1>2, <2>4 DEF Take
  <2> QED BY <2>3, <2>4
<1>3. CASE Leave BY <1>3 DEF Leave
<1> QED BY <1>1, <1>2, <1>3 DEF Worker

\* The life of jobs that administrators see, whatever the worker, the site and
\* the queue do: one job runs at a time, one job of a creator is alive, and what
\* was completed or cancelled stays so (CreatorImportManager).
THEOREM ImportsLiveTheirLife == Spec => ImplementsLife
<1>1. Init => Life!LifeInit BY DEF Init, Life!LifeInit
<1>2. IInv /\ [Next]_vars => [Life!LifeNext]_status
  <2> SUFFICES ASSUME IInv, [Next]_vars PROVE Life!LifeNext \/ status' = status
    OBVIOUS
  <2>1. CASE Request BY <2>1, RequestIsLife, JobsAssumption
  <2>2. CASE Worker BY <2>2, WorkerIsLife, JobsAssumption
  <2>3. CASE \/ \E u \in Uids : Publish(u) \/ \E v \in Videos : Withdraw(u, v)
             \/ \E k \in Keys : ManualEnqueue(k) \/ TaskEnds(k) \/ RemoveWork(k)
    BY <2>3, EnvironmentAlone DEF controlVars
  <2>4. CASE UNCHANGED vars BY <2>4, StutterAlone DEF controlVars
  <2> QED BY <2>1, <2>2, <2>3, <2>4 DEF Next
<1> QED BY <1>1, <1>2, ImportControl, PTL DEF Spec, ImplementsLife, Life!LifeSpec

-----------------------------------------------------------------------------
(***************************************************************************)
(* The items.  What follows is proved of the pages, of the items and of    *)
(* the window, given the control above.                                    *)
(***************************************************************************)

(* Counting videos.                                                        *)
LEMMA VideosFinite ==
  /\ Videos \subseteq Nat /\ IsFiniteSet(Videos)
  /\ \A S \in SUBSET Videos : IsFiniteSet(S) /\ Cardinality(S) \in Nat
<1>1. MaxVideos \in Nat
  BY SizesAssumption
<1>2. Videos \subseteq Nat /\ IsFiniteSet(Videos)
  BY <1>1, FS_Interval DEF Videos
<1>. QED  BY <1>2, FS_Subset, FS_CardinalityType

LEMMA NewerBounds ==
  ASSUME NEW S \in SUBSET Videos, NEW v \in S
  PROVE  Newer(S, v) \in 0 .. Cardinality(S) - 1
<1> DEFINE newer == {w \in S : w > v}
<1>1. IsFiniteSet(S) /\ Cardinality(S) \in Nat /\ v \in Nat
  BY VideosFinite
<1>2. newer \in SUBSET S /\ v \notin newer
  BY <1>1
<1> HIDE DEF newer
<1>3. IsFiniteSet(newer) /\ Cardinality(newer) <= Cardinality(S) /\ Cardinality(newer) # Cardinality(S)
  BY <1>1, <1>2, FS_Subset
<1>4. Cardinality(newer) \in Nat
  BY <1>3, FS_CardinalityType
<1>5. Cardinality(newer) \in 0 .. Cardinality(S) - 1
  BY <1>1, <1>3, <1>4
<1>. QED  BY <1>5 DEF newer, Newer

LEMMA NewerDistinct ==
  ASSUME NEW S \in SUBSET Videos, NEW v \in S, NEW u \in S, v < u
  PROVE  Newer(S, u) < Newer(S, v)
<1> DEFINE a == {w \in S : w > u}
           b == {w \in S : w > v}
<1>1. /\ IsFiniteSet(S) /\ v \in Nat /\ u \in Nat /\ S \subseteq Nat
      /\ b \in SUBSET S /\ a \in SUBSET S
  BY VideosFinite
<1>2. u \in b /\ u \notin a
  BY <1>1
<1>6. ASSUME NEW w \in S, w > u  PROVE w > v
  <2>1. w \in Nat
    BY <1>1
  <2>. QED  BY <1>1, <1>6, <2>1
<1>7. a \in SUBSET b
  BY <1>6
<1> HIDE DEF a, b
<1>3. /\ IsFiniteSet(b) /\ IsFiniteSet(a) /\ Cardinality(a) <= Cardinality(b)
      /\ Cardinality(a) # Cardinality(b)
  BY <1>1, <1>2, <1>7, FS_Subset
<1>4. Cardinality(a) \in Nat /\ Cardinality(b) \in Nat
  BY <1>3, FS_CardinalityType
<1>5. Cardinality(a) < Cardinality(b)
  BY <1>3, <1>4
<1>. QED  BY <1>5 DEF a, b, Newer

\* For each place of a list there is a video with that many newer ones.
LEMMA EveryPlaceTaken ==
  ASSUME NEW S \in SUBSET Videos, NEW i \in 1 .. Cardinality(S)
  PROVE  \E v \in S : Newer(S, v) = i - 1
<1> DEFINE f == [v \in S |-> Newer(S, v)]
           T == 0 .. Cardinality(S) - 1
<1>1. Cardinality(S) \in Nat /\ IsFiniteSet(T) /\ Cardinality(T) = Cardinality(S)
  <2> DEFINE n == Cardinality(S)
  <2>1. n \in Nat
    BY VideosFinite
  <2> HIDE DEF n
  <2>2. 0 \in Int /\ n - 1 \in Int /\ (0 > n - 1 => n = 0)
    BY <2>1
  <2>3. /\ IsFiniteSet(0 .. n - 1)
        /\ Cardinality(0 .. n - 1) = IF 0 > n - 1 THEN 0 ELSE (n - 1) - 0 + 1
    BY <2>2, FS_Interval
  <2>4. Cardinality(0 .. n - 1) = n
    BY <2>1, <2>3
  <2>. QED  BY <2>1, <2>3, <2>4 DEF n
<1>2. f \in [S -> T]
  BY NewerBounds
<1>3. \A v, u \in S : f[v] = f[u] => v = u
  <2>1. ASSUME NEW v \in S, NEW u \in S, Newer(S, v) = Newer(S, u)  PROVE v = u
    <3>1. v \in Nat /\ u \in Nat /\ Newer(S, v) \in Int /\ Newer(S, u) \in Int
      BY VideosFinite, NewerBounds
    <3>2. ~ (v < u) /\ ~ (u < v)
      BY <2>1, <3>1, NewerDistinct
    <3>. QED  BY <3>1, <3>2
  <2>. QED  BY <2>1
<1>4. f \in Injection(S, T)
  BY <1>2, <1>3 DEF Injection, IsInjective
<1> HIDE DEF f, T
<1>5. f \in Surjection(S, T)
  BY <1>1, <1>4, FS_Injection
<1>6. i - 1 \in T
  BY <1>1 DEF T
<1>7. \E v \in S : f[v] = i - 1
  BY <1>5, <1>6 DEF Surjection
<1>. QED  BY <1>7 DEF f

\* What a discovery found, each video once.
LEMMA NewestFirstLists ==
  ASSUME NEW S \in SUBSET Videos
  PROVE  /\ NewestFirst(S) \in Seq(Videos) /\ Len(NewestFirst(S)) = Cardinality(S)
         /\ IsInjective(NewestFirst(S))
<1> DEFINE n == Cardinality(S)
           s == NewestFirst(S)
<1>1. n \in Nat
  BY VideosFinite
<1>2. \A i \in 1 .. n : s[i] \in S /\ Newer(S, s[i]) = i - 1
  BY EveryPlaceTaken DEF NewestFirst
<1>3. DOMAIN s = 1 .. n /\ s = [i \in 1 .. n |-> s[i]]
  BY DEF NewestFirst
<1> HIDE DEF s, n
<1>4. s \in [1 .. n -> Videos]
  BY <1>2, <1>3
<1>5. s \in Seq(Videos) /\ Len(s) = n
  BY <1>1, <1>4, SeqDef, LenProperties
<1>6. \A i, k \in 1 .. n : s[i] = s[k] => i = k
  <2>1. ASSUME NEW i \in 1 .. n, NEW k \in 1 .. n, s[i] = s[k]  PROVE i = k
    <3>1. i - 1 = k - 1
      BY <1>2, <2>1
    <3>. QED  BY <3>1
  <2>. QED  BY <2>1
<1>7. IsInjective(s)
  BY <1>3, <1>6 DEF IsInjective
<1>. QED  BY <1>5, <1>7 DEF s, n

(***************************************************************************)
(* Types, by the frames in which the actions leave them alone.             *)
(***************************************************************************)
Passes == [total : Nat \cup {NoTotal}, pages : Nat, changed : BOOLEAN]
Pages  == [kind : {"none", "page", "badCount", "badList", "raises"}, total : Nat,
           pages : Nat, items : SUBSET Videos]

FailureTyped == code \in [Jobs -> Codes] /\ failedPage \in [Jobs -> Nat]
PassTyped    == /\ nextPage \in [Jobs -> Nat] /\ passNo \in [Jobs -> Nat]
                /\ pass \in [Jobs -> Passes] /\ items \in [Jobs -> SUBSET Videos]
                /\ complete \in SUBSET Jobs
ItemTyped    == /\ todo \in [Jobs -> Seq(Videos)] /\ failed \in [Jobs -> Seq(Videos)]
                /\ queued \in [Jobs -> Nat] /\ skipped \in [Jobs -> Nat]
                /\ retryOnly \in SUBSET Jobs
AskedTyped   == /\ cancelSet \in SUBSET Jobs /\ cutoff \in [Jobs -> 0 .. MaxVideos]
                /\ stopped \in BOOLEAN
ThreadTyped  == pc \in Places /\ attempt \in 1 .. Attempts /\ got \in Pages
TaskTyped    == holder \in [Keys -> Jobs \cup {Manual, Nobody}] /\ late \in SUBSET Jobs
\* Only what was published is listed.
SiteTyped    == /\ published \in [Uids -> 0 .. MaxVideos] /\ live \in [Uids -> SUBSET Videos]
                /\ \A u \in Uids : live[u] \subseteq 1 .. published[u]
SteadyTyped  == steady \in [Jobs -> SUBSET Videos]
WorksTyped   == onDisk \in SUBSET Keys /\ removed \in SUBSET Keys
BoundsTyped  == changes \in Nat /\ faults \in Nat /\ manuals \in Nat /\ reruns \in Nat

Typed == /\ FailureTyped /\ PassTyped /\ ItemTyped /\ AskedTyped /\ ThreadTyped
         /\ TaskTyped /\ SiteTyped /\ SteadyTyped /\ WorksTyped /\ BoundsTyped

LEMMA TypedIsTypeOK == ASSUME IInv, Typed PROVE TypeOK
<1>1. /\ status \in [Jobs -> Alive \cup Terminal \cup {"new"}]
      /\ made \in [Jobs -> Nat] /\ line \in Seq(Jobs) /\ active \in Jobs \cup {NoJob}
  BY DEF IInv, ControlTypeOK
<1>2. code \in [Jobs -> Codes] /\ {failedPage, nextPage, passNo} \subseteq [Jobs -> Nat]
  BY DEF Typed, FailureTyped, PassTyped
<1>3. /\ pass \in [Jobs -> [total : Nat \cup {NoTotal}, pages : Nat, changed : BOOLEAN]]
      /\ {items, steady} \subseteq [Jobs -> SUBSET Videos]
  BY DEF Typed, PassTyped, SteadyTyped, Passes
<1>4. /\ cutoff \in [Jobs -> 0 .. MaxVideos]
      /\ {todo, failed} \subseteq [Jobs -> Seq(Videos)]
      /\ {queued, skipped} \subseteq [Jobs -> Nat]
      /\ {cancelSet, complete, retryOnly, late} \subseteq SUBSET Jobs
  BY DEF Typed, AskedTyped, ItemTyped, PassTyped, TaskTyped
<1>5. /\ stopped \in BOOLEAN /\ pc \in Places /\ attempt \in 1 .. Attempts
      /\ got \in [kind : {"none", "page", "badCount", "badList", "raises"}, total : Nat,
                  pages : Nat, items : SUBSET Videos]
  BY DEF Typed, AskedTyped, ThreadTyped, Pages
<1>6. /\ published \in [Uids -> 0 .. MaxVideos] /\ live \in [Uids -> SUBSET Videos]
      /\ holder \in [Keys -> Jobs \cup {Manual, Nobody}]
      /\ {onDisk, removed} \subseteq SUBSET Keys
      /\ {changes, faults, manuals, reruns} \subseteq Nat
  BY DEF Typed, SiteTyped, TaskTyped, WorksTyped, BoundsTyped
<1>. QED  BY <1>1, <1>2, <1>3, <1>4, <1>5, <1>6 DEF TypeOK

\* An update of one entry keeps a function's type, and the other entries.
LEMMA SetTyped ==
  ASSUME NEW D, NEW R, NEW f \in [D -> R], NEW d \in D, NEW x \in R
  PROVE  /\ Set(f, d, x) \in [D -> R] /\ Set(f, d, x)[d] = x
         /\ \A e \in D : e # d => Set(f, d, x)[e] = f[e]
BY DEF Set

LEMMA NewPassTyped == NewPass \in Passes /\ NoPage \in Pages /\ NoTotal \notin Nat
BY DEF NewPass, Passes, NoTotal, NoPage, Pages

LEMMA CountsTyped ==
  ASSUME NEW n \in Nat
  PROVE  PageCount(n) \in Nat /\ PageCount(n) * PageSize >= n
<1>1. PageSize \in Nat /\ PageSize > 0
  BY SizesAssumption
<1>2. (n + PageSize - 1) \div PageSize \in Nat
  BY <1>1
<1>3. /\ (n + PageSize - 1) = PageSize * ((n + PageSize - 1) \div PageSize)
                                + ((n + PageSize - 1) % PageSize)
      /\ (n + PageSize - 1) % PageSize \in 0 .. PageSize - 1
  BY <1>1
<1>4. PageSize * PageCount(n) >= n
  <2> DEFINE m == PageSize * PageCount(n)
             r == (n + PageSize - 1) % PageSize
  <2>1. m \in Int /\ r \in Int
    BY <1>1, <1>2, <1>3 DEF PageCount
  <2>2. n + PageSize - 1 = m + r /\ r <= PageSize - 1
    BY <1>3 DEF PageCount
  <2> HIDE DEF m, r
  <2>3. m >= n
    BY <2>1, <2>2, <1>1
  <2>. QED  BY <2>3 DEF m
<1>. QED  BY <1>1, <1>2, <1>4 DEF PageCount

LEMMA InitTyped == ASSUME Init PROVE Typed
<1>1. FailureTyped
  BY DEF Init, FailureTyped, Codes
<1>2. PassTyped
  BY NewPassTyped DEF Init, PassTyped
<1>3. ItemTyped
  BY DEF Init, ItemTyped
<1>4. AskedTyped
  <2>1. 0 \in 0 .. MaxVideos
    BY SizesAssumption
  <2>. QED  BY <2>1 DEF Init, AskedTyped
<1>5. ThreadTyped
  BY NewPassTyped, SizesAssumption DEF Init, ThreadTyped, Places
<1>6. TaskTyped
  BY DEF Init, TaskTyped
<1>7. SiteTyped
  <2>1. InitVideos \in Nat /\ InitVideos <= MaxVideos /\ MaxVideos \in Nat
    BY SizesAssumption
  <2>2. InitVideos \in 0 .. MaxVideos /\ 1 .. InitVideos \in SUBSET Videos
    BY <2>1 DEF Videos
  <2>. QED  BY <2>2 DEF Init, SiteTyped
<1>8. SteadyTyped /\ WorksTyped /\ BoundsTyped
  BY DEF Init, SteadyTyped, WorksTyped, BoundsTyped
<1>. QED  BY <1>1, <1>2, <1>3, <1>4, <1>5, <1>6, <1>7, <1>8 DEF Typed

(* What a request may change: failures, passes, items, what was asked for. *)
LEMMA RequestTyped ==
  ASSUME JobsAssumption, IInv, Typed, Request PROVE Typed'
<1>1. ThreadTyped' /\ SiteTyped' /\ SteadyTyped' /\ WorksTyped'
  <2>1. UNCHANGED <<threadVars, siteVars, worksVars, steady>>
    BY DEF Request
  <2>. QED  BY <2>1 DEF threadVars, siteVars, worksVars, Typed, ThreadTyped, SiteTyped,
                        SteadyTyped, WorksTyped
<1>2. CASE Stop
  <2>1. FailureTyped' /\ PassTyped' /\ ItemTyped' /\ TaskTyped' /\ BoundsTyped'
    <3>1. UNCHANGED <<code, failedPage, passVars, itemVars, late, reruns, holder, changes,
                      faults, manuals>>
      BY <1>2 DEF Stop, Request
    <3>. QED  BY <3>1 DEF passVars, itemVars, Typed, FailureTyped, PassTyped, ItemTyped,
                          TaskTyped, BoundsTyped
  <2>2. Unstarted \subseteq Jobs /\ Told \subseteq Jobs
    <3>1. \A i \in ToSet(line) : i \in Jobs
      BY LenProperties DEF ToSet, IInv, ControlTypeOK
    <3>. QED  BY <3>1 DEF Unstarted, Told, IInv, ControlTypeOK
  <2>3. AskedTyped'
    BY <1>2, <2>2 DEF Stop, Typed, AskedTyped
  <2>. QED  BY <1>1, <2>1, <2>3 DEF Typed
<1>3. ASSUME NEW j \in Jobs, Start(j)  PROVE Typed'
  <2>1. FailureTyped' /\ PassTyped' /\ ItemTyped' /\ TaskTyped' /\ BoundsTyped'
    <3>1. UNCHANGED <<code, failedPage, passVars, itemVars, late, reruns, holder, changes,
                      faults, manuals>>
      BY <1>3 DEF Start, Request
    <3>. QED  BY <3>1 DEF passVars, itemVars, Typed, FailureTyped, PassTyped, ItemTyped,
                          TaskTyped, BoundsTyped
  <2>2. published[UidOf[j]] \in 0 .. MaxVideos
    BY DEF Typed, SiteTyped, JobsAssumption
  <2>3. AskedTyped'
    BY <1>3, <2>2, SetTyped DEF Start, Typed, AskedTyped
  <2>. QED  BY <1>1, <2>1, <2>3 DEF Typed
<1>4. ASSUME NEW j \in Jobs, CancelWaiting(j) \/ CancelRunning(j)  PROVE Typed'
  <2>1. FailureTyped' /\ PassTyped' /\ ItemTyped' /\ TaskTyped' /\ BoundsTyped'
    <3>1. UNCHANGED <<code, failedPage, passVars, itemVars, late, reruns, holder, changes,
                      faults, manuals>>
      BY <1>4 DEF CancelWaiting, CancelRunning, Request
    <3>. QED  BY <3>1 DEF passVars, itemVars, Typed, FailureTyped, PassTyped, ItemTyped,
                          TaskTyped, BoundsTyped
  <2>2. AskedTyped'
    BY <1>4 DEF CancelWaiting, CancelRunning, Typed, AskedTyped
  <2>. QED  BY <1>1, <2>1, <2>2 DEF Typed
<1>5. ASSUME NEW j \in Jobs, BackInLine(j)  PROVE AskedTyped' /\ TaskTyped' /\ BoundsTyped'
  <2>1. AskedTyped'
    BY <1>5 DEF BackInLine, Typed, AskedTyped
  <2>2. TaskTyped'
    BY <1>5 DEF BackInLine, Request, Typed, TaskTyped
  <2>3. BoundsTyped'
    BY <1>5 DEF BackInLine, Request, Typed, BoundsTyped
  <2>. QED  BY <2>1, <2>2, <2>3
<1>6. ASSUME NEW j \in Jobs, BackInLine(j)
      PROVE  code' \in [Jobs -> Codes] /\ queued' = queued /\ skipped' = skipped
  <2>1. "none" \in Codes
    BY DEF Codes
  <2>. QED  BY <1>6, <2>1, SetTyped DEF BackInLine, Typed, FailureTyped
<1>7. ASSUME NEW j \in Jobs, Resume(j)  PROVE Typed'
  <2>1. BackInLine(j) /\ failed' = failed /\ failedPage' = failedPage /\ retryOnly' = retryOnly \ {j}
    BY <1>7 DEF Resume
  <2>2. AskedTyped' /\ TaskTyped' /\ BoundsTyped' /\ FailureTyped'
    BY <2>1, <1>5, <1>6 DEF Typed, FailureTyped
  <2>3. PassTyped' /\ todo' \in [Jobs -> Seq(Videos)]
    <3>1. CASE code[j] = "source_unstable"
      <4>1. /\ passNo' = Set(passNo, j, 1) /\ nextPage' = Set(nextPage, j, 1)
            /\ pass' = Set(pass, j, NewPass) /\ items' = Set(items, j, {})
        BY <1>7, <3>1 DEF Resume
      <4>2. /\ nextPage' \in [Jobs -> Nat] /\ passNo' \in [Jobs -> Nat]
            /\ pass' \in [Jobs -> Passes] /\ items' \in [Jobs -> SUBSET Videos]
        BY <4>1, SetTyped, NewPassTyped, 1 \in Nat, {} \in SUBSET Videos DEF Typed, PassTyped
      <4>3. complete' \in SUBSET Jobs
        BY <1>7, <3>1 DEF Resume, Typed, PassTyped
      <4>4. <<>> \in Seq(Videos) /\ todo' = Set(todo, j, <<>>)
        BY <1>7, <3>1 DEF Resume
      <4>5. todo' \in [Jobs -> Seq(Videos)]
        BY <4>4, SetTyped DEF Typed, ItemTyped
      <4>. QED  BY <4>2, <4>3, <4>5 DEF PassTyped
    <3>2. CASE code[j] # "source_unstable"
      BY <1>7, <3>2 DEF Resume, Typed, PassTyped, ItemTyped, passVars
    <3>. QED  BY <3>1, <3>2
  <2>4. ItemTyped'
    BY <2>1, <2>3, <1>6 DEF Typed, ItemTyped
  <2>. QED  BY <1>1, <2>2, <2>3, <2>4 DEF Typed
<1>8. ASSUME NEW j \in Jobs, RetryFailed(j)  PROVE Typed'
  <2>1. /\ BackInLine(j) /\ UNCHANGED passVars
        /\ todo' = Set(todo, j, failed[j]) /\ failed' = Set(failed, j, <<>>)
        /\ failedPage' = Set(failedPage, j, 0) /\ retryOnly' = retryOnly \cup {j}
    BY <1>8 DEF RetryFailed
  <2>2. AskedTyped' /\ TaskTyped' /\ BoundsTyped' /\ PassTyped'
    BY <2>1, <1>5 DEF Typed, PassTyped, passVars
  <2>3. FailureTyped'
    BY <2>1, <1>6, SetTyped DEF Typed, FailureTyped
  <2>4. failed[j] \in Seq(Videos) /\ <<>> \in Seq(Videos)
    BY DEF Typed, ItemTyped
  <2>5. ItemTyped'
    BY <2>1, <2>4, <1>6, SetTyped DEF Typed, ItemTyped
  <2>. QED  BY <1>1, <2>2, <2>3, <2>5 DEF Typed
<1>. QED  BY <1>2, <1>3, <1>4, <1>7, <1>8 DEF Request

\* What no step of the worker touches.
WorkerFrame == UNCHANGED <<cancelSet, cutoff, stopped, siteVars, worksVars, changes, manuals,
                           reruns>>

LEMMA WorkerFrameTyped ==
  ASSUME Typed, WorkerFrame PROVE AskedTyped' /\ SiteTyped' /\ WorksTyped'
BY DEF WorkerFrame, siteVars, worksVars, Typed, AskedTyped, SiteTyped, WorksTyped

LEMMA LooksTyped ==
  ASSUME Typed, WorkerFrame, NEW j \in Jobs,
         Begin(j) \/ Unfinished(j) \/ Discovered(j) \/ Drained(j),
         UNCHANGED <<jobVars, passVars, itemVars, attempt, got, taskVars, steady, faults>>
  PROVE  Typed'
<1>1. AskedTyped' /\ SiteTyped' /\ WorksTyped'
  BY WorkerFrameTyped
<1>2. ThreadTyped'
  <2>1. pc' \in Places
    BY DEF Begin, Unfinished, Discovered, Drained, Look, Goto, Places
  <2>. QED  BY <2>1 DEF Typed, ThreadTyped
<1>3. FailureTyped' /\ PassTyped' /\ ItemTyped' /\ TaskTyped' /\ SteadyTyped' /\ BoundsTyped'
  BY DEF jobVars, passVars, itemVars, taskVars, WorkerFrame, Typed, FailureTyped, PassTyped,
         ItemTyped, TaskTyped, SteadyTyped, BoundsTyped
<1>. QED  BY <1>1, <1>2, <1>3 DEF Typed

LEMMA LoadTyped ==
  ASSUME JobsAssumption, Typed, WorkerFrame, NEW j \in Jobs, Load(j),
         UNCHANGED <<jobVars, passVars, itemVars, taskVars>>
  PROVE  Typed'
<1>1. AskedTyped' /\ SiteTyped' /\ WorksTyped'
  BY WorkerFrameTyped
<1>2. FailureTyped' /\ PassTyped' /\ ItemTyped' /\ TaskTyped'
  BY DEF jobVars, passVars, itemVars, taskVars, Typed, FailureTyped, PassTyped, ItemTyped,
         TaskTyped
<1>3. live[UidOf[j]] \in SUBSET Videos /\ UidOf[j] \in Uids
  BY DEF Typed, SiteTyped, JobsAssumption
<1>4. Attempts \in Nat /\ 1 \in 1 .. Attempts
  BY SizesAssumption
<1>5. attempt' \in 1 .. Attempts /\ pc' \in Places
  BY <1>4 DEF Load, Arrives, RequestFails, Goto, Places, Typed, ThreadTyped
<1>6. got' \in Pages
  <2>1. CASE Arrives(j)
    <3> DEFINE n == Cardinality(live[UidOf[j]])
    <3>1. n \in Nat /\ PageCount(n) \in Nat
      BY <1>3, VideosFinite, CountsTyped
    <3>2. Page(UidOf[j], nextPage[j]) \in SUBSET Videos
      BY <1>3 DEF Page
    <3>3. PICK kind \in {"page", "badCount", "badList", "raises"} :
            got' = [kind |-> kind, total |-> n, pages |-> PageCount(n),
                    items |-> Page(UidOf[j], nextPage[j])]
      BY <2>1 DEF Arrives
    <3> HIDE DEF n
    <3>. QED  BY <3>1, <3>2, <3>3 DEF Pages
  <2>2. CASE got' = got
    BY <2>2 DEF Typed, ThreadTyped
  <2>. QED  BY <2>1, <2>2 DEF Load, RequestFails
<1>7. SteadyTyped'
  <2> DEFINE S == live[UidOf[j]] \cap 1 .. cutoff[j]
  <2>1. S \in SUBSET Videos
    BY <1>3
  <2>2. steady' = steady \/ steady' = Set(steady, j, S)
    BY DEF Load, Arrives, RequestFails
  <2>3. steady \in [Jobs -> SUBSET Videos]
    BY DEF Typed, SteadyTyped
  <2> HIDE DEF S
  <2>4. Set(steady, j, S) \in [Jobs -> SUBSET Videos]
    BY <2>1, <2>3, SetTyped
  <2>. QED  BY <2>2, <2>3, <2>4 DEF SteadyTyped
<1>8. BoundsTyped'
  BY DEF Load, Arrives, RequestFails, WorkerFrame, Typed, BoundsTyped
<1>. QED  BY <1>1, <1>2, <1>5, <1>6, <1>7, <1>8 DEF Typed, ThreadTyped

LEMMA ObservedTyped ==
  ASSUME Typed, NEW j \in Jobs
  PROVE  /\ Observed(j) \in Passes /\ Fresh(j) \in SUBSET Videos
         /\ Collected(j) \in SUBSET Videos /\ got.total \in Nat /\ got.pages \in Nat
<1>1. got.total \in Nat /\ got.pages \in Nat /\ got.items \in SUBSET Videos
  BY DEF Typed, ThreadTyped, Pages
<1>2. pass[j] \in Passes /\ items[j] \in SUBSET Videos
  BY DEF Typed, PassTyped
<1>3. Observed(j) \in Passes
  BY <1>1, <1>2 DEF Observed, Passes
<1>. QED  BY <1>1, <1>2, <1>3 DEF Fresh, Collected

LEMMA RecordTyped ==
  ASSUME Typed, WorkerFrame, NEW j \in Jobs, Record(j),
         UNCHANGED <<failed, queued, skipped, retryOnly, taskVars>>
  PROVE  Typed'
<1>1. AskedTyped' /\ SiteTyped' /\ WorksTyped'
  BY WorkerFrameTyped
<1>2. TaskTyped' /\ SteadyTyped' /\ BoundsTyped'
  BY DEF Record, taskVars, WorkerFrame, Typed, TaskTyped, SteadyTyped, BoundsTyped
<1>3. ThreadTyped'
  <2>1. pc' \in Places
    BY DEF Record, RecordInvalid, RecordRaises, TurnPage, NextPass, Unstable, Stable, Goto,
           Places
  <2>. QED  BY <2>1, NewPassTyped DEF Record, Typed, ThreadTyped
<1>4. /\ Observed(j) \in Passes /\ Fresh(j) \in SUBSET Videos
      /\ Collected(j) \in SUBSET Videos /\ NewestFirst(Collected(j)) \in Seq(Videos)
      /\ nextPage[j] \in Nat /\ items[j] \in SUBSET Videos /\ passNo[j] \in Nat
  BY ObservedTyped, NewestFirstLists DEF Typed, PassTyped
<1>5. /\ code \in [Jobs -> Codes] /\ failedPage \in [Jobs -> Nat] /\ todo \in [Jobs -> Seq(Videos)]
      /\ nextPage \in [Jobs -> Nat] /\ passNo \in [Jobs -> Nat] /\ pass \in [Jobs -> Passes]
      /\ items \in [Jobs -> SUBSET Videos] /\ complete \in SUBSET Jobs
      /\ {"none", "source_invalid", "source_unstable"} \subseteq Codes
  BY DEF Typed, FailureTyped, PassTyped, ItemTyped, Codes
<1>6. FailureTyped' /\ PassTyped' /\ todo' \in [Jobs -> Seq(Videos)]
  <2> HIDE DEF Typed
  <2>1. CASE RecordInvalid(j)
    BY <2>1, <1>4, <1>5, SetTyped DEF RecordInvalid, Fails, FailureTyped, PassTyped
  <2>2. CASE RecordRaises(j)
    <3>1. code' = code /\ failedPage' = failedPage /\ nextPage' = nextPage /\ passNo' = passNo
          /\ complete' = complete /\ todo' = todo
      BY <2>2 DEF RecordRaises, jobVars
    <3>2. CASE UNCHANGED <<pass, items>>
      BY <3>1, <3>2, <1>5 DEF FailureTyped, PassTyped
    <3>3. ASSUME pass' = Set(pass, j, Observed(j)), NEW seen \in SUBSET Fresh(j),
                 items' = Set(items, j, items[j] \cup seen)
          PROVE  PassTyped'
      <4>1. items[j] \cup seen \in SUBSET Videos
        BY <1>4
      <4>. QED  BY <3>1, <3>3, <4>1, <1>4, <1>5, SetTyped DEF PassTyped
    <3>. QED  BY <2>2, <3>1, <3>2, <3>3, <1>5 DEF RecordRaises, FailureTyped
  <2>3. CASE TurnPage(j)
    <3>1. /\ pass' = Set(pass, j, Observed(j)) /\ items' = Set(items, j, Collected(j))
          /\ nextPage' = Set(nextPage, j, nextPage[j] + 1) /\ nextPage[j] + 1 \in Nat
          /\ UNCHANGED <<code, failedPage, passNo, complete, todo>>
      BY <2>3, <1>4 DEF TurnPage, Reads, jobVars
    <3>2. nextPage' \in [Jobs -> Nat]
      BY <3>1, <1>5, SetTyped
    <3>3. pass' \in [Jobs -> Passes] /\ items' \in [Jobs -> SUBSET Videos]
      BY <3>1, <1>4, <1>5, SetTyped
    <3>. QED  BY <3>1, <3>2, <3>3, <1>5 DEF FailureTyped, PassTyped
  <2>4. CASE NextPass(j)
    <3>1. /\ passNo' = Set(passNo, j, passNo[j] + 1) /\ nextPage' = Set(nextPage, j, 1)
          /\ pass' = Set(pass, j, NewPass) /\ items' = Set(items, j, {})
          /\ UNCHANGED <<code, failedPage, complete, todo>>
      BY <2>4 DEF NextPass, jobVars
    <3>2. passNo[j] + 1 \in Nat /\ 1 \in Nat /\ {} \in SUBSET Videos
      BY <1>4
    <3>3. nextPage' \in [Jobs -> Nat] /\ passNo' \in [Jobs -> Nat]
      BY <3>1, <3>2, <1>5, SetTyped
    <3>4. pass' \in [Jobs -> Passes] /\ items' \in [Jobs -> SUBSET Videos]
      BY <3>1, <3>2, <1>5, SetTyped, NewPassTyped
    <3>. QED  BY <3>1, <3>3, <3>4, <1>5 DEF FailureTyped, PassTyped
  <2>5. CASE Unstable(j)
    BY <2>5, <1>4, <1>5, SetTyped DEF Unstable, Fails, Reads, FailureTyped, PassTyped
  <2>6. CASE Stable(j)
    BY <2>6, <1>4, <1>5, SetTyped DEF Stable, Reads, FailureTyped, PassTyped
  <2>. QED  BY <2>1, <2>2, <2>3, <2>4, <2>5, <2>6 DEF Record
<1>7. ItemTyped'
  BY <1>6 DEF Typed, ItemTyped
<1>. QED  BY <1>1, <1>2, <1>3, <1>6, <1>7 DEF Typed

(***************************************************************************)
(* The items of a job.                                                     *)
(***************************************************************************)

\* A video is to do or has failed, not both, and once.
Once(j) == /\ IsInjective(todo[j]) /\ IsInjective(failed[j])
           /\ ToSet(todo[j]) \cap ToSet(failed[j]) = {}

\* Before the list has been read there are no items.
Unread(j) == /\ todo[j] = <<>> /\ failed[j] = <<>> /\ queued[j] = 0 /\ skipped[j] = 0
             /\ j \notin retryOnly /\ j \notin late

Counted(j) == Cardinality(items[j]) = queued[j] + skipped[j] + Len(failed[j]) + Len(todo[j])

Earned(j) == status[j] \in {"completed", "partial"} =>
               /\ j \in complete /\ todo[j] = <<>>
               /\ status[j] = "completed" <=> failed[j] = <<>>

Kept(j) == /\ Once(j)
           /\ j \in complete => Counted(j)
           /\ j \notin complete => Unread(j)
           /\ Earned(j)
           /\ code[j] = "source_unstable" => j \notin complete
           /\ status[j] = "new" => j \notin complete /\ steady[j] = {} /\ pass[j].total = NoTotal

Discovering == {"load", "record", "giveup", "failjob"}
Enqueuing   == {"discovered", "announce", "pick", "lookup", "capacity", "create", "drained",
                "conclude"}
AtItem      == {"lookup", "capacity", "create"}

\* What the worker may assume of the items at each place.
ItemsPlaced ==
  /\ active \in Jobs => status[active] # "new"
  /\ pc \in Discovering => active \notin complete
  /\ pc \in Enqueuing => active \in complete
  /\ pc \in AtItem => todo[active] # <<>> /\ active \notin late
  /\ pc = "drained" => Cancelled(active) \/ todo[active] = <<>>
  /\ pc = "conclude" => todo[active] = <<>>

LateIsCancelled == \A j \in late : Cancelled(j)

ItemsInv == /\ Typed
            /\ \A j \in Jobs : Kept(j)
            /\ ItemsPlaced
            /\ LateIsCancelled

(* What a step with an item does to the lists.                             *)
ItemStays(j) == UNCHANGED <<todo, failed, queued, skipped>>
ItemSkipped(j) == /\ todo[j] # <<>> /\ todo' = Set(todo, j, Tail(todo[j]))
                  /\ skipped' = Set(skipped, j, skipped[j] + 1)
                  /\ UNCHANGED <<failed, queued>>
ItemFailed(j) == /\ todo[j] # <<>> /\ todo' = Set(todo, j, Tail(todo[j]))
                 /\ failed' = Set(failed, j, Append(failed[j], Head(todo[j])))
                 /\ UNCHANGED <<queued, skipped>>
ItemQueued(j) == /\ todo[j] # <<>> /\ todo' = Set(todo, j, Tail(todo[j]))
                 /\ queued' = Set(queued, j, queued[j] + 1)
                 /\ UNCHANGED <<failed, skipped>>
ItemMoves(j) == ItemStays(j) \/ ItemSkipped(j) \/ ItemFailed(j) \/ ItemQueued(j)

LEMMA UnfailedNothing ==
  ASSUME Typed, NEW j \in Jobs, Once(j), todo[j] # <<>>, Unfailed(j, Head(todo[j]))
  PROVE  failed' = failed
<1>1. /\ failed \in [Jobs -> Seq(Videos)] /\ failed[j] \in Seq(Videos)
      /\ todo[j] \in Seq(Videos)
  BY DEF Typed, ItemTyped
<1>2. Head(todo[j]) \in ToSet(todo[j])
  BY <1>1, TailOnce
<1>3. Head(todo[j]) \notin ToSet(failed[j])
  BY <1>2 DEF Once
<1>4. DOMAIN failed[j] = 1 .. Len(failed[j])
  BY <1>1, LenProperties
<1>5. \A i \in 1 .. Len(failed[j]) : failed[j][i] # Head(todo[j])
  BY <1>3, <1>4 DEF ToSet
<1>6. RemoveFirst(failed[j], Head(todo[j])) = failed[j]
  BY <1>5 DEF RemoveFirst
<1>. QED  BY <1>1, <1>6 DEF Unfailed, Set

LEMMA FailedOnce ==
  ASSUME Typed, NEW j \in Jobs, Once(j), todo[j] # <<>>, Failed(j, Head(todo[j]))
  PROVE  /\ failed' = Set(failed, j, Append(failed[j], Head(todo[j])))
         /\ UNCHANGED <<queued, skipped>>
<1>1. todo[j] \in Seq(Videos) /\ failed[j] \in Seq(Videos)
  BY DEF Typed, ItemTyped
<1>2. Head(todo[j]) \in ToSet(todo[j])
  BY <1>1, TailOnce
<1>3. Head(todo[j]) \notin ToSet(failed[j])
  BY <1>2 DEF Once
<1>4. DOMAIN failed[j] = 1 .. Len(failed[j])
  BY <1>1, LenProperties
<1>5. ~Contains(failed[j], Head(todo[j]))
  BY <1>3, <1>4 DEF ToSet, Contains
<1>. QED  BY <1>5 DEF Failed

LEMMA PickMoves ==
  ASSUME ItemsInv, NEW j \in Jobs, Pick(j) PROVE ItemStays(j) \/ ItemSkipped(j)
<1>1. Typed /\ Once(j)
  BY DEF ItemsInv, Kept
<1>2. ItemStays(j) \/ (todo[j] # <<>> /\ Skips(j) /\ Unfailed(j, Head(todo[j])))
  BY DEF Pick, Onward, ItemStays
<1>3. ASSUME todo[j] # <<>>, Skips(j), Unfailed(j, Head(todo[j]))  PROVE ItemSkipped(j)
  BY <1>1, <1>3, UnfailedNothing DEF Skips, ItemDone, ItemSkipped
<1>. QED  BY <1>2, <1>3

LEMMA LookupMoves ==
  ASSUME ItemsInv, NEW j \in Jobs, active = j, Lookup(j)
  PROVE  ItemStays(j) \/ ItemSkipped(j) \/ ItemFailed(j)
<1>1. Typed /\ Once(j) /\ todo[j] # <<>>
  BY DEF ItemsInv, Kept, ItemsPlaced, Lookup, AtItem
<1>2. \/ ItemStays(j)
      \/ Skips(j) /\ Unfailed(j, Head(todo[j]))
      \/ ItemFails(j, Head(todo[j]))
  BY DEF Lookup, Onward, ItemStays
<1>3. ASSUME Skips(j), Unfailed(j, Head(todo[j]))  PROVE ItemSkipped(j)
  BY <1>1, <1>3, UnfailedNothing DEF Skips, ItemDone, ItemSkipped
<1>4. ASSUME ItemFails(j, Head(todo[j]))  PROVE ItemFailed(j)
  BY <1>1, <1>4, FailedOnce DEF ItemFails, ItemDone, ItemFailed
<1>. QED  BY <1>2, <1>3, <1>4

\* The item that is created is queued.
LEMMA CreatesMoves ==
  ASSUME ItemsInv, NEW j \in Jobs, active = j, pc = "create", Creates(j, Head(todo[j]))
  PROVE  ItemQueued(j)
<1>1. Typed /\ Once(j) /\ todo[j] # <<>>
  BY DEF ItemsInv, Kept, ItemsPlaced, AtItem
<1>. QED  BY <1>1, UnfailedNothing DEF Creates, ItemDone, ItemQueued

LEMMA CreateMoves ==
  ASSUME ItemsInv, NEW j \in Jobs, active = j, Create(j)
  PROVE  \/ ItemMoves(j) /\ UNCHANGED taskVars
         \/ ItemQueued(j) /\ Creates(j, Head(todo[j]))
<1>1. Typed /\ Once(j) /\ todo[j] # <<>> /\ pc = "create"
  BY DEF ItemsInv, Kept, ItemsPlaced, Create, AtItem
<1>2. \/ ItemStays(j) /\ UNCHANGED taskVars
      \/ Skips(j) /\ UNCHANGED <<failed, taskVars>>
      \/ ItemFails(j, Head(todo[j])) /\ UNCHANGED taskVars
      \/ Creates(j, Head(todo[j]))
  BY DEF Create, Onward, ItemStays
<1>3. ASSUME Skips(j), UNCHANGED failed  PROVE ItemSkipped(j)
  BY <1>1, <1>3 DEF Skips, ItemDone, ItemSkipped
<1>4. ASSUME ItemFails(j, Head(todo[j]))  PROVE ItemFailed(j)
  BY <1>1, <1>4, FailedOnce DEF ItemFails, ItemDone, ItemFailed
<1>5. ASSUME Creates(j, Head(todo[j]))  PROVE ItemQueued(j)
  BY <1>1, <1>5, CreatesMoves
<1>. QED  BY <1>2, <1>3, <1>4, <1>5 DEF ItemMoves

\* The lists after such a step.
LEMMA MovedLists ==
  ASSUME Typed, NEW j \in Jobs, ItemMoves(j), retryOnly' = retryOnly
  PROVE  /\ ItemTyped'
         /\ \A i \in Jobs : i # j => /\ todo'[i] = todo[i] /\ failed'[i] = failed[i]
                                     /\ queued'[i] = queued[i] /\ skipped'[i] = skipped[i]
         /\ ItemStays(j) \/ todo[j] # <<>>
<1>1. /\ todo \in [Jobs -> Seq(Videos)] /\ failed \in [Jobs -> Seq(Videos)]
      /\ queued \in [Jobs -> Nat] /\ skipped \in [Jobs -> Nat] /\ retryOnly \in SUBSET Jobs
      /\ todo[j] \in Seq(Videos) /\ failed[j] \in Seq(Videos)
      /\ queued[j] + 1 \in Nat /\ skipped[j] + 1 \in Nat
  BY DEF Typed, ItemTyped
<1>2. CASE ItemStays(j)
  BY <1>1, <1>2 DEF ItemStays, ItemTyped
<1>3. todo[j] # <<>> => /\ Tail(todo[j]) \in Seq(Videos)
                        /\ Append(failed[j], Head(todo[j])) \in Seq(Videos)
  BY <1>1, TailOnce, AppendOnce
<1>7. ASSUME todo[j] # <<>>, todo' = Set(todo, j, Tail(todo[j]))
      PROVE  todo' \in [Jobs -> Seq(Videos)] /\ \A i \in Jobs : i # j => todo'[i] = todo[i]
  <2> DEFINE x == Tail(todo[j])
  <2>1. x \in Seq(Videos) /\ todo' = Set(todo, j, x)
    BY <1>3, <1>7
  <2> HIDE DEF x
  <2>. QED  BY <2>1, <1>1 DEF Set
<1>4. CASE ItemSkipped(j)
  <2>1. skipped' \in [Jobs -> Nat] /\ \A i \in Jobs : i # j => skipped'[i] = skipped[i]
    BY <1>1, <1>4 DEF ItemSkipped, Set
  <2>. QED  BY <2>1, <1>1, <1>4, <1>7 DEF ItemSkipped, ItemTyped
<1>5. CASE ItemFailed(j)
  <2>1. failed' \in [Jobs -> Seq(Videos)] /\ \A i \in Jobs : i # j => failed'[i] = failed[i]
    <3> DEFINE x == Append(failed[j], Head(todo[j]))
    <3>1. x \in Seq(Videos) /\ failed' = Set(failed, j, x)
      BY <1>3, <1>5 DEF ItemFailed
    <3> HIDE DEF x
    <3>. QED  BY <3>1, <1>1 DEF Set
  <2>. QED  BY <2>1, <1>1, <1>5, <1>7 DEF ItemFailed, ItemTyped
<1>6. CASE ItemQueued(j)
  <2>1. queued' \in [Jobs -> Nat] /\ \A i \in Jobs : i # j => queued'[i] = queued[i]
    BY <1>1, <1>6 DEF ItemQueued, Set
  <2>. QED  BY <2>1, <1>1, <1>6, <1>7 DEF ItemQueued, ItemTyped
<1>. QED  BY <1>2, <1>4, <1>5, <1>6 DEF ItemMoves

LEMMA MovedOnce ==
  ASSUME Typed, NEW j \in Jobs, ItemMoves(j), Once(j)
  PROVE  Once(j)'
<1>1. /\ todo \in [Jobs -> Seq(Videos)] /\ failed \in [Jobs -> Seq(Videos)]
      /\ todo[j] \in Seq(Videos) /\ failed[j] \in Seq(Videos)
  BY DEF Typed, ItemTyped
<1>2. CASE ItemStays(j)
  BY <1>2 DEF ItemStays, Once
<1>3. ASSUME todo[j] # <<>>
      PROVE  /\ IsInjective(Tail(todo[j])) /\ Head(todo[j]) \notin ToSet(Tail(todo[j]))
             /\ ToSet(Tail(todo[j])) \cap ToSet(failed[j]) = {}
             /\ Head(todo[j]) \notin ToSet(failed[j]) /\ Head(todo[j]) \in Videos
  BY <1>1, <1>3, TailOnce DEF Once
<1>4. CASE failed' = failed /\ todo[j] # <<>> /\ todo' = Set(todo, j, Tail(todo[j]))
  BY <1>1, <1>3, <1>4 DEF Once, Set
<1>5. CASE ItemFailed(j)
  <2>1. todo'[j] = Tail(todo[j]) /\ failed'[j] = Append(failed[j], Head(todo[j]))
    BY <1>1, <1>5 DEF ItemFailed, Set
  <2>2. /\ IsInjective(failed'[j]) /\ ToSet(failed'[j]) = ToSet(failed[j]) \cup {Head(todo[j])}
    BY <2>1, <1>1, <1>3, <1>5, AppendOnce DEF ItemFailed, Once
  <2>. QED  BY <2>1, <2>2, <1>3, <1>5 DEF ItemFailed, Once
<1>. QED  BY <1>2, <1>4, <1>5 DEF ItemMoves, ItemSkipped, ItemQueued

LEMMA MovedCounted ==
  ASSUME Typed, NEW j \in Jobs, ItemMoves(j), Counted(j), items' = items
  PROVE  Counted(j)'
<1>1. /\ todo \in [Jobs -> Seq(Videos)] /\ failed \in [Jobs -> Seq(Videos)]
      /\ queued \in [Jobs -> Nat] /\ skipped \in [Jobs -> Nat]
      /\ todo[j] \in Seq(Videos) /\ failed[j] \in Seq(Videos)
      /\ queued[j] \in Nat /\ skipped[j] \in Nat
      /\ Len(todo[j]) \in Nat /\ Len(failed[j]) \in Nat
  BY LenProperties DEF Typed, ItemTyped
<1>2. ASSUME todo[j] # <<>>
      PROVE  Len(Tail(todo[j])) = Len(todo[j]) - 1 /\ Head(todo[j]) \in Videos
  BY <1>1, <1>2, HeadTailProperties
<1>3. CASE ItemStays(j)
  BY <1>3 DEF ItemStays, Counted
<1>4. CASE ItemSkipped(j)
  <2>1. /\ Len(todo'[j]) = Len(todo[j]) - 1 /\ skipped'[j] = skipped[j] + 1
        /\ Len(failed'[j]) = Len(failed[j]) /\ queued'[j] = queued[j]
    BY <1>1, <1>2, <1>4 DEF ItemSkipped, Set
  <2>2. queued'[j] + skipped'[j] + Len(failed'[j]) + Len(todo'[j])
         = queued[j] + skipped[j] + Len(failed[j]) + Len(todo[j])
    <3> DEFINE a == queued[j]  b == skipped[j]  c == Len(failed[j])  d == Len(todo[j])
               aa == queued'[j]  bb == skipped'[j]  cc == Len(failed'[j])  dd == Len(todo'[j])
    <3>1. a \in Nat /\ b \in Nat /\ c \in Nat /\ d \in Nat
      BY <1>1
    <3>2. ((aa = a + 1 /\ bb = b) \/ (aa = a /\ bb = b + 1)) /\ cc = c /\ dd = d - 1
      BY <2>1
    <3> HIDE DEF a, b, c, d, aa, bb, cc, dd
    <3>3. aa + bb + cc + dd = a + b + c + d
      BY <3>1, <3>2
    <3>. QED  BY <3>3 DEF a, b, c, d, aa, bb, cc, dd
  <2>. QED  BY <2>2 DEF Counted
<1>5. CASE ItemFailed(j)
  <2>1. todo'[j] = Tail(todo[j]) /\ failed'[j] = Append(failed[j], Head(todo[j]))
        /\ queued' = queued /\ skipped' = skipped
    BY <1>1, <1>5 DEF ItemFailed, Set
  <2>2. Len(failed'[j]) = Len(failed[j]) + 1
    BY <2>1, <1>1, <1>2, <1>5, AppendProperties DEF ItemFailed
  <2>3. Len(todo'[j]) = Len(todo[j]) - 1
    BY <2>1, <1>2, <1>5 DEF ItemFailed
  <2>. QED  BY <2>1, <2>2, <2>3, <1>1 DEF Counted
<1>6. CASE ItemQueued(j)
  <2>1. /\ Len(todo'[j]) = Len(todo[j]) - 1 /\ queued'[j] = queued[j] + 1
        /\ Len(failed'[j]) = Len(failed[j]) /\ skipped'[j] = skipped[j]
    BY <1>1, <1>2, <1>6 DEF ItemQueued, Set
  <2>2. queued'[j] + skipped'[j] + Len(failed'[j]) + Len(todo'[j])
         = queued[j] + skipped[j] + Len(failed[j]) + Len(todo[j])
    <3> DEFINE a == queued[j]  b == skipped[j]  c == Len(failed[j])  d == Len(todo[j])
               aa == queued'[j]  bb == skipped'[j]  cc == Len(failed'[j])  dd == Len(todo'[j])
    <3>1. a \in Nat /\ b \in Nat /\ c \in Nat /\ d \in Nat
      BY <1>1
    <3>2. ((aa = a + 1 /\ bb = b) \/ (aa = a /\ bb = b + 1)) /\ cc = c /\ dd = d - 1
      BY <2>1
    <3> HIDE DEF a, b, c, d, aa, bb, cc, dd
    <3>3. aa + bb + cc + dd = a + b + c + d
      BY <3>1, <3>2
    <3>. QED  BY <3>3 DEF a, b, c, d, aa, bb, cc, dd
  <2>. QED  BY <2>2 DEF Counted
<1>. QED  BY <1>3, <1>4, <1>5, <1>6 DEF ItemMoves

\* What a step leaves as it is of the items of a job.
SameItems(i) ==
  /\ todo'[i] = todo[i] /\ failed'[i] = failed[i] /\ queued'[i] = queued[i]
  /\ skipped'[i] = skipped[i] /\ items'[i] = items[i]
  /\ i \in complete' <=> i \in complete
  /\ i \in late' => i \in late
  /\ i \in retryOnly' => i \in retryOnly

LEMMA KeptAlone ==
  ASSUME NEW i \in Jobs, Kept(i), SameItems(i),
         code'[i] = "source_unstable" => code[i] = "source_unstable",
         status'[i] \in {"completed", "partial"} => status'[i] = status[i],
         status'[i] = "new" => status[i] = "new" /\ pass'[i] = pass[i]
                               /\ (steady'[i] = steady[i] \/ steady'[i] \subseteq steady[i])
  PROVE  Kept(i)'
<1>1. Once(i)'
  BY DEF Kept, Once, SameItems
<1>2. (i \in complete => Counted(i))'
  BY DEF Kept, Counted, SameItems
<1>3. (i \notin complete => Unread(i))'
  BY DEF Kept, Unread, SameItems
<1>4. Earned(i)'
  BY DEF Kept, Earned, SameItems
<1>5. (code[i] = "source_unstable" => i \notin complete)'
  BY DEF Kept, SameItems
<1>6. (status[i] = "new" => i \notin complete /\ steady[i] = {} /\ pass[i].total = NoTotal)'
  BY DEF Kept, SameItems
<1>. QED  BY <1>1, <1>2, <1>3, <1>4, <1>5, <1>6 DEF Kept

\* A job whose list is being read has no items yet.
LEMMA KeptUnread ==
  ASSUME NEW j \in Jobs, Kept(j), j \notin complete, j \notin complete',
         todo'[j] = todo[j], failed'[j] = failed[j], queued'[j] = queued[j],
         skipped'[j] = skipped[j], j \in retryOnly' => j \in retryOnly,
         j \in late' => j \in late,
         status'[j] \notin {"new", "completed", "partial"}
  PROVE  Kept(j)'
<1>1. Once(j)'
  BY DEF Kept, Once
<1>2. Unread(j)'
  BY DEF Kept, Unread
<1>. QED  BY <1>1, <1>2 DEF Kept, Earned

\* A job with a step of an item.
LEMMA KeptMoved ==
  ASSUME Typed, NEW j \in Jobs, Kept(j), ItemMoves(j), j \in complete, j \in complete',
         items' = items, code' = code,
         status'[j] \notin {"new", "completed", "partial"}
  PROVE  Kept(j)'
<1>1. Once(j)'
  BY MovedOnce DEF Kept
<1>2. Counted(j)'
  BY MovedCounted DEF Kept
<1>. QED  BY <1>1, <1>2 DEF Kept, Earned

\* The job the worker has runs while the worker is midway.
LEMMA MidwayRuns ==
  ASSUME IInv, pc \in Midway
  PROVE  /\ active \in Jobs /\ status[active] \in Running
         /\ status[active] \notin {"new", "waiting", "failed", "partial", "completed", "cancelled"}
BY DEF IInv, WorkerPlaced, ControlTypeOK, Midway, Running

LEMMA PlacesMidway == Discovering \cup Enqueuing \cup AtItem \cup {"drained", "conclude"} \subseteq Midway
BY DEF Discovering, Enqueuing, AtItem, Midway

\* A step that leaves the worker, and the items of its job, where they are.
LEMMA PlacedAlone ==
  ASSUME IInv, ItemsPlaced, UNCHANGED <<pc, active>>,
         active \in Jobs => status'[active] # "new" \/ status'[active] = status[active],
         pc \in Midway => /\ todo'[active] = todo[active]
                          /\ active \in complete' <=> active \in complete
                          /\ active \in late' => active \in late
                          /\ Cancelled(active) => Cancelled(active)'
  PROVE  ItemsPlaced'
BY PlacesMidway DEF ItemsPlaced

LEMMA InitItemsInv == ASSUME Init PROVE ItemsInv
<1>1. Typed
  BY InitTyped
<1>2. ASSUME NEW j \in Jobs  PROVE Kept(j)
  <2>1. /\ todo[j] = <<>> /\ failed[j] = <<>> /\ queued[j] = 0 /\ skipped[j] = 0
        /\ complete = {} /\ retryOnly = {} /\ late = {} /\ status[j] = "new" /\ code[j] = "none"
        /\ steady[j] = {} /\ pass[j].total = NoTotal
    BY DEF Init, NewPass
  <2>2. ToSet(<<>>) = {} /\ IsInjective(<<>>)
    BY DEF ToSet, IsInjective
  <2>3. Once(j) /\ Unread(j) /\ Earned(j)
    BY <2>1, <2>2 DEF Once, Unread, Earned
  <2>. QED  BY <2>1, <2>3 DEF Kept
<1>3. ItemsPlaced /\ LateIsCancelled
  BY JobsAssumption DEF Init, ItemsPlaced, LateIsCancelled, Discovering, Enqueuing, AtItem
<1>. QED  BY <1>1, <1>2, <1>3 DEF ItemsInv

(* Requests.                                                               *)
LEMMA QuietRequestItems ==
  ASSUME IInv, ItemsInv, Typed',
         UNCHANGED <<code, passVars, itemVars, late, threadVars, steady>>,
         cancelSet \subseteq cancelSet', stopped => stopped',
         \A i \in Jobs : \/ status'[i] = status[i]
                         \/ status'[i] \notin {"new", "completed", "partial"}
  PROVE  ItemsInv'
<1>1. ASSUME NEW i \in Jobs  PROVE Kept(i)'
  <2>1. SameItems(i) /\ code' = code /\ pass' = pass /\ steady' = steady
    BY DEF SameItems, passVars, itemVars
  <2>. QED  BY <2>1, KeptAlone DEF ItemsInv
<1>2. \A j : Cancelled(j) => Cancelled(j)'
  BY DEF Cancelled
<1>3. LateIsCancelled'
  BY <1>2 DEF ItemsInv, LateIsCancelled
<1>4. ItemsPlaced'
  BY <1>2, PlacedAlone DEF ItemsInv, threadVars, itemVars, passVars
<1>. QED  BY <1>1, <1>3, <1>4 DEF ItemsInv

\* A job that goes back in line is not the worker's, midway.
LEMMA BackItems ==
  ASSUME IInv, ItemsInv, Typed', NEW j \in Jobs, BackInLine(j),
         status[j] \in {"failed", "partial"}, UNCHANGED threadVars, Kept(j)',
         \A i \in Jobs : i # j => SameItems(i),
         UNCHANGED steady, \A i \in Jobs : i # j => pass'[i] = pass[i]
  PROVE  ItemsInv'
<1>1. /\ status' = Set(status, j, "waiting") /\ code' = Set(code, j, "none")
      /\ cancelSet' = cancelSet \ {j} /\ late' = late \ {j} /\ stopped' = stopped
  BY DEF BackInLine
<1>2. \A i \in Jobs : i # j => status'[i] = status[i] /\ code'[i] = code[i]
  BY <1>1 DEF Set, IInv, ControlTypeOK, ItemsInv, Typed, FailureTyped
<1>3. ASSUME NEW i \in Jobs, i # j  PROVE Kept(i)'
  BY <1>2, <1>3, KeptAlone DEF ItemsInv
<1>4. \A i : i # j /\ Cancelled(i) => Cancelled(i)'
  BY <1>1 DEF Cancelled
<1>5. LateIsCancelled'
  BY <1>1, <1>4 DEF ItemsInv, LateIsCancelled
<1>6. pc \in Midway => active \in Jobs /\ active # j
  BY MidwayRuns
<1>8. active \in Jobs => status'[active] # "new" \/ status'[active] = status[active]
  BY <1>1 DEF Set, IInv, ControlTypeOK
<1>7. ItemsPlaced'
  BY <1>4, <1>6, <1>8, PlacedAlone DEF ItemsInv, threadVars, SameItems
<1>. QED  BY <1>3, <1>5, <1>7 DEF ItemsInv

LEMMA ResumeItems ==
  ASSUME IInv, ItemsInv, Typed', NEW j \in Jobs, Resume(j), UNCHANGED <<threadVars, steady>>
  PROVE  ItemsInv'
<1>1. /\ BackInLine(j) /\ status[j] = "failed" /\ failed' = failed /\ retryOnly' = retryOnly \ {j}
      /\ late' = late \ {j} /\ queued' = queued /\ skipped' = skipped
      /\ status' = Set(status, j, "waiting") /\ code' = Set(code, j, "none")
  BY DEF Resume, BackInLine
<1>2. status'[j] = "waiting" /\ code'[j] = "none"
  BY <1>1 DEF Set, IInv, ControlTypeOK, ItemsInv, Typed, FailureTyped
<1>3. CASE code[j] = "source_unstable"
  <2>1. /\ pass' = Set(pass, j, NewPass) /\ items' = Set(items, j, {})
        /\ todo' = Set(todo, j, <<>>) /\ complete' = complete \ {j}
    BY <1>3 DEF Resume
  <2>2. j \notin complete /\ todo[j] = <<>>
    BY <1>3 DEF ItemsInv, Kept, Unread
  <2>3. todo'[j] = todo[j]
    BY <2>1, <2>2 DEF Set, ItemsInv, Typed, ItemTyped
  <2>4. Kept(j)'
    BY <1>1, <1>2, <2>1, <2>2, <2>3, KeptUnread DEF ItemsInv
  <2>5. \A i \in Jobs : i # j => SameItems(i) /\ pass'[i] = pass[i]
    BY <1>1, <2>1 DEF Set, SameItems, ItemsInv, Typed, ItemTyped, PassTyped
  <2>. QED  BY <1>1, <2>4, <2>5, BackItems
<1>4. CASE code[j] # "source_unstable"
  <2>1. UNCHANGED <<passVars, todo>>
    BY <1>4 DEF Resume
  <2>2. \A i \in Jobs : SameItems(i) /\ pass'[i] = pass[i]
    BY <1>1, <2>1 DEF SameItems, passVars
  <2>3. Kept(j)'
    BY <1>2, <2>2, KeptAlone DEF ItemsInv
  <2>. QED  BY <1>1, <2>2, <2>3, BackItems
<1>. QED  BY <1>3, <1>4

LEMMA RetryItems ==
  ASSUME IInv, ItemsInv, Typed', NEW j \in Jobs, RetryFailed(j), UNCHANGED <<threadVars, steady>>
  PROVE  ItemsInv'
<1>1. /\ BackInLine(j) /\ status[j] = "partial" /\ failed[j] # <<>>
      /\ todo' = Set(todo, j, failed[j]) /\ failed' = Set(failed, j, <<>>)
      /\ retryOnly' = retryOnly \cup {j} /\ UNCHANGED passVars
      /\ late' = late \ {j} /\ queued' = queued /\ skipped' = skipped
      /\ status' = Set(status, j, "waiting") /\ code' = Set(code, j, "none")
  BY DEF RetryFailed, BackInLine
<1>2. status'[j] = "waiting" /\ code'[j] = "none"
  BY <1>1 DEF Set, IInv, ControlTypeOK, ItemsInv, Typed, FailureTyped
<1>3. j \in complete /\ todo[j] = <<>> /\ Once(j) /\ Counted(j)
  BY <1>1 DEF ItemsInv, Kept, Earned
<1>4. todo'[j] = failed[j] /\ failed'[j] = <<>>
  BY <1>1 DEF Set, ItemsInv, Typed, ItemTyped
<1>5. Once(j)'
  <2>1. ToSet(<<>>) = {} /\ IsInjective(<<>>)
    BY DEF ToSet, IsInjective
  <2>. QED  BY <2>1, <1>3, <1>4 DEF Once
<1>6. Counted(j)'
  <2>1. Len(failed[j]) \in Nat /\ queued[j] \in Nat /\ skipped[j] \in Nat /\ Len(<<>>) = 0
    BY LenProperties DEF ItemsInv, Typed, ItemTyped
  <2>2. items' = items
    BY <1>1 DEF passVars
  <2>. QED  BY <1>1, <1>3, <1>4, <2>1, <2>2 DEF Counted
<1>7. Kept(j)'
  BY <1>1, <1>2, <1>3, <1>5, <1>6 DEF Kept, Earned, passVars
<1>8. \A i \in Jobs : i # j => SameItems(i) /\ pass'[i] = pass[i]
  BY <1>1 DEF Set, SameItems, passVars, ItemsInv, Typed, ItemTyped
<1>. QED  BY <1>1, <1>7, <1>8, BackItems

LEMMA RequestItems ==
  ASSUME JobsAssumption, IInv, ItemsInv, Request PROVE ItemsInv'
<1>1. Typed' /\ UNCHANGED <<threadVars, steady>>
  BY RequestTyped DEF ItemsInv, Request
<1>2. CASE Stop
  <2>1. /\ UNCHANGED <<code, passVars, itemVars, late>> /\ stopped'
        /\ cancelSet \subseteq cancelSet'
    BY <1>2 DEF Stop
  <2>2. \A i \in Jobs : \/ status'[i] = status[i]
                        \/ status'[i] \notin {"new", "completed", "partial"}
    BY <1>2, StopShape
  <2>. QED  BY <1>1, <2>1, <2>2, QuietRequestItems
<1>3. ASSUME NEW j \in Jobs, Start(j) \/ CancelWaiting(j) \/ CancelRunning(j)
      PROVE  ItemsInv'
  <2>1. /\ UNCHANGED <<code, passVars, itemVars, late>> /\ stopped' = stopped
        /\ cancelSet \subseteq cancelSet'
    BY <1>3 DEF Start, CancelWaiting, CancelRunning
  <2>2. PICK s \in {"waiting", "cancelled", "stopping"} : status' = Set(status, j, s)
    BY <1>3 DEF Start, CancelWaiting, CancelRunning
  <2>3. \A i \in Jobs : \/ status'[i] = status[i]
                        \/ status'[i] \notin {"new", "completed", "partial"}
    BY <2>2 DEF Set, IInv, ControlTypeOK
  <2>. QED  BY <1>1, <2>1, <2>3, QuietRequestItems
<1>4. ASSUME NEW j \in Jobs, Resume(j)  PROVE ItemsInv'
  BY <1>1, <1>4, ResumeItems
<1>5. ASSUME NEW j \in Jobs, RetryFailed(j)  PROVE ItemsInv'
  BY <1>1, <1>5, RetryItems
<1>. QED  BY <1>2, <1>3, <1>4, <1>5 DEF Request

(* Steps of the worker.                                                    *)

LEMMA CancelledStays == ASSUME WorkerFrame PROVE \A i : Cancelled(i)' <=> Cancelled(i)
BY DEF WorkerFrame, Cancelled

\* A step of the worker that changes nothing of the items but its own place.
LEMMA QuietWorkItems ==
  ASSUME IInv, ItemsInv, Typed', WorkerFrame, NEW j \in Jobs, active = j, active' = j,
         UNCHANGED <<passVars, todo, failed, queued, skipped, late>>,
         retryOnly' \subseteq retryOnly,
         \A i \in Jobs : i # j => status'[i] = status[i] /\ code'[i] = code[i] /\ steady'[i] = steady[i],
         status'[j] \notin {"new", "completed", "partial"} \/ status'[j] = status[j],
         code'[j] = code[j] \/ code'[j] # "source_unstable",
         status'[j] # "new",
         pc' \in Discovering => j \notin complete,
         pc' \in Enqueuing => j \in complete,
         pc' \in AtItem => todo[j] # <<>> /\ j \notin late,
         pc' = "drained" => Cancelled(j) \/ todo[j] = <<>>,
         pc' = "conclude" => todo[j] = <<>>
  PROVE  ItemsInv'
<1>1. \A i \in Jobs : SameItems(i) /\ pass'[i] = pass[i]
  BY DEF SameItems, passVars
<1>2. ASSUME NEW i \in Jobs  PROVE Kept(i)'
  <2>1. CASE i = j
    BY <2>1, <1>1, KeptAlone DEF ItemsInv
  <2>2. CASE i # j
    BY <2>2, <1>1, KeptAlone DEF ItemsInv
  <2>. QED  BY <2>1, <2>2
<1>3. LateIsCancelled'
  BY CancelledStays DEF ItemsInv, LateIsCancelled
<1>4. ItemsPlaced'
  BY CancelledStays DEF ItemsPlaced, passVars
<1>. QED  BY <1>2, <1>3, <1>4 DEF ItemsInv

LEMMA LooksItems ==
  ASSUME IInv, ItemsInv, WorkerFrame, NEW j \in Jobs, active = j, active' = j, j # NoJob,
         Begin(j) \/ Unfinished(j) \/ Discovered(j) \/ Drained(j),
         UNCHANGED <<jobVars, passVars, itemVars, attempt, got, taskVars, steady, faults>>
  PROVE  ItemsInv'
<1>1. Typed'
  BY LooksTyped DEF ItemsInv
<1>2. status[j] # "new"
  BY DEF ItemsInv, ItemsPlaced
<1>3. /\ UNCHANGED <<passVars, todo, failed, queued, skipped, late, status, code, steady>>
      /\ retryOnly' = retryOnly
  BY DEF jobVars, itemVars, taskVars
<1>4. j \in retryOnly => j \in complete
  BY DEF ItemsInv, Kept, Unread
<1>5. /\ pc' \in Discovering => j \notin complete
      /\ pc' \in Enqueuing => j \in complete
      /\ pc' \notin AtItem /\ pc' # "drained"
      /\ pc' = "conclude" => todo[j] = <<>>
  BY <1>4 DEF Begin, Unfinished, Discovered, Drained, Look, Goto, ItemsInv, ItemsPlaced,
              Discovering, Enqueuing, AtItem
<1>. QED  BY <1>1, <1>2, <1>3, <1>5, QuietWorkItems

LEMMA LoadItems ==
  ASSUME JobsAssumption, IInv, ItemsInv, WorkerFrame, NEW j \in Jobs, active = j, active' = j,
         Load(j), UNCHANGED <<jobVars, passVars, itemVars, taskVars>>
  PROVE  ItemsInv'
<1>1. Typed'
  BY LoadTyped DEF ItemsInv
<1>2. status[j] # "new" /\ j \notin complete
  BY MidwayRuns DEF Load, Midway, ItemsInv, ItemsPlaced, Discovering
<1>3. /\ UNCHANGED <<passVars, todo, failed, queued, skipped, late, status, code>>
      /\ retryOnly' = retryOnly
  BY DEF jobVars, itemVars, taskVars
<1>4. \A i \in Jobs : i # j => steady'[i] = steady[i]
  BY DEF Load, Arrives, RequestFails, Set, ItemsInv, Typed, SteadyTyped
<1>5. pc' \in {"load", "record", "giveup", "unfinished"}
  BY DEF Load, Arrives, RequestFails, Goto
<1>6. /\ pc' \in Discovering => j \notin complete
      /\ pc' \notin Enqueuing /\ pc' \notin AtItem /\ pc' # "drained" /\ pc' # "conclude"
  BY <1>2, <1>5 DEF Enqueuing, AtItem
<1>. QED  BY <1>1, <1>2, <1>3, <1>4, <1>6, QuietWorkItems

LEMMA RecordItems ==
  ASSUME JobsAssumption, IInv, ItemsInv, WorkerFrame, NEW j \in Jobs, active = j, active' = j,
         Record(j), UNCHANGED <<failed, queued, skipped, retryOnly, taskVars>>
  PROVE  ItemsInv'
<1>1. Typed'
  BY RecordTyped DEF ItemsInv
<1>2. /\ status[j] \notin {"new", "completed", "partial"} /\ j \notin complete
      /\ Kept(j) /\ todo[j] = <<>> /\ failed[j] = <<>> /\ queued[j] = 0 /\ skipped[j] = 0
  BY MidwayRuns DEF Record, Midway, ItemsInv, ItemsPlaced, Discovering, Kept, Unread
<1>3. late' = late /\ UNCHANGED <<failed, queued, skipped, retryOnly, steady>>
  BY DEF taskVars, Record
<1>4. ASSUME NEW i \in Jobs, i # j
      PROVE  /\ SameItems(i) /\ status'[i] = status[i] /\ code'[i] = code[i] /\ pass'[i] = pass[i]
  <2>1. /\ status'[i] = status[i] /\ code'[i] = code[i]
    BY <1>4 DEF Record, RecordInvalid, RecordRaises, TurnPage, NextPass, Unstable, Stable, Fails,
                Set, jobVars, IInv, ControlTypeOK, ItemsInv, Typed, FailureTyped
  <2>2. pass'[i] = pass[i]
    BY <1>4 DEF Record, RecordInvalid, RecordRaises, TurnPage, NextPass, Unstable, Stable, Reads,
                Set, ItemsInv, Typed, PassTyped
  <2>3. items'[i] = items[i]
    BY <1>4 DEF Record, RecordInvalid, RecordRaises, TurnPage, NextPass, Unstable, Stable, Reads,
                Set, ItemsInv, Typed, PassTyped
  <2>4. todo'[i] = todo[i] /\ (i \in complete' <=> i \in complete)
    BY <1>4 DEF Record, RecordInvalid, RecordRaises, TurnPage, NextPass, Unstable, Stable,
                Set, ItemsInv, Typed, ItemTyped
  <2>. QED  BY <2>1, <2>2, <2>3, <2>4, <1>3 DEF SameItems
<1>5. \A i \in Jobs : i # j => Kept(i)'
  <2>1. ASSUME NEW i \in Jobs, i # j  PROVE Kept(i)'
    BY <2>1, <1>3, <1>4, KeptAlone DEF ItemsInv
  <2>. QED  BY <2>1
<1>6. CASE ~Stable(j)
  <2>1. j \notin complete' /\ todo'[j] = todo[j] /\ pc' \in {"unfinished", "finish", "failjob", "load"}
    BY <1>2, <1>6 DEF Record, RecordInvalid, RecordRaises, TurnPage, NextPass, Unstable, Goto
  <2>2. status'[j] \notin {"new", "completed", "partial"}
    BY <1>2, <1>6 DEF Record, RecordInvalid, RecordRaises, TurnPage, NextPass, Unstable, Fails,
                      Set, jobVars, IInv, ControlTypeOK
  <2>3. Kept(j)'
    BY <1>2, <1>3, <2>1, <2>2, KeptUnread
  <2>4. ItemsPlaced'
    BY <2>1, <2>2 DEF ItemsPlaced, Enqueuing, AtItem
  <2>5. LateIsCancelled'
    BY <1>3, CancelledStays DEF ItemsInv, LateIsCancelled
  <2>. QED  BY <1>1, <1>5, <2>3, <2>4, <2>5 DEF ItemsInv
<1>7. CASE Stable(j)
  <2> DEFINE S == Collected(j)
  <2>1. /\ pc' = "discovered" /\ items' = Set(items, j, S) /\ todo' = Set(todo, j, NewestFirst(S))
        /\ complete' = complete \cup {j} /\ code' = Set(code, j, "none") /\ status' = status
    BY <1>7 DEF Stable, Reads, Goto
  <2>2. S \in SUBSET Videos
    BY ObservedTyped DEF ItemsInv
  <2> HIDE DEF S
  <2>3. items'[j] = S /\ todo'[j] = NewestFirst(S) /\ code'[j] = "none"
    BY <2>1 DEF Set, ItemsInv, Typed, PassTyped, ItemTyped, FailureTyped
  <2>4. /\ Len(todo'[j]) = Cardinality(S) /\ IsInjective(todo'[j])
        /\ Cardinality(S) \in Nat
    BY <2>2, <2>3, NewestFirstLists, VideosFinite
  <2>5. failed'[j] = <<>> /\ queued'[j] = 0 /\ skipped'[j] = 0
    BY <1>2, <1>3
  <2>6. Once(j)'
    <3>1. ToSet(<<>>) = {} /\ IsInjective(<<>>)
      BY DEF ToSet, IsInjective
    <3>. QED  BY <2>4, <2>5, <3>1 DEF Once
  <2>7. Counted(j)'
    <3>1. Len(failed'[j]) = 0
      BY <2>5
    <3>2. Cardinality(S) = 0 + 0 + 0 + Cardinality(S)
      BY <2>4
    <3>. QED  BY <2>3, <2>4, <2>5, <3>1, <3>2 DEF Counted
  <2>8. Kept(j)'
    BY <1>2, <2>1, <2>3, <2>6, <2>7 DEF Kept, Earned
  <2>9. ItemsPlaced'
    BY <1>2, <2>1 DEF ItemsPlaced, Discovering, AtItem
  <2>10. LateIsCancelled'
    BY <1>3, CancelledStays DEF ItemsInv, LateIsCancelled
  <2>. QED  BY <1>1, <1>5, <2>8, <2>9, <2>10 DEF ItemsInv
<1>. QED  BY <1>6, <1>7

(* A step with an item.                                                    *)
ItemStep(j) == Pick(j) \/ Lookup(j) \/ Capacity(j) \/ Create(j)

LEMMA ItemStepMoves ==
  ASSUME ItemsInv, NEW j \in Jobs, active = j, ItemStep(j)
  PROVE  /\ ItemMoves(j)
         /\ UNCHANGED taskVars \/ (pc = "create" /\ ItemQueued(j) /\ Creates(j, Head(todo[j])))
<1>1. CASE Pick(j)
  BY <1>1, PickMoves DEF ItemMoves, Pick
<1>2. CASE Lookup(j)
  BY <1>2, LookupMoves DEF ItemMoves, Lookup
<1>3. CASE Capacity(j)
  BY <1>3 DEF ItemMoves, Capacity, Onward, ItemStays
<1>4. CASE Create(j)
  BY <1>4, CreateMoves DEF ItemMoves, Create
<1>. QED  BY <1>1, <1>2, <1>3, <1>4 DEF ItemStep

LEMMA ItemStepPlaces ==
  ASSUME ItemsInv, NEW j \in Jobs, active = j, ItemStep(j)
  PROVE  \/ pc' = "pick"
         \/ pc' = "drained" /\ ItemStays(j) /\ (Cancelled(j) \/ todo[j] = <<>>)
         \/ /\ pc' \in AtItem /\ ItemStays(j) /\ todo[j] # <<>> /\ ~Cancelled(j)
            /\ UNCHANGED taskVars
         \/ pc' \in AtItem /\ ItemStays(j) /\ pc \in AtItem /\ UNCHANGED taskVars
<1>1. CASE Pick(j)
  BY <1>1 DEF Pick, Onward, Skips, ItemDone, Goto, ItemStays, AtItem
<1>2. CASE Lookup(j)
  BY <1>2 DEF Lookup, Onward, Skips, ItemFails, ItemDone, Goto, ItemStays, AtItem
<1>3. CASE Capacity(j)
  BY <1>3 DEF Capacity, Onward, Goto, ItemStays, AtItem
<1>4. CASE Create(j)
  BY <1>4 DEF Create, Onward, Skips, ItemFails, Creates, ItemDone, Goto, ItemStays, AtItem
<1>. QED  BY <1>1, <1>2, <1>3, <1>4 DEF ItemStep

LEMMA ItemStepTyped ==
  ASSUME JobsAssumption, ItemsInv, WorkerFrame, NEW j \in Jobs, active = j, ItemStep(j),
         UNCHANGED <<jobVars, passVars, retryOnly, attempt, got, steady>>
  PROVE  Typed'
<1>1. AskedTyped' /\ SiteTyped' /\ WorksTyped'
  BY WorkerFrameTyped DEF ItemsInv
<1>2. FailureTyped' /\ PassTyped' /\ SteadyTyped'
  BY DEF jobVars, passVars, ItemsInv, Typed, FailureTyped, PassTyped, SteadyTyped
<1>3. ItemTyped'
  BY ItemStepMoves, MovedLists DEF ItemsInv
<1>4. ThreadTyped'
  <2>1. pc' \in Places
    BY ItemStepPlaces DEF AtItem, Places
  <2>. QED  BY <2>1 DEF ItemsInv, Typed, ThreadTyped
<1>5. TaskTyped'
  <2>1. /\ holder \in [Keys -> Jobs \cup {Manual, Nobody}] /\ late \in SUBSET Jobs
    BY DEF ItemsInv, Typed, TaskTyped
  <2>2. CASE UNCHANGED taskVars
    BY <2>1, <2>2 DEF taskVars, TaskTyped
  <2>3. CASE Creates(j, Head(todo[j]))
    BY <2>1, <2>3 DEF Creates, Set, TaskTyped
  <2>. QED  BY <2>2, <2>3, ItemStepMoves
<1>6. BoundsTyped'
  <2>1. faults' \in Nat
    BY DEF ItemStep, Pick, Lookup, Capacity, Create, Creates, Onward, Skips, ItemFails, Failed,
           ItemsInv, Typed, BoundsTyped
  <2>. QED  BY <2>1 DEF WorkerFrame, ItemsInv, Typed, BoundsTyped
<1>. QED  BY <1>1, <1>2, <1>3, <1>4, <1>5, <1>6 DEF Typed

LEMMA ItemStepItems ==
  ASSUME JobsAssumption, IInv, ItemsInv, WorkerFrame, NEW j \in Jobs, active = j, active' = j,
         ItemStep(j), UNCHANGED <<jobVars, passVars, retryOnly, attempt, got, steady>>
  PROVE  ItemsInv'
<1>1. Typed'
  BY ItemStepTyped
<1>2. pc \in Enqueuing /\ pc \in Midway
  BY DEF ItemStep, Pick, Lookup, Capacity, Create, Enqueuing, Midway
<1>3. status[j] \notin {"new", "completed", "partial"} /\ j \in complete
  BY <1>2, MidwayRuns DEF ItemsInv, ItemsPlaced
<1>4. ItemMoves(j) /\ UNCHANGED <<status, code, passVars, retryOnly, steady>>
  BY ItemStepMoves DEF jobVars
<1>5. Kept(j)'
  BY <1>3, <1>4, KeptMoved DEF ItemsInv, passVars
<1>6. late' = late \/ (late' = late \cup {j} /\ Cancelled(j))
  BY ItemStepMoves DEF taskVars, Creates, Cancelled
<1>7. ASSUME NEW i \in Jobs, i # j  PROVE Kept(i)'
  <2>1. /\ todo'[i] = todo[i] /\ failed'[i] = failed[i]
        /\ queued'[i] = queued[i] /\ skipped'[i] = skipped[i]
    BY <1>4, <1>7, MovedLists DEF ItemsInv
  <2>2. SameItems(i)
    BY <2>1, <1>4, <1>6, <1>7 DEF SameItems, passVars
  <2>3. code'[i] = code[i] /\ status'[i] = status[i] /\ pass'[i] = pass[i] /\ steady'[i] = steady[i]
    BY <1>4 DEF passVars
  <2>. QED  BY <2>2, <2>3, KeptAlone DEF ItemsInv
<1>8. LateIsCancelled'
  BY <1>6, CancelledStays DEF ItemsInv, LateIsCancelled
<1>9. ItemsPlaced'
  <2>1. complete' = complete /\ status' = status
    BY <1>4 DEF passVars
  <2>2. ~Cancelled(j) => j \notin late
    BY DEF ItemsInv, LateIsCancelled
  <2>3. CASE pc' = "pick"
    BY <2>1, <2>3, <1>3 DEF ItemsPlaced, Discovering, AtItem
  <2>4. CASE pc' = "drained" /\ ItemStays(j) /\ (Cancelled(j) \/ todo[j] = <<>>)
    BY <2>1, <2>4, <1>3, CancelledStays DEF ItemsPlaced, Discovering, AtItem, ItemStays
  <2>5. CASE pc' \in AtItem /\ ItemStays(j) /\ todo[j] # <<>> /\ ~Cancelled(j) /\ UNCHANGED taskVars
    BY <2>1, <2>2, <2>5, <1>3 DEF ItemsPlaced, Discovering, AtItem, ItemStays, taskVars
  <2>6. CASE pc' \in AtItem /\ ItemStays(j) /\ pc \in AtItem /\ UNCHANGED taskVars
    BY <2>1, <2>6, <1>3 DEF ItemsInv, ItemsPlaced, Discovering, AtItem, ItemStays, taskVars
  <2>. QED  BY <2>3, <2>4, <2>5, <2>6, ItemStepPlaces
<1>. QED  BY <1>1, <1>5, <1>7, <1>8, <1>9 DEF ItemsInv

(* Statuses that are written.                                              *)

LEMMA EndsTyped ==
  ASSUME Typed, WorkerFrame, NEW j \in Jobs,
         GiveUp(j) \/ FailJob(j) \/ Announce(j) \/ Conclude(j) \/ Finish(j),
         GiveUp(j) \/ FailJob(j) => retryOnly' = retryOnly,
         UNCHANGED <<passVars, todo, failed, queued, skipped, attempt, got, taskVars,
                     steady, faults>>
  PROVE  Typed'
<1>1. AskedTyped' /\ SiteTyped' /\ WorksTyped'
  BY WorkerFrameTyped
<1>2. PassTyped' /\ TaskTyped' /\ SteadyTyped' /\ BoundsTyped'
  BY DEF passVars, taskVars, WorkerFrame, Typed, PassTyped, TaskTyped, SteadyTyped, BoundsTyped
<1>3. ThreadTyped'
  <2>1. pc' \in Places
    BY DEF GiveUp, FailJob, Announce, Conclude, Finish, Goto, Places
  <2>. QED  BY <2>1 DEF Typed, ThreadTyped
<1>4. FailureTyped'
  <2>1. /\ code \in [Jobs -> Codes] /\ failedPage \in [Jobs -> Nat] /\ nextPage[j] \in Nat
        /\ failedPage[j] \in Nat
    BY DEF Typed, FailureTyped, PassTyped
  <2>2. {"none", "page_failed", "job_failed"} \subseteq Codes
    BY DEF Codes
  <2>. QED  BY <2>1, <2>2 DEF GiveUp, FailJob, Announce, Conclude, Finish, Fails, Set, jobVars,
                              FailureTyped
<1>5. ItemTyped'
  <2>1. retryOnly' = retryOnly \/ retryOnly' = retryOnly \ {j}
    BY DEF GiveUp, FailJob, Announce, Conclude, Finish
  <2>. QED  BY <2>1 DEF Typed, ItemTyped
<1>. QED  BY <1>1, <1>2, <1>3, <1>4, <1>5 DEF Typed

LEMMA EndsItems ==
  ASSUME IInv, ItemsInv, WorkerFrame, NEW j \in Jobs, active = j, active' = j,
         GiveUp(j) \/ FailJob(j) \/ Announce(j) \/ Conclude(j) \/ Finish(j),
         GiveUp(j) \/ FailJob(j) => retryOnly' = retryOnly,
         UNCHANGED <<passVars, todo, failed, queued, skipped, attempt, got, taskVars,
                     steady, faults>>
  PROVE  ItemsInv'
<1>1. Typed'
  BY EndsTyped DEF ItemsInv
<1>2. late' = late /\ retryOnly' \subseteq retryOnly
  BY DEF taskVars, Announce, Conclude, Finish
<1>3. /\ status \in [Jobs -> Alive \cup Terminal \cup {"new"}] /\ code \in [Jobs -> Codes]
  BY DEF IInv, ControlTypeOK, ItemsInv, Typed, FailureTyped
<1>4. CASE ~Conclude(j)
  <2>1. \A i \in Jobs : i # j => status'[i] = status[i] /\ code'[i] = code[i]
    BY <1>3, <1>4 DEF GiveUp, FailJob, Announce, Finish, Fails, Set, jobVars
  <2>2. status[j] # "new"
    BY DEF ItemsInv, ItemsPlaced
  <2>3. \/ status'[j] \in {"failed", "enqueuing", "cancelled"}
        \/ status'[j] = status[j]
    BY <1>3, <1>4 DEF GiveUp, FailJob, Announce, Finish, Fails, Set, jobVars
  <2>4. code'[j] = code[j] \/ code'[j] # "source_unstable"
    BY <1>3, <1>4 DEF GiveUp, FailJob, Announce, Finish, Fails, Set, jobVars
  <2>5. \/ pc' \in {"unfinished", "leave"}
        \/ pc' = "pick" /\ j \in complete
    BY <1>4 DEF GiveUp, FailJob, Announce, Finish, Goto, ItemsInv, ItemsPlaced, Enqueuing
  <2>6. /\ pc' \in Discovering => j \notin complete
        /\ pc' \in Enqueuing => j \in complete
        /\ pc' \notin AtItem /\ pc' # "drained" /\ pc' # "conclude"
    BY <2>5 DEF Discovering, Enqueuing, AtItem
  <2>. QED  BY <1>1, <1>2, <2>1, <2>2, <2>3, <2>4, <2>6, QuietWorkItems
<1>5. CASE Conclude(j)
  <2>1. /\ pc = "conclude" /\ pc' = "leave" /\ code' = Set(code, j, "none")
        /\ status' = Set(status, j, IF failed[j] = <<>> THEN "completed" ELSE "partial")
    BY <1>5 DEF Conclude, Goto
  <2>2. j \in complete /\ todo[j] = <<>> /\ Kept(j)
    BY <2>1 DEF ItemsInv, ItemsPlaced, Enqueuing
  <2>3. /\ SameItems(j) /\ \A i \in Jobs : SameItems(i) /\ pass'[i] = pass[i] /\ steady'[i] = steady[i]
    BY <1>2 DEF SameItems, passVars
  <2>4. /\ code'[j] = "none"
        /\ status'[j] = IF failed[j] = <<>> THEN "completed" ELSE "partial"
        /\ \A i \in Jobs : i # j => status'[i] = status[i] /\ code'[i] = code[i]
    BY <2>1, <1>3 DEF Set
  <2>5. Kept(j)'
    <3>1. Once(j)'
      BY <2>2, <2>3 DEF Kept, Once, SameItems
    <3>2. Counted(j)'
      BY <2>2, <2>3 DEF Kept, Counted, SameItems
    <3>3. Earned(j)' /\ j \in complete'
      BY <2>2, <2>3, <2>4 DEF Earned, SameItems
    <3>. QED  BY <3>1, <3>2, <3>3, <2>4 DEF Kept
  <2>6. ASSUME NEW i \in Jobs, i # j  PROVE Kept(i)'
    BY <2>3, <2>4, <2>6, KeptAlone DEF ItemsInv
  <2>7. LateIsCancelled'
    BY <1>2, CancelledStays DEF ItemsInv, LateIsCancelled
  <2>8. ItemsPlaced'
    BY <2>1, <2>4 DEF ItemsPlaced, Discovering, Enqueuing, AtItem
  <2>. QED  BY <1>1, <2>5, <2>6, <2>7, <2>8 DEF ItemsInv
<1>. QED  BY <1>4, <1>5

(* A job is taken, or let go.                                              *)
LEMMA RoundItems ==
  ASSUME JobsAssumption, IInv, IInv', ItemsInv, WorkerFrame, Take \/ Leave,
         UNCHANGED <<code, failedPage, passVars, itemVars, attempt, got, taskVars, steady, faults>>
  PROVE  ItemsInv'
<1>1. Typed'
  <2>1. AskedTyped' /\ SiteTyped' /\ WorksTyped'
    BY WorkerFrameTyped DEF ItemsInv
  <2>2. FailureTyped' /\ PassTyped' /\ ItemTyped' /\ TaskTyped' /\ SteadyTyped' /\ BoundsTyped'
    BY DEF passVars, itemVars, taskVars, WorkerFrame, ItemsInv, Typed, FailureTyped, PassTyped,
           ItemTyped, TaskTyped, SteadyTyped, BoundsTyped
  <2>3. ThreadTyped'
    BY DEF Take, Leave, Goto, Places, ItemsInv, Typed, ThreadTyped
  <2>. QED  BY <2>1, <2>2, <2>3 DEF Typed
<1>2. \A i \in Jobs : \/ status'[i] = status[i]
                      \/ status'[i] \notin {"new", "completed", "partial"}
  BY DEF Take, Leave, Set, IInv, ControlTypeOK
<1>3. \A i \in Jobs : SameItems(i) /\ pass'[i] = pass[i] /\ steady'[i] = steady[i] /\ code'[i] = code[i]
  BY DEF SameItems, passVars, itemVars, taskVars
<1>4. ASSUME NEW i \in Jobs  PROVE Kept(i)'
  BY <1>2, <1>3, KeptAlone DEF ItemsInv
<1>5. late' = late
  BY DEF taskVars
<1>6. LateIsCancelled'
  BY <1>5, CancelledStays DEF ItemsInv, LateIsCancelled
<1>7. pc' \in {"begin", "idle"}
  BY DEF Take, Leave, Goto
<1>8. active' \in Jobs => status'[active'] # "new"
  <2>1. pc' = "idle" => active' = NoJob
    BY DEF IInv, WorkerPlaced
  <2>2. pc' = "begin" => status'[active'] \in Running
    BY DEF IInv, WorkerPlaced, Midway
  <2>. QED  BY <1>7, <2>1, <2>2, StatusNames, JobsAssumption
<1>9. ItemsPlaced'
  BY <1>7, <1>8 DEF ItemsPlaced, Discovering, Enqueuing, AtItem
<1>. QED  BY <1>1, <1>4, <1>6, <1>9 DEF ItemsInv

LEMMA WorkerItems ==
  ASSUME JobsAssumption, IInv, IInv', ItemsInv, Worker PROVE ItemsInv'
<1>0. WorkerFrame
  BY DEF Worker, WorkerFrame
<1>1. CASE active # NoJob /\ Work(active)
  <2> DEFINE j == active
  <2>1. j \in Jobs /\ j # NoJob /\ active' = j
    BY <1>1 DEF IInv, ControlTypeOK, Work
  <2>2. CASE /\ Begin(j) \/ Unfinished(j) \/ Discovered(j) \/ Drained(j)
             /\ UNCHANGED <<jobVars, passVars, itemVars, attempt, got, taskVars, steady, faults>>
    BY <1>0, <2>1, <2>2, LooksItems
  <2>3. CASE Load(j) /\ UNCHANGED <<jobVars, passVars, itemVars, taskVars>>
    BY <1>0, <2>1, <2>3, LoadItems
  <2>4. CASE Record(j) /\ UNCHANGED <<failed, queued, skipped, retryOnly, taskVars>>
    BY <1>0, <2>1, <2>4, RecordItems
  <2>5. CASE /\ Pick(j) \/ Lookup(j) \/ Capacity(j) \/ Create(j)
             /\ UNCHANGED <<jobVars, passVars, retryOnly, attempt, got, steady>>
    BY <1>0, <2>1, <2>5, ItemStepItems DEF ItemStep
  <2>6. CASE /\ GiveUp(j) \/ FailJob(j)
             /\ UNCHANGED <<passVars, itemVars, attempt, got, taskVars, steady, faults>>
    <3>1. UNCHANGED <<passVars, todo, failed, queued, skipped, attempt, got, taskVars, steady, faults>>
          /\ retryOnly' = retryOnly
      BY <2>6 DEF itemVars
    <3>. QED  BY <1>0, <2>1, <2>6, <3>1, EndsItems
  <2>7. CASE /\ Announce(j) \/ Conclude(j) \/ Finish(j)
             /\ UNCHANGED <<passVars, todo, failed, queued, skipped, attempt, got, taskVars,
                            steady, faults>>
    <3>1. pc \in {"announce", "conclude", "finish"}
      BY <2>7 DEF Announce, Conclude, Finish
    <3>2. ~GiveUp(j) /\ ~FailJob(j)
      BY <3>1 DEF GiveUp, FailJob
    <3>. QED  BY <1>0, <2>1, <2>7, <3>2, EndsItems
  <2>. QED  BY <1>1, <2>2, <2>3, <2>4, <2>5, <2>6, <2>7 DEF Work
<1>2. CASE /\ Take \/ Leave
           /\ UNCHANGED <<code, failedPage, passVars, itemVars, attempt, got, taskVars, steady,
                          faults>>
  BY <1>0, <1>2, RoundItems
<1>. QED  BY <1>1, <1>2 DEF Worker

(* The environment.                                                        *)
LEMMA EnvironmentTyped ==
  ASSUME JobsAssumption, Typed,
         \/ \E u \in Uids : Publish(u) \/ \E v \in Videos : Withdraw(u, v)
         \/ \E k \in Keys : ManualEnqueue(k) \/ TaskEnds(k) \/ RemoveWork(k)
  PROVE  Typed'
<1>1. ASSUME NEW u \in Uids, Publish(u)  PROVE Typed'
  <2>1. /\ FailureTyped' /\ PassTyped' /\ ItemTyped' /\ AskedTyped' /\ ThreadTyped' /\ TaskTyped'
        /\ WorksTyped'
    BY <1>1 DEF Publish, SiteFrame, jobVars, passVars, itemVars, requestVars, threadVars, taskVars,
                worksVars, Typed, FailureTyped, PassTyped, ItemTyped, AskedTyped, ThreadTyped,
                TaskTyped, WorksTyped
  <2>2. SteadyTyped' /\ BoundsTyped'
    BY <1>1 DEF Publish, SiteFrame, Typed, SteadyTyped, BoundsTyped
  <2>3. MaxVideos \in Nat /\ published[u] \in Nat /\ published[u] < MaxVideos
    BY <1>1, SizesAssumption DEF Publish, Typed, SiteTyped
  <2>4. /\ published' = [published EXCEPT ![u] = published[u] + 1]
        /\ live' = [live EXCEPT ![u] = live[u] \cup {published[u] + 1}]
    BY <1>1 DEF Publish
  <2>5. published[u] + 1 \in 0 .. MaxVideos /\ published[u] + 1 \in Videos
    BY <2>3 DEF Videos
  <2>6. published' \in [Uids -> 0 .. MaxVideos] /\ live' \in [Uids -> SUBSET Videos]
    BY <2>4, <2>5 DEF Typed, SiteTyped
  <2>7. \A w \in Uids : live'[w] \subseteq 1 .. published'[w]
    <3>1. ASSUME NEW w \in Uids, w # u  PROVE live'[w] \subseteq 1 .. published'[w]
      BY <2>4, <3>1 DEF Typed, SiteTyped
    <3>2. live[u] \subseteq 1 .. published[u]
      BY DEF Typed, SiteTyped
    <3>3. live[u] \cup {published[u] + 1} \subseteq 1 .. published[u] + 1
      BY <2>3, <3>2
    <3>4. live'[u] = live[u] \cup {published[u] + 1} /\ published'[u] = published[u] + 1
      BY <2>4 DEF Typed, SiteTyped
    <3>. QED  BY <3>1, <3>3, <3>4
  <2>. QED  BY <2>1, <2>2, <2>6, <2>7 DEF Typed, SiteTyped
<1>2. ASSUME NEW u \in Uids, NEW v \in Videos, Withdraw(u, v)  PROVE Typed'
  <2>1. /\ FailureTyped' /\ PassTyped' /\ ItemTyped' /\ AskedTyped' /\ ThreadTyped' /\ TaskTyped'
        /\ WorksTyped'
    BY <1>2 DEF Withdraw, SiteFrame, jobVars, passVars, itemVars, requestVars, threadVars, taskVars,
                worksVars, Typed, FailureTyped, PassTyped, ItemTyped, AskedTyped, ThreadTyped,
                TaskTyped, WorksTyped
  <2>2. BoundsTyped'
    BY <1>2 DEF Withdraw, SiteFrame, Typed, BoundsTyped
  <2>3. SteadyTyped'
    BY <1>2 DEF Withdraw, Typed, SteadyTyped
  <2>4. SiteTyped'
    <3>1. live' = [live EXCEPT ![u] = live[u] \ {v}] /\ published' = published
      BY <1>2 DEF Withdraw
    <3>2. \A w \in Uids : live'[w] \subseteq live[w]
      BY <3>1 DEF Typed, SiteTyped
    <3>3. live' \in [Uids -> SUBSET Videos]
      BY <3>1 DEF Typed, SiteTyped
    <3>. QED  BY <3>1, <3>2, <3>3 DEF Typed, SiteTyped
  <2>. QED  BY <2>1, <2>2, <2>3, <2>4 DEF Typed
<1>3. ASSUME NEW k \in Keys, ManualEnqueue(k) \/ TaskEnds(k) \/ RemoveWork(k)  PROVE Typed'
  <2>1. /\ FailureTyped' /\ PassTyped' /\ ItemTyped' /\ AskedTyped' /\ ThreadTyped' /\ SiteTyped'
        /\ SteadyTyped'
    BY <1>3 DEF ManualEnqueue, TaskEnds, RemoveWork, QueueFrame, jobVars, passVars, itemVars,
                requestVars, threadVars, siteVars, Typed, FailureTyped, PassTyped, ItemTyped,
                AskedTyped, ThreadTyped, SiteTyped, SteadyTyped
  <2>2. BoundsTyped'
    BY <1>3 DEF ManualEnqueue, TaskEnds, RemoveWork, QueueFrame, Typed, BoundsTyped
  <2>3. WorksTyped'
    BY <1>3 DEF ManualEnqueue, TaskEnds, RemoveWork, QueueFrame, Typed, WorksTyped
  <2>4. TaskTyped'
    BY <1>3 DEF ManualEnqueue, TaskEnds, RemoveWork, QueueFrame, Set, Typed, TaskTyped
  <2>. QED  BY <2>1, <2>2, <2>3, <2>4 DEF Typed
<1>. QED  BY <1>1, <1>2, <1>3

\* What the environment leaves alone.
LEMMA EnvironmentFrame ==
  ASSUME JobsAssumption, Typed,
         \/ \E u \in Uids : Publish(u) \/ \E v \in Videos : Withdraw(u, v)
         \/ \E k \in Keys : ManualEnqueue(k) \/ TaskEnds(k) \/ RemoveWork(k)
  PROVE  /\ UNCHANGED <<jobVars, passVars, itemVars, requestVars, threadVars, late>>
         /\ \A j \in Jobs : steady'[j] \subseteq steady[j]
         /\ \A j \in complete : steady'[j] = steady[j]
<1>1. ASSUME NEW u \in Uids, Publish(u)
      PROVE  UNCHANGED <<jobVars, passVars, itemVars, requestVars, threadVars, late, steady>>
  BY <1>1 DEF Publish, SiteFrame, taskVars
<1>2. ASSUME NEW u \in Uids, NEW v \in Videos, Withdraw(u, v)
      PROVE  /\ UNCHANGED <<jobVars, passVars, itemVars, requestVars, threadVars, late>>
             /\ \A j \in Jobs : steady'[j] \subseteq steady[j]
             /\ \A j \in complete : steady'[j] = steady[j]
  <2>1. UNCHANGED <<jobVars, passVars, itemVars, requestVars, threadVars, late>>
    BY <1>2 DEF Withdraw, SiteFrame, taskVars
  <2>2. steady' = [j \in Jobs |-> IF UidOf[j] = u /\ j \notin complete
                                  THEN steady[j] \ {v} ELSE steady[j]]
    BY <1>2 DEF Withdraw
  <2>3. complete \subseteq Jobs
    BY DEF Typed, PassTyped
  <2>. QED  BY <2>1, <2>2, <2>3
<1>3. ASSUME NEW k \in Keys, ManualEnqueue(k) \/ TaskEnds(k) \/ RemoveWork(k)
      PROVE  UNCHANGED <<jobVars, passVars, itemVars, requestVars, threadVars, late, steady>>
  BY <1>3 DEF ManualEnqueue, TaskEnds, RemoveWork, QueueFrame
<1>. QED  BY <1>1, <1>2, <1>3

LEMMA EnvironmentItems ==
  ASSUME JobsAssumption, IInv, ItemsInv,
         \/ \E u \in Uids : Publish(u) \/ \E v \in Videos : Withdraw(u, v)
         \/ \E k \in Keys : ManualEnqueue(k) \/ TaskEnds(k) \/ RemoveWork(k)
  PROVE  ItemsInv'
<1>1. Typed'
  BY EnvironmentTyped DEF ItemsInv
<1>2. /\ UNCHANGED <<jobVars, passVars, itemVars, requestVars, threadVars, late>>
      /\ \A j \in Jobs : steady'[j] \subseteq steady[j]
  BY EnvironmentFrame DEF ItemsInv
<1>3. ASSUME NEW i \in Jobs  PROVE Kept(i)'
  <2>1. SameItems(i) /\ code' = code /\ status' = status /\ pass' = pass
    BY <1>2 DEF SameItems, jobVars, passVars, itemVars
  <2>. QED  BY <1>2, <2>1, KeptAlone DEF ItemsInv
<1>4. \A i : Cancelled(i)' <=> Cancelled(i)
  BY <1>2 DEF Cancelled, requestVars
<1>5. LateIsCancelled'
  BY <1>2, <1>4 DEF ItemsInv, LateIsCancelled
<1>6. ItemsPlaced'
  BY <1>2, <1>4, PlacedAlone DEF ItemsInv, jobVars, passVars, itemVars, threadVars
<1>. QED  BY <1>1, <1>3, <1>5, <1>6 DEF ItemsInv

LEMMA NextItems ==
  ASSUME JobsAssumption, IInv, ItemsInv, [Next]_vars PROVE ItemsInv'
<1>0. IInv'
  BY NextIInv
<1>1. CASE Request
  BY <1>1, RequestItems
<1>2. CASE Worker
  BY <1>0, <1>2, WorkerItems
<1>3. CASE \/ \E u \in Uids : Publish(u) \/ \E v \in Videos : Withdraw(u, v)
           \/ \E k \in Keys : ManualEnqueue(k) \/ TaskEnds(k) \/ RemoveWork(k)
  BY <1>3, EnvironmentItems
<1>4. CASE UNCHANGED vars
  <2>1. UNCHANGED <<jobVars, passVars, itemVars, requestVars, threadVars, taskVars, siteVars,
                    worksVars, steady, bounds>>
    BY <1>4 DEF vars
  <2>2. Typed'
    BY <2>1 DEF jobVars, passVars, itemVars, requestVars, threadVars, taskVars, siteVars, worksVars,
                bounds, ItemsInv, Typed, FailureTyped, PassTyped, ItemTyped, AskedTyped, ThreadTyped,
                TaskTyped, SiteTyped, SteadyTyped, WorksTyped, BoundsTyped
  <2>3. ASSUME NEW i \in Jobs  PROVE Kept(i)'
    <3>1. SameItems(i) /\ code' = code /\ status' = status /\ pass' = pass /\ steady' = steady
      BY <2>1 DEF SameItems, jobVars, passVars, itemVars, taskVars
    <3>. QED  BY <3>1, KeptAlone DEF ItemsInv
  <2>4. \A i : Cancelled(i)' <=> Cancelled(i)
    BY <2>1 DEF Cancelled, requestVars
  <2>5. LateIsCancelled'
    BY <2>1, <2>4 DEF ItemsInv, LateIsCancelled, taskVars
  <2>6. ItemsPlaced'
    BY <2>1, <2>4, PlacedAlone DEF ItemsInv, jobVars, passVars, itemVars, threadVars, taskVars
  <2>. QED  BY <2>2, <2>3, <2>5, <2>6 DEF ItemsInv
<1>. QED  BY <1>1, <1>2, <1>3, <1>4 DEF Next

\* The items of every job are kept through retries, full queues, failures and
\* cancellations: the second inductive invariant.
THEOREM ImportItems == Spec => [](IInv /\ ItemsInv)
<1>1. Init => IInv /\ ItemsInv
  BY InitIInv, InitItemsInv
<1>2. IInv /\ ItemsInv /\ [Next]_vars => (IInv /\ ItemsInv)'
  BY NextIInv, NextItems, JobsAssumption
<1>. QED  BY <1>1, <1>2, PTL DEF Spec

\* A job that says it went through has gone through its items, and one that says it
\* completed has no failed item either (_run_job, _enqueue_pending, retry_failed).
THEOREM EndEarned == Spec => []EndIsEarned
<1>1. IInv /\ ItemsInv => EndIsEarned
  BY DEF ItemsInv, Kept, Earned, EndIsEarned
<1>. QED  BY <1>1, ImportItems, PTL

\* After a cancellation or a stop a job creates the one task it was about to
\* create, and no other (_enqueue_pending, cancel, stop).
THEOREM OneLate == Spec => OneLateTask
<1>1. IInv /\ ItemsInv /\ [Next]_vars
        => [\A j \in late : queued'[j] = queued[j] \/ j \notin late']_vars
  <2> SUFFICES ASSUME IInv, ItemsInv, Next, NEW j \in late
               PROVE  queued'[j] = queued[j] \/ j \notin late'
    OBVIOUS
  <2>0. j \in Jobs
    BY DEF ItemsInv, Typed, TaskTyped
  <2>1. CASE Request
    <3>1. queued' = queued
      BY <2>1 DEF Request, Stop, Start, CancelWaiting, CancelRunning, Resume, RetryFailed, BackInLine,
                  itemVars
    <3>. QED  BY <3>1
  <2>2. CASE Worker
    <3>1. CASE active # NoJob /\ ItemStep(active)
      <4>1. active \in Jobs
        BY <3>1 DEF IInv, ControlTypeOK
      <4>2. \/ queued' = queued
            \/ pc = "create" /\ Creates(active, Head(todo[active]))
        BY <3>1 DEF ItemStep, Pick, Lookup, Capacity, Create, Onward, Skips, ItemFails, Failed
      <4>3. CASE queued' = queued
        BY <4>3
      <4>4. CASE pc = "create" /\ Creates(active, Head(todo[active]))
        <5>1. active # j
          BY <4>4 DEF ItemsInv, ItemsPlaced, AtItem
        <5>2. queued' = Set(queued, active, queued[active] + 1)
          BY <4>4 DEF Creates
        <5>. QED  BY <2>0, <4>1, <5>1, <5>2 DEF Set, ItemsInv, Typed, ItemTyped
      <4>. QED  BY <4>2, <4>3, <4>4
    <3>2. CASE ~(active # NoJob /\ ItemStep(active))
      BY <2>2, <3>2 DEF Worker, Work, ItemStep, itemVars
    <3>. QED  BY <3>1, <3>2
  <2>3. CASE \/ \E u \in Uids : Publish(u) \/ \E v \in Videos : Withdraw(u, v)
             \/ \E k \in Keys : ManualEnqueue(k) \/ TaskEnds(k) \/ RemoveWork(k)
    BY <2>3, EnvironmentFrame, JobsAssumption DEF itemVars, ItemsInv
  <2>. QED  BY <2>1, <2>2, <2>3 DEF Next
<1>. QED  BY <1>1, ImportItems, PTL DEF Spec, OneLateTask

(***************************************************************************)
(* The window of the tasks of one job.                                     *)
(***************************************************************************)
HeldBy(j) == {k \in Keys : holder[k] = j}

WindowInv ==
  /\ \A j \in Jobs : IsFiniteSet(HeldBy(j)) /\ Cardinality(HeldBy(j)) <= WorkerWindow
  /\ pc = "create" => Cardinality(HeldBy(active)) < WorkerWindow

LEMMA FewerHeld ==
  ASSUME NEW S, NEW T, IsFiniteSet(S), T \subseteq S, NEW n \in Nat, Cardinality(S) <= n
  PROVE  IsFiniteSet(T) /\ Cardinality(T) <= n
<1>1. IsFiniteSet(T) /\ Cardinality(T) <= Cardinality(S)
  BY FS_Subset
<1>2. Cardinality(T) \in Nat /\ Cardinality(S) \in Nat
  BY <1>1, FS_CardinalityType
<1>. QED  BY <1>1, <1>2

LEMMA WindowAlone ==
  ASSUME WindowInv, \A j \in Jobs : HeldBy(j)' \subseteq HeldBy(j),
         pc' = "create" => active' \in Jobs /\ Cardinality(HeldBy(active')) < WorkerWindow
  PROVE  WindowInv'
<1>0. WorkerWindow \in Nat
  BY SizesAssumption
<1>1. ASSUME NEW j \in Jobs
      PROVE  /\ IsFiniteSet(HeldBy(j)') /\ Cardinality(HeldBy(j)') <= WorkerWindow
             /\ Cardinality(HeldBy(j)) < WorkerWindow => Cardinality(HeldBy(j)') < WorkerWindow
  <2> DEFINE S == HeldBy(j)
             T == HeldBy(j)'
  <2>1. IsFiniteSet(S) /\ Cardinality(S) <= WorkerWindow /\ T \subseteq S
    BY DEF WindowInv
  <2> HIDE DEF S, T
  <2>2. IsFiniteSet(T) /\ Cardinality(T) <= WorkerWindow
    BY <1>0, <2>1, FewerHeld
  <2>3. Cardinality(T) <= Cardinality(S) /\ Cardinality(T) \in Nat /\ Cardinality(S) \in Nat
    BY <2>1, <2>2, FS_Subset, FS_CardinalityType
  <2>. QED  BY <1>0, <2>2, <2>3 DEF S, T
<1>2. \A j \in Jobs : (IsFiniteSet(HeldBy(j)) /\ Cardinality(HeldBy(j)) <= WorkerWindow)'
  BY <1>1
<1>3. (pc = "create" => Cardinality(HeldBy(active)) < WorkerWindow)'
  <2> SUFFICES ASSUME pc' = "create"  PROVE Cardinality(HeldBy(active)') < WorkerWindow
    OBVIOUS
  <2>1. PICK a \in Jobs : a = active'
    OBVIOUS
  <2>2. Cardinality(HeldBy(a)') < WorkerWindow
    BY <1>1, <2>1
  <2>3. HeldBy(a)' = HeldBy(active)'
    BY <2>1 DEF HeldBy
  <2>. QED  BY <2>2, <2>3
<1>. QED  BY <1>2, <1>3 DEF WindowInv

LEMMA InitWindow == ASSUME JobsAssumption, Init PROVE WindowInv
<1>1. \A j \in Jobs : HeldBy(j) = {}
  BY DEF Init, HeldBy, JobsAssumption
<1>2. WorkerWindow \in Nat
  BY SizesAssumption
<1>3. pc # "create"
  BY DEF Init
<1>. QED  BY <1>1, <1>2, <1>3, FS_EmptySet DEF WindowInv

\* Whoever else uses the queue does not hold for a job.
LEMMA OthersHold ==
  ASSUME JobsAssumption, NEW k \in Keys, ManualEnqueue(k) \/ TaskEnds(k) \/ RemoveWork(k),
         ItemsInv, NEW j \in Jobs
  PROVE  HeldBy(j)' \subseteq HeldBy(j)
<1>1. holder \in [Keys -> Jobs \cup {Manual, Nobody}] /\ Manual # j /\ Nobody # j
  BY DEF ItemsInv, Typed, TaskTyped, JobsAssumption
<1>. QED  BY <1>1 DEF ManualEnqueue, TaskEnds, RemoveWork, Set, HeldBy

LEMMA NextWindow ==
  ASSUME JobsAssumption, IInv, ItemsInv, WindowInv, [Next]_vars PROVE WindowInv'
<1>0. pc = "create" => active \in Jobs
  BY MidwayRuns DEF Midway
<1>1. CASE Request
  <2>1. UNCHANGED <<holder, pc, active>>
    BY <1>1 DEF Request, threadVars
  <2>. QED  BY <1>0, <2>1, WindowAlone DEF HeldBy, WindowInv
<1>2. CASE Worker
  <2>1. CASE active # NoJob /\ Work(active)
    <3>0. PICK j \in Jobs : j = active
      BY <2>1 DEF IInv, ControlTypeOK
    <3>1. j \in Jobs /\ active' = j
      BY <2>1, <3>0 DEF Work
    <3>2. CASE holder' = holder /\ pc' # "create"
      BY <3>1, <3>2, WindowAlone DEF HeldBy
    <3>3. CASE Capacity(j)
      <4>1. holder' = holder
        BY <3>3 DEF Capacity, taskVars
      <4>2. pc' = "create" => BulkActive(j) < WorkerWindow
        BY <3>3 DEF Capacity, HasRoom, Onward, Goto
      <4>. QED  BY <3>1, <4>1, <4>2, WindowAlone DEF HeldBy, BulkActive
    <3>4. CASE pc = "create" /\ Creates(j, Head(todo[j]))
      <4> DEFINE k == Key(j, Head(todo[j]))
      <4>1. holder' = [holder EXCEPT ![k] = j] /\ pc' = "pick"
        BY <3>4 DEF Creates, Set, ItemDone, Goto
      <4> HIDE DEF k
      <4>2. holder \in [Keys -> Jobs \cup {Manual, Nobody}]
        BY DEF ItemsInv, Typed, TaskTyped
      <4>3. \A i \in Jobs : i # j => HeldBy(i)' \subseteq HeldBy(i)
        BY <4>1, <4>2 DEF HeldBy
      <4>4. HeldBy(j)' \subseteq HeldBy(j) \cup {k}
        BY <4>1, <4>2 DEF HeldBy
      <4>5. WorkerWindow \in Nat /\ IsFiniteSet(HeldBy(j)) /\ Cardinality(HeldBy(j)) < WorkerWindow
            /\ Cardinality(HeldBy(j)) \in Nat
        BY <3>0, <3>1, <3>4, SizesAssumption, FS_CardinalityType DEF WindowInv
      <4>6. IsFiniteSet(HeldBy(j) \cup {k}) /\ Cardinality(HeldBy(j) \cup {k}) <= WorkerWindow
        <5>1. /\ IsFiniteSet(HeldBy(j) \cup {k})
              /\ \/ Cardinality(HeldBy(j) \cup {k}) = Cardinality(HeldBy(j))
                 \/ Cardinality(HeldBy(j) \cup {k}) = Cardinality(HeldBy(j)) + 1
          BY <4>5, FS_AddElement
        <5>. QED  BY <4>5, <5>1
      <4>7. IsFiniteSet(HeldBy(j)') /\ Cardinality(HeldBy(j)') <= WorkerWindow
        BY <4>4, <4>5, <4>6, FewerHeld
      <4>8. ASSUME NEW i \in Jobs, i # j
            PROVE  IsFiniteSet(HeldBy(i)') /\ Cardinality(HeldBy(i)') <= WorkerWindow
        <5>1. IsFiniteSet(HeldBy(i)) /\ Cardinality(HeldBy(i)) <= WorkerWindow
              /\ HeldBy(i)' \subseteq HeldBy(i)
          BY <4>3, <4>8 DEF WindowInv
        <5>. QED  BY <5>1, <4>5, FewerHeld
      <4>9. \A i \in Jobs : IsFiniteSet(HeldBy(i)') /\ Cardinality(HeldBy(i)') <= WorkerWindow
        BY <4>7, <4>8 DEF HeldBy
      <4>. QED  BY <4>1, <4>9 DEF WindowInv
    <3>5. \/ holder' = holder /\ pc' # "create"
          \/ Capacity(j)
          \/ pc = "create" /\ Creates(j, Head(todo[j]))
      <4>1. CASE Begin(j) \/ Unfinished(j) \/ Discovered(j) \/ Drained(j)
        BY <2>1, <3>0, <4>1 DEF Work, Begin, Unfinished, Discovered, Drained, Look, Goto, taskVars,
             Load, Record, Pick, Lookup, Capacity, Create, GiveUp, FailJob, Announce, Conclude, Finish
      <4>2. CASE Load(j)
        BY <2>1, <3>0, <4>2 DEF Work, Load, Arrives, RequestFails, Goto, taskVars, Begin, Unfinished,
             Discovered, Drained, Look, Record, Pick, Lookup, Capacity, Create, GiveUp, FailJob,
             Announce, Conclude, Finish
      <4>3. CASE Record(j)
        <5>1. pc = "record" /\ pc' # "create"
          BY <4>3 DEF Record, RecordInvalid, RecordRaises, TurnPage, NextPass, Unstable, Stable, Goto
        <5>. QED  BY <2>1, <3>0, <5>1 DEF Work, taskVars, Begin, Unfinished, Discovered, Drained, Look,
             Load, Pick, Lookup, Capacity, Create, GiveUp, FailJob, Announce, Conclude, Finish
      <4>4. CASE Pick(j) \/ Lookup(j)
        BY <4>4 DEF Pick, Lookup, Onward, Skips, ItemFails, ItemDone, Goto, taskVars
      <4>5. CASE Create(j)
        BY <4>5 DEF Create, Onward, Skips, ItemFails, ItemDone, Goto, taskVars
      <4>6. CASE GiveUp(j) \/ FailJob(j) \/ Announce(j) \/ Conclude(j) \/ Finish(j)
        <5>1. pc \in {"giveup", "failjob", "announce", "conclude", "finish"} /\ pc' # "create"
          BY <4>6 DEF GiveUp, FailJob, Announce, Conclude, Finish, Goto
        <5>. QED  BY <2>1, <3>0, <5>1 DEF Work, taskVars, Begin, Unfinished, Discovered, Drained, Look,
             Load, Record, Pick, Lookup, Capacity, Create
      <4>. QED  BY <2>1, <3>0, <4>1, <4>2, <4>3, <4>4, <4>5, <4>6 DEF Work
    <3>. QED  BY <3>2, <3>3, <3>4, <3>5
  <2>2. CASE (Take \/ Leave) /\ UNCHANGED taskVars
    <3>1. holder' = holder /\ pc' # "create"
      BY <2>2 DEF Take, Leave, Goto, taskVars
    <3>. QED  BY <3>1, WindowAlone DEF HeldBy
  <2>. QED  BY <1>2, <2>1, <2>2 DEF Worker
<1>3. CASE \E u \in Uids : Publish(u) \/ \E v \in Videos : Withdraw(u, v)
  <2>1. UNCHANGED <<holder, pc, active>>
    BY <1>3 DEF Publish, Withdraw, SiteFrame, threadVars, taskVars
  <2>. QED  BY <1>0, <2>1, WindowAlone DEF HeldBy, WindowInv
<1>4. CASE \E k \in Keys : ManualEnqueue(k) \/ TaskEnds(k) \/ RemoveWork(k)
  <2>1. UNCHANGED <<pc, active>>
    BY <1>4 DEF ManualEnqueue, TaskEnds, RemoveWork, QueueFrame, threadVars
  <2>2. \A j \in Jobs : HeldBy(j)' \subseteq HeldBy(j)
    BY <1>4, OthersHold
  <2>3. pc' = "create" => active' \in Jobs /\ Cardinality(HeldBy(active')) < WorkerWindow
    BY <1>0, <2>1 DEF WindowInv
  <2>. QED  BY <2>2, <2>3, WindowAlone
<1>5. CASE UNCHANGED vars
  <2>1. UNCHANGED <<holder, pc, active>>
    BY <1>5 DEF vars, threadVars, taskVars
  <2>. QED  BY <1>0, <2>1, WindowAlone DEF HeldBy, WindowInv
<1>. QED  BY <1>1, <1>2, <1>3, <1>4, <1>5 DEF Next

THEOREM ImportWindow == Spec => [](IInv /\ ItemsInv /\ WindowInv)
<1>1. Init => WindowInv
  BY InitWindow, JobsAssumption
<1>2. IInv /\ ItemsInv /\ WindowInv /\ [Next]_vars => WindowInv'
  BY NextWindow, JobsAssumption
<1>. QED  BY <1>1, <1>2, ImportItems, PTL DEF Spec

\* The items of a job are where they should be: of their types, each discovered
\* video queued, skipped, failed or to do, the tasks within the window
\* (_enqueue_pending, _wait_for_capacity).
THEOREM ItemsSafe == Spec => []ItemsAreSafe
<1>1. IInv /\ ItemsInv /\ WindowInv => ItemsAreSafe
  <2> SUFFICES ASSUME IInv, ItemsInv, WindowInv  PROVE ItemsAreSafe
    OBVIOUS
  <2>1. TypeOK
    BY TypedIsTypeOK DEF ItemsInv
  <2>2. EveryItemCounted
    BY DEF ItemsInv, Typed, PassTyped, Kept, Counted, EveryItemCounted
  <2>3. OwnWindow
    BY DEF WindowInv, OwnWindow, BulkActive, HeldBy
  <2>. QED  BY <2>1, <2>2, <2>3 DEF ItemsAreSafe
<1>. QED  BY <1>1, ImportWindow, PTL

(***************************************************************************)
(* The discovery.  While the total that the site reports stays what the    *)
(* pass began with, a video that stays listed only moves down the list: of *)
(* the videos counted in that total, those not newer than it can only      *)
(* become fewer.  So it cannot slip onto a page that has been read.        *)
(***************************************************************************)
Below(j, v) == {w \in live[UidOf[j]] : w <= v}

\* With total t, v is on none of the first p pages.
Past(j, t, v, p) == t - Cardinality(Below(j, v)) >= p * PageSize

Unchanged(j) == pass[j].total # NoTotal /\ ~pass[j].changed

Sighted(j) ==
  /\ pass[j].pages = PageCount(pass[j].total)
  /\ \A v \in steady[j] : v \in items[j] \/ Past(j, pass[j].total, v, nextPage[j] - 1)

\* What a pass knows of the videos that have been listed all through it.
Seen(j) ==
  /\ steady[j] \subseteq live[UidOf[j]] /\ \A v \in steady[j] : v <= cutoff[j]
  /\ nextPage[j] >= 1
  /\ pass[j].total = NoTotal => nextPage[j] = 1 /\ ~pass[j].changed
  /\ Unchanged(j) => Sighted(j)

\* What the page in hand shows of them.
Shown(j) ==
  \A v \in steady[j] :
    \/ v \in items[j]
    \/ /\ Past(j, got.total, v, nextPage[j] - 1)
       /\ v \in got.items \/ Past(j, got.total, v, nextPage[j])

InHand ==
  pc = "record" =>
    /\ got.pages = PageCount(got.total)
    /\ ~pass[active].changed /\ pass[active].total \in {NoTotal, got.total} => Shown(active)

DiscoveryInv ==
  /\ DiscoveryMissesNothing
  /\ \A j \in Jobs \ complete : Seen(j)
  /\ InHand

LEMMA BelowFinite ==
  ASSUME JobsAssumption, Typed, NEW j \in Jobs, NEW v
  PROVE  IsFiniteSet(Below(j, v)) /\ Cardinality(Below(j, v)) \in Nat
<1>1. live[UidOf[j]] \in SUBSET Videos
  BY DEF Typed, SiteTyped, JobsAssumption
<1>2. Below(j, v) \in SUBSET Videos
  BY <1>1 DEF Below
<1>. QED  BY <1>2, VideosFinite

\* A listed video is somewhere in the list: so many are newer, the others are not.
LEMMA PlaceInList ==
  ASSUME JobsAssumption, Typed, NEW j \in Jobs, NEW v \in live[UidOf[j]]
  PROVE  /\ Newer(live[UidOf[j]], v) = Cardinality(live[UidOf[j]]) - Cardinality(Below(j, v))
         /\ Newer(live[UidOf[j]], v) \in Nat /\ Cardinality(live[UidOf[j]]) \in Nat
         /\ Cardinality(Below(j, v)) \in Nat /\ Cardinality(Below(j, v)) >= 1
<1> DEFINE L == live[UidOf[j]]
           A == {w \in L : w > v}
           B == Below(j, v)
<1>1. L \in SUBSET Videos /\ v \in Videos
  BY DEF Typed, SiteTyped, JobsAssumption
<1>2. Videos \subseteq Nat
  BY VideosFinite
<1>3. \A w \in L : ~(w > v) <=> w <= v
  <2>1. ASSUME NEW w \in L  PROVE ~(w > v) <=> w <= v
    <3>1. w \in Nat /\ v \in Nat
      BY <1>1, <1>2
    <3>. QED  BY <3>1
  <2>. QED  BY <2>1
<1>4. A \in SUBSET Videos /\ B \in SUBSET Videos /\ L = A \cup B /\ A \cap B = {} /\ v \in B
  BY <1>1, <1>2, <1>3 DEF Below
<1> HIDE DEF L, A, B
<1>5. /\ IsFiniteSet(A) /\ IsFiniteSet(B) /\ Cardinality(A) \in Nat /\ Cardinality(B) \in Nat
      /\ Cardinality(L) \in Nat
  BY <1>1, <1>4, VideosFinite
<1>6. Cardinality(L) = Cardinality(A) + Cardinality(B)
  <2>1. Cardinality(A \cup B) = Cardinality(A) + Cardinality(B) - Cardinality(A \cap B)
    BY <1>5, FS_Union
  <2>2. Cardinality(A \cap B) = 0
    BY <1>4, FS_EmptySet
  <2>. QED  BY <1>4, <1>5, <2>1, <2>2
<1>7. Cardinality(B) # 0
  BY <1>4, <1>5, FS_EmptySet
<1>8. Cardinality(A) = Cardinality(L) - Cardinality(B) /\ Cardinality(B) >= 1
  BY <1>5, <1>6, <1>7
<1>. QED  BY <1>5, <1>8 DEF L, A, B, Newer

\* On page p, or on a later one.
LEMMA OnPageOrPast ==
  ASSUME JobsAssumption, Typed, NEW j \in Jobs, NEW v \in live[UidOf[j]], NEW p \in Nat,
         Past(j, Cardinality(live[UidOf[j]]), v, p - 1)
  PROVE  v \in Page(UidOf[j], p) \/ Past(j, Cardinality(live[UidOf[j]]), v, p)
<1> DEFINE n == Newer(live[UidOf[j]], v)
           t == Cardinality(live[UidOf[j]])
           b == Cardinality(Below(j, v))
           a == (p - 1) * PageSize
           z == p * PageSize
<1>1. n = t - b /\ n \in Nat /\ t \in Nat /\ b \in Nat
  BY PlaceInList
<1>2. PageSize \in Nat
  BY SizesAssumption
<1>3. a \in Int /\ z \in Int
  BY <1>2
<1>4. t - b >= a
  BY DEF Past
<1>5. Past(j, t, v, p) <=> t - b >= z
  BY DEF Past
<1>6. v \in Page(UidOf[j], p) <=> n \in a .. z - 1
  BY DEF Page
<1> HIDE DEF n, t, b, a, z
<1>7. n \in a .. z - 1 \/ t - b >= z
  BY <1>1, <1>3, <1>4
<1>8. v \in Page(UidOf[j], p) \/ Past(j, t, v, p)
  BY <1>5, <1>6, <1>7
<1>. QED  BY <1>8 DEF t

\* No listed video is past the last page.
LEMMA NothingPastTheEnd ==
  ASSUME JobsAssumption, Typed, NEW j \in Jobs, NEW v \in live[UidOf[j]], NEW t \in Nat,
         NEW p \in Nat, p >= PageCount(t)
  PROVE  ~Past(j, t, v, p)
<1> DEFINE b == Cardinality(Below(j, v))
           m == PageCount(t)
<1>1. b \in Nat /\ b >= 1
  BY PlaceInList
<1>2. PageSize \in Nat /\ m \in Nat /\ m * PageSize >= t
  BY CountsTyped, SizesAssumption
<1> HIDE DEF b, m
<1>3. (p - m) \in Nat
  BY <1>2 DEF m
<1>4. (p - m) * PageSize >= 0
  BY <1>2, <1>3
<1>5. p * PageSize = m * PageSize + (p - m) * PageSize
  BY <1>2, <1>3
<1>6. p * PageSize >= t
  <2> DEFINE x == p * PageSize
             y == m * PageSize
             w == (p - m) * PageSize
  <2>1. x \in Int /\ y \in Int /\ w \in Int
    BY <1>2, <1>3
  <2>2. x = y + w /\ w >= 0 /\ y >= t
    BY <1>2, <1>4, <1>5
  <2> HIDE DEF x, y, w
  <2>3. x >= t
    BY <2>1, <2>2
  <2>. QED  BY <2>3 DEF x
<1>7. p * PageSize \in Int
  BY <1>2
<1>8. ~(t - b >= p * PageSize)
  BY <1>1, <1>6, <1>7
<1>. QED  BY <1>8 DEF Past, b

(* What keeps what is known.                                               *)

\* Of the videos listed throughout, none is added, and none gets more below it.
ViewKept(i) ==
  /\ steady'[i] \subseteq steady[i] /\ steady'[i] \subseteq live'[UidOf[i]]
  /\ \A v \in steady'[i] : Below(i, v)' \subseteq Below(i, v)

LEMMA PastKept ==
  ASSUME JobsAssumption, Typed, Typed', NEW i \in Jobs, NEW v, NEW t \in Nat, NEW p \in Int,
         Below(i, v)' \subseteq Below(i, v), Past(i, t, v, p)
  PROVE  Past(i, t, v, p)'
<1> DEFINE S == Below(i, v)
           T == Below(i, v)'
<1>1. T \subseteq S /\ IsFiniteSet(S) /\ Cardinality(S) \in Nat
  BY BelowFinite
<1>2. t - Cardinality(S) >= p * PageSize
  BY DEF Past
<1>3. PageSize \in Nat
  BY SizesAssumption
<1> HIDE DEF S, T
<1>4. IsFiniteSet(T) /\ Cardinality(T) <= Cardinality(S) /\ Cardinality(T) \in Nat
  BY <1>1, FS_Subset, FS_CardinalityType
<1>5. p * PageSize \in Int
  BY <1>3
<1>6. t - Cardinality(T) >= p * PageSize
  BY <1>1, <1>2, <1>4, <1>5
<1>. QED  BY <1>6 DEF Past, T

LEMMA SeenAlone ==
  ASSUME JobsAssumption, Typed, Typed', NEW i \in Jobs, Seen(i), ViewKept(i),
         items'[i] = items[i], nextPage'[i] = nextPage[i], pass'[i] = pass[i],
         cutoff'[i] = cutoff[i]
  PROVE  Seen(i)'
<1>1. pass[i] \in Passes /\ nextPage[i] \in Nat
  BY DEF Typed, PassTyped
<1>2. ASSUME Unchanged(i), NEW v \in steady'[i]
      PROVE  v \in items[i] \/ Past(i, pass[i].total, v, nextPage[i] - 1)'
  <2>1. v \in steady[i] /\ Below(i, v)' \subseteq Below(i, v)
    BY DEF ViewKept
  <2>2. CASE v \in items[i]
    BY <2>2
  <2>3. CASE Past(i, pass[i].total, v, nextPage[i] - 1)
    <3>1. pass[i].total \in Nat /\ nextPage[i] - 1 \in Int
      BY <1>1, <1>2 DEF Unchanged, Passes
    <3>2. PICK t \in Nat, p \in Int : t = pass[i].total /\ p = nextPage[i] - 1
      BY <3>1
    <3>3. Past(i, t, v, p)'
      BY <2>1, <2>3, <3>2, PastKept
    <3>. QED  BY <3>2, <3>3 DEF Past
  <2>. QED  BY <1>2, <2>1, <2>2, <2>3 DEF Seen, Sighted
<1>3. (Unchanged(i) => Sighted(i))'
  BY <1>2 DEF Unchanged, Sighted, Seen, Past
<1>. QED  BY <1>3 DEF Seen, ViewKept

LEMMA HandAlone ==
  ASSUME JobsAssumption, Typed, Typed', InHand, NEW a \in Jobs, active = a,
         UNCHANGED <<pc, active, got>>, ViewKept(a),
         items'[a] = items[a], nextPage'[a] = nextPage[a], pass'[a] = pass[a]
  PROVE  InHand'
<1>1. got.total \in Nat /\ nextPage[a] \in Nat
  BY DEF Typed, ThreadTyped, PassTyped, Pages
<1>2. PICK t \in Nat, n \in Nat : t = got.total /\ n = nextPage[a]
  BY <1>1
<1>3. ASSUME Shown(a)  PROVE Shown(a)'
  <2>1. ASSUME NEW v \in steady'[a], v \notin items[a]
        PROVE  /\ Past(a, t, v, n - 1)'
               /\ v \in got.items \/ Past(a, t, v, n)'
    <3>1. /\ Below(a, v)' \subseteq Below(a, v) /\ Past(a, t, v, n - 1)
          /\ v \in got.items \/ Past(a, t, v, n)
      BY <1>2, <1>3, <2>1 DEF ViewKept, Shown
    <3>2. n - 1 \in Int /\ n \in Int
      OBVIOUS
    <3>. QED  BY <3>1, <3>2, PastKept
  <2>2. \A v \in steady'[a] : v \notin items[a] =>
          /\ Past(a, got.total, v, nextPage[a] - 1)'
          /\ v \in got.items \/ Past(a, got.total, v, nextPage[a])'
    BY <1>2, <2>1 DEF Past
  <2>. QED  BY <2>2 DEF Shown
<1>. QED  BY <1>3 DEF InHand

(* The steps.                                                              *)
LEMMA InitDiscovery == ASSUME JobsAssumption, Init PROVE DiscoveryInv
<1>1. complete = {} /\ pc # "record"
  BY DEF Init
<1>2. ASSUME NEW j \in Jobs  PROVE Seen(j)
  <2>1. /\ steady[j] = {} /\ nextPage[j] = 1 /\ pass[j].total = NoTotal /\ ~pass[j].changed
    BY DEF Init, NewPass
  <2>. QED  BY <2>1 DEF Seen, Unchanged
<1>. QED  BY <1>1, <1>2 DEF DiscoveryInv, DiscoveryMissesNothing, InHand

\* A step that touches neither the list nor what is known of it.
LEMMA DiscoveryStays ==
  ASSUME DiscoveryInv, UNCHANGED <<nextPage, pass, items, complete, cutoff, live, steady>>,
         pc' # "record" \/ UNCHANGED <<pc, active, got>>
  PROVE  DiscoveryInv'
<1>1. DiscoveryMissesNothing'
  BY DEF DiscoveryInv, DiscoveryMissesNothing
<1>2. \A j \in Jobs \ complete : Seen(j)'
  BY DEF DiscoveryInv, Seen, Unchanged, Sighted, Past, Below
<1>3. InHand'
  BY DEF DiscoveryInv, InHand, Shown, Past, Below
<1>. QED  BY <1>1, <1>2, <1>3 DEF DiscoveryInv

\* One job is read differently, the page in hand is not its.
LEMMA DiscoveryOfOne ==
  ASSUME JobsAssumption, IInv, ItemsPlaced, Typed, Typed', DiscoveryInv, NEW j \in Jobs,
         j \notin complete, complete' = complete,
         UNCHANGED <<live, steady, pc, active, got>>,
         pc = "record" => active # j,
         \A i \in Jobs : i # j => /\ nextPage'[i] = nextPage[i] /\ pass'[i] = pass[i]
                                  /\ items'[i] = items[i] /\ cutoff'[i] = cutoff[i],
         Seen(j)'
  PROVE  DiscoveryInv'
<1>1. \A i, v : Below(i, v)' = Below(i, v)
  BY DEF Below
<1>2. \A i \in Jobs \ complete : ViewKept(i)
  BY <1>1 DEF ViewKept, DiscoveryInv, Seen
<1>3. ASSUME NEW i \in Jobs \ complete  PROVE Seen(i)'
  BY <1>2, <1>3, SeenAlone DEF DiscoveryInv
<1>4. DiscoveryMissesNothing'
  <2>1. \A i \in complete : i \in Jobs /\ i # j
    BY DEF Typed, PassTyped
  <2>. QED  BY <2>1 DEF DiscoveryInv, DiscoveryMissesNothing
<1>5. InHand'
  <2> SUFFICES ASSUME pc = "record"  PROVE InHand'
    BY DEF InHand
  <2>1. PICK a \in Jobs : a = active
    BY MidwayRuns DEF Midway
  <2>2. a \notin complete
    BY <2>1 DEF ItemsPlaced, Discovering
  <2>3. ViewKept(a)
    BY <1>2, <2>2
  <2>. QED  BY <2>1, <2>3, HandAlone DEF DiscoveryInv
<1>. QED  BY <1>3, <1>4, <1>5 DEF DiscoveryInv

LEMMA RequestDiscovery ==
  ASSUME JobsAssumption, IInv, ItemsInv, DiscoveryInv, Request PROVE DiscoveryInv'
<1>0. UNCHANGED <<pc, active, got, live, steady>> /\ Typed /\ Typed' /\ ItemsPlaced
  BY RequestTyped DEF Request, threadVars, siteVars, ItemsInv
<1>1. CASE Stop
  <2>1. UNCHANGED <<nextPage, pass, items, complete, cutoff>>
    BY <1>1 DEF Stop, passVars
  <2>. QED  BY <1>0, <2>1, DiscoveryStays
<1>2. ASSUME NEW j \in Jobs, CancelWaiting(j) \/ CancelRunning(j) \/ RetryFailed(j)
      PROVE  DiscoveryInv'
  <2>1. UNCHANGED <<nextPage, pass, items, complete, cutoff>>
    BY <1>2 DEF CancelWaiting, CancelRunning, RetryFailed, BackInLine, passVars
  <2>. QED  BY <1>0, <2>1, DiscoveryStays
<1>3. ASSUME NEW j \in Jobs, Start(j)  PROVE DiscoveryInv'
  <2>1. /\ status[j] = "new" /\ UNCHANGED <<nextPage, pass, items, complete>>
        /\ cutoff' = Set(cutoff, j, published[UidOf[j]])
    BY <1>3 DEF Start, passVars
  <2>2. j \notin complete /\ steady[j] = {} /\ pass[j].total = NoTotal
    BY <2>1 DEF ItemsInv, Kept
  <2>3. pc = "record" => active # j
    BY <2>1, MidwayRuns DEF Midway
  <2>4. Seen(j)
    BY <2>2 DEF DiscoveryInv
  <2>5. Seen(j)'
    BY <1>0, <2>1, <2>2, <2>4 DEF Seen, Unchanged
  <2>6. \A i \in Jobs : i # j => cutoff'[i] = cutoff[i]
    BY <2>1 DEF Set, ItemsInv, Typed, AskedTyped
  <2>. QED  BY <1>0, <2>1, <2>2, <2>3, <2>5, <2>6, DiscoveryOfOne
<1>4. ASSUME NEW j \in Jobs, Resume(j)  PROVE DiscoveryInv'
  <2>1. CASE code[j] # "source_unstable"
    <3>1. UNCHANGED <<nextPage, pass, items, complete, cutoff>>
      BY <1>4, <2>1 DEF Resume, BackInLine, passVars
    <3>. QED  BY <1>0, <3>1, DiscoveryStays
  <2>2. CASE code[j] = "source_unstable"
    <3>1. /\ nextPage' = Set(nextPage, j, 1) /\ pass' = Set(pass, j, NewPass)
          /\ items' = Set(items, j, {}) /\ complete' = complete \ {j} /\ cutoff' = cutoff
          /\ status[j] = "failed"
      BY <1>4, <2>2 DEF Resume, BackInLine
    <3>2. j \notin complete
      BY <2>2 DEF ItemsInv, Kept
    <3>3. pc = "record" => active # j
      BY <3>1, MidwayRuns DEF Midway
    <3>4. nextPage'[j] = 1 /\ pass'[j] = NewPass
      BY <1>0, <3>1 DEF Set, Typed, PassTyped
    <3>5. Seen(j)
      BY <3>2 DEF DiscoveryInv
    <3>6. Seen(j)'
      BY <1>0, <3>1, <3>4, <3>5 DEF Seen, Unchanged, NewPass
    <3>7. \A i \in Jobs : i # j => /\ nextPage'[i] = nextPage[i] /\ pass'[i] = pass[i]
                                   /\ items'[i] = items[i]
      BY <1>0, <3>1 DEF Set, Typed, PassTyped
    <3>. QED  BY <1>0, <3>1, <3>2, <3>3, <3>6, <3>7, DiscoveryOfOne
  <2>. QED  BY <2>1, <2>2
<1>. QED  BY <1>1, <1>2, <1>3, <1>4 DEF Request

\* A page arrives: it shows what is on it, and what is not yet past is on it.
LEMMA ArrivesDiscovery ==
  ASSUME JobsAssumption, IInv, ItemsInv, DiscoveryInv, WorkerFrame, Typed', NEW j \in Jobs,
         active = j, active' = j, pc = "load", Arrives(j), UNCHANGED passVars
  PROVE  DiscoveryInv'
<1> DEFINE L == live[UidOf[j]]
<1>1. /\ pc' = "record" /\ live' = live /\ cutoff' = cutoff
      /\ UNCHANGED <<nextPage, passNo, pass, items, complete>>
  BY DEF Arrives, Goto, WorkerFrame, siteVars, passVars
<1>2. /\ got'.total = Cardinality(L) /\ got'.pages = PageCount(Cardinality(L))
      /\ got'.items = Page(UidOf[j], nextPage[j])
  BY DEF Arrives
<1>3. j \notin complete /\ Typed
  BY DEF ItemsInv, ItemsPlaced, Discovering
<1>4. steady' = IF pass[j].total = NoTotal THEN Set(steady, j, L \cap 1 .. cutoff[j]) ELSE steady
  BY DEF Arrives
<1>5. /\ \A i \in Jobs : i # j => steady'[i] = steady[i]
      /\ steady'[j] = IF pass[j].total = NoTotal THEN L \cap 1 .. cutoff[j] ELSE steady[j]
  BY <1>3, <1>4 DEF Set, Typed, SteadyTyped
<1>6. \A i, v : Below(i, v)' = Below(i, v)
  BY <1>1 DEF Below
<1>7. cutoff[j] \in Nat
  <2>1. cutoff[j] \in 0 .. MaxVideos /\ MaxVideos \in Nat
    BY <1>3, SizesAssumption DEF Typed, AskedTyped
  <2>. QED  BY <2>1
<1>8. ASSUME NEW i \in Jobs \ complete, i # j  PROVE Seen(i)'
  <2>1. Seen(i)
    BY DEF DiscoveryInv
  <2>2. ViewKept(i)
    BY <1>1, <1>5, <1>6, <1>8, <2>1 DEF ViewKept, Seen
  <2>. QED  BY <1>1, <1>3, <2>1, <2>2, SeenAlone
<1>9. Seen(j)
  BY <1>3 DEF DiscoveryInv
<1>10. steady'[j] \subseteq L /\ \A v \in steady'[j] : v <= cutoff[j]
  BY <1>5, <1>7, <1>9 DEF Seen
<1>11. Seen(j)'
  <2>1. CASE pass[j].total = NoTotal
    BY <1>1, <1>9, <1>10, <2>1 DEF Seen, Unchanged
  <2>2. CASE pass[j].total # NoTotal
    <3>1. ViewKept(j)
      BY <1>1, <1>5, <1>6, <1>9, <2>2 DEF ViewKept, Seen
    <3>. QED  BY <1>1, <1>3, <1>9, <3>1, SeenAlone
  <2>. QED  BY <2>1, <2>2
<1>12. DiscoveryMissesNothing'
  <2>1. \A i \in complete : i \in Jobs /\ i # j
    BY <1>3 DEF Typed, PassTyped
  <2>. QED  BY <1>1, <1>5, <2>1 DEF DiscoveryInv, DiscoveryMissesNothing
<1>13. InHand'
  <2>1. PICK t \in Nat, n \in Nat : t = Cardinality(L) /\ n = nextPage[j]
    <3>1. L \in SUBSET Videos /\ nextPage[j] \in Nat
      BY <1>3 DEF Typed, SiteTyped, PassTyped, JobsAssumption
    <3>. QED  BY <3>1, VideosFinite
  <2>2. ASSUME ~pass[j].changed, pass[j].total \in {NoTotal, t}, NEW v \in steady'[j],
               v \notin items[j]
        PROVE  /\ Past(j, t, v, n - 1)
               /\ v \in Page(UidOf[j], n) \/ Past(j, t, v, n)
    <3>1. v \in L
      BY <1>10
    <3>2. Past(j, t, v, n - 1)
      <4>1. CASE pass[j].total = NoTotal
        <5>1. n = 1
          BY <1>9, <2>1, <4>1 DEF Seen
        <5>2. Newer(L, v) = t - Cardinality(Below(j, v)) /\ Newer(L, v) \in Nat
          BY <1>3, <2>1, <3>1, PlaceInList
        <5>3. (n - 1) * PageSize = 0
          BY <5>1, SizesAssumption
        <5>4. t - Cardinality(Below(j, v)) >= 0
          BY <5>2
        <5>. QED  BY <5>3, <5>4 DEF Past
      <4>2. CASE pass[j].total # NoTotal
        <5>1. Unchanged(j) /\ pass[j].total = t /\ v \in steady[j]
          BY <1>5, <2>2, <4>2 DEF Unchanged
        <5>. QED  BY <1>9, <2>1, <2>2, <5>1 DEF Seen, Sighted
      <4>. QED  BY <4>1, <4>2
    <3>3. v \in Page(UidOf[j], n) \/ Past(j, t, v, n)
      BY <1>3, <2>1, <3>1, <3>2, OnPageOrPast
    <3>. QED  BY <3>2, <3>3
  <2>3. ASSUME ~pass[j].changed, pass[j].total \in {NoTotal, t}  PROVE Shown(j)'
    <3>1. \A v \in steady'[j] : \/ v \in items[j]
                                \/ /\ Past(j, t, v, n - 1)
                                   /\ v \in Page(UidOf[j], n) \/ Past(j, t, v, n)
      BY <2>2, <2>3
    <3>2. \A v \in steady'[j] :
            \/ v \in items'[j]
            \/ /\ Past(j, got.total, v, nextPage[j] - 1)'
               /\ v \in got'.items \/ Past(j, got.total, v, nextPage[j])'
      BY <1>1, <1>2, <1>6, <2>1, <3>1 DEF Past
    <3>. QED  BY <3>2 DEF Shown
  <2>4. got'.pages = PageCount(got'.total)
    BY <1>2
  <2>5. Shown(active)' <=> Shown(j)'
    BY DEF Shown, Past, Below
  <2>. QED  BY <1>1, <1>2, <2>1, <2>3, <2>4, <2>5 DEF InHand
<1>. QED  BY <1>1, <1>8, <1>11, <1>12, <1>13 DEF DiscoveryInv

\* What reading the counts of the page in hand tells.
LEMMA CountsRead ==
  ASSUME DiscoveryInv, Typed, NEW j \in Jobs \ complete, pc = "record", active = j
  PROVE  /\ Observed(j).total # NoTotal
         /\ ~Observed(j).changed => /\ Observed(j).total = got.total
                                    /\ Observed(j).pages = PageCount(got.total)
                                    /\ Shown(j)
<1>1. got.total \in Nat /\ got.pages = PageCount(got.total)
  BY DEF DiscoveryInv, InHand, Typed, ThreadTyped, Pages
<1>2. pass[j] \in Passes /\ NoTotal \notin Nat
  BY NewPassTyped DEF Typed, PassTyped
<1>3. CASE pass[j].total = NoTotal
  <2>1. ~pass[j].changed
    BY <1>3 DEF DiscoveryInv, Seen
  <2>2. Shown(j)
    BY <1>3, <2>1 DEF DiscoveryInv, InHand
  <2>. QED  BY <1>1, <1>2, <1>3, <2>2 DEF Observed
<1>4. CASE pass[j].total # NoTotal
  <2>1. CASE got.total # pass[j].total \/ got.pages # pass[j].pages
    BY <1>2, <1>4, <2>1 DEF Observed, Passes
  <2>2. CASE got.total = pass[j].total /\ got.pages = pass[j].pages
    <3>1. Observed(j) = pass[j]
      BY <1>4, <2>2 DEF Observed
    <3>2. ~pass[j].changed => Shown(j)
      BY <2>2 DEF DiscoveryInv, InHand
    <3>. QED  BY <1>1, <1>4, <2>2, <3>1, <3>2
  <2>. QED  BY <2>1, <2>2
<1>. QED  BY <1>3, <1>4

\* What the page shows of the videos of the job's scope is collected.
LEMMA PageRead ==
  ASSUME DiscoveryInv, Typed, NEW j \in Jobs \ complete, pc = "record", active = j,
         ~Observed(j).changed, NEW v \in steady[j]
  PROVE  v \in Collected(j) \/ Past(j, got.total, v, nextPage[j])
<1>1. Shown(j)
  BY CountsRead
<1>2. v <= cutoff[j]
  BY DEF DiscoveryInv, Seen
<1>. QED  BY <1>1, <1>2 DEF Shown, Collected, Fresh

LEMMA RecordDiscovery ==
  ASSUME JobsAssumption, ItemsInv, Typed', DiscoveryInv, WorkerFrame, NEW j \in Jobs, active = j,
         Record(j)
  PROVE  DiscoveryInv'
<1>1. /\ pc = "record" /\ Typed /\ j \in Jobs \ complete
      /\ UNCHANGED <<live, steady, cutoff>>
  BY DEF Record, WorkerFrame, siteVars, ItemsInv, ItemsPlaced, Discovering
<1>2. \A i, v : Below(i, v)' = Below(i, v)
  BY <1>1 DEF Below
<1>3. pc' # "record"
  BY DEF Record, RecordInvalid, RecordRaises, TurnPage, NextPass, Unstable, Stable, Goto
<1>4. \A i \in Jobs \ complete : Seen(i) /\ ViewKept(i)
  BY <1>1, <1>2 DEF ViewKept, DiscoveryInv, Seen
<1>5. ASSUME NEW i \in Jobs, i # j
      PROVE  /\ pass'[i] = pass[i] /\ items'[i] = items[i] /\ nextPage'[i] = nextPage[i]
             /\ i \in complete' <=> i \in complete
  <2>1. pass'[i] = pass[i]
    BY <1>1, <1>5 DEF Record, RecordInvalid, RecordRaises, TurnPage, NextPass, Unstable, Stable,
                      Reads, Set, Typed, PassTyped
  <2>2. items'[i] = items[i]
    BY <1>1, <1>5 DEF Record, RecordInvalid, RecordRaises, TurnPage, NextPass, Unstable, Stable,
                      Reads, Set, Typed, PassTyped
  <2>3. nextPage'[i] = nextPage[i] /\ (i \in complete' <=> i \in complete)
    BY <1>1, <1>5 DEF Record, RecordInvalid, RecordRaises, TurnPage, NextPass, Unstable, Stable,
                      Set, Typed, PassTyped
  <2>. QED  BY <2>1, <2>2, <2>3
<1>6. ASSUME NEW i \in Jobs \ complete, i # j  PROVE Seen(i)'
  BY <1>1, <1>4, <1>5, <1>6, SeenAlone
<1>7. \A i \in complete : steady'[i] \subseteq items'[i]
  <2>1. \A i \in complete : i \in Jobs /\ i # j
    BY <1>1 DEF Typed, PassTyped
  <2>. QED  BY <1>1, <1>5, <2>1 DEF DiscoveryInv, DiscoveryMissesNothing
<1>8. /\ Observed(j) \in Passes /\ nextPage[j] \in Nat /\ nextPage[j] >= 1
      /\ items[j] \in SUBSET Videos /\ got.total \in Nat /\ Observed(j).total # NoTotal
      /\ NoTotal \notin Nat
  BY <1>1, <1>4, ObservedTyped, CountsRead, NewPassTyped DEF Typed, PassTyped, Seen
<1>9. steady'[j] \subseteq live'[UidOf[j]] /\ \A v \in steady'[j] : v <= cutoff'[j]
  BY <1>1, <1>4 DEF Seen
<1>10. CASE ~Stable(j)
  <2>1. complete' = complete
    BY <1>10 DEF Record, RecordInvalid, RecordRaises, TurnPage, NextPass, Unstable
  <2>2. Seen(j)'
    <3>1. CASE pass' = pass /\ items' = items /\ nextPage' = nextPage
      BY <1>1, <1>4, <3>1, SeenAlone
    <3>2. ASSUME pass'[j] = Observed(j), items[j] \subseteq items'[j], nextPage' = nextPage
          PROVE  Seen(j)'
      <4>1. ASSUME ~Observed(j).changed
            PROVE  /\ Observed(j).pages = PageCount(Observed(j).total)
                   /\ \A v \in steady[j] :
                        v \in items'[j] \/ Past(j, Observed(j).total, v, nextPage[j] - 1)
        <5>1. /\ Observed(j).total = got.total /\ Observed(j).pages = PageCount(got.total)
              /\ Shown(j)
          BY <1>1, <4>1, CountsRead
        <5>. QED  BY <3>2, <5>1 DEF Shown
      <4>2. Unchanged(j)' => Sighted(j)'
        BY <1>1, <1>2, <3>2, <4>1 DEF Unchanged, Sighted, Past
      <4>. QED  BY <1>8, <1>9, <3>2, <4>2 DEF Seen
    <3>3. CASE RecordInvalid(j)
      <4>1. nextPage' = nextPage /\ items' = items
        BY <3>3 DEF RecordInvalid
      <4>2. pass' = pass \/ pass'[j] = Observed(j)
        BY <1>1, <3>3 DEF RecordInvalid, Set, Typed, PassTyped
      <4>. QED  BY <3>1, <3>2, <4>1, <4>2
    <3>4. CASE RecordRaises(j)
      <4>1. nextPage' = nextPage
        BY <3>4 DEF RecordRaises
      <4>2. \/ pass' = pass /\ items' = items
            \/ pass'[j] = Observed(j) /\ items[j] \subseteq items'[j]
        BY <1>1, <3>4 DEF RecordRaises, Set, Typed, PassTyped
      <4>. QED  BY <3>1, <3>2, <4>1, <4>2
    <3>5. CASE TurnPage(j)
      <4>1. PICK n \in Nat : n = nextPage[j] /\ n >= 1
        BY <1>8
      <4>2. /\ pass'[j] = Observed(j) /\ items'[j] = Collected(j) /\ nextPage'[j] = n + 1
        BY <1>1, <3>5, <4>1 DEF TurnPage, Reads, Set, Typed, PassTyped
      <4>3. n + 1 >= 1 /\ (n + 1) - 1 = n
        OBVIOUS
      <4>4. ASSUME ~Observed(j).changed
            PROVE  /\ Observed(j).pages = PageCount(Observed(j).total)
                   /\ \A v \in steady[j] :
                        v \in Collected(j) \/ Past(j, Observed(j).total, v, n)
        BY <1>1, <4>1, <4>4, CountsRead, PageRead
      <4>5. Unchanged(j)' => Sighted(j)'
        BY <1>1, <1>2, <4>2, <4>3, <4>4 DEF Unchanged, Sighted, Past
      <4>. QED  BY <1>8, <1>9, <4>2, <4>3, <4>5 DEF Seen
    <3>6. CASE NextPass(j)
      <4>1. pass'[j] = NewPass /\ nextPage'[j] = 1
        BY <1>1, <3>6 DEF NextPass, Set, Typed, PassTyped
      <4>. QED  BY <1>9, <4>1 DEF Seen, Unchanged, NewPass
    <3>7. CASE Unstable(j)
      <4>1. pass'[j] = Observed(j) /\ nextPage'[j] = 1 /\ Observed(j).changed
        BY <1>1, <3>7 DEF Unstable, Reads, Set, Typed, PassTyped
      <4>. QED  BY <1>8, <1>9, <4>1 DEF Seen, Unchanged
    <3>. QED  BY <1>10, <3>3, <3>4, <3>5, <3>6, <3>7 DEF Record
  <2>3. DiscoveryMissesNothing'
    BY <1>7, <2>1 DEF DiscoveryMissesNothing
  <2>4. \A i \in Jobs \ complete : Seen(i)'
    BY <1>6, <2>2
  <2>. QED  BY <1>3, <2>1, <2>3, <2>4 DEF DiscoveryInv, InHand
<1>11. CASE Stable(j)
  <2>1. /\ complete' = complete \cup {j} /\ items'[j] = Collected(j)
        /\ ~Observed(j).changed /\ nextPage[j] >= Observed(j).pages
    BY <1>1, <1>11 DEF Stable, Reads, LastPage, Set, Typed, PassTyped
  <2>2. ASSUME NEW v \in steady[j]  PROVE v \in Collected(j)
    <3>1. v \in Collected(j) \/ Past(j, got.total, v, nextPage[j])
      BY <1>1, <2>1, PageRead
    <3>2. v \in live[UidOf[j]]
      BY <1>1, <1>4 DEF Seen
    <3>3. nextPage[j] >= PageCount(got.total)
      BY <1>1, <2>1, CountsRead
    <3>4. ~Past(j, got.total, v, nextPage[j])
      BY <1>1, <1>8, <3>2, <3>3, NothingPastTheEnd
    <3>. QED  BY <3>1, <3>4
  <2>3. DiscoveryMissesNothing'
    BY <1>1, <1>7, <2>1, <2>2 DEF DiscoveryMissesNothing
  <2>4. \A i \in Jobs \ complete' : Seen(i)'
    BY <1>6, <2>1
  <2>. QED  BY <1>3, <2>3, <2>4 DEF DiscoveryInv, InHand
<1>. QED  BY <1>10, <1>11

LEMMA WorkerDiscovery ==
  ASSUME JobsAssumption, IInv, ItemsInv, ItemsInv', DiscoveryInv, Worker PROVE DiscoveryInv'
<1>0. WorkerFrame /\ Typed' /\ cutoff' = cutoff /\ live' = live
  BY DEF Worker, WorkerFrame, siteVars, ItemsInv
<1>1. CASE active # NoJob /\ Work(active)
  <2>1. PICK j \in Jobs : j = active
    BY <1>1 DEF IInv, ControlTypeOK
  <2>2. active' = j
    BY <1>1, <2>1 DEF Work
  <2>3. CASE Record(j)
    BY <1>0, <2>1, <2>3, RecordDiscovery
  <2>4. CASE Load(j) /\ UNCHANGED passVars
    <3>1. CASE Arrives(j)
      BY <1>0, <2>1, <2>2, <2>4, <3>1, ArrivesDiscovery DEF Load
    <3>2. CASE ~Arrives(j)
      <4>1. steady' = steady /\ pc' # "record"
        BY <2>4, <3>2 DEF Load, RequestFails, Goto
      <4>. QED  BY <1>0, <2>4, <4>1, DiscoveryStays DEF passVars
    <3>. QED  BY <3>1, <3>2
  <2>5. CASE /\ \/ Begin(j) \/ Unfinished(j) \/ Discovered(j) \/ Drained(j)
                \/ Pick(j) \/ Lookup(j) \/ Capacity(j) \/ Create(j)
                \/ GiveUp(j) \/ FailJob(j) \/ Announce(j) \/ Conclude(j) \/ Finish(j)
             /\ UNCHANGED <<passVars, steady>>
    <3>1. pc' # "record"
      BY <2>5 DEF Begin, Unfinished, Discovered, Drained, Look, Pick, Lookup, Capacity, Create,
                  Creates, Skips, ItemDone, ItemFails, Onward, GiveUp, FailJob, Announce, Conclude,
                  Finish, Goto
    <3>. QED  BY <1>0, <2>5, <3>1, DiscoveryStays DEF passVars
  <2>. QED  BY <1>1, <2>1, <2>3, <2>4, <2>5 DEF Work
<1>2. CASE /\ Take \/ Leave
           /\ UNCHANGED <<code, failedPage, passVars, itemVars, attempt, got, taskVars, steady,
                          faults>>
  <2>1. pc = "idle" \/ pc = "leave"
    BY <1>2 DEF Take, Leave
  <2>2. pc' # "record"
    BY <1>2, <2>1 DEF Take, Leave, Goto
  <2>. QED  BY <1>0, <1>2, <2>2, DiscoveryStays DEF passVars
<1>. QED  BY <1>1, <1>2 DEF Worker

\* The list changes: a new video is at its top, or one is gone.
LEMMA SiteDiscovery ==
  ASSUME JobsAssumption, IInv, ItemsInv, ItemsInv', DiscoveryInv,
         UNCHANGED <<passVars, cutoff, pc, active, got>>,
         \A i \in complete : steady'[i] = steady[i],
         \A i \in Jobs \ complete : ViewKept(i)
  PROVE  DiscoveryInv'
<1>1. Typed /\ Typed' /\ UNCHANGED <<nextPage, pass, items, complete>>
  BY DEF ItemsInv, passVars
<1>2. ASSUME NEW i \in Jobs \ complete  PROVE Seen(i)'
  BY <1>1, <1>2, SeenAlone DEF DiscoveryInv
<1>3. DiscoveryMissesNothing'
  BY <1>1 DEF DiscoveryInv, DiscoveryMissesNothing
<1>4. InHand'
  <2> SUFFICES ASSUME pc = "record"  PROVE InHand'
    BY DEF InHand
  <2>1. PICK a \in Jobs : a = active
    BY MidwayRuns DEF Midway
  <2>2. ViewKept(a)
    BY <2>1 DEF ItemsInv, ItemsPlaced, Discovering
  <2>. QED  BY <1>1, <2>1, <2>2, HandAlone DEF DiscoveryInv
<1>. QED  BY <1>1, <1>2, <1>3, <1>4 DEF DiscoveryInv

LEMMA EnvironmentDiscovery ==
  ASSUME JobsAssumption, IInv, ItemsInv, ItemsInv', DiscoveryInv,
         \/ \E u \in Uids : Publish(u) \/ \E v \in Videos : Withdraw(u, v)
         \/ \E k \in Keys : ManualEnqueue(k) \/ TaskEnds(k) \/ RemoveWork(k)
  PROVE  DiscoveryInv'
<1>1. /\ UNCHANGED <<passVars, cutoff, pc, active, got>> /\ Typed
      /\ \A i \in complete : steady'[i] = steady[i]
  BY EnvironmentFrame DEF requestVars, threadVars, ItemsInv
<1>2. \A i \in Jobs \ complete : steady[i] \subseteq live[UidOf[i]] /\ UidOf[i] \in Uids
  BY DEF DiscoveryInv, Seen, JobsAssumption
<1>3. ASSUME NEW u \in Uids, Publish(u)  PROVE DiscoveryInv'
  <2>1. steady' = steady /\ live' = [live EXCEPT ![u] = live[u] \cup {published[u] + 1}]
    BY <1>3 DEF Publish
  <2>2. ASSUME NEW i \in Jobs \ complete  PROVE ViewKept(i)
    <3>1. CASE UidOf[i] # u
      <4>1. live'[UidOf[i]] = live[UidOf[i]]
        BY <1>1, <1>2, <2>1, <3>1 DEF Typed, SiteTyped
      <4>. QED  BY <1>2, <2>1, <4>1 DEF ViewKept, Below
    <3>2. CASE UidOf[i] = u
      <4>1. live'[u] = live[u] \cup {published[u] + 1}
        BY <1>1, <2>1 DEF Typed, SiteTyped
      <4>2. live[u] \subseteq 1 .. published[u] /\ published[u] \in Nat
        BY <1>1, SizesAssumption DEF Typed, SiteTyped
      <4>3. ASSUME NEW v \in steady[i]  PROVE Below(i, v)' \subseteq Below(i, v)
        <5>1. v \in 1 .. published[u]
          BY <1>2, <3>2, <4>2
        <5>2. ~(published[u] + 1 <= v)
          BY <4>2, <5>1
        <5>. QED  BY <3>2, <4>1, <5>2 DEF Below
      <4>. QED  BY <1>2, <2>1, <3>2, <4>1, <4>3 DEF ViewKept
    <3>. QED  BY <3>1, <3>2
  <2>. QED  BY <1>1, <2>2, SiteDiscovery
<1>4. ASSUME NEW u \in Uids, NEW v \in Videos, Withdraw(u, v)  PROVE DiscoveryInv'
  <2>1. /\ live' = [live EXCEPT ![u] = live[u] \ {v}]
        /\ steady' = [j \in Jobs |-> IF UidOf[j] = u /\ j \notin complete
                                     THEN steady[j] \ {v} ELSE steady[j]]
    BY <1>4 DEF Withdraw
  <2>2. ASSUME NEW i \in Jobs \ complete  PROVE ViewKept(i)
    <3>1. /\ live'[UidOf[i]] = IF UidOf[i] = u THEN live[u] \ {v} ELSE live[UidOf[i]]
          /\ steady'[i] = IF UidOf[i] = u THEN steady[i] \ {v} ELSE steady[i]
      BY <1>1, <1>2, <2>1 DEF Typed, SiteTyped
    <3>. QED  BY <1>2, <3>1 DEF ViewKept, Below
  <2>. QED  BY <1>1, <2>2, SiteDiscovery
<1>5. ASSUME NEW k \in Keys, ManualEnqueue(k) \/ TaskEnds(k) \/ RemoveWork(k)  PROVE DiscoveryInv'
  <2>1. live' = live /\ steady' = steady
    BY <1>5 DEF ManualEnqueue, TaskEnds, RemoveWork, QueueFrame, siteVars
  <2>. QED  BY <1>1, <2>1, DiscoveryStays DEF passVars
<1>. QED  BY <1>3, <1>4, <1>5

LEMMA NextDiscovery ==
  ASSUME JobsAssumption, IInv, ItemsInv, DiscoveryInv, [Next]_vars PROVE DiscoveryInv'
<1>0. ItemsInv'
  BY NextItems
<1>1. CASE Request
  BY <1>1, RequestDiscovery
<1>2. CASE Worker
  BY <1>0, <1>2, WorkerDiscovery
<1>3. CASE \/ \E u \in Uids : Publish(u) \/ \E v \in Videos : Withdraw(u, v)
           \/ \E k \in Keys : ManualEnqueue(k) \/ TaskEnds(k) \/ RemoveWork(k)
  BY <1>0, <1>3, EnvironmentDiscovery
<1>4. CASE UNCHANGED vars
  <2>1. UNCHANGED <<nextPage, pass, items, complete, cutoff, live, steady, pc, active, got>>
    BY <1>4 DEF vars, passVars, requestVars, siteVars, threadVars
  <2>. QED  BY <2>1, DiscoveryStays
<1>. QED  BY <1>1, <1>2, <1>3, <1>4 DEF Next

THEOREM ImportDiscovery == Spec => [](IInv /\ ItemsInv /\ DiscoveryInv)
<1>1. Init => DiscoveryInv
  BY InitDiscovery, JobsAssumption
<1>2. IInv /\ ItemsInv /\ DiscoveryInv /\ [Next]_vars => DiscoveryInv'
  BY NextDiscovery, JobsAssumption
<1>. QED  BY <1>1, <1>2, ImportItems, PTL DEF Spec

\* However the list changes while it is read page by page, a discovery that ends has
\* collected every video of its scope that was listed all through its last pass
\* (_discover: a pass whose counts changed is not believed).
THEOREM MissesNothing == Spec => []DiscoveryMissesNothing
<1>1. DiscoveryInv => DiscoveryMissesNothing
  BY DEF DiscoveryInv
<1>. QED  BY <1>1, ImportDiscovery, PTL

=============================================================================

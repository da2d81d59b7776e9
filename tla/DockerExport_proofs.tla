------------------------ MODULE DockerExport_proofs ------------------------
(***************************************************************************)
(* The export of an image as three files, for any number of launchers,     *)
(* jobs, saves, failures and crashes: nothing that it replaces is lost,    *)
(* and it implements ExportTriad, until it is disturbed.                   *)
(*                                                                         *)
(* What is known of a launcher concerns the job that it has in hand        *)
(* (Placed), and nothing of the others': without a disturbance a launcher  *)
(* steps only while no other one has a job in hand.                        *)
(***************************************************************************)
EXTENDS DockerExport, TLAPS

JobStates == Recoverable \cup {"none", "building", "ready", "failed", "cleanup-required"}
Journals == [state : JobStates, old : [Files -> Contents], new : 0 .. MaxSaves]

New(n) == <<"export", n>>

\* Each file that the journal of j replaces exists, in its place or as a backup.
Kept(j) ==
  \A f \in Files : journal[j].old[f] # None => journal[j].old[f] \in {target[f], bak[j][f]}
NoBackup(j, i) == \A k \in 1 .. 3 : k < i => bak[j][Order[k]] = None

(***************************************************************************)
(* What the disk and the journals say of each other, wherever the          *)
(* launcher is.                                                            *)
(***************************************************************************)
Contained ==
  /\ OldIsSafe /\ BackupHasJournal /\ ImageHasJournal
  /\ \A a, b \in Pending : a = b
  /\ \A f \in Files, n \in 1 .. MaxSaves : target[f] = New(n) => n <= saves
  /\ \A j \in Jobs : State(j) \in {"publishing", "committed"} =>
       \A f \in Files : bak[j][f] \in {None, journal[j].old[f]}
  /\ \A j \in Jobs : State(j) = "committed" => Arrived(j)
  /\ \A j \in Jobs : State(j) = "publishing" =>
       /\ journal[j].old = confirmed /\ journal[j].new \in 1 .. saves
       /\ \A f \in Files, n \in 1 .. MaxSaves :
            journal[j].old[f] = New(n) => n <= saves /\ n # journal[j].new

Owning == {"r_drop", "r_restore", "r_verify", "r_temps", "r_write", "build", "built", "ready",
           "save", "publish", "backup", "promote", "commit", "drop", "finish", "restore",
           "verify", "undo", "unwind", "fail", "finally", "rmi", "forget"}

\* What a launcher may assume of its job at each place.
Placed(l) ==
  LET j == job[l] IN
  /\ pc[l] \in Owning => j \in Jobs
  /\ pc[l] \in {"build", "built", "ready", "save", "publish"} => plan[l] = confirmed
  /\ pc[l] \in {"build", "built", "ready"} => Pending = {}
  /\ pc[l] = "build" => State(j) = "building"
  /\ pc[l] \in {"save", "publish"} =>
       /\ State(j) = "exporting" /\ serial[l] = saves /\ saves # 0
       /\ \A f \in Files : target[f] # New(saves)
  /\ pc[l] \in {"backup", "promote", "commit"} =>
       State(j) = "publishing" /\ journal[j].new = serial[l]
  /\ pc[l] = "backup" =>
       /\ \A f \in Files : temp[j][f] = New(serial[l])
       /\ \A k \in 1 .. 3 : LET f == Order[k] old == journal[j].old[f] IN
            IF k < at[l] THEN bak[j][f] = old ELSE target[f] = old /\ bak[j][f] = None
  /\ pc[l] = "promote" => \A k \in 1 .. 3 : at[l] <= k => temp[j][Order[k]] = New(serial[l])
  /\ pc[l] \in {"promote", "commit"} => bak[j] = journal[j].old
  /\ pc[l] \in {"restore", "r_restore", "verify", "r_verify"} =>
       State(j) = "publishing" /\ Kept(j)
  /\ pc[l] \in {"restore", "r_restore", "drop", "r_drop"} => NoBackup(j, at[l])
  /\ pc[l] \in {"verify", "r_verify", "finish"} => bak[j] = Empty
  /\ pc[l] \in {"drop", "finish"} => State(j) = "committed"
  /\ pc[l] = "r_drop" => State(j) \in {"publishing", "committed"} /\ Arrived(j)
  /\ pc[l] \in {"r_temps", "r_write"} =>
       \/ State(j) = "exporting"
       \/ /\ State(j) \in {"publishing", "committed"} /\ bak[j] = Empty
          /\ Arrived(j) \/ target = journal[j].old
  /\ pc[l] \in {"unwind", "fail"} => State(j) = "exporting"
  /\ pc[l] \in {"rmi", "forget"} => State(j) = "cleanup-required"
  /\ pc[l] = "forget" => j \notin image

Steady == TypeOK /\ journal \in [Jobs -> Journals] /\ Contained

IInv ==
  /\ disturbed \in BOOLEAN
  /\ ~disturbed => Steady /\ \A l \in Launchers : Placed(l)

-----------------------------------------------------------------------------
(* Facts about the definitions.                                            *)

LEMMA OrderFacts ==
  /\ Len(Order) = 3 /\ Order[1] = "tar" /\ Order[2] = "checksum" /\ Order[3] = "manifest"
  /\ \A k \in 1 .. 3 : Order[k] \in Files
  /\ \A k, m \in 1 .. 3 : Order[k] = Order[m] => k = m
  /\ \A f \in Files : \E k \in 1 .. 3 : f = Order[k]
BY DEF Order, Files

LEMMA ContentFacts ==
  /\ None \in Contents /\ Empty \in [Files -> Contents]
  /\ \A n \in 1 .. MaxSaves : New(n) \in Contents /\ New(n) # None
  /\ \A m, n \in Nat : New(m) = New(n) => m = n
  /\ \A n \in 0 .. MaxEvents : <<"user", n>> \in Contents
  /\ \A m, n \in Nat : <<"user", m>> # New(n)
BY DEF None, Empty, Contents, New, Files

LEMMA PhaseFacts ==
  Phases = Owning \cup {"off", "recover", "block", "idle", "confirmed", "clean"}
<1>1. DOMAIN Handler = {"block", "undo", "restore", "finally", "idle"}
  BY DEF Handler
<1>2. (UNION {Handler[p] : p \in DOMAIN Handler}) =
        Handler["block"] \cup Handler["undo"] \cup Handler["restore"]
        \cup Handler["finally"] \cup Handler["idle"]
  BY <1>1
<1>3. /\ Handler["block"] = {"r_drop", "r_restore", "r_temps", "r_write"}
      /\ Handler["undo"] = {"ready", "save", "publish", "drop", "finish", "restore", "verify"}
      /\ Handler["restore"] = {"backup", "promote", "commit"}
      /\ Handler["finally"] = {"undo", "unwind", "fail"}
      /\ Handler["idle"] = {"built", "finally", "forget"}
  BY DEF Handler
<1> QED BY <1>2, <1>3 DEF Phases, Owning

LEMMA AdvanceFacts ==
  ASSUME TypeOK, NEW l \in Launchers, NEW p \in Phases, Advance(l, p)
  PROVE  /\ pc' \in [Launchers -> Phases] /\ at' \in [Launchers -> 1 .. Len(Order)]
         /\ \/ at[l] < 3 /\ at'[l] = at[l] + 1 /\ pc'[l] = pc[l]
            \/ at[l] = 3 /\ at'[l] = 1 /\ pc'[l] = p
<1>1. Len(Order) = 3 /\ pc \in [Launchers -> Phases] /\ at \in [Launchers -> 1 .. 3]
  BY OrderFacts DEF TypeOK
<1> QED BY <1>1 DEF Advance, Goto

LEMMA GotoFacts ==
  ASSUME TypeOK, NEW l \in Launchers, NEW p \in Phases, Goto(l, p)
  PROVE  /\ pc' \in [Launchers -> Phases] /\ at' \in [Launchers -> 1 .. Len(Order)]
         /\ at'[l] = 1 /\ pc'[l] = p
<1>1. Len(Order) = 3 /\ pc \in [Launchers -> Phases] /\ at \in [Launchers -> 1 .. 3]
  BY OrderFacts DEF TypeOK
<1> QED BY <1>1 DEF Goto

\* A step that changes neither the files, their backups and journals, nor the images.
LEMMA ContainedAlone ==
  ASSUME Contained, UNCHANGED <<target, bak, journal, image, saves, confirmed>>
  PROVE  Contained'
BY DEF Contained, OldIsSafe, BackupHasJournal, ImageHasJournal, Pending, Arrived, State, Triad

LEMMA SetFacts ==
  ASSUME journal \in [Jobs -> Journals], NEW j \in Jobs, NEW s \in JobStates, Set(j, s)
  PROVE  /\ journal' \in [Jobs -> Journals]
         /\ State(j)' = s /\ \A k \in Jobs : k # j => journal'[k] = journal[k]
         /\ journal'[j].old = journal[j].old /\ journal'[j].new = journal[j].new
BY DEF Set, State, Journals

\* Journals may reach a state that needs no recovery once their backups are gone, or go
\* without an image.
Settles ==
  /\ journal' \in [Jobs -> Journals]
  /\ \A j \in Jobs : journal'[j] # journal[j] =>
       /\ bak[j] = Empty \/ State(j) \notin {"publishing", "committed"}
       /\ journal'[j].state \notin Recoverable
  /\ image' \subseteq Jobs /\ \A j \in image' : journal'[j].state # "none"

LEMMA SettledMoves ==
  ASSUME Contained, journal \in [Jobs -> Journals], UNCHANGED <<target, bak, saves>>,
         confirmed' = confirmed \/ Pending = {}, Settles
  PROVE  Contained'
<1>1. \A j \in Jobs : State(j)' \in Recoverable => journal'[j] = journal[j]
  BY DEF Settles, State
<1>2. Pending' \subseteq Pending
  BY <1>1 DEF Pending, State
<1>3. OldIsSafe' /\ BackupHasJournal'
  <2>1. \A j \in Jobs : State(j)' \in {"publishing", "committed"} => journal'[j] = journal[j]
    BY <1>1 DEF Recoverable
  <2>2. \A j \in Jobs : journal'[j] # journal[j] => bak[j] = Empty
    BY DEF Contained, BackupHasJournal, Settles
  <2> QED BY <2>1, <2>2 DEF Contained, OldIsSafe, BackupHasJournal, State, Arrived, Triad
<1>4. ImageHasJournal'
  BY DEF Settles, ImageHasJournal, State
<1>5. \A j \in Jobs : State(j)' = "publishing" => confirmed' = confirmed
  BY <1>1 DEF Pending, Recoverable, State
<1> QED BY <1>1, <1>2, <1>3, <1>4, <1>5
        DEF Contained, Pending, State, Arrived, Triad, Recoverable

\* Steps that leave the files.
LEMMA SettleKeeps ==
  ASSUME Steady, NEW l \in Launchers, Placed(l), disturbed' \in BOOLEAN,
         NEW p \in Phases, Goto(l, p),
         UNCHANGED <<disk, saves>>, Settles,
         confirmed' \in [Files -> Contents], confirmed' = confirmed \/ Pending = {},
         job' \in [Launchers -> Jobs \cup {0}], retained' \in [Launchers -> Jobs \cup {0}],
         plan' \in [Launchers -> [Files -> Contents]], serial' \in [Launchers -> 0 .. MaxSaves],
         blocked' \subseteq Launchers, swept' \subseteq Launchers,
         stale' \in [Launchers -> SUBSET Jobs],
         jobs' \in 0 .. MaxJobs, events' \in 0 .. MaxEvents,
         Placed(l)'
  PROVE  Steady' /\ Placed(l)'
<1>1. pc' \in [Launchers -> Phases] /\ at' \in [Launchers -> 1 .. Len(Order)]
  BY GotoFacts DEF Steady
<1>2. journal' \in [Jobs -> Journals] /\ image' \subseteq Jobs
  BY DEF Settles
<1>3. TypeOK'
  BY <1>1, <1>2 DEF Steady, TypeOK, disk, State, Journals, JobStates
<1>4. Contained'
  BY SettledMoves DEF Steady, disk
<1> QED BY <1>2, <1>3, <1>4 DEF Steady

\* Steps of a launcher that leave everything but its own place.
LEMMA MoveKeeps ==
  ASSUME Steady, NEW l \in Launchers, Placed(l), disturbed' \in BOOLEAN,
         NEW p \in Phases, Goto(l, p),
         UNCHANGED <<disk, journal, image, job, serial, plan, retained, stale, swept, jobs, saves, confirmed>>,
         events' \in 0 .. MaxEvents, blocked' \subseteq Launchers, Placed(l)'
  PROVE  Steady' /\ Placed(l)'
<1>1. Settles
  BY DEF Settles, Steady, TypeOK, Contained, ImageHasJournal, State
<1>2. /\ job' \in [Launchers -> Jobs \cup {0}] /\ retained' \in [Launchers -> Jobs \cup {0}]
      /\ plan' \in [Launchers -> [Files -> Contents]] /\ serial' \in [Launchers -> 0 .. MaxSaves]
      /\ swept' \subseteq Launchers /\ stale' \in [Launchers -> SUBSET Jobs]
      /\ jobs' \in 0 .. MaxJobs /\ confirmed' \in [Files -> Contents]
  BY DEF Steady, TypeOK
<1> QED BY <1>1, <1>2, SettleKeeps

-----------------------------------------------------------------------------
(* Recovery.                                                               *)

LEMMA BootKeeps ==
  ASSUME Steady, NEW l \in Launchers, Placed(l), disturbed' \in BOOLEAN,
         Boot(l)
  PROVE  Steady' /\ Placed(l)'
<1>1. Goto(l, "recover") /\ "recover" \in Phases /\ pc'[l] = "recover"
  BY GotoFacts, PhaseFacts DEF Steady, Boot
<1>2. Placed(l)'
  BY <1>1 DEF Placed, Owning
<1> QED BY <1>1, <1>2, MoveKeeps DEF Steady, Boot, TypeOK, mine, bounds

LEMMA RecoverNextKeeps ==
  ASSUME Steady, NEW l \in Launchers, Placed(l), disturbed' \in BOOLEAN,
         RecoverNext(l)
  PROVE  Steady' /\ Placed(l)'
<1>1. UNCHANGED <<disk, journal, image, mine, bounds, confirmed>>
  BY DEF RecoverNext
<1>2. Contained'
  BY <1>1, ContainedAlone DEF Steady, disk, bounds
<1>3. CASE Pending = {} /\ Goto(l, "idle") /\ UNCHANGED job
  <2>1. pc' \in [Launchers -> Phases] /\ at' \in [Launchers -> 1 .. Len(Order)] /\ pc'[l] = "idle"
    BY <1>3, GotoFacts, PhaseFacts DEF Steady
  <2>2. TypeOK' /\ journal' \in [Jobs -> Journals]
    BY <1>1, <1>3, <2>1 DEF Steady, TypeOK, disk, bounds, mine, State
  <2>3. Placed(l)'
    BY <2>1 DEF Placed, Owning
  <2> QED BY <1>2, <2>2, <2>3 DEF Steady
<1>4. ASSUME NEW j \in Pending, job' = [job EXCEPT ![l] = j], Goto(l, Resume(j))
      PROVE  Steady' /\ Placed(l)'
  <2>1. j \in Jobs /\ State(j) \in Recoverable /\ Resume(j) \in {"r_temps", "r_drop", "r_restore"}
    BY DEF Pending, Resume
  <2>2. /\ pc' \in [Launchers -> Phases] /\ at' \in [Launchers -> 1 .. Len(Order)]
        /\ pc'[l] = Resume(j) /\ at'[l] = 1
    BY <1>4, <2>1, GotoFacts, PhaseFacts DEF Steady, Owning
  <2>3. job' \in [Launchers -> Jobs \cup {0}] /\ job'[l] = j
    BY <1>4, <2>1 DEF Steady, TypeOK
  <2>4. TypeOK' /\ journal' \in [Jobs -> Journals]
    BY <1>1, <2>2, <2>3 DEF Steady, TypeOK, disk, bounds, mine, State
  <2>5. State(j) \in {"publishing", "committed"} => Resume(j) \in {"r_drop", "r_restore"}
    BY DEF Resume
  <2>6. NoBackup(j, 1)
    BY DEF NoBackup
  <2>7. Resume(j) = "r_restore" => State(j) = "publishing" /\ Kept(j)
    BY <2>1 DEF Steady, Contained, OldIsSafe, Kept, Resume, Recoverable
  <2>8. Resume(j) = "r_drop" => State(j) \in {"publishing", "committed"} /\ Arrived(j)
    BY <2>1 DEF Resume, Recoverable
  <2>9. Resume(j) = "r_temps" => State(j) = "exporting"
    BY DEF Resume
  <2>10. Placed(l)'
    BY <1>1, <2>1, <2>2, <2>3, <2>6, <2>7, <2>8, <2>9
       DEF Placed, State, Kept, NoBackup, Arrived, Triad, disk
  <2> QED BY <1>2, <2>4, <2>10 DEF Steady
<1> QED BY <1>3, <1>4 DEF RecoverNext

\* One backup goes, of a publication that is complete.
LEMMA DropEffect ==
  ASSUME Steady, NEW j \in Jobs, NEW f \in Files,
         State(j) \in {"publishing", "committed"}, Arrived(j),
         bak' = [bak EXCEPT ![j][f] = None],
         UNCHANGED <<target, journal, image, saves, confirmed>>
  PROVE  /\ Contained' /\ bak' \in [Jobs -> [Files -> Contents]]
         /\ bak'[j][f] = None
         /\ \A g \in Files : g # f => bak'[j][g] = bak[j][g]
<1>1. bak \in [Jobs -> [Files -> Contents]] /\ None \in Contents
  BY ContentFacts DEF Steady, TypeOK
<1>2. /\ bak' \in [Jobs -> [Files -> Contents]] /\ bak'[j][f] = None
      /\ \A g \in Files : g # f => bak'[j][g] = bak[j][g]
      /\ \A k \in Jobs : k # j => bak'[k] = bak[k]
  BY <1>1
<1>3. OldIsSafe' /\ BackupHasJournal' /\ ImageHasJournal'
  BY <1>2 DEF Steady, Contained, OldIsSafe, BackupHasJournal, ImageHasJournal, State, Arrived, Triad
<1>4. \A k \in Jobs : State(k) \in {"publishing", "committed"} =>
        \A g \in Files : bak'[k][g] \in {None, journal[k].old[g]}
  BY <1>2 DEF Steady, Contained
<1> QED BY <1>2, <1>3, <1>4 DEF Steady, Contained, Pending, State, Arrived, Triad

\* One file is as it was.
LEMMA PutBackEffect ==
  ASSUME Steady, NEW j \in Jobs, NEW f \in Files, State(j) = "publishing", Kept(j),
         Restored(j, f).can,
         target' = [target EXCEPT ![f] = Restored(j, f).file],
         bak' = [bak EXCEPT ![j][f] = Restored(j, f).bak],
         UNCHANGED <<journal, image, saves, confirmed>>
  PROVE  /\ Contained' /\ Kept(j)'
         /\ target' \in [Files -> Contents] /\ bak' \in [Jobs -> [Files -> Contents]]
         /\ bak'[j][f] = None
         /\ \A g \in Files : g # f => bak'[j][g] = bak[j][g]
<1> DEFINE old == journal[j].old
<1>1. /\ target \in [Files -> Contents] /\ bak \in [Jobs -> [Files -> Contents]]
      /\ old \in [Files -> Contents] /\ None \in Contents
  BY ContentFacts DEF Steady, TypeOK
<1>2. Restored(j, f).file = old[f] /\ Restored(j, f).bak = None
  BY DEF Restored
<1>3. /\ target' \in [Files -> Contents] /\ target'[f] = old[f]
      /\ \A g \in Files : g # f => target'[g] = target[g]
  BY <1>1, <1>2
<1>4. /\ bak' \in [Jobs -> [Files -> Contents]] /\ bak'[j][f] = None
      /\ \A g \in Files : g # f => bak'[j][g] = bak[j][g]
      /\ \A k \in Jobs : k # j => bak'[k] = bak[k]
  BY <1>1, <1>2
<1>5. Kept(j)'
  BY <1>3, <1>4 DEF Kept
<1>6. \A k \in Jobs : State(k) \in {"publishing", "committed"} => k = j
  BY DEF Steady, Contained, Pending, Recoverable
<1>7. OldIsSafe'
  BY <1>5, <1>6 DEF OldIsSafe, Kept, State
<1>8. BackupHasJournal' /\ ImageHasJournal'
  BY <1>4 DEF Steady, Contained, BackupHasJournal, ImageHasJournal, State
<1>9. \A g \in Files, n \in 1 .. MaxSaves : target'[g] = New(n) => n <= saves
  BY <1>3 DEF Steady, Contained
<1>10. \A k \in Jobs : State(k) \in {"publishing", "committed"} =>
         \A g \in Files : bak'[k][g] \in {None, journal[k].old[g]}
  BY <1>4 DEF Steady, Contained
<1>11. \A k \in Jobs : State(k) # "committed"
  BY <1>6
<1> QED BY <1>3, <1>4, <1>5, <1>7, <1>8, <1>9, <1>10, <1>11
        DEF Steady, Contained, Pending, State

\* How far a loop over the backups came.
LEMMA NoBackupGrows ==
  ASSUME NEW j \in Jobs, NEW i \in 1 .. 3, NoBackup(j, i), bak[j] \in [Files -> Contents],
         bak'[j] \in [Files -> Contents], bak'[j][Order[i]] = None,
         \A g \in Files : g # Order[i] => bak'[j][g] = bak[j][g]
  PROVE  /\ \A k \in 1 .. 3 : k < i + 1 => bak'[j][Order[k]] = None
         /\ i = 3 => bak'[j] = Empty
<1>1. \A k \in 1 .. 3 : k < i + 1 => bak'[j][Order[k]] = None
  BY OrderFacts DEF NoBackup
<1>2. i = 3 => \A f \in Files : bak'[j][f] = None
  BY <1>1, OrderFacts
<1> QED BY <1>1, <1>2 DEF Empty

LEMMA RecoverFileKeeps ==
  ASSUME Steady, NEW l \in Launchers, Placed(l), disturbed' \in BOOLEAN,
         RecoverFile(l)
  PROVE  Steady' /\ Placed(l)'
<1> DEFINE j == job[l]
           f == File(l)
<1>1. UNCHANGED <<journal, image, job, mine, bounds, confirmed>>
  BY DEF RecoverFile
<1>2. j \in Jobs /\ at[l] \in 1 .. 3 /\ f = Order[at[l]] /\ f \in Files
  BY OrderFacts DEF Steady, Placed, RecoverFile, At, Owning, File, TypeOK
<1>3. CASE At(l, "r_drop") /\ RemoveBackup(l, "r_temps")
  <2>1. UNCHANGED <<target, temp>> /\ Advance(l, "r_temps") /\ bak' = [bak EXCEPT ![j][f] = None]
    BY <1>3 DEF RemoveBackup
  <2>2. /\ pc[l] = "r_drop" /\ NoBackup(j, at[l])
        /\ State(j) \in {"publishing", "committed"} /\ Arrived(j)
    BY <1>3 DEF Steady, Placed, At
  <2>3. /\ pc' \in [Launchers -> Phases] /\ at' \in [Launchers -> 1 .. Len(Order)]
        /\ \/ at[l] < 3 /\ at'[l] = at[l] + 1 /\ pc'[l] = "r_drop"
           \/ at[l] = 3 /\ pc'[l] = "r_temps"
    BY <2>1, <2>2, AdvanceFacts, PhaseFacts DEF Steady, Owning
  <2>4. /\ Contained' /\ bak' \in [Jobs -> [Files -> Contents]] /\ bak'[j][f] = None
        /\ \A g \in Files : g # f => bak'[j][g] = bak[j][g]
    BY <1>1, <1>2, <2>1, <2>2, DropEffect DEF bounds
  <2>5. TypeOK' /\ journal' \in [Jobs -> Journals]
    BY <1>1, <2>1, <2>3, <2>4 DEF Steady, TypeOK, bounds, mine, State
  <2>6. /\ \A k \in 1 .. 3 : k < at[l] + 1 => bak'[j][Order[k]] = None
        /\ at[l] = 3 => bak'[j] = Empty
    <3>1. /\ bak[j] \in [Files -> Contents] /\ bak'[j] \in [Files -> Contents]
          /\ bak'[j][Order[at[l]]] = None
          /\ \A g \in Files : g # Order[at[l]] => bak'[j][g] = bak[j][g]
      BY <1>2, <2>4 DEF Steady, TypeOK
    <3> HIDE DEF j
    <3> QED BY <1>2, <2>2, <3>1, NoBackupGrows
  <2>7. Placed(l)'
    BY <1>1, <1>2, <2>1, <2>2, <2>3, <2>6 DEF Placed, NoBackup, State, Arrived, Triad, mine
  <2> QED BY <2>4, <2>5, <2>7 DEF Steady
<1>4. CASE At(l, "r_restore") /\ PutBack(l, "r_verify", "block") /\ UNCHANGED temp
  <2>1. pc[l] = "r_restore" /\ State(j) = "publishing" /\ Kept(j) /\ NoBackup(j, at[l])
    BY <1>4 DEF Steady, Placed, At
  <2>2. CASE Goto(l, "block") /\ UNCHANGED <<target, bak>>
    <3>1. pc'[l] = "block" /\ "block" \in Phases
      BY <2>2, GotoFacts, PhaseFacts DEF Steady
    <3>2. Placed(l)'
      BY <3>1 DEF Placed, Owning
    <3> QED BY <1>1, <1>4, <2>2, <3>1, <3>2, MoveKeeps DEF Steady, TypeOK, disk, mine, bounds
  <2>3. CASE /\ Restored(j, f).can
             /\ target' = [target EXCEPT ![f] = Restored(j, f).file]
             /\ bak' = [bak EXCEPT ![j][f] = Restored(j, f).bak]
             /\ Advance(l, "r_verify")
    <3>1. /\ pc' \in [Launchers -> Phases] /\ at' \in [Launchers -> 1 .. Len(Order)]
          /\ \/ at[l] < 3 /\ at'[l] = at[l] + 1 /\ pc'[l] = "r_restore"
             \/ at[l] = 3 /\ pc'[l] = "r_verify"
      BY <2>1, <2>3, AdvanceFacts, PhaseFacts DEF Steady, Owning
    <3>2. /\ Contained' /\ Kept(j)'
          /\ target' \in [Files -> Contents] /\ bak' \in [Jobs -> [Files -> Contents]]
          /\ bak'[j][f] = None /\ \A g \in Files : g # f => bak'[j][g] = bak[j][g]
      BY <1>1, <1>2, <2>1, <2>3, PutBackEffect DEF bounds
    <3>3. TypeOK' /\ journal' \in [Jobs -> Journals]
      BY <1>1, <1>4, <3>1, <3>2 DEF Steady, TypeOK, bounds, mine, State
    <3>4. /\ \A k \in 1 .. 3 : k < at[l] + 1 => bak'[j][Order[k]] = None
          /\ at[l] = 3 => bak'[j] = Empty
      <4>1. /\ bak[j] \in [Files -> Contents] /\ bak'[j] \in [Files -> Contents]
            /\ bak'[j][Order[at[l]]] = None
            /\ \A g \in Files : g # Order[at[l]] => bak'[j][g] = bak[j][g]
        BY <1>2, <3>2 DEF Steady, TypeOK
      <4> HIDE DEF j
      <4> QED BY <1>2, <2>1, <4>1, NoBackupGrows
    <3>5. Placed(l)'
      BY <1>1, <1>2, <2>1, <3>1, <3>2, <3>4 DEF Placed, NoBackup, Kept, State
    <3> QED BY <3>2, <3>3, <3>5 DEF Steady
  <2> QED BY <1>4, <2>2, <2>3 DEF PutBack
<1>5. CASE At(l, "r_temps") /\ RemoveTemp(l, "r_write")
  <2>1. UNCHANGED <<target, bak>> /\ Advance(l, "r_write") /\ temp' = [temp EXCEPT ![j][f] = None]
    BY <1>5 DEF RemoveTemp
  <2>2. /\ pc' \in [Launchers -> Phases] /\ at' \in [Launchers -> 1 .. Len(Order)]
        /\ pc[l] = "r_temps" /\ pc'[l] \in {"r_temps", "r_write"}
    BY <1>5, <2>1, AdvanceFacts, PhaseFacts DEF Steady, At, Owning
  <2>3. TypeOK' /\ journal' \in [Jobs -> Journals]
    BY <1>1, <1>2, <2>1, <2>2, ContentFacts DEF Steady, TypeOK, bounds, mine, State
  <2>4. Contained'
    BY <1>1, <2>1, ContainedAlone DEF Steady, bounds
  <2>5. Placed(l)'
    BY <1>1, <1>2, <2>1, <2>2 DEF Steady, Placed, State, Arrived, Triad, mine
  <2> QED BY <2>3, <2>4, <2>5 DEF Steady
<1> QED BY <1>3, <1>4, <1>5 DEF RecoverFile

\* The journal of the job of l reaches a state that needs no recovery.
LEMMA SetKeeps ==
  ASSUME Steady, NEW l \in Launchers, Placed(l), disturbed' \in BOOLEAN,
         NEW p \in Phases, Goto(l, p), job[l] \in Jobs,
         NEW s \in JobStates, s \notin Recoverable \cup {"none"}, Set(job[l], s),
         bak[job[l]] = Empty \/ State(job[l]) \notin {"publishing", "committed"},
         UNCHANGED <<disk, image, job, plan, serial, blocked, swept, stale, bounds, confirmed>>,
         retained' \in [Launchers -> Jobs \cup {0}],
         Placed(l)'
  PROVE  Steady' /\ Placed(l)'
<1>1. /\ journal' \in [Jobs -> Journals] /\ journal'[job[l]].state = s
      /\ \A k \in Jobs : k # job[l] => journal'[k] = journal[k]
  BY SetFacts DEF Steady, State
<1>2. Settles
  BY <1>1 DEF Settles, Steady, TypeOK, Contained, ImageHasJournal, State
<1>3. /\ job' \in [Launchers -> Jobs \cup {0}] /\ plan' \in [Launchers -> [Files -> Contents]]
      /\ swept' \subseteq Launchers /\ stale' \in [Launchers -> SUBSET Jobs]
      /\ blocked' \subseteq Launchers /\ jobs' \in 0 .. MaxJobs /\ events' \in 0 .. MaxEvents
      /\ confirmed' \in [Files -> Contents] /\ serial' \in [Launchers -> 0 .. MaxSaves]
  BY DEF Steady, TypeOK, bounds
<1> QED BY <1>2, <1>3, SettleKeeps DEF bounds

LEMMA RecoverEndKeeps ==
  ASSUME Steady, NEW l \in Launchers, Placed(l), disturbed' \in BOOLEAN,
         RecoverVerify(l) \/ RecoverWrite(l) \/ Block(l)
  PROVE  Steady' /\ Placed(l)'
<1>1. CASE RecoverVerify(l)
  <2> DEFINE p == IF target = journal[job[l]].old THEN "r_temps" ELSE "block"
  <2>1. pc[l] = "r_verify" /\ Goto(l, p) /\ p \in Phases
    BY <1>1, PhaseFacts DEF RecoverVerify, At, Owning
  <2>2. pc'[l] = p
    BY <2>1, GotoFacts DEF Steady
  <2>3. UNCHANGED <<disk, journal, image, job, mine, bounds, confirmed>>
    BY <1>1 DEF RecoverVerify
  <2>4. Placed(l)'
    BY <2>1, <2>2, <2>3 DEF Steady, Placed, Owning, State, disk
  <2> QED BY <2>1, <2>3, <2>4, MoveKeeps DEF Steady, TypeOK, mine, bounds
<1>2. CASE RecoverWrite(l)
  <2>1. /\ pc[l] = "r_write" /\ Goto(l, "recover") /\ Set(job[l], "cleanup-required")
        /\ UNCHANGED <<disk, image, job, mine, bounds, confirmed>>
    BY <1>2 DEF RecoverWrite, At
  <2>2. /\ job[l] \in Jobs /\ "recover" \in Phases
        /\ bak[job[l]] = Empty \/ State(job[l]) \notin {"publishing", "committed"}
    BY <2>1, PhaseFacts DEF Steady, Placed, Owning
  <2>3. Placed(l)'
    BY <2>1, <2>2, GotoFacts DEF Steady, Placed, Owning
  <2> QED BY <2>1, <2>2, <2>3, SetKeeps DEF Steady, TypeOK, mine, JobStates, Recoverable
<1>3. CASE Block(l)
  <2>1. /\ Goto(l, "idle") /\ blocked' = blocked \cup {l}
        /\ UNCHANGED <<disk, journal, image, job, plan, serial, retained, stale, swept, bounds, confirmed>>
    BY <1>3 DEF Block
  <2>2. "idle" \in Phases /\ pc'[l] = "idle"
    BY <2>1, PhaseFacts, GotoFacts DEF Steady
  <2>3. Placed(l)'
    BY <2>2 DEF Placed, Owning
  <2> QED BY <2>1, <2>2, <2>3, MoveKeeps DEF Steady, TypeOK, bounds
<1> QED BY <1>1, <1>2, <1>3

-----------------------------------------------------------------------------
(* The export.                                                             *)

LEMMA ChooseKeeps ==
  ASSUME Steady, NEW l \in Launchers, Placed(l), disturbed' \in BOOLEAN,
         Choose(l)
  PROVE  Steady' /\ Placed(l)'
<1>1. /\ Goto(l, "confirmed") /\ "confirmed" \in Phases
      /\ UNCHANGED <<disk, journal, image, job, serial, retained, blocked, stale, swept, bounds, confirmed>>
  BY PhaseFacts DEF Choose
<1>2. plan' \in [Launchers -> [Files -> Contents]]
  BY DEF Choose, Steady, TypeOK
<1>3. Placed(l)'
  BY <1>1, GotoFacts DEF Steady, Placed, Owning
<1>4. Settles
  BY <1>1 DEF Settles, Steady, TypeOK, Contained, ImageHasJournal, State
<1> QED BY <1>1, <1>2, <1>3, <1>4, SettleKeeps DEF Steady, TypeOK, bounds

LEMMA BeginExportKeeps ==
  ASSUME Steady, NEW l \in Launchers, Placed(l), disturbed' \in BOOLEAN,
         BeginExport(l)
  PROVE  Steady' /\ Placed(l)'
<1>1. UNCHANGED <<disk, image, plan, serial, blocked, stale, swept, saves, events>>
  BY DEF BeginExport
<1>2. CASE Goto(l, "idle") /\ UNCHANGED <<journal, job, retained, jobs, confirmed>>
  <2>1. "idle" \in Phases /\ pc'[l] = "idle"
    BY <1>2, PhaseFacts, GotoFacts DEF Steady
  <2>2. Placed(l)'
    BY <2>1 DEF Placed, Owning
  <2> QED BY <1>1, <1>2, <2>1, <2>2, MoveKeeps DEF Steady, TypeOK
<1>3. CASE /\ Pending = {} /\ confirmed' = plan[l] /\ retained[l] \in image
           /\ job' = [job EXCEPT ![l] = retained[l]] /\ Goto(l, "ready")
           /\ UNCHANGED <<journal, retained, jobs>>
  <2>1. "ready" \in Phases /\ pc'[l] = "ready" /\ confirmed' \in [Files -> Contents]
    BY <1>3, PhaseFacts, GotoFacts DEF Steady, TypeOK, Owning
  <2>2. retained[l] \in Jobs /\ job' \in [Launchers -> Jobs \cup {0}] /\ job'[l] = retained[l]
    BY <1>3 DEF Steady, TypeOK
  <2>3. Settles
    BY <1>1, <1>3 DEF Settles, Steady, TypeOK, Contained, ImageHasJournal, State
  <2>4. Placed(l)'
    BY <1>1, <1>3, <2>1, <2>2 DEF Placed, Pending, State
  <2> QED BY <1>1, <1>3, <2>1, <2>2, <2>3, <2>4, SettleKeeps DEF Steady, TypeOK
<1>4. CASE /\ Pending = {} /\ confirmed' = plan[l] /\ jobs < MaxJobs /\ jobs' = jobs + 1
           /\ job' = [job EXCEPT ![l] = jobs'] /\ Set(jobs', "building")
           /\ retained' = [retained EXCEPT ![l] = 0] /\ Goto(l, "build")
  <2>1. "build" \in Phases /\ pc'[l] = "build" /\ confirmed' \in [Files -> Contents]
    BY <1>4, PhaseFacts, GotoFacts DEF Steady, TypeOK, Owning
  <2>2. jobs' \in Jobs /\ jobs' \in 0 .. MaxJobs
    BY <1>4, DockerAssumption DEF Steady, TypeOK, Jobs
  <2>3. job' \in [Launchers -> Jobs \cup {0}] /\ job'[l] = jobs'
    BY <1>4, <2>2 DEF Steady, TypeOK
  <2>4. /\ journal' \in [Jobs -> Journals] /\ journal'[jobs'].state = "building"
        /\ \A k \in Jobs : k # jobs' => journal'[k] = journal[k]
    <3>1. ASSUME NEW j \in Jobs, Set(j, "building")
          PROVE  /\ journal' \in [Jobs -> Journals] /\ journal'[j].state = "building"
                 /\ \A k \in Jobs : k # j => journal'[k] = journal[k]
      BY <3>1, SetFacts DEF Steady, State, JobStates
    <3> QED BY <1>4, <2>2, <3>1
  <2>5. Settles
    BY <1>1, <1>4, <2>2, <2>4
       DEF Settles, Steady, TypeOK, Contained, ImageHasJournal, State, Pending, Recoverable
  <2>6. Pending' = {}
    BY <1>4, <2>2, <2>4 DEF Pending, State, Recoverable
  <2>7. Placed(l)'
    BY <1>1, <1>4, <2>1, <2>2, <2>3, <2>4, <2>6 DEF Placed, State
  <2>8. retained' \in [Launchers -> Jobs \cup {0}]
    BY <1>4 DEF Steady, TypeOK
  <2> QED BY <1>1, <1>4, <2>1, <2>2, <2>3, <2>5, <2>7, <2>8, SettleKeeps DEF Steady, TypeOK
<1> QED BY <1>2, <1>3, <1>4 DEF BeginExport

LEMMA BuildKeeps ==
  ASSUME Steady, NEW l \in Launchers, Placed(l), disturbed' \in BOOLEAN,
         Build(l)
  PROVE  Steady' /\ Placed(l)'
<1> DEFINE j == job[l]
<1>1. /\ pc[l] = "build" /\ retained' = [retained EXCEPT ![l] = j]
      /\ UNCHANGED <<disk, job, plan, serial, blocked, stale, swept, jobs, saves, confirmed>>
  BY DEF Build, At
<1>2. j \in Jobs /\ State(j) = "building" /\ plan[l] = confirmed /\ Pending = {}
  BY <1>1 DEF Steady, Placed, Owning
<1>3. retained' \in [Launchers -> Jobs \cup {0}] /\ events' \in 0 .. MaxEvents
  BY <1>1, <1>2, DockerAssumption DEF Steady, TypeOK, Build, Spend
<1>4. CASE image' = image \cup {j} /\ Goto(l, "built") /\ UNCHANGED <<journal, events>>
  <2>1. "built" \in Phases /\ pc'[l] = "built"
    BY <1>4, PhaseFacts, GotoFacts DEF Steady, Owning
  <2>2. Settles
    BY <1>2, <1>4 DEF Settles, Steady, TypeOK, Contained, ImageHasJournal, State
  <2>3. Placed(l)'
    BY <1>1, <1>2, <1>4, <2>1 DEF Placed, Pending, State
  <2> QED BY <1>1, <1>3, <1>4, <2>1, <2>2, <2>3, SettleKeeps DEF Steady, TypeOK
<1>5. CASE /\ image' \in {image, image \cup {j}}
           /\ Set(j, "failed") \/ UNCHANGED journal
           /\ Goto(l, "idle")
  <2>1. "idle" \in Phases /\ pc'[l] = "idle"
    BY <1>5, PhaseFacts, GotoFacts DEF Steady
  <2>2. /\ journal' \in [Jobs -> Journals] /\ journal'[j].state \in {"building", "failed"}
        /\ \A k \in Jobs : k # j => journal'[k] = journal[k]
    BY <1>2, <1>5, SetFacts DEF Steady, State, JobStates
  <2>3. Settles
    <3>1. \A k \in Jobs : journal'[k] # journal[k] =>
            State(k) \notin {"publishing", "committed"} /\ journal'[k].state \notin Recoverable
      BY <1>2, <2>2 DEF Recoverable
    <3>2. image' \subseteq Jobs /\ \A k \in image : State(k) # "none"
      BY <1>2, <1>5 DEF Steady, TypeOK, Contained, ImageHasJournal
    <3>3. \A k \in image' : journal'[k].state # "none"
      BY <1>5, <2>2, <3>2 DEF State
    <3> QED BY <2>2, <3>1, <3>2, <3>3 DEF Settles
  <2>4. Placed(l)'
    BY <2>1 DEF Placed, Owning
  <2> QED BY <1>1, <1>3, <1>5, <2>1, <2>3, <2>4, SettleKeeps DEF Steady, TypeOK
<1> QED BY <1>4, <1>5 DEF Build

LEMMA MarkReadyKeeps ==
  ASSUME Steady, NEW l \in Launchers, Placed(l), disturbed' \in BOOLEAN,
         MarkReady(l)
  PROVE  Steady' /\ Placed(l)'
<1>1. /\ pc[l] = "built" /\ Set(job[l], "ready") /\ Goto(l, "ready")
      /\ UNCHANGED <<disk, image, job, mine, bounds, confirmed>>
  BY DEF MarkReady, At
<1>2. /\ job[l] \in Jobs /\ plan[l] = confirmed /\ Pending = {} /\ "ready" \in Phases
      /\ "ready" \in JobStates /\ pc'[l] = "ready"
  BY <1>1, PhaseFacts, GotoFacts DEF Steady, Placed, Owning, JobStates
<1>3. State(job[l]) \notin Recoverable
  BY <1>2 DEF Pending
<1>4. State(job[l])' = "ready" /\ \A k \in Jobs : k # job[l] => journal'[k] = journal[k]
  BY <1>1, <1>2, SetFacts DEF Steady, State
<1>5. Pending' = {}
  BY <1>1, <1>2, <1>4 DEF Pending, State, Recoverable
<1>6. Placed(l)'
  BY <1>1, <1>2, <1>5 DEF Placed, mine
<1> QED BY <1>1, <1>2, <1>3, <1>6, SetKeeps DEF Steady, TypeOK, mine, Recoverable

\* The export is announced before its first file is written.
LEMMA BeginSaveKeeps ==
  ASSUME Steady, NEW l \in Launchers, Placed(l), disturbed' \in BOOLEAN,
         BeginSave(l)
  PROVE  Steady' /\ Placed(l)'
<1> DEFINE j == job[l]
<1>1. /\ pc[l] = "ready"
      /\ UNCHANGED <<disk, image, job, plan, retained, blocked, stale, swept, jobs, events, confirmed>>
  BY DEF BeginSave, At
<1>2. j \in Jobs /\ plan[l] = confirmed /\ Pending = {}
  BY <1>1 DEF Steady, Placed, Owning
<1>3. CASE Goto(l, "idle") /\ UNCHANGED <<journal, serial, saves>>
  <2>1. "idle" \in Phases /\ pc'[l] = "idle"
    BY <1>3, PhaseFacts, GotoFacts DEF Steady
  <2>2. Placed(l)'
    BY <2>1 DEF Placed, Owning
  <2> QED BY <1>1, <1>3, <2>1, <2>2, MoveKeeps DEF Steady, TypeOK
<1>4. CASE /\ j \in image /\ temp[j] = Empty /\ bak[j] = Empty
           /\ saves < MaxSaves /\ saves' = saves + 1
           /\ serial' = [serial EXCEPT ![l] = saves']
           /\ Set(j, "exporting") /\ Goto(l, "save")
  <2>1. /\ pc' \in [Launchers -> Phases] /\ at' \in [Launchers -> 1 .. Len(Order)]
        /\ pc'[l] = "save" /\ at'[l] = 1
    BY <1>4, PhaseFacts, GotoFacts DEF Steady, Owning
  <2>2. saves \in Nat /\ saves' \in 1 .. MaxSaves
    BY <1>4, DockerAssumption DEF Steady, TypeOK
  <2>3. /\ journal' \in [Jobs -> Journals] /\ journal'[j].state = "exporting"
        /\ \A k \in Jobs : k # j => journal'[k] = journal[k]
    BY <1>2, <1>4, SetFacts DEF Steady, State, JobStates, Recoverable
  <2>4. serial' \in [Launchers -> 0 .. MaxSaves] /\ serial'[l] = saves'
    BY <1>4, <2>2 DEF Steady, TypeOK
  <2>5. TypeOK'
    BY <1>1, <2>1, <2>2, <2>3, <2>4 DEF Steady, TypeOK, disk, State, Journals, JobStates
  <2>6. \A k \in Jobs : State(k)' \in Recoverable => k = j
    BY <1>2, <2>3 DEF Pending, State
  <2>7. \A k \in Jobs : State(k)' \notin {"publishing", "committed"} /\ bak[k] = Empty
    <3>1. \A k \in Jobs : State(k) \notin {"publishing", "committed"}
      BY <1>2 DEF Pending, Recoverable
    <3>2. \A k \in Jobs : bak[k] = Empty
      BY <3>1 DEF Steady, Contained, BackupHasJournal
    <3>3. \A k \in Jobs : journal'[k].state \notin {"publishing", "committed"}
      BY <2>3, <3>1 DEF State
    <3> QED BY <3>2, <3>3 DEF State
  <2>8. \A f \in Files, n \in 1 .. MaxSaves : target[f] = New(n) => n <= saves /\ n # saves'
    BY <1>4, <2>2 DEF Steady, Contained
  <2>9. ImageHasJournal'
    BY <1>1, <2>3 DEF Steady, TypeOK, Contained, ImageHasJournal, State
  <2>10. Contained'
    <3>1. OldIsSafe' /\ BackupHasJournal'
      BY <1>1, <2>7 DEF OldIsSafe, BackupHasJournal, disk
    <3>2. \A f \in Files, n \in 1 .. MaxSaves : target'[f] = New(n) => n <= saves'
      BY <1>1, <1>4, <2>2, <2>8 DEF disk
    <3> QED BY <2>6, <2>7, <2>9, <3>1, <3>2 DEF Contained, Pending
  <2>11. \A f \in Files : target'[f] # New(saves')
    BY <1>1, <2>2, <2>8 DEF disk
  <2>12. Placed(l)'
    BY <1>1, <1>2, <2>1, <2>2, <2>3, <2>4, <2>11 DEF Placed, State
  <2> QED BY <2>3, <2>5, <2>10, <2>12 DEF Steady
<1> QED BY <1>3, <1>4 DEF BeginSave

LEMMA SaveKeeps ==
  ASSUME Steady, NEW l \in Launchers, Placed(l), disturbed' \in BOOLEAN,
         Save(l)
  PROVE  Steady' /\ Placed(l)'
<1> DEFINE j == job[l]
           f == File(l)
<1>1. /\ pc[l] = "save" /\ Advance(l, "publish")
      /\ temp' = [temp EXCEPT ![j][f] = New(serial[l])]
      /\ UNCHANGED <<target, bak, journal, image, job, mine, bounds, confirmed>>
  BY DEF Save, At, New
<1>2. /\ j \in Jobs /\ serial[l] = saves /\ saves # 0 /\ f \in Files
  BY <1>1, OrderFacts DEF Steady, Placed, Owning, File, TypeOK
<1>3. /\ pc' \in [Launchers -> Phases] /\ at' \in [Launchers -> 1 .. Len(Order)]
      /\ pc'[l] \in {"save", "publish"}
  BY <1>1, AdvanceFacts, PhaseFacts DEF Steady, Owning
<1>4. temp' \in [Jobs -> [Files -> Contents]]
  <2>1. New(serial[l]) \in Contents /\ temp \in [Jobs -> [Files -> Contents]]
    BY <1>2, ContentFacts, DockerAssumption DEF Steady, TypeOK
  <2> QED BY <1>1, <1>2, <2>1
<1>5. TypeOK' /\ journal' \in [Jobs -> Journals]
  BY <1>1, <1>3, <1>4 DEF Steady, TypeOK, bounds, mine, State
<1>6. Contained'
  BY <1>1, ContainedAlone DEF Steady, bounds
<1>7. Placed(l)'
  BY <1>1, <1>2, <1>3 DEF Steady, Placed, Owning, State, mine, bounds
<1> QED BY <1>5, <1>6, <1>7 DEF Steady

\* The journal says what is replaced, before anything is.
LEMMA PublishKeeps ==
  ASSUME Steady, NEW l \in Launchers, Placed(l), disturbed' \in BOOLEAN,
         Publish(l)
  PROVE  Steady' /\ Placed(l)'
<1> DEFINE j == job[l]
<1>1. pc[l] = "publish" /\ UNCHANGED <<disk, image, job, mine, bounds, confirmed>>
  BY DEF Publish, At
<1>2. /\ j \in Jobs /\ plan[l] = confirmed /\ State(j) = "exporting"
      /\ serial[l] = saves /\ saves \in 1 .. MaxSaves
      /\ \A f \in Files : target[f] # New(saves)
  BY <1>1, DockerAssumption DEF Steady, TypeOK, Placed, Owning
<1>3. CASE Goto(l, "undo") /\ UNCHANGED journal
  <2>1. "undo" \in Phases /\ pc'[l] = "undo"
    BY <1>3, PhaseFacts, GotoFacts DEF Steady, Owning
  <2>2. Placed(l)'
    BY <1>1, <1>2, <2>1 DEF Placed
  <2> QED BY <1>1, <1>3, <2>1, <2>2, MoveKeeps DEF Steady, TypeOK, mine, bounds
<1>4. CASE /\ temp[j] = Triad(serial[l]) /\ target = plan[l] /\ Goto(l, "backup")
           /\ journal' = [journal EXCEPT ![j] =
                [state |-> "publishing", old |-> plan[l], new |-> serial[l]]]
  <2>1. /\ pc' \in [Launchers -> Phases] /\ at' \in [Launchers -> 1 .. Len(Order)]
        /\ pc'[l] = "backup" /\ at'[l] = 1
    BY <1>4, PhaseFacts, GotoFacts DEF Steady, Owning
  <2> DEFINE J == [state |-> "publishing", old |-> plan[l], new |-> serial[l]]
  <2>2. J \in Journals
    BY DEF Steady, TypeOK, Journals, JobStates, Recoverable
  <2>3. /\ journal' \in [Jobs -> Journals] /\ journal'[j].state = "publishing"
        /\ journal'[j].old = target /\ journal'[j].old = confirmed /\ journal'[j].new = saves
        /\ \A k \in Jobs : k # j => journal'[k] = journal[k]
    <3>1. journal \in [Jobs -> Journals] /\ journal' = [journal EXCEPT ![j] = J]
      BY <1>4 DEF Steady
    <3>2. journal' \in [Jobs -> Journals] /\ journal'[j] = J
      BY <1>2, <2>2, <3>1
    <3> QED BY <1>2, <1>4, <3>1, <3>2
  <2>4. TypeOK'
    BY <1>1, <2>1, <2>3 DEF Steady, TypeOK, disk, mine, bounds, State, Journals, JobStates
  <2>5. \A k \in Jobs : State(k) \in Recoverable => k = j
    BY <1>2 DEF Steady, Contained, Pending, Recoverable
  <2>6. \A k \in Jobs : State(k)' \in Recoverable => k = j
    BY <1>2, <2>3, <2>5 DEF State
  <2>7. \A k \in Jobs : bak[k] = Empty /\ \A f \in Files : bak[k][f] = None
    <3>1. \A k \in Jobs : State(k) \notin {"publishing", "committed"}
      BY <1>2, <2>5 DEF Recoverable
    <3>2. \A k \in Jobs : bak[k] = Empty
      BY <3>1 DEF Steady, Contained, BackupHasJournal
    <3> QED BY <3>2 DEF Empty
  <2>8. OldIsSafe' /\ BackupHasJournal'
    <3>1. BackupHasJournal'
      <4>1. \A k \in Jobs : bak'[k] = Empty
        BY <1>1, <2>7 DEF disk
      <4> QED BY <4>1 DEF BackupHasJournal
    <3>2. \A k \in Jobs : State(k)' = "publishing" => journal'[k].old = target'
      BY <1>1, <2>3, <2>6 DEF State, Recoverable, disk
    <3>3. OldIsSafe'
      BY <3>2 DEF OldIsSafe
    <3> QED BY <3>1, <3>3
  <2>9. ImageHasJournal'
    BY <1>1, <2>3 DEF Steady, TypeOK, Contained, ImageHasJournal, State
  <2>10. Contained'
    <3>1. \A f \in Files, n \in 1 .. MaxSaves : target[f] = New(n) => n <= saves /\ n # saves
      BY <1>2 DEF Steady, Contained
    <3>2. \A k \in Jobs : State(k)' \in {"publishing", "committed"} =>
            k = j /\ State(k)' = "publishing"
      BY <2>3, <2>6 DEF State, Recoverable
    <3> QED BY <1>1, <1>2, <2>3, <2>6, <2>7, <2>8, <2>9, <3>1, <3>2
            DEF Contained, Pending, State, disk, bounds
  <2>11. \A f \in Files : temp[j][f] = New(saves)
    BY <1>2, <1>4 DEF Triad, New
  <2>12. Placed(l)'
    <3>1. \A k \in 1 .. 3 : bak[j][Order[k]] = None
      BY <1>2, <2>7, OrderFacts
    <3> QED BY <1>1, <1>2, <2>1, <2>3, <2>11, <3>1 DEF Placed, State, disk, mine
  <2> QED BY <2>3, <2>4, <2>10, <2>12 DEF Steady
<1> QED BY <1>3, <1>4 DEF Publish

\* A step that fails in the middle of the publication leaves the files and the journal.
LEMMA ToRestore ==
  ASSUME Steady, NEW l \in Launchers, Placed(l), disturbed' \in BOOLEAN,
         pc[l] \in {"backup", "promote", "commit"},
         Goto(l, "restore"), UNCHANGED <<disk, journal, image, job, mine, jobs, saves, confirmed>>,
         events' \in 0 .. MaxEvents
  PROVE  Steady' /\ Placed(l)'
<1> DEFINE j == job[l]
<1>1. "restore" \in Phases /\ pc'[l] = "restore" /\ at'[l] = 1
  BY PhaseFacts, GotoFacts DEF Steady, Owning
<1>2. j \in Jobs /\ State(j) = "publishing"
  BY DEF Steady, Placed, Owning
<1>3. Kept(j)
  <2>1. CASE pc[l] = "backup"
    BY <2>1, OrderFacts DEF Steady, Placed, Kept
  <2>2. CASE pc[l] \in {"promote", "commit"}
    BY <2>2 DEF Steady, Placed, Kept
  <2> QED BY <2>1, <2>2
<1>4. Placed(l)'
  BY <1>1, <1>2, <1>3 DEF Placed, NoBackup, Kept, State, disk
<1> QED BY <1>1, <1>4, MoveKeeps DEF Steady, TypeOK, mine

LEMMA BackupKeeps ==
  ASSUME Steady, NEW l \in Launchers, Placed(l), disturbed' \in BOOLEAN,
         Backup(l)
  PROVE  Steady' /\ Placed(l)'
<1> DEFINE j == job[l]
           f == File(l)
           old == journal[j].old
<1>1. pc[l] = "backup" /\ UNCHANGED <<temp, journal, image, job, mine, bounds, confirmed>>
  BY DEF Backup, At
<1>2. /\ j \in Jobs /\ State(j) = "publishing" /\ journal[j].new = serial[l]
      /\ at[l] \in 1 .. 3 /\ f = Order[at[l]] /\ f \in Files
      /\ target[f] = old[f] /\ bak[j][f] = None
      /\ \A g \in Files : temp[j][g] = New(serial[l])
  BY <1>1, OrderFacts DEF Steady, TypeOK, Placed, Owning, File
<1>3. \A k \in 1 .. 3 : IF k < at[l] THEN bak[j][Order[k]] = old[Order[k]]
        ELSE target[Order[k]] = old[Order[k]] /\ bak[j][Order[k]] = None
  BY <1>1 DEF Steady, Placed
<1>4. CASE Goto(l, "restore") /\ UNCHANGED <<target, bak>>
  BY <1>1, <1>4, ToRestore DEF disk, bounds, Steady, TypeOK
<1>5. CASE /\ Advance(l, "promote")
           /\ \/ old[f] = None /\ UNCHANGED <<target, bak>>
              \/ /\ bak' = [bak EXCEPT ![j][f] = target[f]]
                 /\ target' = [target EXCEPT ![f] = None]
  <2>1. /\ target \in [Files -> Contents] /\ bak \in [Jobs -> [Files -> Contents]]
        /\ old \in [Files -> Contents] /\ None \in Contents
    BY <1>2, ContentFacts DEF Steady, TypeOK
  <2>2. /\ target' \in [Files -> Contents] /\ bak' \in [Jobs -> [Files -> Contents]]
        /\ bak'[j][f] = old[f] /\ target'[f] = None
        /\ \A g \in Files : g # f => target'[g] = target[g] /\ bak'[j][g] = bak[j][g]
        /\ \A k \in Jobs : k # j => bak'[k] = bak[k]
    BY <1>2, <1>5, <2>1
  <2>3. /\ pc' \in [Launchers -> Phases] /\ at' \in [Launchers -> 1 .. Len(Order)]
        /\ \/ at[l] < 3 /\ at'[l] = at[l] + 1 /\ pc'[l] = "backup"
           \/ at[l] = 3 /\ at'[l] = 1 /\ pc'[l] = "promote"
    <3>1. TypeOK /\ "promote" \in Phases
      BY PhaseFacts DEF Steady, Owning
    <3>2. Advance(l, "promote")
      BY <1>5
    <3> QED BY <1>1, <3>1, <3>2, AdvanceFacts
  <2>4. TypeOK' /\ journal' \in [Jobs -> Journals]
    BY <1>1, <2>2, <2>3 DEF Steady, TypeOK, mine, bounds, State
  <2>5. \A k \in 1 .. 3 : IF k < at[l] + 1 THEN bak'[j][Order[k]] = old[Order[k]]
          ELSE target'[Order[k]] = old[Order[k]] /\ bak'[j][Order[k]] = None
    BY <1>2, <1>3, <2>2, OrderFacts
  <2>6. \A g \in Files : old[g] # None => old[g] \in {target'[g], bak'[j][g]}
    BY <2>5, OrderFacts
  <2>7. \A k \in Jobs : State(k) \in {"publishing", "committed"} => k = j
    BY <1>2 DEF Steady, Contained, Pending, Recoverable
  <2>8. OldIsSafe' /\ BackupHasJournal' /\ ImageHasJournal'
    <3>1. OldIsSafe'
      BY <1>1, <2>6, <2>7 DEF OldIsSafe, State
    <3>2. BackupHasJournal' /\ ImageHasJournal'
      BY <1>1, <1>2, <2>2 DEF Steady, Contained, BackupHasJournal, ImageHasJournal, State
    <3> QED BY <3>1, <3>2
  <2>9. Contained'
    <3>1. \A g \in Files, n \in 1 .. MaxSaves : target'[g] = New(n) => n <= saves
      BY <2>2, ContentFacts DEF Steady, Contained
    <3>2. \A g \in Files : bak'[j][g] \in {None, old[g]}
      BY <1>2, <2>2 DEF Steady, Contained
    <3>3. \A k \in Jobs : State(k) # "committed"
      BY <1>2, <2>7
    <3> QED BY <1>1, <2>7, <2>8, <3>1, <3>2, <3>3 DEF Steady, Contained, Pending, State, bounds
  <2>10. at[l] = 3 => bak'[j] = old
    <3>1. at[l] = 3 => \A g \in Files : bak'[j][g] = old[g]
      BY <2>5, OrderFacts
    <3>2. bak'[j] \in [Files -> Contents]
      BY <1>2, <2>2
    <3> QED BY <2>1, <3>1, <3>2
  <2>11. Placed(l)'
    BY <1>1, <1>2, <2>3, <2>5, <2>10, OrderFacts DEF Placed, State, mine
  <2> QED BY <2>4, <2>9, <2>11 DEF Steady
<1> QED BY <1>2, <1>4, <1>5 DEF Backup

LEMMA PromoteKeeps ==
  ASSUME Steady, NEW l \in Launchers, Placed(l), disturbed' \in BOOLEAN,
         Promote(l)
  PROVE  Steady' /\ Placed(l)'
<1> DEFINE j == job[l]
           f == File(l)
           old == journal[j].old
<1>1. pc[l] = "promote" /\ UNCHANGED <<bak, journal, image, job, mine, bounds, confirmed>>
  BY DEF Promote, At
<1>2. /\ j \in Jobs /\ State(j) = "publishing" /\ journal[j].new = serial[l]
      /\ at[l] \in 1 .. 3 /\ f = Order[at[l]] /\ f \in Files /\ bak[j] = old
      /\ \A k \in 1 .. 3 : at[l] <= k => temp[j][Order[k]] = New(serial[l])
  BY <1>1, OrderFacts DEF Steady, TypeOK, Placed, Owning, File
<1>3. CASE Goto(l, "restore") /\ UNCHANGED <<target, temp>>
  BY <1>1, <1>3, ToRestore DEF disk, bounds, Steady, TypeOK
<1>4. CASE /\ target' = [target EXCEPT ![f] = temp[j][f]]
           /\ temp' = [temp EXCEPT ![j][f] = None] /\ Advance(l, "commit")
  <2>1. /\ target \in [Files -> Contents] /\ temp \in [Jobs -> [Files -> Contents]]
        /\ None \in Contents /\ temp[j][f] = New(serial[l])
    BY <1>2, ContentFacts DEF Steady, TypeOK
  <2>2. /\ target' \in [Files -> Contents] /\ temp' \in [Jobs -> [Files -> Contents]]
        /\ target'[f] = New(serial[l]) /\ \A g \in Files : g # f => target'[g] = target[g]
        /\ \A g \in Files : g # f => temp'[j][g] = temp[j][g]
    BY <1>2, <1>4, <2>1
  <2>3. /\ pc' \in [Launchers -> Phases] /\ at' \in [Launchers -> 1 .. Len(Order)]
        /\ \/ at[l] < 3 /\ at'[l] = at[l] + 1 /\ pc'[l] = "promote"
           \/ at[l] = 3 /\ pc'[l] = "commit"
    BY <1>1, <1>4, AdvanceFacts, PhaseFacts DEF Steady, Owning
  <2>4. TypeOK' /\ journal' \in [Jobs -> Journals]
    BY <1>1, <2>2, <2>3 DEF Steady, TypeOK, mine, bounds, State
  <2>5. \A k \in Jobs : State(k) \in {"publishing", "committed"} => k = j
    BY <1>2 DEF Steady, Contained, Pending, Recoverable
  <2>6. OldIsSafe' /\ BackupHasJournal' /\ ImageHasJournal'
    <3>1. OldIsSafe'
      BY <1>1, <1>2, <2>5 DEF OldIsSafe, State
    <3>2. BackupHasJournal' /\ ImageHasJournal'
      BY <1>1 DEF Steady, Contained, BackupHasJournal, ImageHasJournal, State
    <3> QED BY <3>1, <3>2
  <2>7. \A g \in Files, n \in 1 .. MaxSaves : target'[g] = New(n) => n <= saves
    <3>1. serial[l] \in Nat /\ serial[l] <= saves
      BY <1>2, DockerAssumption DEF Steady, TypeOK, Contained
    <3> QED BY <2>2, <3>1, ContentFacts DEF Steady, Contained
  <2>8. Contained'
    <3>1. \A k \in Jobs : State(k) # "committed"
      BY <1>2, <2>5
    <3> QED BY <1>1, <2>6, <2>7, <3>1 DEF Steady, Contained, Pending, State, bounds
  <2>9. Placed(l)'
    <3>1. \A k \in 1 .. 3 : at[l] + 1 <= k => temp'[j][Order[k]] = New(serial[l])
      BY <1>2, <2>2, OrderFacts
    <3> QED BY <1>1, <1>2, <2>3, <3>1 DEF Placed, State, mine
  <2> QED BY <2>4, <2>8, <2>9 DEF Steady
<1> QED BY <1>2, <1>3, <1>4 DEF Promote

\* The only step after which the backups are not needed any more.
LEMMA CommitKeeps ==
  ASSUME Steady, NEW l \in Launchers, Placed(l), disturbed' \in BOOLEAN,
         Commit(l)
  PROVE  Steady' /\ Placed(l)'
<1> DEFINE j == job[l]
<1>1. pc[l] = "commit" /\ UNCHANGED <<disk, image, job, mine, bounds, confirmed>>
  BY DEF Commit, At
<1>2. j \in Jobs /\ State(j) = "publishing" /\ journal[j].new = serial[l]
  BY <1>1 DEF Steady, Placed, Owning
<1>3. CASE Goto(l, "restore") /\ UNCHANGED journal
  BY <1>1, <1>3, ToRestore DEF bounds, Steady, TypeOK
<1>4. CASE target = Triad(serial[l]) /\ Set(j, "committed") /\ Goto(l, "drop")
  <2>1. /\ pc' \in [Launchers -> Phases] /\ at' \in [Launchers -> 1 .. Len(Order)]
        /\ pc'[l] = "drop" /\ at'[l] = 1
    BY <1>4, PhaseFacts, GotoFacts DEF Steady, Owning
  <2>2. /\ journal' \in [Jobs -> Journals] /\ journal'[j].state = "committed"
        /\ journal'[j].old = journal[j].old /\ journal'[j].new = journal[j].new
        /\ \A k \in Jobs : k # j => journal'[k] = journal[k]
    BY <1>2, <1>4, SetFacts DEF Steady, State, JobStates, Recoverable
  <2>3. TypeOK'
    BY <1>1, <2>1, <2>2 DEF Steady, TypeOK, disk, mine, bounds, State, Journals, JobStates
  <2>4. \A k \in Jobs : State(k) \in Recoverable => k = j
    BY <1>2 DEF Steady, Contained, Pending, Recoverable
  <2>5. /\ \A k \in Jobs : State(k)' \in Recoverable => k = j
        /\ \A k \in Jobs : State(k)' # "publishing"
    BY <1>2, <2>2, <2>4 DEF State, Recoverable
  <2>6. OldIsSafe' /\ BackupHasJournal' /\ ImageHasJournal'
    <3>1. OldIsSafe'
      BY <2>5 DEF OldIsSafe
    <3>2. BackupHasJournal'
      BY <1>1, <2>2 DEF Steady, Contained, BackupHasJournal, State, disk
    <3>3. ImageHasJournal'
      BY <1>1, <2>2 DEF Steady, TypeOK, Contained, ImageHasJournal, State
    <3> QED BY <3>1, <3>2, <3>3
  <2>7. \A k \in Jobs : State(k)' \in {"publishing", "committed"} =>
          /\ k = j /\ Arrived(k)'
          /\ \A f \in Files : bak'[k][f] \in {None, journal'[k].old[f]}
    <3>1. Arrived(j)'
      BY <1>1, <1>2, <1>4, <2>2 DEF Arrived, Triad, disk
    <3>2. \A f \in Files : bak[j][f] \in {None, journal[j].old[f]}
      BY <1>2 DEF Steady, Contained
    <3>3. \A k \in Jobs : State(k)' \in {"publishing", "committed"} => k = j
      BY <2>5 DEF Recoverable
    <3>4. Arrived(j)' <=> target' = Triad(journal'[j].new)
      BY <1>1 DEF Arrived, Triad
    <3> QED BY <1>1, <2>2, <3>1, <3>2, <3>3, <3>4 DEF disk, Arrived, Triad
  <2>8. Contained'
    BY <1>1, <2>5, <2>6, <2>7 DEF Steady, Contained, Pending, disk, bounds
  <2>9. Placed(l)'
    BY <1>1, <1>2, <2>1, <2>2 DEF Placed, NoBackup, State
  <2> QED BY <2>2, <2>3, <2>8, <2>9 DEF Steady
<1> QED BY <1>3, <1>4 DEF Commit

\* A backup of a committed export is dropped; then its journal asks for no recovery.
LEMMA FinishKeeps ==
  ASSUME Steady, NEW l \in Launchers, Placed(l), disturbed' \in BOOLEAN,
         Finish(l)
  PROVE  Steady' /\ Placed(l)'
<1> DEFINE j == job[l]
           f == File(l)
<1>1. UNCHANGED <<image, job, mine, bounds, confirmed>>
  BY DEF Finish
<1>2. CASE At(l, "drop") /\ RemoveBackup(l, "finish") /\ UNCHANGED journal
  <2>1. /\ UNCHANGED <<target, temp>> /\ Advance(l, "finish")
        /\ bak' = [bak EXCEPT ![j][f] = None]
    BY <1>2 DEF RemoveBackup
  <2>2. /\ pc[l] = "drop" /\ NoBackup(j, at[l]) /\ j \in Jobs
        /\ State(j) = "committed" /\ Arrived(j)
        /\ at[l] \in 1 .. 3 /\ f = Order[at[l]] /\ f \in Files
    BY <1>2, OrderFacts DEF Steady, Contained, Placed, At, Owning, File, TypeOK
  <2>3. /\ pc' \in [Launchers -> Phases] /\ at' \in [Launchers -> 1 .. Len(Order)]
        /\ \/ at[l] < 3 /\ at'[l] = at[l] + 1 /\ pc'[l] = "drop"
           \/ at[l] = 3 /\ pc'[l] = "finish"
    BY <2>1, <2>2, AdvanceFacts, PhaseFacts DEF Steady, Owning
  <2>4. /\ Contained' /\ bak' \in [Jobs -> [Files -> Contents]] /\ bak'[j][f] = None
        /\ \A g \in Files : g # f => bak'[j][g] = bak[j][g]
    BY <1>1, <1>2, <2>1, <2>2, DropEffect DEF bounds
  <2>5. TypeOK' /\ journal' \in [Jobs -> Journals]
    BY <1>1, <1>2, <2>1, <2>3, <2>4 DEF Steady, TypeOK, bounds, mine, State
  <2>6. /\ \A k \in 1 .. 3 : k < at[l] + 1 => bak'[j][Order[k]] = None
        /\ at[l] = 3 => bak'[j] = Empty
    <3>1. /\ bak[j] \in [Files -> Contents] /\ bak'[j] \in [Files -> Contents]
          /\ bak'[j][Order[at[l]]] = None
          /\ \A g \in Files : g # Order[at[l]] => bak'[j][g] = bak[j][g]
      BY <2>2, <2>4 DEF Steady, TypeOK
    <3> HIDE DEF j
    <3> QED BY <2>2, <3>1, NoBackupGrows
  <2>7. Placed(l)'
    BY <1>1, <1>2, <2>1, <2>2, <2>3, <2>6 DEF Placed, NoBackup, State, mine
  <2> QED BY <2>4, <2>5, <2>7 DEF Steady
<1>3. CASE /\ At(l, "finish") /\ Set(j, "cleanup-required") /\ Goto(l, "rmi")
           /\ UNCHANGED disk
  <2>1. j \in Jobs /\ bak[j] = Empty /\ "rmi" \in Phases
    BY <1>3, PhaseFacts DEF Steady, Placed, Owning, At
  <2>2. pc'[l] = "rmi" /\ State(j)' = "cleanup-required" /\ job' = job
    BY <1>1, <1>3, <2>1, GotoFacts, SetFacts DEF Steady, JobStates
  <2>3. Placed(l)'
    BY <1>1, <2>1, <2>2 DEF Placed, State
  <2> QED BY <1>1, <1>3, <2>1, <2>3, SetKeeps DEF Steady, TypeOK, mine, JobStates, Recoverable
<1> QED BY <1>2, <1>3 DEF Finish

LEMMA RemoveImageKeeps ==
  ASSUME Steady, NEW l \in Launchers, Placed(l), disturbed' \in BOOLEAN,
         RemoveImage(l)
  PROVE  Steady' /\ Placed(l)'
<1> DEFINE j == job[l]
<1>1. /\ pc[l] = "rmi"
      /\ UNCHANGED <<disk, journal, job, plan, serial, blocked, stale, swept, jobs, saves, confirmed>>
  BY DEF RemoveImage, At
<1>2. j \in Jobs /\ State(j) = "cleanup-required"
  BY <1>1 DEF Steady, Placed, Owning
<1>3. PICK p \in {"forget", "idle"} : Goto(l, p) /\ (p = "forget" => image' = image \ {j})
  BY DEF RemoveImage
<1>4. p \in Phases /\ pc'[l] = p
  BY <1>3, PhaseFacts, GotoFacts DEF Steady, Owning
<1>5. /\ image' \subseteq image /\ events' \in 0 .. MaxEvents
      /\ retained' \in [Launchers -> Jobs \cup {0}]
  <2>1. /\ events \in 0 .. MaxEvents /\ retained \in [Launchers -> Jobs \cup {0}]
        /\ MaxEvents \in Nat
    BY DockerAssumption DEF Steady, TypeOK
  <2>2. CASE image' = image \ {j} /\ UNCHANGED <<retained, events>>
    BY <2>1, <2>2
  <2>3. CASE Spend /\ retained' = [retained EXCEPT ![l] = j] /\ UNCHANGED image
    BY <1>2, <2>1, <2>3 DEF Spend
  <2> QED BY <2>2, <2>3 DEF RemoveImage
<1>6. Settles
  BY <1>1, <1>5 DEF Settles, Steady, TypeOK, Contained, ImageHasJournal, State
<1>7. Placed(l)'
  BY <1>1, <1>2, <1>3, <1>4 DEF Placed, State
<1> QED BY <1>1, <1>3, <1>4, <1>5, <1>6, <1>7, SettleKeeps DEF Steady, TypeOK

LEMMA ForgetKeeps ==
  ASSUME Steady, NEW l \in Launchers, Placed(l), disturbed' \in BOOLEAN,
         Forget(l)
  PROVE  Steady' /\ Placed(l)'
<1> DEFINE j == job[l]
<1>1. /\ pc[l] = "forget" /\ journal' = [journal EXCEPT ![j] = NoJournal]
      /\ retained' = [retained EXCEPT ![l] = 0] /\ Goto(l, "idle")
      /\ UNCHANGED <<disk, image, job, plan, serial, blocked, stale, swept, bounds, confirmed>>
  BY DEF Forget, At
<1>2. j \in Jobs /\ State(j) = "cleanup-required" /\ j \notin image
  BY <1>1 DEF Steady, Placed, Owning
<1>3. "idle" \in Phases /\ pc'[l] = "idle"
  BY <1>1, PhaseFacts, GotoFacts DEF Steady
<1>4. NoJournal \in Journals /\ NoJournal.state = "none"
  BY ContentFacts, DockerAssumption DEF NoJournal, Journals, JobStates
<1>5. /\ journal' \in [Jobs -> Journals] /\ journal'[j].state = "none"
      /\ \A k \in Jobs : k # j => journal'[k] = journal[k]
  BY <1>1, <1>2, <1>4 DEF Steady
<1>6. Settles
  BY <1>1, <1>2, <1>5 DEF Settles, Steady, TypeOK, Contained, ImageHasJournal, State, Recoverable
<1>7. retained' \in [Launchers -> Jobs \cup {0}]
  BY <1>1 DEF Steady, TypeOK
<1>8. Placed(l)'
  BY <1>3 DEF Placed, Owning
<1> QED BY <1>1, <1>3, <1>6, <1>7, <1>8, SettleKeeps DEF Steady, TypeOK, bounds

-----------------------------------------------------------------------------
(* Failures.                                                               *)

LEMMA RestoreKeeps ==
  ASSUME Steady, NEW l \in Launchers, Placed(l), disturbed' \in BOOLEAN,
         Restore(l)
  PROVE  Steady' /\ Placed(l)'
<1> DEFINE j == job[l]
           f == File(l)
<1>1. UNCHANGED <<temp, image, job, mine, bounds, confirmed>>
  BY DEF Restore, disk
<1>2. CASE At(l, "restore") /\ PutBack(l, "verify", "undo") /\ UNCHANGED journal
  <2>1. /\ pc[l] = "restore" /\ State(j) = "publishing" /\ Kept(j) /\ NoBackup(j, at[l])
        /\ j \in Jobs /\ at[l] \in 1 .. 3 /\ f = Order[at[l]] /\ f \in Files
    BY <1>2, OrderFacts DEF Steady, Placed, At, Owning, File, TypeOK
  <2>2. CASE Goto(l, "undo") /\ UNCHANGED <<target, bak>>
    <3>1. pc'[l] = "undo" /\ "undo" \in Phases
      BY <2>2, GotoFacts, PhaseFacts DEF Steady, Owning
    <3>2. Placed(l)'
      BY <1>1, <2>1, <3>1 DEF Placed
    <3> QED BY <1>1, <1>2, <2>2, <3>1, <3>2, MoveKeeps DEF Steady, TypeOK, disk, mine, bounds
  <2>3. CASE /\ Restored(j, f).can
             /\ target' = [target EXCEPT ![f] = Restored(j, f).file]
             /\ bak' = [bak EXCEPT ![j][f] = Restored(j, f).bak]
             /\ Advance(l, "verify")
    <3>1. /\ pc' \in [Launchers -> Phases] /\ at' \in [Launchers -> 1 .. Len(Order)]
          /\ \/ at[l] < 3 /\ at'[l] = at[l] + 1 /\ pc'[l] = "restore"
             \/ at[l] = 3 /\ pc'[l] = "verify"
      BY <2>1, <2>3, AdvanceFacts, PhaseFacts DEF Steady, Owning
    <3>2. /\ Contained' /\ Kept(j)'
          /\ target' \in [Files -> Contents] /\ bak' \in [Jobs -> [Files -> Contents]]
          /\ bak'[j][f] = None /\ \A g \in Files : g # f => bak'[j][g] = bak[j][g]
      BY <1>1, <1>2, <2>1, <2>3, PutBackEffect DEF bounds
    <3>3. TypeOK' /\ journal' \in [Jobs -> Journals]
      BY <1>1, <1>2, <3>1, <3>2 DEF Steady, TypeOK, bounds, mine, State
    <3>4. /\ \A k \in 1 .. 3 : k < at[l] + 1 => bak'[j][Order[k]] = None
          /\ at[l] = 3 => bak'[j] = Empty
      <4>1. /\ bak[j] \in [Files -> Contents] /\ bak'[j] \in [Files -> Contents]
            /\ bak'[j][Order[at[l]]] = None
            /\ \A g \in Files : g # Order[at[l]] => bak'[j][g] = bak[j][g]
        BY <2>1, <3>2 DEF Steady, TypeOK
      <4> HIDE DEF j
      <4> QED BY <2>1, <4>1, NoBackupGrows
    <3>5. Placed(l)'
      BY <1>1, <1>2, <2>1, <3>1, <3>2, <3>4 DEF Placed, NoBackup, Kept, State
    <3> QED BY <3>2, <3>3, <3>5 DEF Steady
  <2> QED BY <1>2, <2>2, <2>3 DEF PutBack
<1>3. CASE /\ At(l, "verify") /\ Goto(l, "undo") /\ UNCHANGED disk
           /\ Set(j, "failed") \/ UNCHANGED journal
  <2>1. j \in Jobs /\ bak[j] = Empty /\ "undo" \in Phases
    BY <1>3, PhaseFacts DEF Steady, Placed, Owning, At
  <2>2. pc'[l] = "undo" /\ job' = job
    BY <1>1, <1>3, <2>1, GotoFacts DEF Steady
  <2>3. Placed(l)'
    BY <2>1, <2>2 DEF Placed
  <2>4. CASE Set(j, "failed")
    BY <1>1, <1>3, <2>1, <2>3, <2>4, SetKeeps DEF Steady, TypeOK, mine, JobStates, Recoverable
  <2>5. CASE UNCHANGED journal
    BY <1>1, <1>3, <2>1, <2>3, <2>5, MoveKeeps DEF Steady, TypeOK, mine, bounds
  <2> QED BY <1>3, <2>4, <2>5
<1> QED BY <1>2, <1>3 DEF Restore

LEMMA UndoKeeps ==
  ASSUME Steady, NEW l \in Launchers, Placed(l), disturbed' \in BOOLEAN,
         Undo(l)
  PROVE  Steady' /\ Placed(l)'
<1> DEFINE j == job[l]
<1>1. /\ pc[l] = "undo" /\ retained' = [retained EXCEPT ![l] = j]
      /\ UNCHANGED <<disk, image, job, plan, serial, blocked, stale, swept, bounds, confirmed>>
  BY DEF Undo, At
<1>2. j \in Jobs /\ retained' \in [Launchers -> Jobs \cup {0}]
  BY <1>1 DEF Steady, TypeOK, Placed, Owning
<1>3. CASE /\ Goto(l, IF State(j) = "exporting" THEN "unwind" ELSE "finally")
           /\ UNCHANGED journal
  <2> DEFINE p == IF State(j) = "exporting" THEN "unwind" ELSE "finally"
  <2>1. p \in Phases /\ pc'[l] = p
    BY <1>3, PhaseFacts, GotoFacts DEF Steady, Owning
  <2>2. Settles
    BY <1>1, <1>3 DEF Settles, Steady, TypeOK, Contained, ImageHasJournal, State
  <2>3. Placed(l)'
    BY <1>1, <1>2, <1>3, <2>1 DEF Placed, State
  <2> QED BY <1>1, <1>2, <1>3, <2>1, <2>2, <2>3, SettleKeeps DEF Steady, TypeOK, bounds
<1>4. CASE State(j) \notin Recoverable /\ Goto(l, "finally") /\ Set(j, "failed")
  <2>1. "finally" \in Phases /\ pc'[l] = "finally"
    BY <1>4, PhaseFacts, GotoFacts DEF Steady, Owning
  <2>2. Placed(l)'
    BY <1>1, <1>2, <2>1 DEF Placed
  <2> QED BY <1>1, <1>2, <1>4, <2>1, <2>2, SetKeeps DEF JobStates, Recoverable
<1> QED BY <1>3, <1>4 DEF Undo

\* The temporary files of a job go.
LEMMA RemoveTempKeeps ==
  ASSUME Steady, NEW l \in Launchers, Placed(l), disturbed' \in BOOLEAN,
         NEW p \in Phases, pc[l] \in {"unwind", "finally"},
         RemoveTemp(l, p), UNCHANGED <<journal, image, job, mine, bounds, confirmed>>,
         p \in {"fail", "idle"}, p = "fail" => pc[l] = "unwind"
  PROVE  Steady' /\ Placed(l)'
<1> DEFINE j == job[l]
           f == File(l)
<1>1. /\ Advance(l, p) /\ UNCHANGED <<target, bak>> /\ temp' = [temp EXCEPT ![j][f] = None]
  BY DEF RemoveTemp
<1>2. j \in Jobs /\ f \in Files
  BY OrderFacts DEF Steady, Placed, Owning, File, TypeOK
<1>3. /\ pc' \in [Launchers -> Phases] /\ at' \in [Launchers -> 1 .. Len(Order)]
      /\ pc'[l] \in {pc[l], p}
  BY <1>1, AdvanceFacts DEF Steady
<1>4. TypeOK' /\ journal' \in [Jobs -> Journals]
  BY <1>1, <1>2, <1>3, ContentFacts DEF Steady, TypeOK, bounds, mine, State
<1>5. Contained'
  BY <1>1, ContainedAlone DEF Steady, bounds
<1>6. Placed(l)'
  BY <1>1, <1>2, <1>3 DEF Steady, Placed, Owning, State
<1> QED BY <1>4, <1>5, <1>6 DEF Steady

LEMMA UnwindKeeps ==
  ASSUME Steady, NEW l \in Launchers, Placed(l), disturbed' \in BOOLEAN,
         Unwind(l)
  PROVE  Steady' /\ Placed(l)'
<1>1. CASE At(l, "unwind") /\ RemoveTemp(l, "fail")
  BY <1>1, RemoveTempKeeps, PhaseFacts DEF Unwind, At, Owning
<1>2. CASE At(l, "finally") /\ RemoveTemp(l, "idle")
  BY <1>2, RemoveTempKeeps, PhaseFacts DEF Unwind, At, Owning
<1>3. CASE /\ At(l, "fail") /\ Set(job[l], "failed") /\ Goto(l, "finally")
           /\ UNCHANGED <<disk, image, job, mine, bounds, confirmed>>
  <2>1. job[l] \in Jobs /\ State(job[l]) = "exporting" /\ "finally" \in Phases
    BY <1>3, PhaseFacts DEF Steady, Placed, Owning, At
  <2>2. pc'[l] = "finally"
    BY <1>3, <2>1, GotoFacts DEF Steady
  <2>3. Placed(l)'
    BY <1>3, <2>1, <2>2 DEF Placed
  <2> QED BY <1>3, <2>1, <2>3, SetKeeps DEF Steady, TypeOK, mine, JobStates, Recoverable
<1> QED BY <1>1, <1>2, <1>3 DEF Unwind

LEMMA FailKeeps ==
  ASSUME Steady, NEW l \in Launchers, Placed(l), disturbed' \in BOOLEAN,
         Fail(l)
  PROVE  Steady' /\ Placed(l)'
<1>1. /\ UNCHANGED <<disk, journal, image, job, mine, jobs, saves, confirmed>>
      /\ events' \in 0 .. MaxEvents /\ blocked' \subseteq Launchers
  BY DockerAssumption DEF Fail, Spend, Steady, TypeOK, mine
<1>2. PICK p \in DOMAIN Handler : pc[l] \in Handler[p] /\ Goto(l, p)
  BY DEF Fail
<1>3. /\ p = "block" \/ p = "undo" \/ p = "restore" \/ p = "finally" \/ p = "idle"
      /\ p = "undo" => pc[l] \in {"ready", "save", "publish", "drop", "finish", "restore", "verify"}
      /\ p = "restore" => pc[l] \in {"backup", "promote", "commit"}
      /\ p = "finally" => pc[l] \in {"undo", "unwind", "fail"}
  BY <1>2 DEF Handler
<1>4. p \in Phases
  BY <1>3, PhaseFacts DEF Owning
<1>5. pc'[l] = p
  BY <1>2, <1>4, GotoFacts DEF Steady
<1>6. CASE p = "restore"
  BY <1>1, <1>2, <1>3, <1>6, ToRestore
<1>7. CASE p # "restore"
  <2>1. p \in {"undo", "finally"} => job[l] \in Jobs
    BY <1>3 DEF Steady, Placed, Owning
  <2>2. Placed(l)'
    BY <1>1, <1>3, <1>5, <1>7, <2>1 DEF Placed, Owning
  <2> QED BY <1>1, <1>2, <1>4, <2>2, MoveKeeps DEF mine
<1> QED BY <1>6, <1>7

\* The memory of a process goes with it.
LEMMA VanishFacts ==
  ASSUME TypeOK, NEW l \in Launchers, Vanish(l)
  PROVE  /\ Goto(l, "off") /\ "off" \in Phases
         /\ job' \in [Launchers -> Jobs \cup {0}] /\ retained' \in [Launchers -> Jobs \cup {0}]
         /\ plan' \in [Launchers -> [Files -> Contents]] /\ serial' \in [Launchers -> 0 .. MaxSaves]
         /\ blocked' \subseteq Launchers /\ swept' \subseteq Launchers
         /\ stale' \in [Launchers -> SUBSET Jobs]
         /\ Placed(l)'
<1>1. Goto(l, "off") /\ "off" \in Phases /\ pc'[l] = "off"
  BY PhaseFacts, GotoFacts DEF Vanish
<1>2. Placed(l)'
  BY <1>1 DEF Placed, Owning
<1> QED BY <1>1, <1>2, ContentFacts, DockerAssumption DEF Vanish, TypeOK

LEMMA CrashKeeps ==
  ASSUME Steady, NEW l \in Launchers, Placed(l), disturbed' \in BOOLEAN,
         Crash(l)
  PROVE  Steady' /\ Placed(l)'
<1>1. Vanish(l) /\ UNCHANGED <<disk, journal, image, jobs, saves, confirmed>>
  BY DEF Crash
<1>2. events' \in 0 .. MaxEvents
  BY DockerAssumption DEF Crash, Spend, Steady, TypeOK
<1>3. Settles
  BY <1>1 DEF Settles, Steady, TypeOK, Contained, ImageHasJournal, State
<1> QED BY <1>1, <1>2, <1>3, VanishFacts, SettleKeeps DEF Steady, TypeOK

-----------------------------------------------------------------------------
(* Images that stayed behind.                                              *)

LEMMA NoJournalFacts == NoJournal \in Journals /\ NoJournal.state = "none"
BY ContentFacts, DockerAssumption DEF NoJournal, Journals, JobStates

LEMMA CheckStaleKeeps ==
  ASSUME Steady, NEW l \in Launchers, Placed(l), disturbed' \in BOOLEAN,
         CheckStale(l)
  PROVE  Steady' /\ Placed(l)'
<1>1. /\ UNCHANGED <<disk, image, job, plan, serial, retained, blocked, bounds, confirmed>>
      /\ swept' = swept \cup {l}
      /\ journal' = [j \in Jobs |-> IF j \in Leftover \ image THEN NoJournal ELSE journal[j]]
      /\ stale' \in {[stale EXCEPT ![l] = s] : s \in {{}, Leftover \cap image}}
  BY DEF CheckStale
<1>2. PICK p \in {"idle", "clean"} : Goto(l, p)
  BY DEF CheckStale
<1>3. p \in Phases /\ pc'[l] \in {"idle", "clean"}
  BY <1>2, PhaseFacts, GotoFacts DEF Steady
<1>4. journal' \in [Jobs -> Journals]
  BY <1>1, NoJournalFacts DEF Steady
<1>5. Settles
  <2>1. \A j \in Jobs : journal'[j] # journal[j] =>
          /\ j \notin image /\ State(j) \notin {"publishing", "committed"}
          /\ journal'[j].state \notin Recoverable
    BY <1>1, NoJournalFacts DEF Leftover, Recoverable
  <2>2. \A j \in image : journal'[j].state # "none"
    BY <1>1, <2>1 DEF Steady, TypeOK, Contained, ImageHasJournal, State
  <2> QED BY <1>1, <1>4, <2>1, <2>2 DEF Settles, Steady, TypeOK
<1>6. stale' \in [Launchers -> SUBSET Jobs] /\ swept' \subseteq Launchers
  <2>1. Leftover \subseteq Jobs
    BY DEF Leftover
  <2>2. PICK s \in {{}, Leftover \cap image} : stale' = [stale EXCEPT ![l] = s]
    BY <1>1
  <2>3. s \subseteq Jobs /\ stale \in [Launchers -> SUBSET Jobs]
    BY <2>1 DEF Steady, TypeOK
  <2> QED BY <1>1, <2>2, <2>3 DEF Steady, TypeOK
<1>7. Placed(l)'
  BY <1>3 DEF Placed, Owning
<1> QED BY <1>1, <1>2, <1>3, <1>5, <1>6, <1>7, SettleKeeps DEF Steady, TypeOK, bounds

\* A journal goes with its image.
LEMMA ForgetSettles ==
  ASSUME Steady, NEW j \in Jobs, State(j) \notin Recoverable,
         image' = image \ {j}, journal' = [journal EXCEPT ![j] = NoJournal]
  PROVE  Settles
<1>1. /\ journal' \in [Jobs -> Journals] /\ journal'[j].state = "none"
      /\ \A k \in Jobs : k # j => journal'[k] = journal[k]
  BY NoJournalFacts DEF Steady
<1>2. \A k \in Jobs : journal'[k] # journal[k] =>
        State(k) \notin {"publishing", "committed"} /\ journal'[k].state \notin Recoverable
  BY <1>1 DEF Recoverable
<1> QED BY <1>1, <1>2 DEF Settles, Steady, TypeOK, Contained, ImageHasJournal, State

LEMMA CleanStaleKeeps ==
  ASSUME Steady, NEW l \in Launchers, Placed(l), disturbed' \in BOOLEAN,
         CleanStale(l)
  PROVE  Steady' /\ Placed(l)'
<1>1. /\ pc[l] = "clean"
      /\ UNCHANGED <<disk, job, plan, serial, retained, blocked, swept, jobs, saves, confirmed>>
  BY DEF CleanStale, At
<1>2. stale \in [Launchers -> SUBSET Jobs] /\ events \in 0 .. MaxEvents /\ MaxEvents \in Nat
  BY DockerAssumption DEF Steady, TypeOK
<1>3. CASE /\ Goto(l, "idle") /\ UNCHANGED <<journal, image>>
           /\ stale' = stale \/ stale' = [stale EXCEPT ![l] = {}]
           /\ events' = events \/ Spend
  <2>1. "idle" \in Phases /\ pc'[l] = "idle"
    BY <1>3, PhaseFacts, GotoFacts DEF Steady
  <2>2. stale' \in [Launchers -> SUBSET Jobs] /\ events' \in 0 .. MaxEvents
    BY <1>2, <1>3 DEF Spend
  <2>3. Settles
    BY <1>3 DEF Settles, Steady, TypeOK, Contained, ImageHasJournal, State
  <2>4. Placed(l)'
    BY <2>1 DEF Placed, Owning
  <2> QED BY <1>1, <1>3, <2>1, <2>2, <2>3, <2>4, SettleKeeps DEF Steady, TypeOK
<1>4. ASSUME NEW j \in stale[l], State(j) \notin Recoverable,
             image' = image \ {j}, journal' = [journal EXCEPT ![j] = NoJournal],
             stale' = [stale EXCEPT ![l] = @ \ {j}], UNCHANGED <<pc, at, events>>
      PROVE  Steady' /\ Placed(l)'
  <2>1. j \in Jobs
    BY <1>2
  <2>2. Settles
    BY <1>4, <2>1, ForgetSettles
  <2>3. journal' \in [Jobs -> Journals] /\ image' \subseteq Jobs
    BY <2>2 DEF Settles
  <2>4. stale' \in [Launchers -> SUBSET Jobs]
    BY <1>2, <1>4
  <2>5. TypeOK'
    BY <1>1, <1>4, <2>3, <2>4 DEF Steady, TypeOK, disk, State, Journals, JobStates
  <2>6. Contained'
    BY <1>1, <2>2, SettledMoves DEF Steady, disk
  <2>7. Placed(l)'
    BY <1>1, <1>4 DEF Placed, Owning
  <2> QED BY <2>3, <2>5, <2>6, <2>7 DEF Steady
<1>5. CASE stale[l] = {}
  BY <1>3, <1>5 DEF CleanStale
<1>6. CASE stale[l] # {}
  BY <1>3, <1>4, <1>6 DEF CleanStale
<1> QED BY <1>5, <1>6

LEMMA ExitKeeps ==
  ASSUME Steady, NEW l \in Launchers, Placed(l), disturbed' \in BOOLEAN,
         Exit(l)
  PROVE  Steady' /\ Placed(l)'
<1> DEFINE j == retained[l]
<1>1. Vanish(l) /\ UNCHANGED <<disk, jobs, saves, confirmed>>
  BY DEF Exit
<1>3. events' \in 0 .. MaxEvents
  BY DockerAssumption DEF Exit, Spend, Steady, TypeOK
<1>4. Settles
  <2>1. CASE UNCHANGED <<image, journal>>
    BY <2>1 DEF Settles, Steady, TypeOK, Contained, ImageHasJournal, State
  <2>2. CASE j \in image /\ image' = image \ {j} /\ UNCHANGED journal
    BY <2>2 DEF Settles, Steady, TypeOK, Contained, ImageHasJournal, State
  <2>3. CASE /\ j \in image /\ State(j) \notin Recoverable
             /\ image' = image \ {j} /\ journal' = [journal EXCEPT ![j] = NoJournal]
    <3>1. j \in Jobs
      BY <2>3 DEF Steady, TypeOK
    <3> HIDE DEF j
    <3> QED BY <2>3, <3>1, ForgetSettles
  <2> QED BY <2>1, <2>2, <2>3 DEF Exit
<1> HIDE DEF j
<1> QED BY <1>1, <1>3, <1>4, VanishFacts, SettleKeeps DEF Steady, TypeOK

\* A change by others disturbs nothing while the journals do not name the files.
LEMMA ChangeKeeps ==
  ASSUME Steady, \A l \in Launchers : Placed(l), disturbed' \in BOOLEAN, Change, ~Replacing
  PROVE  Steady' /\ \A l \in Launchers : Placed(l)'
<1>1. /\ \A j \in Jobs : State(j) \notin {"publishing", "committed"}
      /\ UNCHANGED <<temp, bak, journal, image, pc, at, job, mine, jobs, saves, confirmed>>
      /\ events' \in 1 .. MaxEvents
  BY DockerAssumption DEF Change, Replacing, Spend, Steady, TypeOK
<1>2. PICK f \in Files :
        target' = [target EXCEPT ![f] = IF @ = None THEN <<"user", events'>> ELSE None]
  BY DEF Change
<1>3. <<"user", events'>> \in Contents /\ None \in Contents
  BY <1>1, ContentFacts, DockerAssumption
<1>4. /\ target \in [Files -> Contents] /\ target' \in [Files -> Contents]
      /\ target'[f] \in {None, <<"user", events'>>}
      /\ \A g \in Files : g # f => target'[g] = target[g]
  BY <1>2, <1>3 DEF Steady, TypeOK
<1>5. TypeOK' /\ journal' \in [Jobs -> Journals]
  BY <1>1, <1>4, DockerAssumption DEF Steady, TypeOK, mine, State
<1>6. \A g \in Files, n \in 1 .. MaxSaves : target'[g] = New(n) => target[g] = New(n)
  BY <1>1, <1>4, ContentFacts, DockerAssumption
<1>7. OldIsSafe' /\ BackupHasJournal' /\ ImageHasJournal'
  <2>1. OldIsSafe'
    BY <1>1 DEF OldIsSafe, State
  <2>2. BackupHasJournal'
    BY <1>1 DEF Steady, Contained, BackupHasJournal, State
  <2>3. ImageHasJournal'
    BY <1>1 DEF Steady, Contained, ImageHasJournal, State
  <2> QED BY <2>1, <2>2, <2>3
<1>8. Contained'
  BY <1>1, <1>6, <1>7 DEF Steady, Contained, Pending, State
<1>9. ASSUME NEW l \in Launchers PROVE Placed(l)'
  <2>1. Placed(l)
    OBVIOUS
  <2>2. job[l] \in Jobs => State(job[l]) \notin {"publishing", "committed"}
    BY <1>1
  <2>3. pc[l] \in {"save", "publish"} => \A g \in Files : target'[g] # New(saves)
    <3>1. pc[l] \in {"save", "publish"} => saves \in 1 .. MaxSaves
      BY <2>1, DockerAssumption DEF Steady, TypeOK, Placed
    <3> QED BY <1>6, <2>1, <3>1 DEF Placed
  <2>4. pc[l] \notin {"backup", "promote", "commit", "restore", "r_restore", "verify", "r_verify",
                      "drop", "finish", "r_drop"}
    BY <2>1, <2>2 DEF Placed, Owning
  <2>5. pc[l] \in {"r_temps", "r_write"} => State(job[l]) = "exporting"
    BY <2>1, <2>2 DEF Placed, Owning
  <2> QED BY <1>1, <2>1, <2>3, <2>4, <2>5 DEF Placed, Pending, State, mine
<1> QED BY <1>5, <1>8, <1>9 DEF Steady

-----------------------------------------------------------------------------
(* The invariant.                                                          *)

LEMMA InitHolds == Init => IInv
<1> SUFFICES ASSUME Init PROVE IInv
  OBVIOUS
<1>1. /\ <<"user", 0>> \in Contents /\ None \in Contents /\ Empty \in [Files -> Contents]
  BY ContentFacts, DockerAssumption
<1>2. target \in [Files -> {None, <<"user", 0>>}]
  BY DEF Init, Empty
<1>3. \A j \in Jobs : journal[j] = NoJournal
  BY DEF Init
<1>4. journal \in [Jobs -> Journals]
  BY NoJournalFacts DEF Init
<1>5. \A j \in Jobs : State(j) = "none" /\ bak[j] = Empty
  BY <1>3, NoJournalFacts DEF Init, State
<1>6. TypeOK
  <2>1. /\ target \in [Files -> Contents] /\ temp \in [Jobs -> [Files -> Contents]]
        /\ bak \in [Jobs -> [Files -> Contents]] /\ confirmed \in [Files -> Contents]
    BY <1>1, <1>2 DEF Init
  <2>2. pc \in [Launchers -> Phases] /\ at \in [Launchers -> 1 .. Len(Order)]
    BY PhaseFacts, OrderFacts DEF Init
  <2>3. /\ job \in [Launchers -> Jobs \cup {0}] /\ retained \in [Launchers -> Jobs \cup {0}]
        /\ plan \in [Launchers -> [Files -> Contents]] /\ serial \in [Launchers -> 0 .. MaxSaves]
        /\ stale \in [Launchers -> SUBSET Jobs]
        /\ jobs \in 0 .. MaxJobs /\ saves \in 0 .. MaxSaves /\ events \in 0 .. MaxEvents
    BY <1>1, DockerAssumption DEF Init
  <2>4. image \subseteq Jobs /\ blocked \subseteq Launchers /\ swept \subseteq Launchers
    BY DEF Init
  <2>5. disturbed \in BOOLEAN
    BY DEF Init
  <2> QED BY <1>4, <2>1, <2>2, <2>3, <2>4, <2>5 DEF TypeOK, State, Journals, JobStates
<1>7. \A f \in Files, n \in 1 .. MaxSaves : target[f] # New(n)
  BY <1>2, ContentFacts, DockerAssumption
<1>8. Contained
  <2>1. OldIsSafe /\ BackupHasJournal /\ Pending = {}
    BY <1>5 DEF OldIsSafe, BackupHasJournal, Pending, Recoverable
  <2>2. ImageHasJournal
    BY DEF Init, ImageHasJournal
  <2> QED BY <1>5, <1>7, <2>1, <2>2 DEF Contained
<1>9. ASSUME NEW l \in Launchers PROVE Placed(l)
  <2>1. pc[l] = "off"
    BY DEF Init
  <2> QED BY <2>1 DEF Placed, Owning
<1>10. disturbed = FALSE
  BY DEF Init
<1> QED BY <1>4, <1>6, <1>8, <1>9, <1>10 DEF IInv, Steady

\* A launcher moves alone.
LEMMA OthersStay ==
  ASSUME TypeOK, NEW l \in Launchers, Step(l)
  PROVE  \A m \in Launchers \ {l} : pc'[m] = pc[m]
<1>1. CASE RecoveryStep(l)
  BY <1>1 DEF RecoveryStep, Boot, RecoverNext, RecoverFile, RecoverVerify, RecoverWrite, Block,
              RemoveBackup, RemoveTemp, PutBack, Advance, Goto, TypeOK
<1>2. CASE ExportStep(l)
  <2>1. CASE \/ Choose(l) \/ BeginExport(l) \/ Build(l) \/ MarkReady(l) \/ BeginSave(l) \/ Save(l)
             \/ Publish(l)
    BY <2>1 DEF Choose, BeginExport, Build, MarkReady, BeginSave, Save, Publish, Advance, Goto, TypeOK
  <2>2. CASE Backup(l) \/ Promote(l) \/ Commit(l) \/ Finish(l) \/ RemoveImage(l) \/ Forget(l)
    BY <2>2 DEF Backup, Promote, Commit, Finish, RemoveImage, Forget, RemoveBackup, Advance, Goto, TypeOK
  <2> QED BY <1>2, <2>1, <2>2 DEF ExportStep
<1>3. CASE FailureStep(l)
  BY <1>3 DEF FailureStep, Restore, Undo, Unwind, Fail, Crash, Vanish, RemoveTemp, PutBack, Advance,
              Goto, TypeOK
<1>4. CASE CleanupStep(l)
  BY <1>4 DEF CleanupStep, CheckStale, CleanStale, Exit, Vanish, Goto, TypeOK
<1> QED BY <1>1, <1>2, <1>3, <1>4 DEF Step

LEMMA StepAlone ==
  ASSUME Steady, NEW l \in Launchers, Placed(l), disturbed' \in BOOLEAN, Step(l)
  PROVE  Steady' /\ Placed(l)'
<1>1. CASE RecoveryStep(l)
  BY <1>1, BootKeeps, RecoverNextKeeps, RecoverFileKeeps, RecoverEndKeeps DEF RecoveryStep
<1>2. CASE ExportStep(l)
  BY <1>2, ChooseKeeps, BeginExportKeeps, BuildKeeps, MarkReadyKeeps, BeginSaveKeeps, SaveKeeps,
     PublishKeeps, BackupKeeps, PromoteKeeps, CommitKeeps, FinishKeeps, RemoveImageKeeps,
     ForgetKeeps DEF ExportStep
<1>3. CASE FailureStep(l)
  BY <1>3, RestoreKeeps, UndoKeeps, UnwindKeeps, FailKeeps, CrashKeeps DEF FailureStep
<1>4. CASE CleanupStep(l)
  BY <1>4, CheckStaleKeeps, CleanStaleKeeps, ExitKeeps DEF CleanupStep
<1> QED BY <1>1, <1>2, <1>3, <1>4 DEF Step

\* A step that disturbs nothing: the launcher has the only job in hand.
LEMMA StepKeeps ==
  ASSUME Steady, \A m \in Launchers : Placed(m), disturbed' \in BOOLEAN,
         NEW l \in Launchers, Step(l), \A m \in Launchers \ {l} : ~Working(m)
  PROVE  Steady' /\ \A m \in Launchers : Placed(m)'
<1>1. Steady' /\ Placed(l)'
  BY StepAlone
<1>2. ASSUME NEW m \in Launchers \ {l}
      PROVE  Placed(m)'
  <2>1. pc'[m] \notin Owning
    BY OthersStay DEF Working, Owning, Steady
  <2> QED BY <2>1 DEF Placed, Owning
<1> QED BY <1>1, <1>2

LEMMA NextKeeps ==
  ASSUME IInv, [Next]_vars
  PROVE  IInv'
<1>1. disturbed' \in BOOLEAN
  BY DEF IInv, Next, Disturbs, vars
<1>2. ASSUME ~disturbed'
      PROVE  Steady' /\ \A m \in Launchers : Placed(m)'
  <2>1. Steady /\ \A m \in Launchers : Placed(m)
    BY <1>2 DEF IInv, Next, Disturbs, vars
  <2>2. CASE UNCHANGED vars
    <3>1. UNCHANGED <<target, temp, bak, journal, image, pc, at, job, plan, serial, retained,
                      blocked, stale, swept, jobs, saves, events, confirmed>>
      BY <2>2 DEF vars, disk, mine, bounds
    <3>2. TypeOK' /\ journal' \in [Jobs -> Journals]
      BY <1>1, <2>1, <3>1 DEF Steady, TypeOK, State
    <3>3. Contained'
      BY <2>1, <3>1, ContainedAlone DEF Steady
    <3>4. ASSUME NEW l \in Launchers PROVE Placed(l)'
      BY <2>1, <3>1 DEF Placed, Pending, State, Kept, NoBackup, Arrived, Triad
    <3> QED BY <3>2, <3>3, <3>4 DEF Steady
  <2>3. ASSUME NEW l \in Launchers, Step(l), Disturbs(\E m \in Launchers \ {l} : Working(m))
        PROVE  Steady' /\ \A m \in Launchers : Placed(m)'
    <3>1. \A m \in Launchers \ {l} : ~Working(m)
      BY <1>2, <2>3 DEF Disturbs
    <3> QED BY <1>1, <2>1, <2>3, <3>1, StepKeeps
  <2>4. CASE Change /\ Disturbs(Replacing)
    <3>1. ~Replacing
      BY <1>2, <2>4 DEF Disturbs
    <3> QED BY <1>1, <2>1, <2>4, <3>1, ChangeKeeps
  <2> QED BY <2>2, <2>3, <2>4 DEF Next
<1> QED BY <1>1, <1>2 DEF IInv

\* Until the protocol is disturbed: what the disk, the journals and the launcher with a
\* job in hand say of each other (docker_jobs.py, recover_pending_outputs, export_image).
THEOREM ExportInv == Spec => []IInv
<1>1. Init => IInv
  BY InitHolds
<1>2. IInv /\ [Next]_vars => IInv'
  BY NextKeeps
<1> QED BY <1>1, <1>2, PTL DEF Spec

\* Whatever a failure or a crash leaves can be put right: the files that an export replaces
\* exist, backups and images have journals.  Nothing is said once another launcher has
\* stepped in between the steps of one with a job in hand, which no lock prevents, or the
\* files were changed by somebody else while a journal of their publication was open.
THEOREM ExportSafe == Spec => []ExportIsSafe
<1>1. IInv => ExportIsSafe
  BY DEF IInv, Steady, Contained, ExportIsSafe
<1> QED BY <1>1, ExportInv, PTL

-----------------------------------------------------------------------------
(* The three files change together: ExportTriad.                           *)

\* At most one journal is publishing, so Shown is what that one says.
LEMMA ShownFacts ==
  ASSUME Steady
  PROVE  /\ \A j \in Jobs : State(j) = "publishing" => Shown = journal[j].old
         /\ (\A j \in Jobs : State(j) # "publishing") => Shown = target
<1>1. ASSUME NEW j \in Jobs, State(j) = "publishing" PROVE Shown = journal[j].old
  <2>1. \A k \in Jobs : State(k) = "publishing" => k = j
    BY <1>1 DEF Steady, Contained, Pending, Recoverable
  <2>2. j = CHOOSE k \in Jobs : State(k) = "publishing"
    BY <1>1, <2>1
  <2> QED BY <1>1, <2>2 DEF Shown
<1> QED BY <1>1 DEF Shown

LEMMA ShownLater ==
  ASSUME Steady'
  PROVE  /\ \A j \in Jobs : State(j)' = "publishing" => Shown' = journal'[j].old
         /\ (\A j \in Jobs : State(j)' # "publishing") => Shown' = target'
<1>1. ASSUME NEW j \in Jobs, State(j)' = "publishing" PROVE Shown' = journal'[j].old
  <2>1. \A k \in Jobs : State(k)' = "publishing" => k = j
    BY <1>1 DEF Steady, Contained, Pending, Recoverable
  <2>2. j = CHOOSE k \in Jobs : State(k)' = "publishing"
    BY <1>1, <2>1
  <2> QED BY <1>1, <2>2 DEF Shown
<1> QED BY <1>1 DEF Shown

\* Steps that change no journal of a publication, and no file outside one.
Calm ==
  /\ confirmed' = confirmed
  /\ target' = target \/ \E j \in Jobs : State(j) = "publishing"
  /\ \A j \in Jobs :
       State(j) = "publishing" \/ journal'[j].state = "publishing" => journal'[j] = journal[j]

LEMMA CalmStutters ==
  ASSUME Steady, Steady', Calm
  PROVE  UNCHANGED <<Shown, confirmed>>
<1>1. CASE \E j \in Jobs : State(j) = "publishing"
  <2>1. PICK j \in Jobs : State(j) = "publishing"
    BY <1>1
  <2>2. journal'[j] = journal[j] /\ State(j)' = "publishing"
    BY <2>1 DEF Calm, State
  <2>3. Shown = journal[j].old
    BY <2>1, ShownFacts
  <2>4. Shown' = journal'[j].old
    BY <2>2, ShownLater
  <2> QED BY <2>2, <2>3, <2>4 DEF Calm
<1>2. CASE \A j \in Jobs : State(j) # "publishing"
  <2>1. \A j \in Jobs : State(j)' # "publishing"
    BY <1>2 DEF Calm, State
  <2>2. Shown = target
    BY <1>2, ShownFacts
  <2>3. Shown' = target'
    BY <2>1, ShownLater
  <2> QED BY <1>2, <2>2, <2>3 DEF Calm
<1> QED BY <1>1, <1>2

LEMMA SetIsCalm ==
  ASSUME Steady, NEW j \in Jobs, State(j) # "publishing", NEW s, s # "publishing", Set(j, s),
         UNCHANGED <<target, confirmed>>
  PROVE  Calm
BY DEF Steady, Set, State, Calm

\* A publication that ends leaves what the user confirmed, or the files of its export.
LEMMA EndOfPublication ==
  ASSUME Steady, Steady', NEW j \in Jobs, State(j) = "publishing", State(j)' # "publishing",
         \A k \in Jobs : k # j => journal'[k] = journal[k],
         UNCHANGED <<target, confirmed>>, Arrived(j) \/ target = journal[j].old
  PROVE  [Promise!Promised]_<<Shown, confirmed>>
<1>1. Shown = journal[j].old /\ journal[j].old = confirmed /\ journal[j].new \in 1 .. MaxSaves
  <2>1. journal[j].new \in 1 .. saves /\ saves \in 0 .. MaxSaves
    BY DEF Steady, Contained, TypeOK
  <2> QED BY <2>1, ShownFacts, DockerAssumption DEF Steady, Contained
<1>2. Shown' = target
  <2>1. \A k \in Jobs : State(k) = "publishing" => k = j
    BY DEF Steady, Contained, Pending, Recoverable
  <2>2. \A k \in Jobs : State(k)' # "publishing"
    BY <2>1 DEF State
  <2> QED BY <2>2, ShownLater
<1>3. CASE Arrived(j)
  <2>1. Shown' = Promise!Triad(journal[j].new)
    BY <1>2, <1>3 DEF Arrived, Triad, Promise!Triad
  <2>2. Promise!Replace
    BY <1>1, <2>1 DEF Promise!Replace
  <2> QED BY <2>2 DEF Promise!Promised
<1>4. CASE target = journal[j].old
  BY <1>1, <1>2, <1>4
<1> QED BY <1>3, <1>4

LEMMA RecoveryRefines ==
  ASSUME Steady, Steady', NEW l \in Launchers, Placed(l), RecoveryStep(l)
  PROVE  [Promise!Promised]_<<Shown, confirmed>>
<1>1. CASE Boot(l) \/ RecoverNext(l) \/ RecoverVerify(l) \/ Block(l)
  <2>1. Calm
    BY <1>1 DEF Boot, RecoverNext, RecoverVerify, Block, Calm, disk
  <2> QED BY <2>1, CalmStutters
<1>2. CASE RecoverFile(l)
  <2>1. UNCHANGED <<journal, confirmed>>
    BY <1>2 DEF RecoverFile
  <2>2. target' = target \/ pc[l] = "r_restore"
    BY <1>2 DEF RecoverFile, RemoveBackup, RemoveTemp, At
  <2>3. pc[l] = "r_restore" => job[l] \in Jobs /\ State(job[l]) = "publishing"
    BY DEF Steady, Placed, Owning
  <2>4. Calm
    BY <2>1, <2>2, <2>3 DEF Calm
  <2> QED BY <2>4, CalmStutters
<1>3. CASE RecoverWrite(l)
  <2>1. /\ pc[l] = "r_write" /\ Set(job[l], "cleanup-required")
        /\ UNCHANGED <<target, confirmed>>
    BY <1>3 DEF RecoverWrite, At, disk
  <2>2. job[l] \in Jobs
    BY <2>1 DEF Steady, Placed, Owning
  <2>3. CASE State(job[l]) = "publishing"
    <3>1. Arrived(job[l]) \/ target = journal[job[l]].old
      BY <2>1, <2>3 DEF Steady, Placed
    <3>2. /\ journal'[job[l]].state = "cleanup-required"
          /\ \A k \in Jobs : k # job[l] => journal'[k] = journal[k]
      BY <2>1, <2>2, SetFacts DEF Steady, JobStates, State
    <3>3. ASSUME NEW j \in Jobs, State(j) = "publishing", journal'[j].state # "publishing",
                 \A k \in Jobs : k # j => journal'[k] = journal[k],
                 Arrived(j) \/ target = journal[j].old
          PROVE  [Promise!Promised]_<<Shown, confirmed>>
      BY <2>1, <3>3, EndOfPublication DEF State
    <3> QED BY <2>2, <2>3, <3>1, <3>2, <3>3
  <2>4. CASE State(job[l]) # "publishing"
    BY <2>1, <2>2, <2>4, SetIsCalm, CalmStutters
  <2> QED BY <2>3, <2>4
<1> QED BY <1>1, <1>2, <1>3 DEF RecoveryStep

LEMMA BeginRefines ==
  ASSUME Steady, Steady', NEW l \in Launchers, Placed(l), BeginExport(l)
  PROVE  [Promise!Promised]_<<Shown, confirmed>>
<1>1. CASE UNCHANGED <<journal, confirmed>>
  <2>1. Calm
    BY <1>1 DEF BeginExport, Calm, disk
  <2> QED BY <2>1, CalmStutters
<1>2. CASE /\ Pending = {} /\ target = plan[l] /\ confirmed' = plan[l]
           /\ journal' = journal \/ (jobs < MaxJobs /\ jobs' = jobs + 1 /\ Set(jobs', "building"))
  <2>1. \A j \in Jobs : State(j) # "publishing"
    BY <1>2 DEF Pending, Recoverable
  <2>2. \A j \in Jobs : State(j)' # "publishing"
    <3>1. jobs < MaxJobs /\ jobs' = jobs + 1 => jobs' \in Jobs
      BY DockerAssumption DEF Steady, TypeOK, Jobs
    <3>2. ASSUME NEW i \in Jobs, Set(i, "building")
          PROVE  \A j \in Jobs : State(j)' # "publishing"
      BY <2>1, <3>2 DEF Steady, Set, State
    <3>3. CASE journal' = journal
      BY <2>1, <3>3 DEF State
    <3> QED BY <1>2, <3>1, <3>2, <3>3
  <2>3. target' = target
    BY DEF BeginExport, disk
  <2>4. Shown = target /\ Shown' = target
    BY <2>1, <2>2, <2>3, ShownFacts, ShownLater
  <2>5. Promise!Confirm
    BY <1>2, <2>4 DEF Promise!Confirm
  <2> QED BY <2>5 DEF Promise!Promised
<1> QED BY <1>1, <1>2 DEF BeginExport

LEMMA PublishRefines ==
  ASSUME Steady, Steady', NEW l \in Launchers, Placed(l), Publish(l)
  PROVE  [Promise!Promised]_<<Shown, confirmed>>
<1> DEFINE j == job[l]
<1>1. pc[l] = "publish" /\ UNCHANGED <<target, job, confirmed>>
  BY DEF Publish, At, disk
<1>2. j \in Jobs /\ State(j) = "exporting"
  BY <1>1 DEF Steady, Placed, Owning
<1>3. CASE UNCHANGED journal
  <2>1. Calm
    BY <1>1, <1>3 DEF Calm
  <2> QED BY <2>1, CalmStutters
<1>4. CASE /\ target = plan[l]
           /\ journal' = [journal EXCEPT ![j] =
                [state |-> "publishing", old |-> plan[l], new |-> serial[l]]]
  <2>1. journal'[j].state = "publishing" /\ journal'[j].old = target
    BY <1>2, <1>4 DEF Steady
  <2>2. Shown' = target
    <3>1. ASSUME NEW k \in Jobs, journal'[k].state = "publishing", journal'[k].old = target
          PROVE  Shown' = target
      BY <3>1, ShownLater DEF State
    <3> QED BY <1>2, <2>1, <3>1
  <2>3. \A k \in Jobs : State(k) # "publishing"
    BY <1>2 DEF Steady, Contained, Pending, Recoverable
  <2>4. Shown = target
    BY <2>3, ShownFacts
  <2> QED BY <1>1, <2>2, <2>4
<1> QED BY <1>3, <1>4 DEF Publish

LEMMA CommitRefines ==
  ASSUME Steady, Steady', NEW l \in Launchers, Placed(l), Commit(l)
  PROVE  [Promise!Promised]_<<Shown, confirmed>>
<1> DEFINE j == job[l]
<1>1. pc[l] = "commit" /\ UNCHANGED <<target, confirmed>>
  BY DEF Commit, At, disk
<1>2. j \in Jobs /\ State(j) = "publishing" /\ journal[j].new = serial[l]
  BY <1>1 DEF Steady, Placed, Owning
<1>3. CASE UNCHANGED journal
  <2>1. Calm
    BY <1>1, <1>3 DEF Calm
  <2> QED BY <2>1, CalmStutters
<1>4. CASE target = Triad(serial[l]) /\ Set(j, "committed")
  <2>1. Arrived(j)
    BY <1>2, <1>4 DEF Arrived
  <2>2. /\ journal'[j].state = "committed"
        /\ \A k \in Jobs : k # j => journal'[k] = journal[k]
    BY <1>2, <1>4, SetFacts DEF Steady, JobStates, Recoverable, State
  <2>3. ASSUME NEW i \in Jobs, State(i) = "publishing", journal'[i].state # "publishing",
               \A k \in Jobs : k # i => journal'[k] = journal[k], Arrived(i)
        PROVE  [Promise!Promised]_<<Shown, confirmed>>
    BY <1>1, <2>3, EndOfPublication DEF State
  <2> QED BY <1>2, <2>1, <2>2, <2>3
<1> QED BY <1>3, <1>4 DEF Commit

LEMMA ExportRefines ==
  ASSUME Steady, Steady', NEW l \in Launchers, Placed(l), ExportStep(l)
  PROVE  [Promise!Promised]_<<Shown, confirmed>>
<1> DEFINE j == job[l]
<1>1. CASE Choose(l) \/ Save(l) \/ RemoveImage(l)
  <2>1. Calm
    BY <1>1 DEF Choose, Save, RemoveImage, Calm, disk
  <2> QED BY <2>1, CalmStutters
<1>2. CASE Build(l) \/ MarkReady(l) \/ BeginSave(l) \/ Forget(l)
  <2>1. /\ pc[l] \in {"build", "built", "ready", "forget"} /\ UNCHANGED <<target, confirmed>>
        /\ \/ UNCHANGED journal
           \/ \E s \in {"failed", "ready", "exporting"} : Set(j, s)
           \/ journal' = [journal EXCEPT ![j] = NoJournal]
    BY <1>2 DEF Build, MarkReady, BeginSave, Forget, At, disk
  <2>2. j \in Jobs /\ State(j) # "publishing"
    BY <2>1 DEF Steady, Placed, Owning, Pending, Recoverable
  <2>3. Calm
    <3>1. CASE UNCHANGED journal
      BY <2>1, <3>1 DEF Calm
    <3>2. CASE \E s \in {"failed", "ready", "exporting"} : Set(j, s)
      <4> HIDE DEF j
      <4> QED BY <2>1, <2>2, <3>2, SetIsCalm
    <3>3. CASE journal' = [journal EXCEPT ![j] = NoJournal]
      BY <2>1, <2>2, <3>3, NoJournalFacts DEF Steady, State, Calm
    <3> QED BY <2>1, <3>1, <3>2, <3>3
  <2> QED BY <2>3, CalmStutters
<1>3. CASE Backup(l) \/ Promote(l)
  <2>1. /\ pc[l] \in {"backup", "promote"} /\ UNCHANGED <<journal, confirmed>>
    BY <1>3 DEF Backup, Promote, At
  <2>2. j \in Jobs /\ State(j) = "publishing"
    BY <2>1 DEF Steady, Placed, Owning
  <2>3. Calm
    BY <2>1, <2>2 DEF Calm
  <2> QED BY <2>3, CalmStutters
<1>4. CASE Finish(l)
  <2>1. /\ pc[l] \in {"drop", "finish"} /\ UNCHANGED <<target, confirmed>>
        /\ UNCHANGED journal \/ Set(j, "cleanup-required")
    BY <1>4 DEF Finish, RemoveBackup, At, disk
  <2>2. j \in Jobs /\ State(j) = "committed"
    BY <2>1 DEF Steady, Placed, Owning
  <2>3. CASE UNCHANGED journal
    BY <2>1, <2>3, CalmStutters DEF Calm
  <2>4. CASE Set(j, "cleanup-required")
    <3> HIDE DEF j
    <3> QED BY <2>1, <2>2, <2>4, SetIsCalm, CalmStutters
  <2> QED BY <2>1, <2>3, <2>4
<1>5. CASE BeginExport(l) \/ Publish(l) \/ Commit(l)
  BY <1>5, BeginRefines, PublishRefines, CommitRefines
<1> QED BY <1>1, <1>2, <1>3, <1>4, <1>5 DEF ExportStep

LEMMA FailureRefines ==
  ASSUME Steady, Steady', NEW l \in Launchers, Placed(l), FailureStep(l)
  PROVE  [Promise!Promised]_<<Shown, confirmed>>
<1> DEFINE j == job[l]
<1>1. CASE UNCHANGED <<target, journal, confirmed>>
  BY <1>1, CalmStutters DEF Calm
<1>2. CASE At(l, "restore") /\ UNCHANGED <<journal, confirmed>>
  <2>1. j \in Jobs /\ State(j) = "publishing"
    BY <1>2 DEF Steady, Placed, Owning, At
  <2> QED BY <1>2, <2>1, CalmStutters DEF Calm
<1>3. CASE At(l, "verify") /\ target = journal[j].old /\ Set(j, "failed") /\ UNCHANGED <<target, confirmed>>
  <2>1. j \in Jobs /\ State(j) = "publishing"
    BY <1>3 DEF Steady, Placed, Owning, At
  <2>2. /\ journal'[j].state = "failed"
        /\ \A k \in Jobs : k # j => journal'[k] = journal[k]
    BY <1>3, <2>1, SetFacts DEF Steady, JobStates, State
  <2>3. ASSUME NEW i \in Jobs, State(i) = "publishing", journal'[i].state # "publishing",
               \A k \in Jobs : k # i => journal'[k] = journal[k], target = journal[i].old
        PROVE  [Promise!Promised]_<<Shown, confirmed>>
    BY <1>3, <2>3, EndOfPublication DEF State
  <2> QED BY <1>3, <2>1, <2>2, <2>3
<1>4. CASE /\ Set(j, "failed") /\ UNCHANGED <<target, confirmed>>
           /\ pc[l] = "fail" \/ (pc[l] = "undo" /\ State(j) \notin Recoverable)
  <2>1. j \in Jobs /\ State(j) # "publishing"
    BY <1>4 DEF Steady, Placed, Owning, Recoverable
  <2> HIDE DEF j
  <2> QED BY <1>4, <2>1, SetIsCalm, CalmStutters
<1>5. CASE Restore(l)
  BY <1>1, <1>2, <1>3, <1>5 DEF Restore, disk
<1>6. CASE Undo(l)
  BY <1>1, <1>4, <1>6 DEF Undo, disk, At
<1>7. CASE Unwind(l)
  BY <1>1, <1>4, <1>7 DEF Unwind, RemoveTemp, disk, At
<1>8. CASE Fail(l) \/ Crash(l)
  BY <1>1, <1>8 DEF Fail, Crash, Vanish, disk
<1> QED BY <1>5, <1>6, <1>7, <1>8 DEF FailureStep

LEMMA CleanupRefines ==
  ASSUME Steady, Steady', NEW l \in Launchers, Placed(l), CleanupStep(l)
  PROVE  [Promise!Promised]_<<Shown, confirmed>>
<1>1. UNCHANGED <<target, confirmed>>
  BY DEF CleanupStep, CheckStale, CleanStale, Exit, disk
<1>2. \/ UNCHANGED journal
      \/ journal' = [j \in Jobs |-> IF j \in Leftover \ image THEN NoJournal ELSE journal[j]]
      \/ \E i \in Jobs : State(i) \notin Recoverable /\ journal' = [journal EXCEPT ![i] = NoJournal]
  <2>1. stale[l] \subseteq Jobs /\ (retained[l] \in image => retained[l] \in Jobs)
    BY DEF Steady, TypeOK
  <2>2. CASE CheckStale(l)
    BY <2>2 DEF CheckStale
  <2>3. CASE CleanStale(l)
    BY <2>1, <2>3 DEF CleanStale
  <2>4. CASE Exit(l)
    BY <2>1, <2>4 DEF Exit
  <2> QED BY <2>2, <2>3, <2>4 DEF CleanupStep
<1>3. \A j \in Jobs :
        State(j) = "publishing" \/ journal'[j].state = "publishing" => journal'[j] = journal[j]
  <2>1. CASE UNCHANGED journal
    BY <2>1
  <2>2. CASE journal' = [j \in Jobs |-> IF j \in Leftover \ image THEN NoJournal ELSE journal[j]]
    BY <2>2, NoJournalFacts DEF Leftover, Recoverable
  <2>3. ASSUME NEW i \in Jobs, State(i) \notin Recoverable,
               journal' = [journal EXCEPT ![i] = NoJournal]
        PROVE  \A j \in Jobs :
                 State(j) = "publishing" \/ journal'[j].state = "publishing" => journal'[j] = journal[j]
    BY <2>3, NoJournalFacts DEF Steady, State, Recoverable
  <2> QED BY <1>2, <2>1, <2>2, <2>3
<1> QED BY <1>1, <1>3, CalmStutters DEF Calm

LEMMA ChangeRefines ==
  ASSUME Steady, Steady', Change, ~Replacing
  PROVE  [Promise!Promised]_<<Shown, confirmed>>
<1>1. /\ \A j \in Jobs : State(j) # "publishing" /\ State(j)' # "publishing"
      /\ confirmed' = confirmed /\ events' \in Nat
  BY DockerAssumption DEF Change, Replacing, Spend, Steady, TypeOK, State
<1>2. PICK f \in Files :
        target' = [target EXCEPT ![f] = IF @ = None THEN <<"user", events'>> ELSE None]
  BY DEF Change
<1>3. \A g \in Files : target'[g] # target[g] => target'[g] \in {None, <<"user", events'>>}
  BY <1>2 DEF Steady, TypeOK
<1>4. None \notin {"export"} \X (1 .. MaxSaves) /\ <<"user", events'>> \notin {"export"} \X (1 .. MaxSaves)
  BY DEF None
<1>5. Shown = target /\ Shown' = target'
  BY <1>1, ShownFacts, ShownLater
<1>6. Promise!Change
  BY <1>1, <1>3, <1>4, <1>5 DEF Promise!Change
<1> QED BY <1>6 DEF Promise!Promised

LEMMA InitRefines == Init => Promise!Init
<1> SUFFICES ASSUME Init PROVE Promise!Init
  OBVIOUS
<1>1. \A j \in Jobs : State(j) # "publishing"
  BY NoJournalFacts DEF Init, State
<1>2. Shown = target
  BY <1>1 DEF Shown
<1>3. \A f \in Files : target[f] \in {<<"none", 0>>, <<"user", 0>>}
  BY DEF Init, Empty, None
<1>4. confirmed = target /\ disturbed = FALSE
  BY DEF Init
<1> QED BY <1>2, <1>3, <1>4 DEF Promise!Init

\* The three files change together, from what the user confirmed to the files of one
\* export, over failures, crashes, recoveries, repeated tries and several launchers, until
\* the protocol is disturbed (docker_jobs.py, _publish_transaction, recover_pending_outputs).
THEOREM ExportImplementsTriad == Spec => ImplementsTriad
<1>1. ASSUME IInv, IInv', [Next]_vars
      PROVE  [Promise!Next]_<<Shown, confirmed, disturbed>>
  <2>1. CASE disturbed'
    BY <2>1 DEF Promise!Next
  <2>2. CASE ~disturbed'
    <3>1. UNCHANGED disturbed /\ ~disturbed
      BY <1>1, <2>2 DEF IInv, Next, Disturbs, vars
    <3>2. Steady /\ Steady' /\ \A l \in Launchers : Placed(l)
      BY <1>1, <2>2, <3>1 DEF IInv
    <3>3. [Promise!Promised]_<<Shown, confirmed>>
      <4>1. CASE UNCHANGED vars
        BY <3>2, <4>1, CalmStutters DEF Calm, vars, disk
      <4>2. ASSUME NEW l \in Launchers, Step(l)
            PROVE  [Promise!Promised]_<<Shown, confirmed>>
        BY <3>2, <4>2, RecoveryRefines, ExportRefines, FailureRefines, CleanupRefines DEF Step
      <4>3. CASE Change /\ Disturbs(Replacing)
        BY <2>2, <3>2, <4>3, ChangeRefines DEF Disturbs
      <4> QED BY <1>1, <4>1, <4>2, <4>3 DEF Next
    <3> QED BY <3>1, <3>3 DEF Promise!Next
  <2> QED BY <2>1, <2>2
<1>2. IInv /\ IInv' /\ [Next]_vars => [Promise!Next]_<<Shown, confirmed, disturbed>>
  BY <1>1
<1> QED BY <1>2, InitRefines, ExportInv, PTL DEF Spec, ImplementsTriad, Promise!Spec
=============================================================================

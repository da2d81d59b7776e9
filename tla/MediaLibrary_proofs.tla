------------------------- MODULE MediaLibrary_proofs -------------------------
(***************************************************************************)
(* Proofs about MediaLibrary, for any works, groups, clients, downloads    *)
(* and failures: index, catalog and copies agree, a synchronisation misses *)
(* no download, and no media is lost on the way.                           *)
(*                                                                         *)
(* The mutation lock makes its holder the only one that removes entries of *)
(* the index; the workers of the queue add entries at any time.  So a row  *)
(* without an entry belongs to the deletion under way (RowsIndexed), and a *)
(* row of a copy without its file too (CopyRowsKept).  An entry that is    *)
(* put after a snapshot either sets the dirty mark or differs from the     *)
(* index file (SeenIsSaved): its version is new (Unsaved).  A work that    *)
(* the index, its file or the snapshot of a request names has its media or *)
(* is known to be gone (MediaInv), and no step changes that.               *)
(***************************************************************************)
EXTENDS MediaLibrary, FiniteSetTheorems, TLAPS

Locked    == {"sync", "remove", "copies", "record", "patched"}
Deleting  == {"remove", "copies", "record"}
BeforePut == {"work", "moved", "placed"}
Places    == Locked \cup {"idle", "empty", "restored"}
Ops       == {"none", "sync", "delete", "move", "rename", "merge", "group", "search"}
Steps     == {"none", "work", "moved", "placed", "indexed"}
Transcodes == {"none", "queued", "running", "written", "success", "failed", "stuck"}

Jobs == [op : Ops, works : SUBSET Works, group : Groups \cup {NoGroup},
         from : Groups \cup {NoGroup}, seen : [Works -> Entries]]

MediaTyped ==
  /\ files \in [Works -> 0 .. MaxVersions] /\ backup \in [Works -> 0 .. MaxVersions]
  /\ work \in [Works -> 0 .. MaxVersions] /\ made \in 0 .. MaxVersions
  /\ step \in [Works -> Steps] /\ old \in [Works -> BOOLEAN]
  /\ task \in [Works -> Entries]
IndexTyped ==
  /\ index \in [Works -> Entries] /\ saved \in [Works -> Entries] /\ dirty \in BOOLEAN
DbTyped ==
  /\ row \in [Works -> Entries] /\ groups \subseteq Groups
  /\ tagged \subseteq Works /\ tomb \subseteq Works
CopyTyped ==
  /\ copy \subseteq Works /\ copyRow \subseteq Works /\ transcode \in [Works -> Transcodes]
ReqTyped ==
  /\ lock \in Clients \cup {Nobody}
  /\ pc \in [Clients -> Places] /\ job \in [Clients -> Jobs]
  /\ \A c \in Clients : pc[c] \in Locked <=> lock = c
HistoryTyped ==
  /\ unseen \subseteq Works /\ cut \subseteq Works /\ gone \subseteq Works
  /\ events \in 0 .. MaxEvents

Typed == /\ MediaTyped /\ IndexTyped /\ DbTyped /\ CopyTyped /\ ReqTyped /\ HistoryTyped

\* An entry is of a download that was made, in a group.
GivenOf(e, m) == e \in Entries /\ (e # NoEntry => e.ver \in 1 .. m /\ e.group \in Groups)
Given(e) == GivenOf(e, made)

EntriesGiven ==
  /\ \A k \in Works : Given(index[k]) /\ Given(saved[k])
  /\ \A c \in Clients : \A k \in Works : Given(job[c].seen[k])
  /\ \A k \in Works : step[k] # "none" => Given(task[k]) /\ task[k].ver # 0

\* What a download will put is in no index yet.
Unsaved ==
  \A k \in Works : step[k] \in BeforePut =>
    /\ index[k].ver # task[k].ver /\ saved[k].ver # task[k].ver
    /\ \A c \in Clients : job[c].seen[k].ver # task[k].ver

\* Between its renames a promotion has the new media, and the old ones if there were.
PromotionInv ==
  \A k \in Works :
    /\ step[k] \in {"work", "moved"} => work[k] # 0
    /\ Moving(k) /\ old[k] => backup[k] # 0
    /\ step[k] = "placed" => files[k] # 0 \/ k \in gone

\* A deletion knows its work.
JobsInv ==
  \A c \in Clients :
    pc[c] \in Deleting \/ (pc[c] = "sync" /\ job[c].op # "sync") =>
      \E k \in Works : job[c].works = {k}

\* A row without an entry is the one that a deletion works on.
RowsIndexed ==
  \A k \in Works : InCatalog(k) /\ ~Indexed(k) =>
    \E c \in Clients : /\ pc[c] \in {"copies", "record"} /\ job[c].works = {k}
                       /\ job[c].seen[k] # NoEntry

CopyRowsKept ==
  \A k \in copyRow \ cut : k \notin copy => \E c \in Clients : pc[c] = "record" /\ job[c].works = {k}

\* If nothing was saved since, what a synchronisation copied is what the index file has.
SeenIsSaved ==
  \A c \in Clients : pc[c] = "sync" /\ ~dirty =>
    \A k \in Works : index[k] = saved[k] => job[c].seen[k] = index[k]

\* Without a mark, and unless a synchronisation is about to write it, the catalog is current.
CatalogCurrent ==
  ~dirty /\ (\A c \in Clients : pc[c] # "sync") =>
    \A k \in Works \ unseen : Listable(k) => row[k].ver = index[k].ver

HasMedia(k)  == files[k] # 0 \/ (step[k] = "moved" /\ backup[k] # 0)
Accounted(k) == k \in gone \/ HasMedia(k)
Named(k)     == Indexed(k) \/ saved[k] # NoEntry \/ \E c \in Clients : job[c].seen[k] # NoEntry
MediaInv     == \A k \in Works : Named(k) => Accounted(k)

IInv == /\ Typed /\ EntriesGiven /\ Unsaved /\ PromotionInv /\ JobsInv
        /\ RowsIndexed /\ CopyRowsKept /\ SeenIsSaved /\ CatalogCurrent /\ MediaInv

-----------------------------------------------------------------------------
(* Types.                                                                  *)

LEMMA EntryFacts ==
  /\ NoEntry \in Entries /\ NoEntry.ver = 0 /\ NoEntry.group = NoGroup
  /\ Nothing \in [Works -> Entries] /\ \A k \in Works : Nothing[k] = NoEntry
BY LibraryAssumption DEF NoEntry, Nothing, Entries

LEMMA JobFacts ==
  ASSUME NEW op \in Ops, NEW ks \in SUBSET Works, NEW g \in Groups \cup {NoGroup}
  PROVE  /\ Job(op, ks, g) \in Jobs /\ NoJob \in Jobs
         /\ Job(op, ks, g).op = op /\ Job(op, ks, g).works = ks
         /\ Job(op, ks, g).seen = Nothing /\ NoJob.seen = Nothing
<1>1. Nothing \in [Works -> Entries]
  BY EntryFacts
<1>. QED  BY <1>1 DEF Job, NoJob, Jobs, Ops

\* The holder of the lock is alone in what is done under it.
LEMMA Exclusive ==
  ASSUME ReqTyped
  PROVE  /\ lock = Nobody => \A c \in Clients : pc[c] \notin Locked
         /\ \A c, d \in Clients : pc[c] \in Locked /\ pc[d] \in Locked => c = d
BY LibraryAssumption DEF ReqTyped

LEMMA Entered ==
  ASSUME pc \in [Clients -> Places], job \in [Clients -> Jobs],
         NEW c \in Clients, NEW p \in Places, NEW j \in Jobs, Enter(c, p, j)
  PROVE  /\ pc' \in [Clients -> Places] /\ job' \in [Clients -> Jobs]
         /\ pc'[c] = p /\ job'[c] = j
         /\ \A d \in Clients \ {c} : pc'[d] = pc[d] /\ job'[d] = job[d]
BY DEF Enter

LEMMA SeenSet ==
  ASSUME NEW j \in Jobs, NEW f \in [Works -> Entries]
  PROVE  /\ [j EXCEPT !.seen = f] \in Jobs /\ [j EXCEPT !.seen = f].seen = f
         /\ [j EXCEPT !.seen = f].works = j.works /\ [j EXCEPT !.seen = f].op = j.op
BY DEF Jobs

LEMMA FromSet ==
  ASSUME NEW j \in Jobs, NEW g \in Groups
  PROVE  /\ [j EXCEPT !.from = g] \in Jobs /\ [j EXCEPT !.from = g].seen = j.seen
         /\ [j EXCEPT !.from = g].works = j.works /\ [j EXCEPT !.from = g].op = j.op
BY DEF Jobs

LEMMA GroupSet ==
  ASSUME NEW e \in Entries, NEW g \in Groups \cup {NoGroup}
  PROVE  /\ [e EXCEPT !.group = g] \in Entries /\ [e EXCEPT !.group = g].ver = e.ver
         /\ [e EXCEPT !.group = g].group = g
         /\ e # NoEntry /\ g # NoGroup => [e EXCEPT !.group = g] # NoEntry
         /\ e = NoEntry /\ g = NoGroup => [e EXCEPT !.group = g] = NoEntry
BY DEF Entries, NoEntry

-----------------------------------------------------------------------------
(* What each step does to the requests.                                    *)

Others(c) == \A d \in Clients \ {c} : pc'[d] = pc[d] /\ job'[d] = job[d]
Ended(c)  == pc'[c] = "idle" /\ job'[c] = NoJob
Freed(c)  == pc[c] \in Locked /\ lock' = Nobody /\ Ended(c)
Taken(c)  == pc[c] = "idle" /\ lock = Nobody /\ lock' = c /\ pc'[c] \in Locked

LEMMA LeaveFacts ==
  ASSUME ReqTyped, NEW c \in Clients, Leave(c)
  PROVE  /\ pc' \in [Clients -> Places] /\ job' \in [Clients -> Jobs]
         /\ Others(c) /\ Ended(c)
<1>1. NoJob \in Jobs /\ "idle" \in Places
  BY JobFacts DEF Ops, Places
<1>. QED  BY <1>1, Entered DEF Leave, ReqTyped, Others, Ended

LEMMA ReleaseFacts ==
  ASSUME ReqTyped, NEW c \in Clients, pc[c] \in Locked, Release(c)
  PROVE  ReqTyped' /\ Others(c) /\ Freed(c)
<1>1. /\ pc' \in [Clients -> Places] /\ job' \in [Clients -> Jobs]
      /\ Others(c) /\ Ended(c) /\ lock' = Nobody
  BY LeaveFacts DEF Release
<1>2. \A d \in Clients : pc'[d] \notin Locked
  BY <1>1, Exclusive DEF Others, Ended, Locked
<1>. QED  BY <1>1, <1>2, LibraryAssumption DEF ReqTyped, Freed

LEMMA TakeFacts ==
  ASSUME ReqTyped, NEW c \in Clients, pc[c] = "idle", Acquire(c),
         NEW p \in Locked, NEW j \in Jobs, Enter(c, p, j)
  PROVE  ReqTyped' /\ Others(c) /\ Taken(c) /\ pc'[c] = p /\ job'[c] = j
<1>1. /\ pc' \in [Clients -> Places] /\ job' \in [Clients -> Jobs]
      /\ Others(c) /\ pc'[c] = p /\ job'[c] = j
  BY Entered DEF ReqTyped, Places, Others
<1>2. \A d \in Clients \ {c} : pc'[d] \notin Locked
  BY <1>1, Exclusive DEF Others, Acquire
<1>. QED  BY <1>1, <1>2 DEF ReqTyped, Taken, Acquire

LEMMA HoldFacts ==
  ASSUME ReqTyped, NEW c \in Clients, pc[c] \in Locked, lock' = lock,
         NEW p \in Locked, NEW j \in Jobs, Enter(c, p, j)
  PROVE  ReqTyped' /\ Others(c) /\ pc'[c] = p /\ job'[c] = j
<1>1. /\ pc' \in [Clients -> Places] /\ job' \in [Clients -> Jobs]
      /\ Others(c) /\ pc'[c] = p /\ job'[c] = j
  BY Entered DEF ReqTyped, Places, Others
<1>2. \A d \in Clients : pc'[d] \in Locked <=> pc[d] \in Locked
  BY <1>1 DEF Others
<1>. QED  BY <1>1, <1>2 DEF ReqTyped

LEMMA AsideFacts ==
  ASSUME ReqTyped, NEW c \in Clients, pc[c] \notin Locked, lock' = lock,
         NEW p \in Places \ Locked, NEW j \in Jobs, Enter(c, p, j)
  PROVE  ReqTyped' /\ Others(c) /\ pc'[c] = p /\ job'[c] = j
<1>1. /\ pc' \in [Clients -> Places] /\ job' \in [Clients -> Jobs]
      /\ Others(c) /\ pc'[c] = p /\ job'[c] = j
  BY Entered DEF ReqTyped, Places, Others
<1>2. \A d \in Clients : pc'[d] \in Locked <=> pc[d] \in Locked
  BY <1>1 DEF Others
<1>. QED  BY <1>1, <1>2 DEF ReqTyped

LEMMA StartsFacts ==
  ASSUME Typed, NEW c \in Clients
  PROVE  /\ BeginSync(c) =>
              /\ ReqTyped' /\ Others(c) /\ Taken(c)
              /\ pc'[c] = "sync" /\ job'[c].op = "sync" /\ job'[c].seen = index
         /\ BeginDelete(c) =>
              /\ ReqTyped' /\ Others(c) /\ Taken(c)
              /\ \E k \in Works : job'[c].works = {k} /\ InCatalog(k)
              /\ \/ pc'[c] = "sync" /\ Snapshot(c, job'[c]) /\ job'[c].seen = index
                 \/ pc'[c] = "remove" /\ UNCHANGED <<indexVars, unseen>> /\ job'[c].seen = Nothing
         /\ Patch(c) =>
              /\ ReqTyped' /\ Others(c) /\ Taken(c)
              /\ pc'[c] = "patched" /\ job'[c].seen = Nothing
<1>. USE DEF Typed, IndexTyped
<1>1. ASSUME BeginSync(c)
      PROVE  /\ ReqTyped' /\ Others(c) /\ Taken(c)
             /\ pc'[c] = "sync" /\ job'[c].op = "sync" /\ job'[c].seen = index
  <2>. DEFINE j == Job("sync", {}, NoGroup)
  <2>1. j \in Jobs /\ j.op = "sync"
    BY JobFacts DEF Ops
  <2>. HIDE DEF j
  <2>2. [j EXCEPT !.seen = index] \in Jobs /\ [j EXCEPT !.seen = index].seen = index
        /\ [j EXCEPT !.seen = index].op = "sync"
    BY <2>1, SeenSet
  <2>3. At(c, "idle") /\ Acquire(c) /\ Enter(c, "sync", [j EXCEPT !.seen = index])
    BY <1>1 DEF BeginSync, Snapshot, j
  <2>4. "sync" \in Locked
    BY DEF Locked
  <2>. QED  BY <2>2, <2>3, <2>4, TakeFacts DEF At
<1>2. ASSUME BeginDelete(c)
      PROVE  /\ ReqTyped' /\ Others(c) /\ Taken(c)
             /\ \E k \in Works : job'[c].works = {k} /\ InCatalog(k)
             /\ \/ pc'[c] = "sync" /\ Snapshot(c, job'[c]) /\ job'[c].seen = index
                \/ pc'[c] = "remove" /\ UNCHANGED <<indexVars, unseen>> /\ job'[c].seen = Nothing
  <2>1. PICK k \in Works :
          /\ InCatalog(k)
          /\ IF dirty THEN Snapshot(c, Job("delete", {k}, NoGroup))
             ELSE Enter(c, "remove", Job("delete", {k}, NoGroup)) /\ UNCHANGED <<indexVars, unseen>>
    BY <1>2 DEF BeginDelete
  <2>. DEFINE j == Job("delete", {k}, NoGroup)
  <2>2. j \in Jobs /\ j.op = "delete" /\ j.works = {k} /\ j.seen = Nothing
    BY JobFacts DEF Ops
  <2>3. pc[c] = "idle" /\ Acquire(c) /\ "sync" \in Locked /\ "remove" \in Locked
    BY <1>2 DEF BeginDelete, Request, At, Locked
  <2>4. IF dirty THEN Snapshot(c, j)
        ELSE Enter(c, "remove", j) /\ UNCHANGED <<indexVars, unseen>>
    BY <2>1
  <2>. HIDE DEF j
  <2>5. CASE dirty
    <3>. DEFINE i == [j EXCEPT !.seen = index]
    <3>1. i \in Jobs /\ i.seen = index /\ i.works = {k}
      BY <2>2, SeenSet
    <3>2. Enter(c, "sync", i)
      BY <2>4, <2>5 DEF Snapshot
    <3>. HIDE DEF i
    <3>3. ReqTyped' /\ Others(c) /\ Taken(c) /\ pc'[c] = "sync" /\ job'[c] = i
      BY <2>3, <3>1, <3>2, TakeFacts
    <3>4. [i EXCEPT !.seen = index] = i
      BY <3>1 DEF Jobs
    <3>5. Snapshot(c, job'[c])
      BY <2>4, <2>5, <3>2, <3>3, <3>4 DEF Snapshot
    <3>. QED  BY <2>1, <3>1, <3>3, <3>5
  <2>6. CASE ~dirty
    <3>1. ReqTyped' /\ Others(c) /\ Taken(c) /\ pc'[c] = "remove" /\ job'[c] = j
      BY <2>2, <2>3, <2>4, <2>6, TakeFacts
    <3>. QED  BY <2>1, <2>2, <2>4, <2>6, <3>1
  <2>. QED  BY <2>5, <2>6
<1>3. ASSUME Patch(c)
      PROVE  /\ ReqTyped' /\ Others(c) /\ Taken(c)
             /\ pc'[c] = "patched" /\ job'[c].seen = Nothing
  <2>1. PICK g \in groups, h \in groups, op \in {"move", "rename", "merge"}, ks \in SUBSET Works :
          Enter(c, "patched", [Job(op, ks, h) EXCEPT !.from = g])
    BY <1>3 DEF Patch, Members
  <2>. DEFINE j == Job(op, ks, h)
  <2>2. g \in Groups /\ h \in Groups /\ op \in Ops
    BY DEF DbTyped, Ops
  <2>3. j \in Jobs /\ j.seen = Nothing
    BY <2>2, JobFacts
  <2>. HIDE DEF j
  <2>4. [j EXCEPT !.from = g] \in Jobs /\ [j EXCEPT !.from = g].seen = Nothing
    BY <2>2, <2>3, FromSet
  <2>5. pc[c] = "idle" /\ Acquire(c) /\ "patched" \in Locked
    BY <1>3 DEF Patch, Request, At, Locked
  <2>6. Enter(c, "patched", [j EXCEPT !.from = g])
    BY <2>1 DEF j
  <2>. QED  BY <2>4, <2>5, <2>6, TakeFacts
<1>. QED  BY <1>1, <1>2, <1>3

LEMMA EndsFacts ==
  ASSUME Typed, NEW c \in Clients
  PROVE  /\ SyncFails(c) \/ RemovalFails(c) \/ DeletionFails(c) \/ Record(c) \/ EndRegroup(c)
              \/ RegroupFails(c) => ReqTyped' /\ Others(c) /\ Freed(c)
         /\ EndSync(c) =>
              /\ ReqTyped' /\ Others(c) /\ pc[c] = "sync"
              /\ Freed(c) \/ (job[c].op # "sync" /\ pc'[c] = "remove" /\ job'[c] = job[c])
         /\ RemoveFiles(c) =>
              /\ ReqTyped' /\ Others(c) /\ pc[c] = "remove"
              /\ \/ Freed(c) /\ UNCHANGED <<files, indexVars, gone>>
                 \/ /\ pc'[c] = "copies" /\ job'[c].seen = index
                    /\ job'[c].works = job[c].works /\ InCatalog(TheWork(c))
         /\ RemoveCopies(c) =>
              /\ ReqTyped' /\ Others(c) /\ pc[c] = "copies" /\ pc'[c] = "record" /\ job'[c] = job[c]
<1>1. ReqTyped /\ job[c] \in Jobs
  BY DEF Typed, ReqTyped
<1>2. ASSUME SyncFails(c) \/ RemovalFails(c) \/ DeletionFails(c) \/ Record(c) \/ EndRegroup(c)
              \/ RegroupFails(c)
      PROVE  ReqTyped' /\ Others(c) /\ Freed(c)
  <2>1. pc[c] \in Locked /\ Release(c)
    BY <1>2 DEF SyncFails, RemovalFails, DeletionFails, Record, EndRegroup, RegroupFails, Recover, At, Locked
  <2>. QED  BY <1>1, <2>1, ReleaseFacts
<1>3. ASSUME EndSync(c)
      PROVE  /\ ReqTyped' /\ Others(c) /\ pc[c] = "sync"
             /\ Freed(c) \/ (job[c].op # "sync" /\ pc'[c] = "remove" /\ job'[c] = job[c])
  <2>1. /\ pc[c] = "sync"
        /\ \/ Release(c)
           \/ job[c].op # "sync" /\ Enter(c, "remove", job[c]) /\ lock' = lock
    BY <1>3 DEF EndSync, At, Go
  <2>2. "sync" \in Locked /\ "remove" \in Locked
    BY DEF Locked
  <2>. QED  BY <1>1, <2>1, <2>2, ReleaseFacts, HoldFacts
<1>4. ASSUME RemoveFiles(c)
      PROVE  /\ ReqTyped' /\ Others(c) /\ pc[c] = "remove"
             /\ \/ Freed(c) /\ UNCHANGED <<files, indexVars, gone>>
                \/ /\ pc'[c] = "copies" /\ job'[c].seen = index
                   /\ job'[c].works = job[c].works /\ InCatalog(TheWork(c))
  <2>1. /\ pc[c] = "remove"
        /\ \/ Release(c) /\ UNCHANGED <<files, indexVars, gone>>
           \/ InCatalog(TheWork(c)) /\ Enter(c, "copies", [job[c] EXCEPT !.seen = index]) /\ lock' = lock
    BY <1>4 DEF RemoveFiles, At
  <2>2. "remove" \in Locked /\ "copies" \in Locked
    BY DEF Locked
  <2>. DEFINE j == [job[c] EXCEPT !.seen = index]
  <2>3. j \in Jobs /\ j.seen = index /\ j.works = job[c].works
    BY <1>1, SeenSet DEF Typed, IndexTyped
  <2>4. /\ pc[c] = "remove"
        /\ \/ Release(c) /\ UNCHANGED <<files, indexVars, gone>>
           \/ InCatalog(TheWork(c)) /\ Enter(c, "copies", j) /\ lock' = lock
    BY <2>1
  <2>. HIDE DEF j
  <2>5. CASE Release(c) /\ UNCHANGED <<files, indexVars, gone>>
    BY <1>1, <2>2, <2>4, <2>5, ReleaseFacts
  <2>6. CASE InCatalog(TheWork(c)) /\ Enter(c, "copies", j) /\ lock' = lock
    <3>1. ReqTyped' /\ Others(c) /\ pc'[c] = "copies" /\ job'[c] = j
      BY <1>1, <2>2, <2>3, <2>4, <2>6, HoldFacts
    <3>. QED  BY <2>3, <2>4, <2>6, <3>1
  <2>. QED  BY <2>4, <2>5, <2>6
<1>5. ASSUME RemoveCopies(c)
      PROVE  ReqTyped' /\ Others(c) /\ pc[c] = "copies" /\ pc'[c] = "record" /\ job'[c] = job[c]
  <2>1. pc[c] = "copies" /\ Enter(c, "record", job[c]) /\ lock' = lock
    BY <1>5 DEF RemoveCopies, At, Go
  <2>2. "copies" \in Locked /\ "record" \in Locked
    BY DEF Locked
  <2>. QED  BY <1>1, <2>1, <2>2, HoldFacts
<1>. QED  BY <1>2, <1>3, <1>4, <1>5

LEMMA AsidesFacts ==
  ASSUME Typed, NEW c \in Clients
  PROVE  /\ LookAtGroup(c) \/ SeeRestored(c) =>
              /\ ReqTyped' /\ Others(c) /\ lock' = lock /\ pc[c] = "idle"
              /\ pc'[c] \in {"empty", "restored"} /\ job'[c].seen = Nothing
         /\ DeleteGroup(c) \/ ClearTombstone(c) =>
              /\ ReqTyped' /\ Others(c) /\ lock' = lock
              /\ pc[c] \in {"empty", "restored"} /\ Ended(c)
         /\ SetTags(c) \/ StartCompatible(c) => ReqTyped' /\ UNCHANGED reqVars
<1>1. ReqTyped
  BY DEF Typed
<1>2. ASSUME LookAtGroup(c) \/ SeeRestored(c)
      PROVE  /\ ReqTyped' /\ Others(c) /\ lock' = lock /\ pc[c] = "idle"
             /\ pc'[c] \in {"empty", "restored"} /\ job'[c].seen = Nothing
  <2>1. /\ pc[c] = "idle" /\ lock' = lock
        /\ \E p \in {"empty", "restored"}, op \in Ops, ks \in SUBSET Works, g \in Groups \cup {NoGroup} :
             Enter(c, p, Job(op, ks, g))
    <3>1. CASE LookAtGroup(c)
      <4>1. PICK g \in groups \ {Default} : Enter(c, "empty", Job("group", {}, g))
        BY <3>1 DEF LookAtGroup
      <4>2. g \in Groups \cup {NoGroup} /\ "group" \in Ops /\ {} \in SUBSET Works /\ "empty" \in {"empty", "restored"}
        BY DEF Typed, DbTyped, Ops
      <4>. QED  BY <3>1, <4>1, <4>2 DEF LookAtGroup, Request, At
    <3>2. CASE SeeRestored(c)
      <4>1. PICK k \in tomb : Enter(c, "restored", Job("search", {k}, NoGroup))
        BY <3>2 DEF SeeRestored
      <4>2. {k} \in SUBSET Works /\ "search" \in Ops /\ "restored" \in {"empty", "restored"}
        BY DEF Typed, DbTyped, Ops
      <4>. QED  BY <3>2, <4>1, <4>2 DEF SeeRestored, Request, At
    <3>. QED  BY <1>2, <3>1, <3>2
  <2>2. PICK p \in {"empty", "restored"}, op \in Ops, ks \in SUBSET Works, g \in Groups \cup {NoGroup} :
          Enter(c, p, Job(op, ks, g))
    BY <2>1
  <2>3. Job(op, ks, g) \in Jobs /\ Job(op, ks, g).seen = Nothing
    BY JobFacts
  <2>4. p \in Places \ Locked /\ "idle" \notin Locked
    BY DEF Places, Locked
  <2>. QED  BY <1>1, <2>1, <2>2, <2>3, <2>4, AsideFacts
<1>3. ASSUME DeleteGroup(c) \/ ClearTombstone(c)
      PROVE  /\ ReqTyped' /\ Others(c) /\ lock' = lock
             /\ pc[c] \in {"empty", "restored"} /\ Ended(c)
  <2>1. pc[c] \in {"empty", "restored"} /\ lock' = lock /\ Enter(c, "idle", NoJob)
    BY <1>3 DEF DeleteGroup, ClearTombstone, At, Leave
  <2>2. "idle" \in Places \ Locked /\ pc[c] \notin Locked /\ NoJob \in Jobs
    BY <2>1, JobFacts DEF Places, Locked, Ops
  <2>. QED  BY <1>1, <2>1, <2>2, AsideFacts DEF Ended
<1>4. SetTags(c) \/ StartCompatible(c) => ReqTyped' /\ UNCHANGED reqVars
  BY <1>1 DEF SetTags, StartCompatible, reqVars, ReqTyped
<1>. QED  BY <1>2, <1>3, <1>4

-----------------------------------------------------------------------------
(* Every step by its kind.                                                 *)

Quiet(c) == \/ BeginSync(c) \/ EndSync(c) \/ SyncFails(c) \/ BeginDelete(c) \/ RemovalFails(c)
            \/ RemoveCopies(c) \/ Record(c) \/ DeletionFails(c) \/ Regroup(c) \/ Mark(c)
            \/ StartCompatible(c)

LEMMA NextKinds ==
  ASSUME Next
  PROVE  \/ \E k \in Works : Download(k) \/ Promote(k) \/ PromotionFails(k)
         \/ \E k \in Works : Copy(k)
         \/ \E c \in Clients : Quiet(c)
         \/ \E c \in Clients : RemoveFiles(c)
         \/ Crash
BY DEF Next, Synchronise, Delete, Quiet

\* Only promotions, removals and restarts touch the media.
LEMMA QuietFacts ==
  /\ \A k \in Works : Copy(k) =>
       UNCHANGED <<mediaVars, indexVars, dbVars, reqVars, historyVars>> /\ (UNCHANGED events \/ Spend)
  /\ \A c \in Clients : Quiet(c) => UNCHANGED <<mediaVars, cut, gone>>
<1>1. ASSUME NEW k \in Works, Copy(k)
      PROVE  UNCHANGED <<mediaVars, indexVars, dbVars, reqVars, historyVars>> /\ (UNCHANGED events \/ Spend)
  BY <1>1 DEF Copy, RunTranscode, Transcode, FinishTranscode, Fails
<1>2. ASSUME NEW c \in Clients, Quiet(c)
      PROVE  UNCHANGED <<mediaVars, cut, gone>>
  <2>1. CASE BeginSync(c) \/ EndSync(c) \/ SyncFails(c) \/ BeginDelete(c)
    BY <2>1 DEF BeginSync, EndSync, SyncFails, BeginDelete, historyVars
  <2>2. CASE RemovalFails(c) \/ RemoveCopies(c) \/ Record(c) \/ DeletionFails(c)
    BY <2>2 DEF RemovalFails, RemoveCopies, Record, DeletionFails, historyVars
  <2>3. CASE Regroup(c)
    BY <2>3 DEF Regroup, Patch, EndRegroup, RegroupFails, LookAtGroup, DeleteGroup, historyVars
  <2>4. CASE Mark(c) \/ StartCompatible(c)
    BY <2>4 DEF Mark, SetTags, SeeRestored, ClearTombstone, StartCompatible, historyVars
  <2>. QED  BY <1>2, <2>1, <2>2, <2>3, <2>4 DEF Quiet
<1>. QED  BY <1>1, <1>2

LEMMA PromotionFacts ==
  ASSUME NEW k \in Works, Download(k) \/ Promote(k) \/ PromotionFails(k)
  PROVE  UNCHANGED <<dbVars, copyVars, reqVars, cut>>
BY DEF Download, Promote, MoveOld, MoveNew, Put, Commit, PromotionFails, historyVars

LEMMA ReqTypedNext ==
  ASSUME Typed, Next
  PROVE  ReqTyped'
<1>1. ASSUME NEW k \in Works, Download(k) \/ Promote(k) \/ PromotionFails(k) \/ Copy(k)
      PROVE  ReqTyped'
  <2>1. UNCHANGED reqVars
    BY <1>1, PromotionFacts, QuietFacts
  <2>. QED  BY <2>1 DEF Typed, ReqTyped, reqVars
<1>2. ASSUME NEW c \in Clients, Quiet(c) \/ RemoveFiles(c)
      PROVE  ReqTyped'
  BY <1>2, StartsFacts, EndsFacts, AsidesFacts DEF Quiet, Regroup, Mark
<1>3. ASSUME Crash
      PROVE  ReqTyped'
  <2>1. NoJob \in Jobs
    BY JobFacts DEF Ops
  <2>2. lock' = Nobody /\ pc' = [c \in Clients |-> "idle"] /\ job' = [c \in Clients |-> NoJob]
    BY <1>3 DEF Crash
  <2>. QED  BY <2>1, <2>2, LibraryAssumption DEF ReqTyped, Places, Locked
<1>. QED  BY <1>1, <1>2, <1>3, NextKinds

LEMMA MediaTypedNext ==
  ASSUME Typed, Next
  PROVE  MediaTyped' /\ made' >= made
<1>. USE LibraryAssumption DEF Typed, MediaTyped, Steps
<1>1. ASSUME NEW k \in Works, Download(k)
      PROVE  MediaTyped' /\ made' >= made
  <2>1. made' = made + 1 /\ made' \in 0 .. MaxVersions
    BY <1>1 DEF Download
  <2>2. PICK g \in groups : task' = [task EXCEPT ![k] = [ver |-> made', group |-> g]]
    BY <1>1 DEF Download
  <2>3. [ver |-> made', group |-> g] \in Entries
    BY <2>1, <2>2 DEF Entries, DbTyped
  <2>. QED  BY <1>1, <2>1, <2>2, <2>3 DEF Download
<1>2. ASSUME NEW k \in Works, Promote(k) \/ PromotionFails(k)
      PROVE  MediaTyped' /\ made' >= made
  <2>1. CASE MoveOld(k)
    <3>1. (files[k] # 0) \in BOOLEAN /\ old' = [old EXCEPT ![k] = files[k] # 0]
      BY <2>1 DEF MoveOld
    <3>. DEFINE had == files[k] # 0
    <3>2. old' \in [Works -> BOOLEAN]
      <4>1. had \in BOOLEAN /\ old' = [old EXCEPT ![k] = had] /\ old \in [Works -> BOOLEAN]
        BY <3>1
      <4>. HIDE DEF had
      <4>. QED  BY <4>1
    <3>3. /\ files' \in [Works -> 0 .. MaxVersions] /\ backup' \in [Works -> 0 .. MaxVersions]
          /\ step' \in [Works -> Steps] /\ UNCHANGED <<work, task, made>>
      BY <2>1 DEF MoveOld
    <3>. QED  BY <3>2, <3>3
  <2>4. CASE MoveNew(k) \/ Commit(k)
    BY <2>4 DEF MoveNew, Commit
  <2>2. CASE Put(k)
    BY <2>2 DEF Put
  <2>3. CASE PromotionFails(k)
    <3>1. files' \in [Works -> 0 .. MaxVersions] /\ backup' \in [Works -> 0 .. MaxVersions]
      <4>1. CASE old[k]
        BY <2>3, <4>1 DEF PromotionFails, Rollback
      <4>2. CASE ~old[k]
        BY <2>3, <4>2 DEF PromotionFails, Rollback
      <4>. QED  BY <4>1, <4>2
    <3>2. /\ work' = [work EXCEPT ![k] = 0] /\ step' = [step EXCEPT ![k] = "none"]
          /\ UNCHANGED <<old, task, made>>
      BY <2>3 DEF PromotionFails
    <3>. QED  BY <3>1, <3>2
  <2>. QED  BY <1>2, <2>1, <2>2, <2>3, <2>4 DEF Promote
<1>3. ASSUME NEW c \in Clients, RemoveFiles(c)
      PROVE  MediaTyped' /\ made' >= made
  <2>. DEFINE k == TheWork(c)
  <2>1. /\ UNCHANGED <<backup, work, step, old, task, made>>
        /\ files' = files \/ files' = [files EXCEPT ![k] = 0]
    BY <1>3 DEF RemoveFiles
  <2>. HIDE DEF k
  <2>. QED  BY <2>1
<1>4. ASSUME Crash
      PROVE  MediaTyped' /\ made' >= made
  BY <1>4 DEF Crash
<1>5. ASSUME UNCHANGED mediaVars
      PROVE  MediaTyped' /\ made' >= made
  BY <1>5 DEF mediaVars
<1>. QED  BY <1>1, <1>2, <1>3, <1>4, <1>5, NextKinds, QuietFacts

LEMMA CopyTypedNext ==
  ASSUME Typed, Next
  PROVE  CopyTyped'
<1>. USE DEF Typed, CopyTyped, Transcodes
<1>1. ASSUME NEW k \in Works, Download(k) \/ Promote(k) \/ PromotionFails(k) \/ Copy(k)
      PROVE  CopyTyped'
  <2>1. CASE Copy(k)
    <3>1. copy' \subseteq copy \cup {k} /\ copyRow' \subseteq copyRow \cup {k}
      BY <2>1 DEF Copy, RunTranscode, Transcode, FinishTranscode
    <3>2. \E state \in Transcodes : Became(k, state)
      BY <2>1 DEF Copy, RunTranscode, Transcode, FinishTranscode, Fails, Became
    <3>. QED  BY <1>1, <3>1, <3>2 DEF Became
  <2>2. CASE UNCHANGED copyVars
    BY <2>2 DEF copyVars
  <2>. QED  BY <1>1, <2>1, <2>2, PromotionFacts
<1>2. ASSUME NEW c \in Clients, StartCompatible(c)
      PROVE  CopyTyped'
  BY <1>2 DEF StartCompatible, Became
<1>3. ASSUME NEW c \in Clients, Quiet(c) \/ RemoveFiles(c), ~StartCompatible(c)
      PROVE  CopyTyped'
  <2>1. copy' \subseteq copy /\ copyRow' \subseteq copyRow /\ transcode' = transcode
    <3>1. CASE BeginSync(c) \/ EndSync(c) \/ SyncFails(c) \/ BeginDelete(c) \/ RemoveFiles(c)
      BY <3>1 DEF BeginSync, EndSync, Sync, SyncFails, BeginDelete, RemoveFiles, copyVars
    <3>2. CASE RemovalFails(c) \/ RemoveCopies(c) \/ Record(c) \/ DeletionFails(c)
      BY <3>2 DEF RemovalFails, RemoveCopies, Record, DeletionFails, Recover, copyVars
    <3>3. CASE Regroup(c) \/ Mark(c)
      BY <3>3 DEF Regroup, Patch, EndRegroup, RegroupFails, LookAtGroup, DeleteGroup,
                  Mark, SetTags, SeeRestored, ClearTombstone, copyVars
    <3>. QED  BY <1>3, <3>1, <3>2, <3>3 DEF Quiet
  <2>. QED  BY <2>1
<1>4. ASSUME Crash
      PROVE  CopyTyped'
  BY <1>4 DEF Crash, Sync
<1>. QED  BY <1>1, <1>2, <1>3, <1>4, NextKinds

\* The work of a deletion.
LEMMA WorkFacts ==
  ASSUME JobsInv, NEW c \in Clients, pc[c] \in Deleting
  PROVE  TheWork(c) \in Works /\ job[c].works = {TheWork(c)}
BY DEF JobsInv, TheWork

LEMMA HistoryTypedNext ==
  ASSUME Typed, JobsInv, Next
  PROVE  HistoryTyped'
<1>. USE LibraryAssumption DEF Typed, HistoryTyped
<1>1. ASSUME NEW k \in Works, Download(k) \/ Promote(k) \/ PromotionFails(k)
      PROVE  HistoryTyped'
  BY <1>1 DEF Download, Promote, MoveOld, MoveNew, Put, Commit, PromotionFails, Spend, historyVars
<1>2. ASSUME NEW k \in Works, Copy(k)
      PROVE  HistoryTyped'
  BY <1>2, QuietFacts DEF historyVars, Spend
<1>3. ASSUME NEW c \in Clients, Quiet(c)
      PROVE  HistoryTyped'
  <2>1. cut' = cut /\ gone' = gone
    BY <1>3, QuietFacts
  <2>2. events' \in 0 .. MaxEvents /\ unseen' \subseteq Works
    <3>1. CASE BeginSync(c) \/ EndSync(c) \/ SyncFails(c)
      BY <3>1 DEF BeginSync, EndSync, SyncFails, Snapshot, Request, Spend, historyVars
    <3>5. CASE BeginDelete(c)
      <4>1. unseen' = {} \/ unseen' = unseen
        BY <3>5 DEF BeginDelete, Snapshot
      <4>2. events < MaxEvents /\ events' = events + 1
        BY <3>5 DEF BeginDelete, Request, Spend
      <4>. QED  BY <4>1, <4>2
    <3>2. CASE RemovalFails(c) \/ RemoveCopies(c) \/ Record(c) \/ DeletionFails(c)
      BY <3>2 DEF RemovalFails, RemoveCopies, Record, DeletionFails, Recover, Acknowledge, Spend, historyVars
    <3>3. CASE Regroup(c)
      BY <3>3 DEF Regroup, Patch, EndRegroup, RegroupFails, LookAtGroup, DeleteGroup, Acknowledge,
                  Request, Spend, historyVars
    <3>4. CASE Mark(c) \/ StartCompatible(c)
      BY <3>4 DEF Mark, SetTags, SeeRestored, ClearTombstone, StartCompatible, Request, Spend, historyVars
    <3>. QED  BY <1>3, <3>1, <3>2, <3>3, <3>4, <3>5 DEF Quiet
  <2>. QED  BY <2>1, <2>2
<1>4. ASSUME NEW c \in Clients, RemoveFiles(c)
      PROVE  HistoryTyped'
  <2>1. TheWork(c) \in Works
    BY <1>4, WorkFacts DEF RemoveFiles, At, Deleting
  <2>. QED  BY <1>4, <2>1 DEF RemoveFiles
<1>5. ASSUME Crash
      PROVE  HistoryTyped'
  <2>1. \A c \in Clients : pc[c] = "record" => TheWork(c) \in Works
    BY WorkFacts DEF Deleting
  <2>. QED  BY <1>5, <2>1 DEF Crash, Spend, At
<1>. QED  BY <1>1, <1>2, <1>3, <1>4, <1>5, NextKinds

-----------------------------------------------------------------------------
(* Where the entries come from.                                            *)

Regroups(e, f) == /\ e # NoEntry /\ f # NoEntry
                  /\ f \in Entries /\ f.ver = e.ver /\ f.group \in Groups

IndexFrom(k) ==
  /\ saved'[k] \in {saved[k], index'[k]}
  /\ \/ index'[k] \in {index[k], saved[k], NoEntry}
     \/ step[k] = "placed" /\ step'[k] \notin BeforePut /\ index'[k] = task[k]
     \/ Regroups(index[k], index'[k])
     \/ \E c \in Clients : index'[k] = job[c].seen[k]

SeenFrom(c, k) == job'[c].seen[k] \in {job[c].seen[k], index[k], NoEntry}

LEMMA RestoredFacts ==
  ASSUME Typed, JobsInv, NEW c \in Clients, DeletionFails(c), NEW k, k = TheWork(c)
  PROVE  /\ k \in Works /\ job[c].works = {k} /\ index' \in [Works -> Entries]
         /\ \A l \in Works \ {k} : index'[l] = index[l]
         /\ index'[k] = IF Indexed(k) THEN index[k] ELSE job[c].seen[k]
         /\ saved' \in {saved, index'}
         /\ \A l \in Works : saved'[l] = saved[l] \/ saved'[l] = index'[l]
<1>1. k \in Works /\ job[c].works = {k}
  BY WorkFacts DEF DeletionFails, Deleting
<1>2. /\ index' = IF Indexed(k) THEN index ELSE [index EXCEPT ![k] = job[c].seen[k]]
      /\ saved' \in {saved, index'}
  BY DEF DeletionFails, Recover, Restored, Indexed
<1>3. job[c].seen[k] \in Entries
  BY <1>1 DEF Typed, ReqTyped, Jobs
<1>. QED  BY <1>1, <1>2, <1>3 DEF Typed, IndexTyped

LEMMA PatchFacts ==
  ASSUME Typed, NEW c \in Clients, Patch(c)
  PROVE  /\ IndexTyped'
         /\ \/ UNCHANGED indexVars
            \/ dirty' /\ \A k \in Works :
                 /\ saved'[k] = index'[k]
                 /\ \/ index'[k] = index[k]
                    \/ Regroups(index[k], index'[k])
<1>1. PICK g \in groups, h \in groups, op \in {"move", "rename", "merge"}, ks \in SUBSET Works :
        Save(Regrouped(ks, h)) \/ UNCHANGED indexVars
  BY DEF Patch, Members
<1>2. h \in Groups
  BY DEF Typed, DbTyped
<1>. DEFINE entries == Regrouped(ks, h)
<1>3. ASSUME NEW k \in Works
      PROVE  entries[k] \in Entries /\ (entries[k] = index[k] \/ Regroups(index[k], entries[k]))
  <2>1. index[k] \in Entries
    BY DEF Typed, IndexTyped
  <2>. DEFINE e == [index[k] EXCEPT !.group = h]
  <2>2. e \in Entries /\ (Indexed(k) => Regroups(index[k], e))
    BY <1>2, <2>1, GroupSet, LibraryAssumption DEF Indexed, Regroups
  <2>3. entries[k] = IF k \in ks /\ Indexed(k) THEN e ELSE index[k]
    BY DEF Regrouped
  <2>. HIDE DEF e, entries
  <2>. QED  BY <2>1, <2>2, <2>3
<1>4. entries = [k \in Works |-> entries[k]]
  BY DEF Regrouped
<1>5. Save(entries) \/ UNCHANGED indexVars
  BY <1>1
<1>. HIDE DEF entries
<1>6. entries \in [Works -> Entries]
  BY <1>3, <1>4
<1>. QED  BY <1>3, <1>5, <1>6 DEF Save, indexVars, Typed, IndexTyped

LEMMA IndexNext ==
  ASSUME Typed, JobsInv, Next
  PROVE  IndexTyped' /\ \A k \in Works : IndexFrom(k)
<1>. USE DEF Typed, IndexTyped
<1>1. ASSUME UNCHANGED <<index, saved>>, dirty' \in BOOLEAN
      PROVE  IndexTyped' /\ \A k \in Works : IndexFrom(k)
  BY <1>1 DEF IndexFrom
<1>2. ASSUME NEW k \in Works, Download(k) \/ Promote(k) \/ PromotionFails(k) \/ Copy(k)
      PROVE  IndexTyped' /\ \A l \in Works : IndexFrom(l)
  <2>1. CASE UNCHANGED indexVars
    BY <1>1, <2>1 DEF indexVars
  <2>2. CASE Put(k) \/ (PromotionFails(k) /\ step[k] = "placed")
    <3>1. /\ index' = [index EXCEPT ![k] = task[k]] /\ saved' \in {saved, index'}
          /\ dirty' \in BOOLEAN /\ step[k] = "placed" /\ step'[k] \notin BeforePut
      BY <2>2 DEF Put, PromotionFails, Save, SaveFails, MediaTyped, BeforePut
    <3>2. task[k] \in Entries
      BY DEF MediaTyped
    <3>3. index' \in [Works -> Entries] /\ saved' \in [Works -> Entries] /\ index'[k] = task[k]
          /\ \A l \in Works \ {k} : index'[l] = index[l]
      BY <3>1, <3>2
    <3>. QED  BY <3>1, <3>3 DEF IndexFrom
  <2>3. UNCHANGED indexVars \/ Put(k) \/ (PromotionFails(k) /\ step[k] = "placed")
    BY <1>2, QuietFacts DEF Download, Promote, MoveOld, MoveNew, Commit, PromotionFails
  <2>. QED  BY <2>1, <2>2, <2>3
<1>3. ASSUME NEW c \in Clients, BeginSync(c) \/ EndSync(c) \/ SyncFails(c) \/ BeginDelete(c)
      PROVE  IndexTyped' /\ \A k \in Works : IndexFrom(k)
  <2>1. CASE BeginSync(c) \/ SyncFails(c) \/ BeginDelete(c)
    <3>1. UNCHANGED <<index, saved>> /\ dirty' \in BOOLEAN
      BY <2>1 DEF BeginSync, SyncFails, BeginDelete, Snapshot, indexVars
    <3>. QED  BY <1>1, <3>1
  <2>2. CASE EndSync(c)
    <3>1. index' = index /\ saved' \in {saved, index} /\ dirty' \in BOOLEAN
      BY <2>2 DEF EndSync, Save, Remembered
    <3>. QED  BY <3>1 DEF IndexFrom
  <2>. QED  BY <1>3, <2>1, <2>2
<1>4. ASSUME NEW c \in Clients, RemoveFiles(c)
      PROVE  IndexTyped' /\ \A k \in Works : IndexFrom(k)
  <2>. DEFINE k == TheWork(c)
              without == [index EXCEPT ![k] = NoEntry]
  <2>1. k \in Works
    BY <1>4, WorkFacts DEF RemoveFiles, At, Deleting
  <2>2. UNCHANGED indexVars \/ Save(without)
    BY <1>4 DEF RemoveFiles
  <2>. HIDE DEF k
  <2>3. without \in [Works -> Entries] /\ \A l \in Works : without[l] \in {index[l], NoEntry}
    BY <2>1, EntryFacts
  <2>. HIDE DEF without
  <2>. QED  BY <1>1, <2>2, <2>3 DEF Save, indexVars, IndexFrom
<1>5. ASSUME NEW c \in Clients, DeletionFails(c)
      PROVE  IndexTyped' /\ \A k \in Works : IndexFrom(k)
  <2>. DEFINE k == TheWork(c)
  <2>1. /\ k \in Works /\ index' \in [Works -> Entries]
        /\ \A l \in Works \ {k} : index'[l] = index[l]
        /\ index'[k] = IF Indexed(k) THEN index[k] ELSE job[c].seen[k]
        /\ saved' \in {saved, index'}
    BY <1>5, RestoredFacts
  <2>2. dirty' \in BOOLEAN
    BY <1>5 DEF DeletionFails, Recover, Acknowledge
  <2>. HIDE DEF k
  <2>. QED  BY <2>1, <2>2 DEF IndexFrom
<1>6. ASSUME NEW c \in Clients, RemovalFails(c) \/ RemoveCopies(c) \/ Record(c)
      PROVE  IndexTyped' /\ \A k \in Works : IndexFrom(k)
  <2>1. UNCHANGED <<index, saved>> /\ dirty' \in BOOLEAN
    BY <1>6 DEF RemovalFails, RemoveCopies, Record, Acknowledge, indexVars
  <2>. QED  BY <1>1, <2>1
<1>7. ASSUME NEW c \in Clients, Regroup(c) \/ Mark(c) \/ StartCompatible(c)
      PROVE  IndexTyped' /\ \A k \in Works : IndexFrom(k)
  <2>1. CASE Patch(c)
    BY <2>1, PatchFacts DEF indexVars, IndexFrom
  <2>2. CASE ~Patch(c)
    <3>1. UNCHANGED <<index, saved>> /\ dirty' \in BOOLEAN
      BY <1>7, <2>2 DEF Regroup, EndRegroup, RegroupFails, LookAtGroup, DeleteGroup, Acknowledge,
             Mark, SetTags, SeeRestored, ClearTombstone, StartCompatible, indexVars
    <3>. QED  BY <1>1, <3>1
  <2>. QED  BY <2>1, <2>2
<1>8. ASSUME Crash
      PROVE  IndexTyped' /\ \A k \in Works : IndexFrom(k)
  <2>1. index' = saved /\ saved' = saved /\ dirty' \in BOOLEAN
    BY <1>8 DEF Crash
  <2>. QED  BY <2>1 DEF IndexFrom
<1>. QED  BY <1>2, <1>3, <1>4, <1>5, <1>6, <1>7, <1>8, NextKinds DEF Quiet

LEMMA SeenNext ==
  ASSUME Typed, Next
  PROVE  \A c \in Clients, k \in Works : SeenFrom(c, k)
<1>1. \A c \in Clients : job[c] \in Jobs
  BY DEF Typed, ReqTyped
<1>2. \A k \in Works : Nothing[k] = NoEntry
  BY EntryFacts
<1>3. NoJob.seen = Nothing
  BY JobFacts DEF Ops
<1>4. ASSUME UNCHANGED reqVars
      PROVE  \A c \in Clients, k \in Works : SeenFrom(c, k)
  BY <1>4 DEF SeenFrom, reqVars
<1>5. ASSUME NEW c \in Clients, Quiet(c) \/ RemoveFiles(c), ~UNCHANGED reqVars
      PROVE  \A d \in Clients, k \in Works : SeenFrom(d, k)
  <2>1. Others(c) /\ job'[c].seen \in {job[c].seen, index, Nothing}
    <3>1. CASE BeginSync(c) \/ EndSync(c) \/ SyncFails(c) \/ BeginDelete(c) \/ RemoveFiles(c)
      BY <1>3, <3>1, StartsFacts, EndsFacts DEF Freed, Ended
    <3>2. CASE RemovalFails(c) \/ RemoveCopies(c) \/ Record(c) \/ DeletionFails(c) \/ Regroup(c)
      BY <1>3, <3>2, StartsFacts, EndsFacts, AsidesFacts DEF Regroup, Freed, Ended
    <3>3. CASE Mark(c) \/ StartCompatible(c)
      BY <1>3, <1>5, <3>3, AsidesFacts DEF Mark, Ended
    <3>. QED  BY <1>5, <3>1, <3>2, <3>3 DEF Quiet
  <2>. QED  BY <1>2, <2>1 DEF SeenFrom, Others
<1>6. ASSUME Crash
      PROVE  \A c \in Clients, k \in Works : SeenFrom(c, k)
  <2>1. job' = [c \in Clients |-> NoJob]
    BY <1>6 DEF Crash
  <2>. QED  BY <1>2, <1>3, <2>1 DEF SeenFrom
<1>7. ASSUME NEW k \in Works, Download(k) \/ Promote(k) \/ PromotionFails(k) \/ Copy(k)
      PROVE  UNCHANGED reqVars
  BY <1>7, PromotionFacts, QuietFacts
<1>. QED  BY <1>4, <1>5, <1>6, <1>7, NextKinds

-----------------------------------------------------------------------------
(* Entries, rows and the media behind them.                                *)

LEMMA GivenFacts ==
  /\ Given(NoEntry)
  /\ \A e, f : Given(e) /\ Regroups(e, f) => Given(f)
BY EntryFacts DEF Given, GivenOf, Regroups

LEMMA GivenStays ==
  ASSUME Typed, MediaTyped', made' >= made, NEW e, Given(e)
  PROVE  GivenOf(e, made')
BY DEF Given, GivenOf, Typed, MediaTyped

LEMMA TasksGiven ==
  ASSUME Typed, EntriesGiven, Next
  PROVE  \A k \in Works : step'[k] # "none" => GivenOf(task'[k], made') /\ task'[k].ver # 0
<1>1. MediaTyped' /\ made' >= made
  BY MediaTypedNext
<1>2. ASSUME NEW k \in Works, step'[k] # "none", step[k] # "none", task'[k] = task[k]
      PROVE  GivenOf(task'[k], made') /\ task'[k].ver # 0
  <2>1. Given(task[k]) /\ task[k].ver # 0
    BY <1>2 DEF EntriesGiven
  <2>. QED  BY <1>1, <1>2, <2>1, GivenStays
<1>3. ASSUME NEW k \in Works, Download(k), NEW l \in Works, step'[l] # "none"
      PROVE  GivenOf(task'[l], made') /\ task'[l].ver # 0
  <2>1. CASE l = k
    <3>1. PICK g \in groups : task' = [task EXCEPT ![k] = [ver |-> made', group |-> g]]
      BY <1>3 DEF Download
    <3>2. made' = made + 1 /\ made \in Nat /\ made' \in 0 .. MaxVersions
      BY <1>1, <1>3 DEF Download, Typed, MediaTyped
    <3>3. task'[k] = [ver |-> made', group |-> g] /\ g \in Groups
      BY <3>1 DEF Typed, MediaTyped, DbTyped
    <3>4. [ver |-> made', group |-> g] \in Entries /\ made' \in 1 .. made' /\ made' # 0
      BY <3>2, <3>3 DEF Entries
    <3>. QED  BY <2>1, <3>3, <3>4 DEF GivenOf
  <2>2. CASE l # k
    <3>1. task'[l] = task[l] /\ step'[l] = step[l]
      BY <1>3, <2>2 DEF Download, Typed, MediaTyped
    <3>. QED  BY <1>2, <1>3, <3>1
  <2>. QED  BY <2>1, <2>2
<1>4. ASSUME NEW k \in Works, ~Download(k), Download(k) \/ Promote(k) \/ PromotionFails(k) \/ Copy(k)
      PROVE  task' = task /\ \A l \in Works : step'[l] # "none" => step[l] # "none"
  BY <1>4, QuietFacts DEF Promote, MoveOld, MoveNew, Put, Commit, PromotionFails, Moving,
     mediaVars, Typed, MediaTyped
<1>5. ASSUME NEW c \in Clients, Quiet(c) \/ RemoveFiles(c)
      PROVE  task' = task /\ step' = step
  BY <1>5, QuietFacts DEF RemoveFiles, mediaVars
<1>6. ASSUME Crash
      PROVE  task' = task /\ \A l \in Works : step'[l] = "none"
  BY <1>6 DEF Crash
<1>. QED  BY <1>2, <1>3, <1>4, <1>5, <1>6, NextKinds

LEMMA EntriesNext ==
  ASSUME Typed, JobsInv, EntriesGiven, Next
  PROVE  EntriesGiven'
<1>1. MediaTyped' /\ made' >= made
  BY MediaTypedNext
<1>2. ASSUME NEW k \in Works
      PROVE  Given(index'[k])
  <2>1. IndexFrom(k) /\ Given(index[k]) /\ Given(saved[k])
    BY IndexNext DEF EntriesGiven
  <2>2. \A c \in Clients : Given(job[c].seen[k])
    BY DEF EntriesGiven
  <2>3. step[k] = "placed" => Given(task[k])
    BY DEF EntriesGiven
  <2>. QED  BY <2>1, <2>2, <2>3, GivenFacts DEF IndexFrom
<1>3. ASSUME NEW k \in Works
      PROVE  Given(saved'[k])
  <2>1. IndexFrom(k) /\ Given(saved[k])
    BY IndexNext DEF EntriesGiven
  <2>. QED  BY <1>2, <2>1 DEF IndexFrom
<1>4. ASSUME NEW c \in Clients, NEW k \in Works
      PROVE  Given(job'[c].seen[k])
  <2>1. SeenFrom(c, k) /\ Given(index[k]) /\ Given(job[c].seen[k])
    BY SeenNext DEF EntriesGiven
  <2>. QED  BY <2>1, GivenFacts DEF SeenFrom
<1>5. \A k \in Works : GivenOf(index'[k], made') /\ GivenOf(saved'[k], made')
  BY <1>1, <1>2, <1>3, GivenStays
<1>6. \A c \in Clients : \A k \in Works : GivenOf(job'[c].seen[k], made')
  BY <1>1, <1>4, GivenStays
<1>. QED  BY <1>5, <1>6, TasksGiven DEF EntriesGiven, Given

\* The versions of the downloads that are not put stay.
LEMMA UnsavedNext ==
  ASSUME Typed, JobsInv, EntriesGiven, Unsaved, Next
  PROVE  Unsaved'
<1>1. SUFFICES ASSUME NEW k \in Works, step'[k] \in BeforePut
               PROVE  /\ index'[k].ver # task'[k].ver /\ saved'[k].ver # task'[k].ver
                      /\ \A c \in Clients : job'[c].seen[k].ver # task'[k].ver
  BY DEF Unsaved
<1>2. IndexFrom(k) /\ \A c \in Clients : SeenFrom(c, k)
  BY IndexNext, SeenNext
<1>3. task'[k].ver # 0 /\ step'[k] # "none"
  BY <1>1, TasksGiven DEF BeforePut
<1>4. CASE step[k] \in BeforePut /\ task'[k] = task[k]
  <2>1. /\ index[k].ver # task[k].ver /\ saved[k].ver # task[k].ver
        /\ \A c \in Clients : job[c].seen[k].ver # task[k].ver
    BY <1>4 DEF Unsaved
  <2>2. index'[k].ver # task'[k].ver
    BY <1>1, <1>2, <1>3, <1>4, <2>1, EntryFacts DEF IndexFrom, Regroups
  <2>3. saved'[k].ver # task'[k].ver
    BY <1>2, <1>4, <2>1, <2>2 DEF IndexFrom
  <2>. QED  BY <1>2, <1>3, <1>4, <2>1, <2>2, <2>3, EntryFacts DEF SeenFrom
<1>5. CASE Download(k)
  <2>1. PICK g \in groups : task' = [task EXCEPT ![k] = [ver |-> made', group |-> g]]
    BY <1>5 DEF Download
  <2>2. task'[k].ver = made + 1 /\ made \in Nat
    BY <1>5, <2>1 DEF Download, Typed, MediaTyped
  <2>3. UNCHANGED <<index, saved, job>>
    BY <1>5 DEF Download, indexVars, reqVars
  <2>4. \A e : Given(e) => e.ver \in 0 .. made
    BY <2>2, EntryFacts DEF Given, GivenOf
  <2>5. Given(index[k]) /\ Given(saved[k]) /\ \A c \in Clients : Given(job[c].seen[k])
    BY DEF EntriesGiven
  <2>. QED  BY <2>2, <2>3, <2>4, <2>5
<1>6. (step[k] \in BeforePut /\ task'[k] = task[k]) \/ Download(k)
  <2>1. ASSUME NEW l \in Works, Download(l) \/ Promote(l) \/ PromotionFails(l) \/ Copy(l), ~Download(k)
        PROVE  step[k] \in BeforePut /\ task'[k] = task[k]
    <3>1. CASE Copy(l)
      BY <1>1, <3>1, QuietFacts DEF mediaVars
    <3>2. CASE Download(l)
      <4>1. l # k /\ step'[k] = step[k] /\ task'[k] = task[k]
        BY <2>1, <3>2 DEF Download, Typed, MediaTyped
      <4>. QED  BY <1>1, <4>1
    <3>3. CASE Promote(l) \/ PromotionFails(l)
      BY <1>1, <3>3 DEF Promote, MoveOld, MoveNew, Put, Commit, PromotionFails,
         Typed, MediaTyped, BeforePut
    <3>. QED  BY <2>1, <3>1, <3>2, <3>3
  <2>2. ASSUME NEW c \in Clients, Quiet(c) \/ RemoveFiles(c)
        PROVE  step[k] \in BeforePut /\ task'[k] = task[k]
    BY <1>1, <2>2, QuietFacts DEF RemoveFiles, mediaVars
  <2>3. ~Crash
    BY <1>1 DEF Crash, BeforePut
  <2>. QED  BY <2>1, <2>2, <2>3, NextKinds
<1>. QED  BY <1>4, <1>5, <1>6

\* A removal and a restart note whose media they take; a promotion loses none.
LEMMA AccountedStays ==
  ASSUME Typed, JobsInv, PromotionInv, Next, NEW k \in Works, Accounted(k)
  PROVE  Accounted(k)'
<1>. USE DEF Accounted, HasMedia
<1>1. ASSUME NEW l \in Works, Download(l) \/ Promote(l) \/ PromotionFails(l)
      PROVE  Accounted(k)'
  <2>. USE DEF Typed, MediaTyped
  <2>1. CASE Download(l)
    BY <2>1 DEF Download, historyVars
  <2>2. CASE MoveOld(l)
    BY <2>2 DEF MoveOld, historyVars
  <2>3. CASE MoveNew(l)
    BY <2>3 DEF MoveNew, PromotionInv, historyVars
  <2>4. CASE Put(l)
    BY <2>4 DEF Put, historyVars
  <2>5. CASE Commit(l)
    BY <2>5 DEF Commit, historyVars
  <2>6. CASE PromotionFails(l)
    <3>1. CASE l = k /\ old[k]
      <4>1. backup[k] # 0 /\ files' = [files EXCEPT ![k] = backup[k]]
        BY <2>6, <3>1 DEF PromotionFails, PromotionInv, Rollback
      <4>. QED  BY <4>1
    <3>2. CASE l = k /\ ~old[k]
      BY <2>6, <3>2 DEF PromotionFails
    <3>3. CASE l # k
      <4>1. files'[k] = files[k] /\ backup'[k] = backup[k] /\ step'[k] = step[k] /\ gone \subseteq gone'
        BY <2>6, <3>3 DEF PromotionFails, Rollback
      <4>. QED  BY <4>1
    <3>. QED  BY <3>1, <3>2, <3>3
  <2>. QED  BY <1>1, <2>1, <2>2, <2>3, <2>4, <2>5, <2>6 DEF Promote
<1>2. ASSUME UNCHANGED <<mediaVars, gone>>
      PROVE  Accounted(k)'
  BY <1>2 DEF mediaVars
<1>3. ASSUME NEW c \in Clients, RemoveFiles(c)
      PROVE  Accounted(k)'
  <2>. DEFINE l == TheWork(c)
  <2>1. /\ \/ UNCHANGED <<files, gone>>
           \/ files' = [files EXCEPT ![l] = 0] /\ gone' = gone \cup {l}
        /\ UNCHANGED <<backup, step>>
    BY <1>3 DEF RemoveFiles
  <2>. HIDE DEF l
  <2>. QED  BY <2>1 DEF Typed, MediaTyped
<1>4. ASSUME Crash
      PROVE  Accounted(k)'
  BY <1>4 DEF Crash
<1>. QED  BY <1>1, <1>2, <1>3, <1>4, NextKinds, QuietFacts DEF historyVars

LEMMA MediaNext ==
  ASSUME Typed, JobsInv, PromotionInv, MediaInv, Next
  PROVE  MediaInv'
<1>1. SUFFICES ASSUME NEW k \in Works, Named(k)'
               PROVE  Accounted(k)'
  BY DEF MediaInv
<1>2. IndexFrom(k) /\ \A c \in Clients : SeenFrom(c, k)
  BY IndexNext, SeenNext
<1>3. CASE Named(k)
  BY <1>3, AccountedStays DEF MediaInv
<1>4. CASE ~Named(k)
  <2>1. step[k] = "placed" /\ step'[k] \notin BeforePut
    BY <1>1, <1>2, <1>4 DEF Named, Indexed, IndexFrom, SeenFrom, Regroups
  <2>2. Put(k) \/ PromotionFails(k)
    <3>1. ASSUME NEW l \in Works, Download(l) \/ Promote(l) \/ PromotionFails(l)
          PROVE  Put(k) \/ PromotionFails(k)
      BY <2>1, <3>1 DEF Download, Promote, MoveOld, MoveNew, Put, Commit, PromotionFails,
         Typed, MediaTyped, BeforePut
    <3>2. step'[k] # step[k]
      BY <2>1 DEF BeforePut
    <3>3. ~ \E c \in Clients : RemoveFiles(c)
      BY <3>2 DEF RemoveFiles
    <3>4. UNCHANGED mediaVars => step' = step
      BY DEF mediaVars
    <3>5. ~Crash
      <4>1. SUFFICES ASSUME Crash PROVE FALSE
        OBVIOUS
      <4>2. index' = saved /\ saved' = saved /\ job' = [c \in Clients |-> NoJob]
        BY <4>1 DEF Crash
      <4>3. NoJob.seen[k] = NoEntry
        BY JobFacts, EntryFacts DEF Ops
      <4>. QED  BY <1>1, <1>4, <4>2, <4>3 DEF Named, Indexed
    <3>. QED  BY <3>1, <3>2, <3>3, <3>4, <3>5, NextKinds, QuietFacts
  <2>3. CASE Put(k)
    <3>1. files'[k] = files[k] /\ (files[k] = 0 => k \in gone /\ gone' = gone)
      BY <2>1, <2>3 DEF Put, PromotionInv
    <3>. QED  BY <3>1 DEF Accounted, HasMedia
  <2>4. CASE PromotionFails(k)
    <3>1. CASE old[k]
      BY <2>1, <2>4, <3>1 DEF PromotionFails, PromotionInv, Rollback, Moving, Accounted, HasMedia,
         Typed, MediaTyped
    <3>2. CASE ~old[k]
      BY <2>4, <3>2 DEF PromotionFails, Accounted
    <3>. QED  BY <3>1, <3>2
  <2>. QED  BY <2>2, <2>3, <2>4
<1>. QED  BY <1>3, <1>4

-----------------------------------------------------------------------------
(* Promotions, deletions and their rows.                                   *)

LEMMA PromotionNext ==
  ASSUME Typed, EntriesGiven, PromotionInv, Next
  PROVE  PromotionInv'
<1>1. ASSUME NEW k \in Works, Download(k) \/ Promote(k) \/ PromotionFails(k)
      PROVE  PromotionInv'
  <2>. USE DEF Typed, MediaTyped, PromotionInv, Moving
  <2>1. CASE Download(k)
    <3>1. made \in Nat /\ made' = made + 1 /\ work' = [work EXCEPT ![k] = made']
      BY <2>1 DEF Download
    <3>2. work'[k] # 0
      BY <3>1
    <3>. QED  BY <2>1, <3>1, <3>2 DEF Download, historyVars
  <2>2. CASE MoveOld(k)
    <3>1. ASSUME NEW l \in Works
          PROVE  /\ step'[l] \in {"work", "moved"} => work'[l] # 0
                 /\ step'[l] \in {"moved", "placed"} /\ old'[l] => backup'[l] # 0
                 /\ step'[l] = "placed" => files'[l] # 0 \/ l \in gone'
      <4>1. CASE l = k
        <5>1. step'[k] = "moved" /\ work'[k] = work[k] /\ step[k] = "work" /\ backup'[k] = files[k]
          BY <2>2 DEF MoveOld
        <5>2. old'[k] = (files[k] # 0)
          BY <2>2 DEF MoveOld
        <5>. QED  BY <4>1, <5>1, <5>2
      <4>2. CASE l # k
        <5>1. /\ step'[l] = step[l] /\ work'[l] = work[l] /\ backup'[l] = backup[l]
              /\ files'[l] = files[l] /\ gone' = gone
          BY <2>2, <4>2 DEF MoveOld, historyVars
        <5>2. old'[l] = old[l]
          BY <2>2, <4>2 DEF MoveOld
        <5>. QED  BY <5>1, <5>2
      <4>. QED  BY <4>1, <4>2
    <3>. QED  BY <3>1
  <2>3. CASE MoveNew(k)
    BY <2>3 DEF MoveNew, historyVars
  <2>4. CASE Put(k)
    BY <2>4 DEF Put
  <2>5. CASE Commit(k)
    BY <2>5 DEF Commit, historyVars
  <2>6. CASE PromotionFails(k)
    <3>1. /\ \A l \in Works \ {k} : files'[l] = files[l] /\ backup'[l] = backup[l]
          /\ gone \subseteq gone' /\ old' = old
      BY <2>6 DEF PromotionFails, Rollback
    <3>2. step' = [step EXCEPT ![k] = "none"] /\ work' = [work EXCEPT ![k] = 0]
      BY <2>6 DEF PromotionFails
    <3>. QED  BY <3>1, <3>2
  <2>. QED  BY <1>1, <2>1, <2>2, <2>3, <2>4, <2>5, <2>6 DEF Promote
<1>2. ASSUME UNCHANGED <<mediaVars, gone>>
      PROVE  PromotionInv'
  BY <1>2 DEF mediaVars, PromotionInv, Moving
<1>3. ASSUME NEW c \in Clients, RemoveFiles(c)
      PROVE  PromotionInv'
  <2>. DEFINE l == TheWork(c)
  <2>1. /\ \/ UNCHANGED <<files, gone>>
           \/ files' = [files EXCEPT ![l] = 0] /\ gone' = gone \cup {l}
        /\ UNCHANGED <<backup, step, work, old>>
    BY <1>3 DEF RemoveFiles
  <2>. HIDE DEF l
  <2>. QED  BY <2>1 DEF Typed, MediaTyped, PromotionInv, Moving
<1>4. ASSUME Crash
      PROVE  PromotionInv'
  <2>1. \A l \in Works : step'[l] = "none"
    BY <1>4 DEF Crash
  <2>. QED  BY <2>1 DEF PromotionInv, Moving
<1>. QED  BY <1>1, <1>2, <1>3, <1>4, NextKinds, QuietFacts DEF historyVars

LEMMA JobsNext ==
  ASSUME Typed, JobsInv, Next
  PROVE  JobsInv'
<1>1. ASSUME UNCHANGED reqVars
      PROVE  JobsInv'
  BY <1>1 DEF reqVars, JobsInv
<1>2. ASSUME NEW c \in Clients, Others(c),
             \/ pc'[c] \notin Deleting \cup {"sync"}
             \/ pc'[c] = "sync" /\ job'[c].op = "sync"
             \/ \E k \in Works : job'[c].works = {k}
      PROVE  JobsInv'
  <2>1. SUFFICES ASSUME NEW d \in Clients, pc'[d] \in Deleting \/ (pc'[d] = "sync" /\ job'[d].op # "sync")
                 PROVE  \E k \in Works : job'[d].works = {k}
    BY DEF JobsInv
  <2>2. CASE d = c
    BY <1>2, <2>1, <2>2 DEF Deleting
  <2>3. CASE d # c
    BY <1>2, <2>1, <2>3 DEF Others, JobsInv
  <2>. QED  BY <2>2, <2>3
<1>3. ASSUME NEW c \in Clients, Quiet(c) \/ RemoveFiles(c)
      PROVE  JobsInv'
  <2>1. CASE Mark(c) \/ StartCompatible(c) \/ LookAtGroup(c) \/ DeleteGroup(c)
    BY <1>1, <1>2, <2>1, AsidesFacts DEF Mark, Ended, Deleting
  <2>2. CASE BeginSync(c) \/ BeginDelete(c) \/ Patch(c)
    BY <1>2, <2>2, StartsFacts DEF Deleting
  <2>3. CASE SyncFails(c) \/ RemovalFails(c) \/ DeletionFails(c) \/ Record(c) \/ EndRegroup(c)
             \/ RegroupFails(c)
    BY <1>2, <2>3, EndsFacts DEF Freed, Ended, Deleting
  <2>4. CASE EndSync(c)
    <3>1. job[c].op # "sync" => \E k \in Works : job[c].works = {k}
      BY <2>4, EndsFacts DEF JobsInv
    <3>. QED  BY <1>2, <2>4, <3>1, EndsFacts DEF Freed, Ended, Deleting
  <2>5. CASE RemoveFiles(c) \/ RemoveCopies(c)
    <3>1. \E k \in Works : job[c].works = {k}
      BY <2>5, EndsFacts DEF JobsInv, Deleting
    <3>. QED  BY <1>2, <2>5, <3>1, EndsFacts DEF Freed, Ended, Deleting
  <2>. QED  BY <1>3, <2>1, <2>2, <2>3, <2>4, <2>5 DEF Quiet, Regroup
<1>4. ASSUME Crash
      PROVE  JobsInv'
  <2>1. \A c \in Clients : pc'[c] = "idle"
    BY <1>4 DEF Crash
  <2>. QED  BY <2>1 DEF JobsInv, Deleting
<1>. QED  BY <1>1, <1>3, <1>4, NextKinds, PromotionFacts, QuietFacts

\* Only a removal and a restart take an entry out of the index.
LEMMA IndexKept ==
  ASSUME Typed, JobsInv, EntriesGiven, Next, NEW k \in Works, Indexed(k)
  PROVE  \/ Indexed(k)'
         \/ \E c \in Clients : RemoveFiles(c) /\ pc'[c] = "copies" /\ job[c].works = {k}
         \/ Crash
<1>1. ASSUME NEW l \in Works, Download(l) \/ Promote(l) \/ PromotionFails(l)
      PROVE  Indexed(k)'
  <2>1. index' = index \/ (index' = [index EXCEPT ![l] = task[l]] /\ step[l] = "placed")
    BY <1>1 DEF Download, Promote, MoveOld, MoveNew, Put, Commit, PromotionFails, Save, SaveFails, indexVars
  <2>2. step[l] = "placed" => task[l] # NoEntry
    BY EntryFacts DEF EntriesGiven
  <2>. QED  BY <2>1, <2>2 DEF Indexed, Typed, IndexTyped
<1>2. ASSUME NEW c \in Clients, Quiet(c)
      PROVE  Indexed(k)'
  <2>1. CASE BeginSync(c) \/ EndSync(c) \/ SyncFails(c) \/ BeginDelete(c)
    BY <2>1 DEF BeginSync, EndSync, SyncFails, BeginDelete, Snapshot, Save, indexVars, Indexed
  <2>2. CASE RemovalFails(c) \/ RemoveCopies(c) \/ Record(c)
    BY <2>2 DEF RemovalFails, RemoveCopies, Record, indexVars, Indexed
  <2>3. CASE DeletionFails(c)
    BY <2>3, RestoredFacts DEF Indexed
  <2>4. CASE Patch(c)
    BY <2>4, PatchFacts DEF Indexed, indexVars, Regroups
  <2>5. CASE EndRegroup(c) \/ RegroupFails(c) \/ LookAtGroup(c) \/ DeleteGroup(c) \/ Mark(c) \/ StartCompatible(c)
    BY <2>5 DEF EndRegroup, RegroupFails, LookAtGroup, DeleteGroup,
       Mark, SetTags, SeeRestored, ClearTombstone, StartCompatible, indexVars, Indexed
  <2>. QED  BY <1>2, <2>1, <2>2, <2>3, <2>4, <2>5 DEF Quiet, Regroup
<1>3. ASSUME NEW c \in Clients, RemoveFiles(c), ~Indexed(k)'
      PROVE  pc'[c] = "copies" /\ job[c].works = {k}
  <2>. DEFINE l == TheWork(c)
  <2>1. l \in Works /\ job[c].works = {l}
    BY <1>3, WorkFacts DEF RemoveFiles, At, Deleting
  <2>2. index' = index \/ index' = [index EXCEPT ![l] = NoEntry]
    BY <1>3 DEF RemoveFiles, Save, indexVars
  <2>. HIDE DEF l
  <2>3. k = l
    BY <1>3, <2>2 DEF Indexed, Typed, IndexTyped
  <2>4. index' # index
    BY <1>3 DEF Indexed
  <2>. QED  BY <1>3, <2>1, <2>3, <2>4, EndsFacts DEF indexVars
<1>. QED  BY <1>1, <1>2, <1>3, NextKinds, QuietFacts DEF Indexed, indexVars

\* What a synchronisation does to the rows.
LEMMA SyncFacts ==
  ASSUME Typed, NEW seen \in [Works -> Entries], NEW entries \in [Works -> Entries],
         NEW present \in SUBSET Groups, \A k \in Works : Given(seen[k]),
         Sync(seen, entries, present)
  PROVE  /\ row' \in [Works -> Entries] /\ groups' \subseteq Groups /\ copyRow' \subseteq copyRow
         /\ \A k \in Works :
              /\ seen[k] = NoEntry => row'[k] = NoEntry
              /\ seen[k] # NoEntry =>
                   row'[k] = IF entries[k] # NoEntry /\ files[k] # 0 THEN seen[k] ELSE row[k]
<1>1. \A k \in Works : seen[k] # NoEntry => seen[k].group \in Groups
  BY DEF Given, GivenOf
<1>. QED  BY <1>1, EntryFacts DEF Sync, Importable, Stale, InCatalog, Typed, DbTyped

LEMMA FailedSyncFacts ==
  ASSUME Typed, NEW c \in Clients, SyncFails(c)
  PROVE  /\ row' \in [Works -> Entries]
         /\ \A k \in Works : row'[k] = row[k] \/ Indexed(k)
<1>1. PICK some \in SUBSET {k \in Importable(job[c].seen, index) : job[c].seen[k].group \in groups} :
        row' = [k \in Works |-> IF k \in some THEN job[c].seen[k] ELSE row[k]]
  BY DEF SyncFails
<1>2. job[c].seen \in [Works -> Entries] /\ row \in [Works -> Entries]
  BY DEF Typed, ReqTyped, Jobs, DbTyped
<1>. QED  BY <1>1, <1>2 DEF Importable, Indexed

LEMMA RegroupFacts ==
  ASSUME Typed, NEW c \in Clients, EndRegroup(c) \/ DeleteGroup(c)
  PROVE  /\ row' \in [Works -> Entries] /\ groups' \subseteq Groups
         /\ \A k \in Works : row'[k].ver = row[k].ver /\ (row[k] = NoEntry => row'[k] = NoEntry)
<1>1. job[c] \in Jobs
  BY DEF Typed, ReqTyped
<1>2. job[c].group \in Groups \cup {NoGroup}
  BY <1>1 DEF Jobs
<1>3. \A k \in Works : row[k] \in Entries
  BY DEF Typed, DbTyped
<1>. DEFINE in(k, g) == [row[k] EXCEPT !.group = g]
<1>4. ASSUME NEW k \in Works
      PROVE  /\ in(k, job[c].group) \in Entries /\ in(k, job[c].group).ver = row[k].ver
             /\ in(k, NoGroup) \in Entries /\ in(k, NoGroup).ver = row[k].ver
             /\ row[k] = NoEntry => in(k, NoGroup) = NoEntry
  BY <1>2, <1>3, GroupSet
<1>5. CASE EndRegroup(c)
  <2>1. row' = [k \in Works |-> IF k \in job[c].works /\ InCatalog(k) THEN in(k, job[c].group) ELSE row[k]]
    BY <1>5 DEF EndRegroup
  <2>2. groups' \subseteq groups
    BY <1>5 DEF EndRegroup
  <2>. HIDE DEF in
  <2>. QED  BY <1>3, <1>4, <2>1, <2>2 DEF InCatalog, Typed, DbTyped
<1>6. CASE DeleteGroup(c)
  <2>1. row' = [k \in Works |-> IF row[k].group = job[c].group THEN in(k, NoGroup) ELSE row[k]]
    BY <1>6 DEF DeleteGroup
  <2>2. groups' \subseteq groups
    BY <1>6 DEF DeleteGroup
  <2>. HIDE DEF in
  <2>. QED  BY <1>3, <1>4, <2>1, <2>2 DEF Typed, DbTyped
<1>. QED  BY <1>5, <1>6

LEMMA AsidesQuiet ==
  ASSUME NEW c \in Clients,
         LookAtGroup(c) \/ DeleteGroup(c) \/ Mark(c) \/ StartCompatible(c)
  PROVE  UNCHANGED <<mediaVars, indexVars, copy, copyRow, cut, unseen, gone>>
BY DEF LookAtGroup, DeleteGroup, Mark, SetTags, SeeRestored, ClearTombstone, StartCompatible,
   copyVars, historyVars

\* Rows are made for entries of the index only.
LEMMA RowsNext ==
  ASSUME Typed, JobsInv, EntriesGiven, Next
  PROVE  /\ DbTyped'
         /\ \A k \in Works : InCatalog(k)' => InCatalog(k) \/ Indexed(k)'
<1>. USE DEF InCatalog
<1>1. ASSUME UNCHANGED dbVars
      PROVE  DbTyped' /\ \A k \in Works : InCatalog(k)' => InCatalog(k)
  BY <1>1 DEF dbVars, Typed, DbTyped
<1>2. ASSUME NEW c \in Clients, BeginSync(c) \/ EndSync(c) \/ SyncFails(c) \/ BeginDelete(c)
      PROVE  /\ DbTyped'
             /\ \A k \in Works : InCatalog(k)' => InCatalog(k) \/ Indexed(k)'
  <2>1. CASE BeginSync(c) \/ BeginDelete(c)
    BY <1>1, <2>1 DEF BeginSync, BeginDelete
  <2>2. CASE EndSync(c)
    <3>1. Sync(job[c].seen, index, groups) /\ index' = index /\ tagged' = tagged /\ tomb' = tomb
      BY <2>2 DEF EndSync, Save
    <3>2. /\ job[c].seen \in [Works -> Entries] /\ \A k \in Works : Given(job[c].seen[k])
          /\ groups \in SUBSET Groups /\ index \in [Works -> Entries]
      BY DEF Typed, ReqTyped, Jobs, EntriesGiven, DbTyped, IndexTyped
    <3>3. /\ row' \in [Works -> Entries] /\ groups' \subseteq Groups
          /\ \A k \in Works :
              /\ job[c].seen[k] = NoEntry => row'[k] = NoEntry
              /\ job[c].seen[k] # NoEntry =>
                   row'[k] = IF index[k] # NoEntry /\ files[k] # 0 THEN job[c].seen[k] ELSE row[k]
      BY <3>1, <3>2, SyncFacts
    <3>. QED  BY <3>1, <3>3 DEF Indexed, Typed, DbTyped
  <2>3. CASE SyncFails(c)
    BY <2>3, FailedSyncFacts DEF SyncFails, Indexed, Typed, DbTyped
  <2>. QED  BY <1>2, <2>1, <2>2, <2>3
<1>3. ASSUME NEW c \in Clients, RemoveFiles(c) \/ RemovalFails(c) \/ RemoveCopies(c) \/ DeletionFails(c)
      PROVE  DbTyped' /\ \A k \in Works : InCatalog(k)' => InCatalog(k)
  BY <1>1, <1>3 DEF RemoveFiles, RemovalFails, RemoveCopies, DeletionFails
<1>4. ASSUME NEW c \in Clients, Record(c)
      PROVE  DbTyped' /\ \A k \in Works : InCatalog(k)' => InCatalog(k)
  <2>. DEFINE k == TheWork(c)
  <2>1. k \in Works
    BY <1>4, WorkFacts DEF Record, At, Deleting
  <2>2. /\ row' = [row EXCEPT ![k] = NoEntry] /\ groups' = groups
        /\ tagged' = tagged \ {k} /\ tomb' = tomb \cup {k}
    BY <1>4 DEF Record
  <2>. HIDE DEF k
  <2>. QED  BY <2>1, <2>2, EntryFacts DEF Typed, DbTyped
<1>5. ASSUME NEW c \in Clients, Regroup(c) \/ Mark(c) \/ StartCompatible(c)
      PROVE  DbTyped' /\ \A k \in Works : InCatalog(k)' => InCatalog(k)
  <2>1. CASE EndRegroup(c) \/ DeleteGroup(c)
    BY <2>1, RegroupFacts DEF EndRegroup, DeleteGroup, Typed, DbTyped
  <2>2. CASE Patch(c) \/ RegroupFails(c) \/ LookAtGroup(c) \/ SeeRestored(c) \/ StartCompatible(c)
    BY <1>1, <2>2 DEF Patch, RegroupFails, LookAtGroup, SeeRestored, StartCompatible
  <2>3. CASE SetTags(c) \/ ClearTombstone(c)
    BY <2>3 DEF SetTags, ClearTombstone, Typed, DbTyped
  <2>. QED  BY <1>5, <2>1, <2>2, <2>3 DEF Regroup, Mark
<1>6. ASSUME Crash
      PROVE  /\ DbTyped'
             /\ \A k \in Works : InCatalog(k)' => InCatalog(k) \/ Indexed(k)'
  <2>1. /\ Sync(saved, saved, groups \cup {Default}) /\ index' = saved
        /\ tagged' = tagged /\ tomb' = tomb
    BY <1>6 DEF Crash
  <2>2. /\ saved \in [Works -> Entries] /\ \A k \in Works : Given(saved[k])
        /\ groups \cup {Default} \in SUBSET Groups
    BY LibraryAssumption DEF Typed, EntriesGiven, DbTyped, IndexTyped
  <2>3. /\ row' \in [Works -> Entries] /\ groups' \subseteq Groups
        /\ \A k \in Works : saved[k] = NoEntry => row'[k] = NoEntry
    BY <2>1, <2>2, SyncFacts
  <2>. QED  BY <2>1, <2>3 DEF Indexed, Typed, DbTyped
<1>7. ASSUME NEW k \in Works, Download(k) \/ Promote(k) \/ PromotionFails(k) \/ Copy(k)
      PROVE  UNCHANGED dbVars
  BY <1>7, PromotionFacts, QuietFacts
<1>. QED  BY <1>1, <1>2, <1>3, <1>4, <1>5, <1>6, <1>7, NextKinds DEF Quiet

\* A deletion under way goes on, or ends in one of three ways.
LEMMA DeletionGoesOn ==
  ASSUME Typed, Next, NEW d \in Clients, pc[d] \in {"copies", "record"}
  PROVE  \/ pc'[d] = pc[d] /\ job'[d] = job[d]
         \/ RemoveCopies(d) /\ pc'[d] = "record" /\ job'[d] = job[d]
         \/ Record(d) \/ DeletionFails(d) \/ Crash
<1>1. ASSUME UNCHANGED reqVars
      PROVE  pc'[d] = pc[d] /\ job'[d] = job[d]
  BY <1>1 DEF reqVars
<1>2. ASSUME NEW c \in Clients, Quiet(c) \/ RemoveFiles(c), c # d
      PROVE  pc'[d] = pc[d] /\ job'[d] = job[d]
  <2>1. Others(c) \/ UNCHANGED reqVars
    BY <1>2, StartsFacts, EndsFacts, AsidesFacts DEF Quiet, Regroup, Mark
  <2>. QED  BY <1>1, <1>2, <2>1 DEF Others
<1>3. ASSUME Quiet(d) \/ RemoveFiles(d)
      PROVE  \/ UNCHANGED reqVars
             \/ RemoveCopies(d) /\ pc'[d] = "record" /\ job'[d] = job[d]
             \/ Record(d) \/ DeletionFails(d)
  <2>1. ~BeginSync(d) /\ ~BeginDelete(d) /\ ~Patch(d)
    BY StartsFacts DEF Taken
  <2>2. ~EndSync(d) /\ ~SyncFails(d) /\ ~RemovalFails(d) /\ ~EndRegroup(d) /\ ~RegroupFails(d) /\ ~RemoveFiles(d)
    BY DEF EndSync, SyncFails, RemovalFails, EndRegroup, RegroupFails, RemoveFiles, At
  <2>3. ~LookAtGroup(d) /\ ~SeeRestored(d) /\ ~DeleteGroup(d) /\ ~ClearTombstone(d)
    BY AsidesFacts
  <2>. QED  BY <1>3, <2>1, <2>2, <2>3, EndsFacts, AsidesFacts DEF Quiet, Regroup, Mark
<1>4. ASSUME NEW k \in Works, Download(k) \/ Promote(k) \/ PromotionFails(k) \/ Copy(k)
      PROVE  UNCHANGED reqVars
  BY <1>4, PromotionFacts, QuietFacts
<1>. QED  BY <1>1, <1>2, <1>3, <1>4, NextKinds

LEMMA RowsIndexedNext ==
  ASSUME Typed, JobsInv, EntriesGiven, RowsIndexed, Next
  PROVE  RowsIndexed'
<1>1. SUFFICES ASSUME NEW k \in Works, InCatalog(k)', ~Indexed(k)'
               PROVE  \E c \in Clients : /\ pc'[c] \in {"copies", "record"} /\ job'[c].works = {k}
                                         /\ job'[c].seen[k] # NoEntry
  BY DEF RowsIndexed
<1>2. InCatalog(k)
  BY <1>1, RowsNext
<1>3. ~Crash
  <2>1. SUFFICES ASSUME Crash PROVE FALSE
    OBVIOUS
  <2>2. /\ Sync(saved, saved, groups \cup {Default}) /\ index' = saved
    BY <2>1 DEF Crash
  <2>3. /\ saved \in [Works -> Entries] /\ \A l \in Works : Given(saved[l])
        /\ groups \cup {Default} \in SUBSET Groups
    BY LibraryAssumption DEF Typed, EntriesGiven, DbTyped, IndexTyped
  <2>4. saved[k] = NoEntry => row'[k] = NoEntry
    BY <2>2, <2>3, SyncFacts
  <2>. QED  BY <1>1, <2>2, <2>4 DEF InCatalog, Indexed
<1>4. CASE Indexed(k)
  <2>1. PICK c \in Clients : RemoveFiles(c) /\ pc'[c] = "copies" /\ job[c].works = {k}
    BY <1>1, <1>3, <1>4, IndexKept
  <2>2. job'[c].seen = index /\ job'[c].works = job[c].works
    BY <2>1, EndsFacts DEF Freed, Ended
  <2>. QED  BY <1>4, <2>1, <2>2 DEF Indexed
<1>5. CASE ~Indexed(k)
  <2>1. PICK d \in Clients : pc[d] \in {"copies", "record"} /\ job[d].works = {k} /\ job[d].seen[k] # NoEntry
    BY <1>2, <1>5 DEF RowsIndexed
  <2>2. TheWork(d) = k
    BY <2>1 DEF TheWork
  <2>3. ~Record(d)
    BY <1>1, <2>2 DEF Record, InCatalog, Typed, DbTyped
  <2>4. ~DeletionFails(d)
    BY <1>1, <1>5, <2>1, <2>2, RestoredFacts DEF Indexed
  <2>. QED  BY <1>3, <2>1, <2>3, <2>4, DeletionGoesOn
<1>. QED  BY <1>4, <1>5

LEMMA CopyRowsNext ==
  ASSUME Typed, JobsInv, CopyRowsKept, Next
  PROVE  CopyRowsKept'
<1>1. SUFFICES ASSUME NEW k \in copyRow' \ cut', k \notin copy'
               PROVE  \E c \in Clients : pc'[c] = "record" /\ job'[c].works = {k}
  BY DEF CopyRowsKept
<1>2. CASE k \in copyRow \ cut /\ k \notin copy
  <2>1. PICK d \in Clients : pc[d] = "record" /\ job[d].works = {k}
    BY <1>2 DEF CopyRowsKept
  <2>2. TheWork(d) = k
    BY <2>1 DEF TheWork
  <2>3. ~Record(d) /\ ~DeletionFails(d)
    BY <1>1, <1>2, <2>2 DEF Record, DeletionFails, Recover
  <2>4. ~Crash
    BY <1>1, <2>1, <2>2 DEF Crash, At
  <2>. QED  BY <2>1, <2>3, <2>4, DeletionGoesOn
<1>3. CASE k \in copy
  <2>1. PICK c \in Clients : RemoveCopies(c)
    <3>1. ASSUME NEW c \in Clients, Quiet(c) \/ RemoveFiles(c), ~RemoveCopies(c)
          PROVE  copy' = copy
      <4>1. CASE BeginSync(c) \/ EndSync(c) \/ SyncFails(c) \/ BeginDelete(c) \/ RemoveFiles(c)
        BY <4>1 DEF BeginSync, EndSync, SyncFails, BeginDelete, RemoveFiles, copyVars
      <4>2. CASE RemovalFails(c) \/ Record(c) \/ DeletionFails(c)
        BY <4>2 DEF RemovalFails, Record, DeletionFails, copyVars
      <4>3. CASE Patch(c) \/ EndRegroup(c) \/ RegroupFails(c)
        BY <4>3 DEF Patch, EndRegroup, RegroupFails, copyVars
      <4>. QED  BY <3>1, <4>1, <4>2, <4>3, AsidesQuiet DEF Quiet, Regroup
    <3>2. ASSUME NEW l \in Works, Copy(l)
          PROVE  copy \subseteq copy'
      BY <3>2 DEF Copy, RunTranscode, Transcode, FinishTranscode
    <3>3. ASSUME NEW l \in Works, Download(l) \/ Promote(l) \/ PromotionFails(l)
          PROVE  copy' = copy
      BY <3>3, PromotionFacts DEF copyVars
    <3>4. Crash => copy' = copy
      BY DEF Crash
    <3>. QED  BY <1>1, <1>3, <3>1, <3>2, <3>3, <3>4, NextKinds
  <2>2. k = TheWork(c) /\ pc[c] = "copies"
    BY <1>1, <1>3, <2>1 DEF RemoveCopies, At
  <2>3. job[c].works = {k}
    BY <2>2, WorkFacts DEF Deleting
  <2>. QED  BY <2>1, <2>3, EndsFacts
<1>4. k \in copyRow \ cut \/ k \in copy
  <2>1. cut \subseteq cut'
    <3>1. \A l \in Works : Copy(l) \/ Download(l) \/ Promote(l) \/ PromotionFails(l) => cut' = cut
      BY PromotionFacts, QuietFacts DEF historyVars
    <3>2. \A c \in Clients : Quiet(c) \/ RemoveFiles(c) => cut' = cut
      BY QuietFacts DEF RemoveFiles
    <3>3. Crash => cut \subseteq cut'
      BY DEF Crash
    <3>. QED  BY <3>1, <3>2, <3>3, NextKinds
  <2>2. k \in copyRow \/ k \in copy
    <3>1. ASSUME NEW c \in Clients, Quiet(c) \/ RemoveFiles(c)
          PROVE  copyRow' \subseteq copyRow
      <4>1. CASE BeginSync(c) \/ EndSync(c) \/ SyncFails(c) \/ BeginDelete(c) \/ RemoveFiles(c)
        BY <4>1 DEF BeginSync, EndSync, SyncFails, BeginDelete, RemoveFiles, Sync, copyVars
      <4>2. CASE RemovalFails(c) \/ RemoveCopies(c) \/ Record(c) \/ DeletionFails(c)
        BY <4>2 DEF RemovalFails, RemoveCopies, Record, DeletionFails, Recover, copyVars
      <4>3. CASE Patch(c) \/ EndRegroup(c) \/ RegroupFails(c)
        BY <4>3 DEF Patch, EndRegroup, RegroupFails, copyVars
      <4>. QED  BY <3>1, <4>1, <4>2, <4>3, AsidesQuiet DEF Quiet, Regroup
    <3>2. ASSUME NEW l \in Works, Copy(l)
          PROVE  copyRow' \subseteq copyRow \cup copy
      BY <3>2 DEF Copy, RunTranscode, Transcode, FinishTranscode, Kept
    <3>3. ASSUME NEW l \in Works, Download(l) \/ Promote(l) \/ PromotionFails(l)
          PROVE  copyRow' = copyRow
      BY <3>3, PromotionFacts DEF copyVars
    <3>4. Crash => copyRow' \subseteq copyRow
      BY DEF Crash, Sync
    <3>. QED  BY <1>1, <3>1, <3>2, <3>3, <3>4, NextKinds
  <2>. QED  BY <1>1, <2>1, <2>2
<1>. QED  BY <1>2, <1>3, <1>4

-----------------------------------------------------------------------------
(* Synchronisation misses nothing.                                         *)

\* While a request synchronises only the workers of the queue change the index.
LEMMA SyncIsAlone ==
  ASSUME Typed, Next, NEW c \in Clients, pc[c] = "sync", pc'[c] = "sync"
  PROVE  /\ job'[c] = job[c]
         /\ \/ \E k \in Works : Put(k) \/ (PromotionFails(k) /\ step[k] = "placed")
            \/ UNCHANGED indexVars
<1>1. \A d \in Clients : pc[d] \in Locked => d = c
  BY Exclusive DEF Typed, Locked
<1>2. lock = c /\ lock # Nobody
  BY LibraryAssumption DEF Typed, ReqTyped, Locked
<1>3. ASSUME NEW d \in Clients, Quiet(d) \/ RemoveFiles(d)
      PROVE  job'[c] = job[c] /\ UNCHANGED indexVars
  <2>1. ~BeginSync(d) /\ ~BeginDelete(d) /\ ~Patch(d)
    BY <1>2, StartsFacts DEF Taken
  <2>2. ASSUME RemovalFails(d) \/ RemoveCopies(d) \/ Record(d) \/ DeletionFails(d) \/ RemoveFiles(d)
               \/ EndRegroup(d) \/ RegroupFails(d)
        PROVE  FALSE
    <3>1. pc[d] \in Locked /\ pc[d] # "sync"
      BY <2>2 DEF RemovalFails, RemoveCopies, Record, DeletionFails, RemoveFiles, EndRegroup,
         RegroupFails, At, Locked
    <3>. QED  BY <1>1, <3>1
  <2>3. ~EndSync(d) /\ ~SyncFails(d)
    <3>1. EndSync(d) \/ SyncFails(d) => d = c
      BY <1>1 DEF EndSync, SyncFails, At, Locked
    <3>. QED  BY <3>1, EndsFacts DEF Freed, Ended
  <2>4. LookAtGroup(d) \/ DeleteGroup(d) \/ Mark(d) \/ StartCompatible(d)
    BY <1>3, <2>1, <2>2, <2>3 DEF Quiet, Regroup
  <2>5. d # c \/ UNCHANGED reqVars
    BY <2>4, AsidesFacts DEF Mark
  <2>6. job'[c] = job[c]
    BY <2>4, <2>5, AsidesFacts DEF Mark, Others, reqVars
  <2>. QED  BY <2>4, <2>6, AsidesQuiet
<1>4. ASSUME NEW k \in Works, Download(k) \/ Promote(k) \/ PromotionFails(k) \/ Copy(k)
      PROVE  /\ job'[c] = job[c]
             /\ \/ Put(k) \/ (PromotionFails(k) /\ step[k] = "placed")
                \/ UNCHANGED indexVars
  BY <1>4, PromotionFacts, QuietFacts
     DEF Download, Promote, MoveOld, MoveNew, Commit, PromotionFails, reqVars
<1>5. ~Crash
  BY DEF Crash
<1>. QED  BY <1>3, <1>4, <1>5, NextKinds

LEMMA SeenIsSavedNext ==
  ASSUME Typed, EntriesGiven, Unsaved, SeenIsSaved, Next
  PROVE  SeenIsSaved'
<1>1. SUFFICES ASSUME NEW c \in Clients, pc'[c] = "sync", ~dirty',
                      NEW k \in Works, index'[k] = saved'[k]
               PROVE  job'[c].seen[k] = index'[k]
  BY DEF SeenIsSaved
<1>2. CASE pc[c] = "sync"
  <2>1. CASE UNCHANGED indexVars
    BY <1>1, <1>2, <2>1, SyncIsAlone DEF indexVars, SeenIsSaved
  <2>2. ASSUME NEW l \in Works, PromotionFails(l), step[l] = "placed"
        PROVE  job'[c].seen[k] = index'[k]
    <3>1. index' = [index EXCEPT ![l] = task[l]] /\ saved' = saved /\ dirty' = dirty
      BY <2>2 DEF PromotionFails, SaveFails
    <3>2. saved[l].ver # task[l].ver
      BY <2>2 DEF Unsaved, BeforePut
    <3>3. k # l /\ index'[k] = index[k]
      BY <1>1, <3>1, <3>2 DEF Typed, IndexTyped
    <3>. QED  BY <1>1, <1>2, <3>1, <3>3, SyncIsAlone DEF SeenIsSaved
  <2>3. ~ \E l \in Works : Put(l)
    BY <1>1 DEF Put, Save
  <2>. QED  BY <1>1, <1>2, <2>1, <2>2, <2>3, SyncIsAlone
<1>3. CASE pc[c] # "sync"
  <2>1. ASSUME UNCHANGED reqVars PROVE FALSE
    BY <1>1, <1>3, <2>1 DEF reqVars
  <2>2. ASSUME NEW d \in Clients, Quiet(d) \/ RemoveFiles(d), ~(BeginSync(d) \/ BeginDelete(d))
        PROVE  FALSE
    <3>1. UNCHANGED reqVars \/ (Others(d) /\ pc'[d] # "sync")
      BY <2>2, StartsFacts, EndsFacts, AsidesFacts DEF Quiet, Regroup, Mark, Freed, Ended
    <3>. QED  BY <1>1, <1>3, <2>1, <3>1 DEF Others
  <2>3. ASSUME NEW d \in Clients, BeginSync(d) \/ BeginDelete(d)
        PROVE  job'[c].seen[k] = index'[k]
    <3>1. d = c
      BY <1>1, <1>3, <2>3, StartsFacts DEF Others
    <3>2. job'[c].seen = index
      BY <1>1, <2>3, <3>1, StartsFacts
    <3>3. index' = index
      BY <2>3 DEF BeginSync, BeginDelete, Snapshot, indexVars
    <3>. QED  BY <3>2, <3>3
  <2>4. \A l \in Works : Download(l) \/ Promote(l) \/ PromotionFails(l) \/ Copy(l) => UNCHANGED reqVars
    BY PromotionFacts, QuietFacts
  <2>5. ~Crash
    BY <1>1 DEF Crash
  <2>. QED  BY <2>1, <2>2, <2>3, <2>4, <2>5, NextKinds
<1>. QED  BY <1>2, <1>3

NoneSyncs == \A c \in Clients : pc[c] # "sync"
Current   == \A k \in Works \ unseen : Listable(k) => row[k].ver = index[k].ver

LEMMA CatalogCurrentNext ==
  ASSUME Typed, JobsInv, EntriesGiven, SeenIsSaved, CatalogCurrent, Next
  PROVE  CatalogCurrent'
<1>. USE DEF Listable, Valid, Moving, Indexed
<1>1. SUFFICES ASSUME ~dirty', NoneSyncs' PROVE Current'
  BY DEF CatalogCurrent, NoneSyncs, Current
<1>2. ~dirty /\ NoneSyncs => Current
  BY DEF CatalogCurrent, NoneSyncs, Current
<1>3. ASSUME UNCHANGED <<mediaVars, indexVars, row, unseen>>, NoneSyncs
      PROVE  Current'
  BY <1>1, <1>2, <1>3 DEF mediaVars, indexVars, Current
<1>4. ASSUME NEW k \in Works, Download(k) \/ Promote(k) \/ PromotionFails(k)
      PROVE  Current'
  <2>1. NoneSyncs /\ row' = row
    BY <1>1, <1>4, PromotionFacts DEF NoneSyncs, reqVars, dbVars
  <2>. USE DEF Typed, MediaTyped
  <2>2. CASE Download(k) \/ Commit(k)
    BY <1>1, <1>2, <2>1, <2>2 DEF Download, Commit, indexVars, historyVars, Current
  <2>3. CASE MoveOld(k) \/ MoveNew(k)
    BY <1>1, <1>2, <2>1, <2>3 DEF MoveOld, MoveNew, indexVars, historyVars, Current
  <2>4. CASE Put(k)
    BY <1>1, <2>4 DEF Put, Save
  <2>5. CASE PromotionFails(k)
    <3>1. /\ dirty' = dirty /\ saved' = saved /\ unseen \subseteq unseen'
          /\ \A l \in Works \ {k} : /\ files'[l] = files[l] /\ step'[l] = step[l]
                                    /\ index'[l] = index[l]
      BY <2>5 DEF PromotionFails, Rollback, SaveFails, indexVars, IndexTyped
    <3>2. k \in unseen' \/ files'[k] = 0
      BY <2>5 DEF PromotionFails, Rollback
    <3>. QED  BY <1>1, <1>2, <2>1, <3>1, <3>2 DEF Current
  <2>. QED  BY <1>4, <2>2, <2>3, <2>4, <2>5 DEF Promote
<1>5. ASSUME NEW k \in Works, Copy(k)
      PROVE  Current'
  BY <1>1, <1>3, <1>5, QuietFacts DEF NoneSyncs, reqVars, dbVars, historyVars
<1>6. ASSUME NEW c \in Clients, Acknowledge(index', row')
      PROVE  Current'
  BY <1>6 DEF Acknowledge, Current
<1>7. ASSUME NEW c \in Clients, Quiet(c) \/ RemoveFiles(c)
      PROVE  Current'
  <2>1. CASE EndSync(c)
    <3>1. /\ Sync(job[c].seen, index, groups) /\ index' = index /\ saved' = saved
          /\ dirty' = dirty /\ UNCHANGED <<mediaVars, unseen>> /\ pc[c] = "sync"
      BY <1>1, <2>1 DEF EndSync, Save, Remembered, historyVars, At
    <3>2. /\ job[c].seen \in [Works -> Entries] /\ \A k \in Works : Given(job[c].seen[k])
          /\ groups \in SUBSET Groups /\ index \in [Works -> Entries]
      BY DEF Typed, ReqTyped, Jobs, EntriesGiven, DbTyped, IndexTyped
    <3>3. \A k \in Works : job[c].seen[k] # NoEntry =>
            row'[k] = IF index[k] # NoEntry /\ files[k] # 0 THEN job[c].seen[k] ELSE row[k]
      BY <3>1, <3>2, SyncFacts
    <3>4. \A k \in Works : index[k] = saved[k] => job[c].seen[k] = index[k]
      BY <1>1, <3>1 DEF SeenIsSaved
    <3>. QED  BY <3>1, <3>3, <3>4 DEF Current, mediaVars
  <2>2. CASE BeginSync(c) \/ SyncFails(c)
    <3>1. BeginSync(c) => pc'[c] = "sync"
      BY StartsFacts
    <3>2. SyncFails(c) => dirty'
      BY DEF SyncFails
    <3>. QED  BY <1>1, <2>2, <3>1, <3>2 DEF NoneSyncs
  <2>3. CASE BeginDelete(c)
    <3>1. Others(c) /\ pc[c] = "idle" /\ UNCHANGED <<indexVars, unseen>>
      BY <1>1, <2>3, StartsFacts DEF Taken, NoneSyncs
    <3>2. NoneSyncs /\ UNCHANGED <<mediaVars, row>>
      BY <1>1, <2>3, <3>1 DEF NoneSyncs, Others, BeginDelete, dbVars
    <3>. QED  BY <1>3, <3>1, <3>2
  <2>4. CASE RemovalFails(c) \/ Record(c) \/ EndRegroup(c) \/ DeletionFails(c)
    <3>1. Acknowledge(index', row')
      <4>1. RemovalFails(c) => Acknowledge(index, row) /\ index' = index /\ row' = row
        BY DEF RemovalFails, dbVars
      <4>2. Record(c) \/ EndRegroup(c) => Acknowledge(index, row') /\ index' = index
        BY DEF Record, EndRegroup
      <4>3. DeletionFails(c) => Acknowledge(index', row) /\ row' = row
        BY DEF DeletionFails, Recover, dbVars
      <4>. QED  BY <2>4, <4>1, <4>2, <4>3
    <3>. QED  BY <1>6, <3>1
  <2>5. CASE RemoveCopies(c) \/ RegroupFails(c)
    <3>1. UNCHANGED <<mediaVars, indexVars, row, unseen>>
      BY <2>5 DEF RemoveCopies, RegroupFails, dbVars, historyVars
    <3>2. Others(c) /\ pc[c] # "sync"
      BY <2>5, EndsFacts DEF RegroupFails, At
    <3>3. NoneSyncs
      BY <1>1, <3>2 DEF NoneSyncs, Others
    <3>. QED  BY <1>3, <3>1, <3>3
  <2>6. CASE Patch(c)
    <3>1. UNCHANGED indexVars /\ Others(c) /\ pc[c] = "idle"
      BY <1>1, <2>6, PatchFacts, StartsFacts DEF Taken
    <3>2. NoneSyncs /\ UNCHANGED <<mediaVars, row, unseen>>
      BY <1>1, <2>6, <3>1 DEF NoneSyncs, Others, Patch, dbVars, historyVars
    <3>. QED  BY <1>3, <3>1, <3>2
  <2>7. CASE RemoveFiles(c)
    <3>1. Others(c) /\ pc[c] = "remove"
      BY <2>7, EndsFacts
    <3>2. NoneSyncs
      BY <1>1, <3>1 DEF NoneSyncs, Others
    <3>3. /\ UNCHANGED <<indexVars, row, unseen, step>>
          /\ \A k \in Works : files'[k] # 0 => files'[k] = files[k]
      <4>. DEFINE l == TheWork(c)
      <4>1. UNCHANGED <<row, unseen, step>> /\ UNCHANGED indexVars
        BY <1>1, <2>7 DEF RemoveFiles, Save, dbVars
      <4>2. files' = files \/ files' = [files EXCEPT ![l] = 0]
        BY <2>7 DEF RemoveFiles
      <4>. HIDE DEF l
      <4>. QED  BY <4>1, <4>2 DEF Typed, MediaTyped
    <3>. QED  BY <1>1, <1>2, <3>2, <3>3 DEF indexVars, Current
  <2>8. CASE DeleteGroup(c)
    <3>1. \A k \in Works : row'[k].ver = row[k].ver
      BY <2>8, RegroupFacts
    <3>2. NoneSyncs
      <4>1. Others(c) /\ pc[c] # "sync"
        BY <2>8, AsidesFacts
      <4>. QED  BY <1>1, <4>1 DEF NoneSyncs, Others
    <3>3. UNCHANGED <<mediaVars, indexVars, unseen>>
      BY <2>8, AsidesQuiet
    <3>. QED  BY <1>1, <1>2, <3>1, <3>2, <3>3 DEF mediaVars, indexVars, Current
  <2>9. CASE LookAtGroup(c) \/ Mark(c) \/ StartCompatible(c)
    <3>1. UNCHANGED <<mediaVars, indexVars, unseen>> /\ row' = row
      BY <2>9, AsidesQuiet
         DEF LookAtGroup, Mark, SetTags, SeeRestored, ClearTombstone, StartCompatible, dbVars
    <3>2. UNCHANGED reqVars \/ (Others(c) /\ pc[c] # "sync")
      BY <2>9, AsidesFacts DEF Mark
    <3>3. NoneSyncs
      BY <1>1, <3>2 DEF NoneSyncs, Others, reqVars
    <3>. QED  BY <1>3, <3>1, <3>3
  <2>. QED  BY <1>7, <2>1, <2>2, <2>3, <2>4, <2>5, <2>6, <2>7, <2>8, <2>9 DEF Quiet, Regroup
<1>8. ASSUME Crash
      PROVE  Current'
  <2>1. /\ Sync(saved, saved, groups \cup {Default}) /\ index' = saved /\ files' = files
    BY <1>8 DEF Crash
  <2>2. /\ saved \in [Works -> Entries] /\ \A l \in Works : Given(saved[l])
        /\ groups \cup {Default} \in SUBSET Groups
    BY LibraryAssumption DEF Typed, EntriesGiven, DbTyped, IndexTyped
  <2>3. \A k \in Works : saved[k] # NoEntry =>
          row'[k] = IF saved[k] # NoEntry /\ files[k] # 0 THEN saved[k] ELSE row[k]
    BY <2>1, <2>2, SyncFacts
  <2>. QED  BY <2>1, <2>3 DEF Current
<1>. QED  BY <1>4, <1>5, <1>7, <1>8, NextKinds

-----------------------------------------------------------------------------
(* The library is safe.                                                    *)

LEMMA InitIInv == Init => IInv
<1>1. SUFFICES ASSUME Init PROVE IInv
  OBVIOUS
<1>2. NoJob \in Jobs /\ NoJob.seen = Nothing
  BY JobFacts DEF Ops
<1>3. Nothing \in [Works -> Entries] /\ \A k \in Works : Nothing[k] = NoEntry
  BY EntryFacts
<1>4. MediaTyped /\ IndexTyped /\ DbTyped
  <2>1. 0 \in 0 .. MaxVersions
    BY LibraryAssumption
  <2>2. /\ files \in [Works -> 0 .. MaxVersions] /\ backup \in [Works -> 0 .. MaxVersions]
        /\ work \in [Works -> 0 .. MaxVersions] /\ made \in 0 .. MaxVersions
    BY <1>1, <2>1 DEF Init
  <2>3. old \in [Works -> BOOLEAN]
    BY <1>1 DEF Init
  <2>4. step \in [Works -> Steps] /\ task \in [Works -> Entries]
    BY <1>1, <1>3 DEF Init, Steps
  <2>5. IndexTyped /\ DbTyped
    BY <1>1, <1>3 DEF Init, IndexTyped, DbTyped
  <2>. QED  BY <2>2, <2>3, <2>4, <2>5 DEF MediaTyped
<1>5. CopyTyped /\ ReqTyped /\ HistoryTyped
  BY <1>1, <1>2, LibraryAssumption
     DEF Init, CopyTyped, ReqTyped, HistoryTyped, Transcodes, Places, Locked
<1>6. EntriesGiven
  BY <1>1, <1>2, <1>3, GivenFacts DEF Init, EntriesGiven
<1>7. Unsaved /\ PromotionInv /\ JobsInv
  BY <1>1 DEF Init, Unsaved, BeforePut, PromotionInv, Moving, JobsInv, Deleting
<1>8. RowsIndexed /\ CopyRowsKept /\ SeenIsSaved
  BY <1>1, <1>3 DEF Init, RowsIndexed, InCatalog, CopyRowsKept, SeenIsSaved
<1>9. CatalogCurrent /\ MediaInv
  BY <1>1, <1>2, <1>3 DEF Init, CatalogCurrent, Listable, Valid, Indexed, MediaInv, Named
<1>. QED  BY <1>4, <1>5, <1>6, <1>7, <1>8, <1>9 DEF IInv, Typed

LEMMA NextIInv == IInv /\ [Next]_vars => IInv'
<1>1. SUFFICES ASSUME IInv, [Next]_vars PROVE IInv'
  OBVIOUS
<1>2. CASE Next
  <2>1. Typed' /\ EntriesGiven' /\ Unsaved' /\ PromotionInv' /\ JobsInv'
    BY <1>1, <1>2, ReqTypedNext, MediaTypedNext, CopyTypedNext, HistoryTypedNext, IndexNext, RowsNext,
       EntriesNext, UnsavedNext, PromotionNext, JobsNext DEF IInv, Typed
  <2>2. RowsIndexed' /\ CopyRowsKept' /\ SeenIsSaved' /\ CatalogCurrent' /\ MediaInv'
    BY <1>1, <1>2, RowsIndexedNext, CopyRowsNext, SeenIsSavedNext, CatalogCurrentNext, MediaNext DEF IInv
  <2>. QED  BY <2>1, <2>2 DEF IInv
<1>3. CASE UNCHANGED vars
  <2>. USE <1>1, <1>3 DEF IInv, vars, mediaVars, indexVars, dbVars, copyVars, reqVars, historyVars
  <2>1. Typed'
    BY DEF Typed, MediaTyped, IndexTyped, DbTyped, CopyTyped, ReqTyped, HistoryTyped
  <2>2. EntriesGiven' /\ Unsaved' /\ PromotionInv' /\ JobsInv'
    BY DEF EntriesGiven, Given, Unsaved, PromotionInv, Moving, JobsInv
  <2>3. RowsIndexed' /\ CopyRowsKept' /\ SeenIsSaved'
    BY DEF RowsIndexed, InCatalog, Indexed, CopyRowsKept, SeenIsSaved
  <2>4. CatalogCurrent' /\ MediaInv'
    BY DEF CatalogCurrent, Listable, Valid, Moving, Indexed, MediaInv, Named, Accounted, HasMedia
  <2>. QED  BY <2>1, <2>2, <2>3, <2>4 DEF IInv
<1>. QED  BY <1>1, <1>2, <1>3

\* The inductive invariant of the media library.
THEOREM LibraryInv == Spec => []IInv
BY InitIInv, NextIInv, PTL DEF Spec

LEMMA TypedIsTypeOK ==
  ASSUME Typed
  PROVE  TypeOK
<1>1. /\ {files, backup, work} \subseteq [Works -> 0 .. MaxVersions]
      /\ step \in [Works -> {"none", "work", "moved", "placed", "indexed"}]
      /\ old \in [Works -> BOOLEAN] /\ made \in 0 .. MaxVersions
      /\ {task, index, saved, row} \subseteq [Works -> Entries]
      /\ dirty \in BOOLEAN /\ groups \subseteq Groups
  BY DEF Typed, MediaTyped, IndexTyped, DbTyped, Steps
<1>2. UNION {tagged, tomb, copy, copyRow, unseen, cut, gone} \subseteq Works
  BY DEF Typed, DbTyped, CopyTyped, HistoryTyped
<1>3. /\ transcode \in [Works -> {"none", "queued", "running", "written", "success", "failed", "stuck"}]
      /\ lock \in Clients \cup {Nobody}
      /\ pc \in [Clients -> {"idle", "sync", "remove", "copies", "record", "patched", "empty", "restored"}]
      /\ events \in 0 .. MaxEvents
  BY DEF Typed, CopyTyped, ReqTyped, HistoryTyped, Transcodes, Places, Locked
<1>4. \A c \in Clients : pc[c] \in {"sync", "remove", "copies", "record", "patched"} <=> lock = c
  BY DEF Typed, ReqTyped, Locked
<1>5. \A c \in Clients : job[c].works \subseteq Works /\ job[c].seen \in [Works -> Entries]
  BY DEF Typed, ReqTyped, Jobs
<1>. QED  BY <1>1, <1>2, <1>3, <1>4, <1>5 DEF TypeOK

\* Index, catalog and copies agree whenever no request holds the mutation lock: a work
\* without an entry has no row and a compatible copy that a row names is there, over
\* deletions that fail at any place, transcodes that end meanwhile and restarts
\* (LibraryService.delete_media, CatalogStore.sync_index, reconcile_media_files).
THEOREM LibrarySafe == Spec => []LibraryIsSafe
<1>1. ASSUME IInv
      PROVE  LibraryIsSafe
  <2>1. Typed
    BY <1>1 DEF IInv
  <2>2. lock = Nobody => \A c \in Clients : pc[c] \notin {"copies", "record"}
    BY <2>1, Exclusive DEF Typed, Locked
  <2>3. CatalogIsIndexed
    BY <1>1, <2>2 DEF IInv, RowsIndexed, CatalogIsIndexed, Settled
  <2>4. CopyRowHasFile
    BY <1>1, <2>2 DEF IInv, CopyRowsKept, CopyRowHasFile
  <2>. QED  BY <2>1, <2>3, <2>4, TypedIsTypeOK DEF LibraryIsSafe
<1>. QED  BY <1>1, LibraryInv, PTL

\* When the catalog has nothing to synchronise it shows the media of every finished
\* download that can be listed, whenever the download was put, but for the works of
\* unseen: another operation acknowledged a change it did not read, or a rollback
\* brought old media back (CatalogStore.sync_index, acknowledge_index_change).
THEOREM SyncComplete == Spec => []SyncMissesNothing
<1>1. ASSUME IInv
      PROVE  SyncMissesNothing
  <2>1. lock = Nobody => \A c \in Clients : pc[c] # "sync"
    BY <1>1, Exclusive DEF IInv, Typed, Locked
  <2>. QED  BY <1>1, <2>1 DEF IInv, CatalogCurrent, SyncMissesNothing, Settled
<1>. QED  BY <1>1, LibraryInv, PTL

\* A work that the index file names has its media, in place or between the two renames
\* of a promotion in the backup, whatever fails and wherever a restart falls, but for
\* the removals, restarts and failed puts that gone lists (promote_work_dir, rollback,
\* IndexStore.put).
THEOREM MediaIsKept == Spec => []MediaKept
<1>1. ASSUME IInv
      PROVE  MediaKept
  BY <1>1 DEF IInv, MediaInv, Named, Accounted, HasMedia, MediaKept
<1>. QED  BY <1>1, LibraryInv, PTL
=============================================================================

-------------------------- MODULE CreatorImports --------------------------
(***************************************************************************)
(* app/creator_imports.py: CreatorImportManager, its one worker thread and *)
(* the requests of administrators, against a list of submissions that      *)
(* changes while it is read and a download queue that others use too.      *)
(*                                                                         *)
(* The videos of a creator are numbered in the order of publication; the   *)
(* site lists those that are live, newest first.  Each action is one       *)
(* critical section of the manager's lock, one call of the queue, or one   *)
(* look at the cancel event.  Steps of the worker that touch only what no  *)
(* request reads or writes are joined to the step before.                  *)
(*                                                                         *)
(* An operator named ..._Mutant... is a wrong version of the operator that *)
(* follows it; no specification uses it.                                   *)
(***************************************************************************)
EXTENDS Integers, SequencesExt

CONSTANTS
  Jobs, NoJob, Uids, UidOf,  \* job identities and the creator each one is for
  OtherKeys,    \* queue keys of videos no job is about
  Manual, Nobody,
  MaxVideos,    \* bound: videos a creator ever publishes
  InitVideos,   \* videos each creator has at first
  PageSize,     \* DISCOVERY_PAGE_SIZE
  Attempts,     \* len(retry_delays) + 1
  MaxPasses,    \* max_stability_passes
  WorkerWindow, \* worker_window, also the capacity kept for manual requests
  MaxPending,   \* max_pending of the queue
  MaxHistory,   \* max_history
  MaxChanges,   \* bound: publications and withdrawals
  MaxFaults,    \* bound: failing loads, lookups and creations
  MaxManual,    \* bound: manual requests and removals of works
  MaxReruns     \* bound: resumed and retried jobs

Videos == 1 .. MaxVideos
Keys   == (Uids \X Videos) \cup OtherKeys
NoTotal == -1

ASSUME JobsAssumption ==
  /\ IsFiniteSet(Jobs) /\ NoJob \notin Jobs
  /\ UidOf \in [Jobs -> Uids]
  /\ {Manual, Nobody} \cap Jobs = {} /\ Manual # Nobody
  /\ OtherKeys \cap (Uids \X Videos) = {}

ASSUME SizesAssumption ==
  /\ MaxVideos \in Nat /\ InitVideos \in 0 .. MaxVideos
  /\ {PageSize, Attempts, MaxPasses, WorkerWindow, MaxPending, MaxHistory} \subseteq Nat \ {0}
  /\ {MaxChanges, MaxFaults, MaxManual, MaxReruns} \subseteq Nat

VARIABLES
  status,      \* status of each job
  cancelSet,   \* jobs whose cancel_event is set
  code,        \* failure_code
  failedPage,  \* failed_page, 0 for None
  nextPage, passNo,          \* next_page, stability_pass
  pass,        \* pass_total, pass_pages, pass_changed
  items,       \* pass_items
  complete,    \* jobs with discovery_complete
  cutoff,      \* cutoff_at, as the newest video published by then
  todo,        \* pending_items
  failed,      \* failed_items
  queued, skipped,           \* the counters of enqueued and of skipped items
  retryOnly,   \* jobs with retry_failed_only
  made,        \* _jobs: the rank of each job in it, 0 when it is not there
  line,        \* _waiting
  active,      \* _active_job_id, the job the worker runs
  stopped,     \* _stopped
  pc, attempt, got,          \* the worker: place, load attempt, page in hand
  published, live,           \* the site
  holder,      \* who created the active task of each key of the queue
  onDisk, removed,           \* keys with a valid file, keys in the deletion history
  steady,      \* videos of the job's scope that have been live for all of its pass
  late,        \* jobs that created a task after they were told to stop
  changes, faults, manuals, reruns  \* counters for the bounds

jobVars     == <<status, code, failedPage>>
passVars    == <<nextPage, passNo, pass, items, complete>>
itemVars    == <<todo, failed, queued, skipped, retryOnly>>
requestVars == <<cancelSet, cutoff, made, line, stopped>>
threadVars  == <<active, pc, attempt, got>>
taskVars    == <<holder, late>>
siteVars    == <<published, live>>
worksVars   == <<onDisk, removed>>
bounds      == <<changes, faults, manuals, reruns>>
vars == <<jobVars, passVars, itemVars, requestVars, threadVars, taskVars, siteVars,
          worksVars, steady, bounds>>

Running  == {"discovering", "enqueuing", "stopping"}
Alive    == Running \cup {"waiting"}
Terminal == {"completed", "partial", "failed", "cancelled"}
Codes    == {"none", "page_failed", "source_invalid", "source_unstable", "job_failed"}

Set(f, j, x) == [f EXCEPT ![j] = x]
Key(j, v) == <<UidOf[j], v>>
Known(j) == made[j] # 0
Busy == {k \in Keys : holder[k] # Nobody}

NoPage == [kind |-> "none", total |-> 0, pages |-> 0, items |-> {}]
NewPass == [total |-> NoTotal, pages |-> 0, changed |-> FALSE]

UidTaken_MutantWaitingOnly(j) ==
  \E i \in Jobs \ {j} : Known(i) /\ UidOf[i] = UidOf[j] /\ status[i] \in {"waiting"}

\* Another job of the creator of j waits or runs.
UidTaken(j) ==
  \E i \in Jobs \ {j} : Known(i) /\ UidOf[i] = UidOf[j] /\ status[i] \in Alive

\* _trim_locked: of the ended jobs the MaxHistory newest stay.
Trimmed(ms, st) ==
  [j \in Jobs |->
     IF st[j] \in Terminal
        /\ Cardinality({i \in Jobs : st[i] \in Terminal /\ ms[i] > ms[j]}) >= MaxHistory
     THEN 0 ELSE ms[j]]

-----------------------------------------------------------------------------
(* Requests of administrators.  A request that is refused, and a start for *)
(* a creator that has a job already, change nothing.                       *)

Start(j) ==
  /\ ~stopped /\ status[j] = "new" /\ ~UidTaken(j)
  /\ status' = Set(status, j, "waiting")
  /\ cutoff' = Set(cutoff, j, published[UidOf[j]])
  /\ made' = Trimmed(Set(made, j, Cardinality({i \in Jobs : status[i] # "new"}) + 1), status')
  /\ line' = Append(line, j)
  /\ UNCHANGED <<cancelSet, code, failedPage, stopped, passVars, itemVars, late, reruns>>

\* cancel() of a job the worker has not taken yet.
CancelWaiting(j) ==
  /\ Known(j) /\ status[j] = "waiting"
  /\ cancelSet' = cancelSet \cup {j}
  /\ line' = RemoveFirst(line, j)
  /\ status' = Set(status, j, "cancelled")
  /\ made' = Trimmed(made, status')
  /\ UNCHANGED <<code, failedPage, cutoff, stopped, passVars, itemVars, late, reruns>>

CancelRunning_MutantNoSignal(j) ==
  /\ Known(j) /\ status[j] \in Running
  /\ status' = Set(status, j, "stopping")
  /\ UNCHANGED <<code, failedPage, requestVars, passVars, itemVars, late, reruns>>

\* cancel() of the job the worker runs.
CancelRunning(j) ==
  /\ Known(j) /\ status[j] \in Running
  /\ cancelSet' = cancelSet \cup {j}
  /\ status' = Set(status, j, "stopping")
  /\ UNCHANGED <<code, failedPage, cutoff, made, line, stopped, passVars, itemVars, late,
                 reruns>>

\* What resume() and retry_failed() have in common.
BackInLine(j) ==
  /\ ~stopped /\ Known(j) /\ ~UidTaken(j)
  /\ reruns < MaxReruns /\ reruns' = reruns + 1
  /\ cancelSet' = cancelSet \ {j} /\ late' = late \ {j}
  /\ status' = Set(status, j, "waiting") /\ code' = Set(code, j, "none")
  /\ line' = Append(line, j)
  /\ UNCHANGED <<cutoff, queued, skipped, made, stopped>>

\* An unstable source is read again from the start, a failed page from that page.
Resume(j) ==
  /\ status[j] = "failed" /\ failedPage[j] # 0
  /\ BackInLine(j)
  /\ IF code[j] = "source_unstable"
     THEN /\ passNo' = Set(passNo, j, 1) /\ nextPage' = Set(nextPage, j, 1)
          /\ pass' = Set(pass, j, NewPass) /\ items' = Set(items, j, {})
          /\ todo' = Set(todo, j, <<>>) /\ complete' = complete \ {j}
     ELSE UNCHANGED <<passVars, todo>>
  /\ retryOnly' = retryOnly \ {j}
  /\ UNCHANGED <<failedPage, failed>>

RetryFailed(j) ==
  /\ status[j] = "partial" /\ failed[j] # <<>>
  /\ BackInLine(j)
  /\ todo' = Set(todo, j, failed[j]) /\ failed' = Set(failed, j, <<>>)
  /\ failedPage' = Set(failedPage, j, 0)
  /\ retryOnly' = retryOnly \cup {j}
  /\ UNCHANGED passVars

\* The jobs stop() cancels, and the one it tells to stop.
Unstarted == {j \in ToSet(line) : Known(j) /\ status[j] = "waiting"}
Told == {j \in {active} \ Unstarted : j # NoJob /\ Known(j) /\ status[j] \in Alive}

\* The critical section of stop(); the join that follows waits 3 s at most.
Stop ==
  /\ ~stopped /\ stopped' = TRUE
  /\ status' = [j \in Jobs |-> IF j \in Unstarted THEN "cancelled"
                               ELSE IF j \in Told THEN "stopping" ELSE status[j]]
  /\ cancelSet' = cancelSet \cup Unstarted \cup Told
  /\ line' = <<>>
  /\ UNCHANGED <<code, failedPage, cutoff, made, passVars, itemVars, late, reruns>>

Request ==
  /\ \/ Stop
     \/ \E j \in Jobs : \/ Start(j) \/ CancelWaiting(j) \/ CancelRunning(j)
                        \/ Resume(j) \/ RetryFailed(j)
  /\ UNCHANGED <<threadVars, holder, siteVars, worksVars, steady, changes, faults, manuals>>

-----------------------------------------------------------------------------
(* The worker.  pc names what it does next:                                *)
(*   idle      waits for a job in line                                     *)
(*   begin     first look at the event            load      asks for a page *)
(*   giveup    writes page_failed                 record    reads the page *)
(*   failjob   writes job_failed                  unfinished  look after a *)
(*   discovered  look after, or instead of,         discovery that failed  *)
(*               a discovery                      announce  writes enqueuing *)
(*   pick      looks at the next item             lookup    index, history *)
(*   capacity  waits for room                     create    enqueues       *)
(*   drained   last look                          conclude  writes the end *)
(*   finish    writes cancelled                   leave     clears active  *)

Cancelled_MutantStopOnly(j) == stopped

Cancelled(j) == stopped \/ j \in cancelSet

Goto(l) == pc' = l

Take_MutantAnyStatus ==
  /\ pc = "idle" /\ ~stopped /\ line # <<>>
  /\ line' = Tail(line)
  /\ active' = Head(line) /\ Goto("begin")
  /\ status' = Set(status, Head(line), "discovering")
  /\ UNCHANGED made

Take ==
  /\ pc = "idle" /\ ~stopped /\ line # <<>>
  /\ line' = Tail(line)
  /\ LET j == Head(line) IN
     IF Known(j) /\ status[j] = "waiting"
     THEN /\ active' = j /\ Goto("begin")
          /\ status' = Set(status, j, IF j \in retryOnly \cup complete
                                      THEN "enqueuing" ELSE "discovering")
     ELSE UNCHANGED <<active, pc, status>>
  /\ UNCHANGED made

\* The end of a round of _loop.
Leave ==
  /\ pc = "leave" /\ Goto("idle")
  /\ active' = NoJob
  /\ made' = Trimmed(made, status)
  /\ UNCHANGED <<status, line>>

(* Looks at the cancel event (and _stopped): l if neither is set.          *)

Look(j, place, l) ==
  /\ pc = place
  /\ Goto(IF Cancelled(j) THEN "finish" ELSE l)

Drained_MutantNoLook(j) == pc = "drained" /\ Goto("conclude")

Begin(j) == Look(j, "begin", IF j \in retryOnly \cup complete THEN "discovered" ELSE "load")
Unfinished(j) == Look(j, "unfinished", "leave")
Discovered(j) == Look(j, "discovered", "announce")
Drained(j) == Look(j, "drained", "conclude")

(* Discovery.                                                              *)

\* How many videos of S are newer than v.
Newer(S, v) == Cardinality({w \in S : w > v})

PageCount(n) == (n + PageSize - 1) \div PageSize

\* The p-th page of the submissions of u, newest first.
Page(u, p) ==
  {v \in live[u] : Newer(live[u], v) \in (p - 1) * PageSize .. p * PageSize - 1}

\* A page arrives: a good one, one whose counts or list are malformed, or one
\* that makes the code that reads it raise.
Arrives(j) ==
  /\ Goto("record") /\ attempt' = 1
  /\ \E kind \in {"page", "badCount", "badList", "raises"} :
       /\ faults' = faults + (IF kind = "page" THEN 0 ELSE 1)
       /\ got' = [kind |-> kind, total |-> Cardinality(live[UidOf[j]]),
                  pages |-> PageCount(Cardinality(live[UidOf[j]])),
                  items |-> Page(UidOf[j], nextPage[j])]
  /\ steady' = IF pass[j].total = NoTotal
               THEN Set(steady, j, live[UidOf[j]] \cap 1 .. cutoff[j]) ELSE steady

\* The request fails; the last attempt gives the page up.
RequestFails(j) ==
  /\ faults' = faults + 1
  /\ IF attempt < Attempts THEN attempt' = attempt + 1 /\ UNCHANGED pc
                           ELSE attempt' = 1 /\ Goto("giveup")
  /\ UNCHANGED <<got, steady>>

\* _load_page_with_retry: a look at the event, then the request.
Load(j) ==
  /\ pc = "load"
  /\ \/ /\ Cancelled(j)
        /\ Goto("unfinished") /\ attempt' = 1
        /\ UNCHANGED <<got, steady, faults>>
     \/ ~Cancelled(j) /\ (Arrives(j) \/ RequestFails(j))
  /\ faults' <= MaxFaults

\* Job j has failed with code c at page p.
Fails(j, c, p) ==
  /\ status' = Set(status, j, "failed")
  /\ code' = Set(code, j, c)
  /\ failedPage' = Set(failedPage, j, p)

GiveUp(j) == pc = "giveup" /\ Goto("unfinished") /\ Fails(j, "page_failed", nextPage[j])

FailJob(j) ==
  /\ pc = "failjob" /\ Goto("leave")
  /\ IF status[j] \in Terminal THEN UNCHANGED jobVars
                               ELSE Fails(j, "job_failed", failedPage[j])

Observed_MutantTotalIgnored(j) ==
  IF pass[j].total = NoTotal THEN [total |-> got.total, pages |-> got.pages, changed |-> FALSE]
  ELSE IF got.pages # pass[j].pages
       THEN [pass[j] EXCEPT !.changed = TRUE,
                            !.pages = IF got.pages > @ THEN got.pages ELSE @]
       ELSE pass[j]

\* What the job knows of the list once it has read the counts of a page: the
\* first page of a pass sets them, a later one that differs marks the pass.
Observed(j) ==
  IF pass[j].total = NoTotal THEN [total |-> got.total, pages |-> got.pages, changed |-> FALSE]
  ELSE IF got.total # pass[j].total \/ got.pages # pass[j].pages
       THEN [pass[j] EXCEPT !.changed = TRUE,
                            !.pages = IF got.pages > @ THEN got.pages ELSE @]
       ELSE pass[j]

\* The new videos of the page that the job is about.
Fresh(j) == {v \in got.items : v <= cutoff[j]}
Collected(j) == items[j] \cup Fresh(j)
LastPage(j) == nextPage[j] >= Observed(j).pages

NewestFirst(S) == [i \in 1 .. Cardinality(S) |-> CHOOSE v \in S : Newer(S, v) = i - 1]

Reads(j) == pass' = Set(pass, j, Observed(j)) /\ items' = Set(items, j, Collected(j))

RecordInvalid(j) ==
  /\ got.kind \in {"badCount", "badList"} /\ Goto("unfinished")
  /\ Fails(j, "source_invalid", nextPage[j])
  /\ pass' = IF got.kind = "badList" THEN Set(pass, j, Observed(j)) ELSE pass
  /\ UNCHANGED <<nextPage, passNo, items, complete, todo>>

\* Reading raises, at the counts or at one of the items; the exception reaches
\* _loop, which looks at the event first.
RecordRaises(j) ==
  /\ got.kind = "raises" /\ Goto(IF Cancelled(j) THEN "finish" ELSE "failjob")
  /\ \/ UNCHANGED <<pass, items>>
     \/ /\ pass' = Set(pass, j, Observed(j))
        /\ \E seen \in SUBSET Fresh(j) : items' = Set(items, j, items[j] \cup seen)
  /\ UNCHANGED <<jobVars, nextPage, passNo, complete, todo>>

TurnPage(j) ==
  /\ got.kind = "page" /\ ~LastPage(j) /\ Goto("load")
  /\ Reads(j)
  /\ nextPage' = Set(nextPage, j, nextPage[j] + 1)
  /\ UNCHANGED <<jobVars, passNo, complete, todo>>

\* The list changed during the pass: it is read again from its first page.
NextPass(j) ==
  /\ got.kind = "page" /\ LastPage(j) /\ Observed(j).changed
  /\ passNo[j] < MaxPasses /\ Goto("load")
  /\ passNo' = Set(passNo, j, passNo[j] + 1) /\ nextPage' = Set(nextPage, j, 1)
  /\ pass' = Set(pass, j, NewPass) /\ items' = Set(items, j, {})
  /\ UNCHANGED <<jobVars, complete, todo>>

Unstable(j) ==
  /\ got.kind = "page" /\ LastPage(j) /\ Observed(j).changed
  /\ passNo[j] >= MaxPasses /\ Goto("unfinished")
  /\ Fails(j, "source_unstable", 1)
  /\ Reads(j)
  /\ nextPage' = Set(nextPage, j, 1)
  /\ UNCHANGED <<passNo, complete, todo>>

Stable(j) ==
  /\ got.kind = "page" /\ LastPage(j) /\ ~Observed(j).changed /\ Goto("discovered")
  /\ Reads(j)
  /\ todo' = Set(todo, j, NewestFirst(Collected(j)))
  /\ complete' = complete \cup {j}
  /\ failedPage' = Set(failedPage, j, 0) /\ code' = Set(code, j, "none")
  /\ UNCHANGED <<status, nextPage, passNo>>

\* _discover with a page in hand; requests cannot tell its sections apart.
Record(j) ==
  /\ pc = "record" /\ got' = NoPage
  /\ \/ RecordInvalid(j) \/ RecordRaises(j) \/ TurnPage(j)
     \/ NextPass(j) \/ Unstable(j) \/ Stable(j)
  /\ UNCHANGED <<attempt, steady, faults>>

(* Items.                                                                  *)

\* The first item of todo is dealt with.
ItemDone(j) == todo' = Set(todo, j, Tail(todo[j])) /\ Goto("pick")

Skips(j) ==
  /\ ItemDone(j)
  /\ skipped' = Set(skipped, j, skipped[j] + 1)
  /\ UNCHANGED <<queued, faults>>

\* failed_items.pop(v, None)
Unfailed(j, v) == failed' = Set(failed, j, RemoveFirst(failed[j], v))

Failed(j, v) ==
  /\ failed' = Set(failed, j, IF Contains(failed[j], v) THEN failed[j]
                              ELSE Append(failed[j], v))
  /\ faults < MaxFaults /\ faults' = faults + 1
  /\ UNCHANGED <<queued, skipped>>

ItemFails_MutantStaysInTodo(j, v) == Failed(j, v) /\ Goto("pick") /\ UNCHANGED todo

\* _record_item_failure, then the item leaves todo.
ItemFails(j, v) == Failed(j, v) /\ ItemDone(j)

\* The worker goes on to l with the item where it is.
Onward(l) == Goto(l) /\ UNCHANGED <<todo, failed, queued, skipped, faults>>

\* _enqueue_pending up to the answer of key_statuses.
Pick(j) ==
  /\ pc = "pick" /\ UNCHANGED taskVars
  /\ \/ (Cancelled(j) \/ todo[j] = <<>>) /\ Onward("drained")
     \/ /\ ~Cancelled(j) /\ todo[j] # <<>>
        /\ LET v == Head(todo[j]) IN
           IF Key(j, v) \in Busy THEN Skips(j) /\ Unfailed(j, v) ELSE Onward("lookup")

\* The media index and the deletion history are asked; either may raise.
Lookup(j) ==
  /\ pc = "lookup" /\ UNCHANGED taskVars
  /\ LET v == Head(todo[j]) IN
     \/ IF Key(j, v) \in onDisk \cup removed
        THEN Skips(j) /\ Unfailed(j, v) ELSE Onward("capacity")
     \/ ItemFails(j, v)

Ceiling_MutantNoFloor == MaxPending - WorkerWindow

\* The queue keeps WorkerWindow places for others, but leaves one to imports.
Ceiling == MaxPending - (IF WorkerWindow < MaxPending THEN WorkerWindow ELSE MaxPending - 1)

BulkActive(j) == Cardinality({k \in Keys : holder[k] = j})

\* The tasks of the job fit its window, and the queue has room.
HasRoom(j) == BulkActive(j) < WorkerWindow /\ Cardinality(Busy) < Ceiling

\* _wait_for_capacity; the worker stays here while there is no room.
Capacity(j) ==
  /\ pc = "capacity" /\ UNCHANGED taskVars
  /\ \/ Cancelled(j) /\ Onward("drained")
     \/ ~Cancelled(j) /\ HasRoom(j) /\ Onward("create")

\* The task of v is published.
Creates(j, v) ==
  /\ holder' = Set(holder, Key(j, v), j)
  /\ ItemDone(j) /\ Unfailed(j, v)
  /\ queued' = Set(queued, j, queued[j] + 1)
  /\ late' = IF stopped \/ j \in cancelSet THEN late \cup {j} ELSE late
  /\ UNCHANGED <<skipped, faults>>

\* The strict enqueue of one video: a conflict is a skip, a full queue leaves
\* the item where it is, any other failure (of the rows that are written before
\* the task is published, too) makes it a failed item.
Create(j) ==
  /\ pc = "create"
  /\ LET v == Head(todo[j]) IN
     \/ IF Key(j, v) \in Busy \cup onDisk THEN Skips(j) /\ UNCHANGED <<failed, taskVars>>
        ELSE IF Cardinality(Busy) < MaxPending THEN Creates(j, v)
        ELSE Onward("pick") /\ UNCHANGED taskVars
     \/ ItemFails(j, v) /\ UNCHANGED taskVars

(* Status changes that are written whatever the status has become since    *)
(* the last look.                                                          *)

Announce(j) ==
  /\ pc = "announce" /\ Goto("pick")
  /\ status' = Set(status, j, "enqueuing")
  /\ failedPage' = Set(failedPage, j, 0)
  /\ UNCHANGED <<code, retryOnly>>

Conclude(j) ==
  /\ pc = "conclude" /\ Goto("leave")
  /\ status' = Set(status, j, IF failed[j] = <<>> THEN "completed" ELSE "partial")
  /\ code' = Set(code, j, "none")
  /\ retryOnly' = retryOnly \ {j}
  /\ UNCHANGED failedPage

Finish(j) ==
  /\ pc = "finish" /\ Goto("leave")
  /\ status' = Set(status, j, "cancelled")
  /\ retryOnly' = retryOnly \ {j}
  /\ UNCHANGED <<code, failedPage>>

\* The steps of _run_job and of _loop with job j, by what they may change.
Work(j) ==
  /\ \/ /\ Begin(j) \/ Unfinished(j) \/ Discovered(j) \/ Drained(j)
        /\ UNCHANGED <<jobVars, passVars, itemVars, attempt, got, taskVars, steady, faults>>
     \/ /\ Load(j)
        /\ UNCHANGED <<jobVars, passVars, itemVars, taskVars>>
     \/ /\ Record(j)
        /\ UNCHANGED <<failed, queued, skipped, retryOnly, taskVars>>
     \/ /\ Pick(j) \/ Lookup(j) \/ Capacity(j) \/ Create(j)
        /\ UNCHANGED <<jobVars, passVars, retryOnly, attempt, got, steady>>
     \/ /\ GiveUp(j) \/ FailJob(j)
        /\ UNCHANGED <<passVars, itemVars, attempt, got, taskVars, steady, faults>>
     \/ /\ Announce(j) \/ Conclude(j) \/ Finish(j)
        /\ UNCHANGED <<passVars, todo, failed, queued, skipped, attempt, got, taskVars,
                       steady, faults>>
  /\ UNCHANGED <<active, made, line>>

Worker ==
  /\ \/ active # NoJob /\ Work(active)
     \/ /\ Take \/ Leave
        /\ UNCHANGED <<code, failedPage, passVars, itemVars, attempt, got, taskVars, steady,
                       faults>>
  /\ UNCHANGED <<cancelSet, cutoff, stopped, siteVars, worksVars, changes, manuals, reruns>>

-----------------------------------------------------------------------------
(* The environment: the site, the queue and its other users.               *)

SiteFrame == UNCHANGED <<jobVars, passVars, itemVars, requestVars, threadVars, taskVars,
                         worksVars, faults, manuals, reruns>>

\* A new video appears at the top of the list.
Publish(u) ==
  /\ changes < MaxChanges /\ changes' = changes + 1
  /\ published[u] < MaxVideos
  /\ published' = [published EXCEPT ![u] = @ + 1]
  /\ live' = [live EXCEPT ![u] = @ \cup {published[u] + 1}]
  /\ UNCHANGED steady /\ SiteFrame

\* A video disappears from the list, for good.
Withdraw(u, v) ==
  /\ changes < MaxChanges /\ changes' = changes + 1
  /\ v \in live[u]
  /\ live' = [live EXCEPT ![u] = @ \ {v}]
  /\ steady' = [j \in Jobs |-> IF UidOf[j] = u /\ j \notin complete
                               THEN steady[j] \ {v} ELSE steady[j]]
  /\ UNCHANGED published /\ SiteFrame

QueueFrame == UNCHANGED <<jobVars, passVars, itemVars, requestVars, threadVars, siteVars,
                          steady, late, changes, faults, reruns>>

\* Somebody else downloads k.
ManualEnqueue(k) ==
  /\ manuals < MaxManual /\ manuals' = manuals + 1
  /\ k \notin Busy \cup onDisk /\ Cardinality(Busy) < MaxPending
  /\ holder' = Set(holder, k, Manual)
  /\ UNCHANGED <<onDisk, removed>> /\ QueueFrame

\* The task of k ends, with a file or without one.
TaskEnds(k) ==
  /\ k \in Busy /\ holder' = Set(holder, k, Nobody)
  /\ onDisk' \in {onDisk, onDisk \cup {k}}
  /\ UNCHANGED <<removed, manuals>> /\ QueueFrame

\* A user removes the work of k: its files go and the history remembers it.
RemoveWork(k) ==
  /\ manuals < MaxManual /\ manuals' = manuals + 1
  /\ k \in onDisk \ Busy
  /\ onDisk' = onDisk \ {k} /\ removed' = removed \cup {k}
  /\ UNCHANGED holder /\ QueueFrame

-----------------------------------------------------------------------------
Init ==
  /\ status = [j \in Jobs |-> "new"] /\ cancelSet = {}
  /\ code = [j \in Jobs |-> "none"] /\ failedPage = [j \in Jobs |-> 0]
  /\ nextPage = [j \in Jobs |-> 1] /\ passNo = [j \in Jobs |-> 1]
  /\ pass = [j \in Jobs |-> NewPass] /\ items = [j \in Jobs |-> {}]
  /\ complete = {} /\ cutoff = [j \in Jobs |-> 0]
  /\ todo = [j \in Jobs |-> <<>>] /\ failed = [j \in Jobs |-> <<>>]
  /\ queued = [j \in Jobs |-> 0] /\ skipped = [j \in Jobs |-> 0] /\ retryOnly = {}
  /\ made = [j \in Jobs |-> 0] /\ line = <<>> /\ stopped = FALSE
  /\ active = NoJob /\ pc = "idle" /\ attempt = 1 /\ got = NoPage
  /\ published = [u \in Uids |-> InitVideos] /\ live = [u \in Uids |-> 1 .. InitVideos]
  /\ holder = [k \in Keys |-> Nobody] /\ onDisk = {} /\ removed = {}
  /\ steady = [j \in Jobs |-> {}] /\ late = {}
  /\ changes = 0 /\ faults = 0 /\ manuals = 0 /\ reruns = 0

Next ==
  \/ Request
  \/ Worker
  \/ \E u \in Uids : Publish(u) \/ \E v \in Videos : Withdraw(u, v)
  \/ \E k \in Keys : ManualEnqueue(k) \/ TaskEnds(k) \/ RemoveWork(k)

Spec == Init /\ [][Next]_vars

\* The worker thread is scheduled, and its calls return.
FairSpec == Spec /\ WF_vars(Worker)

-----------------------------------------------------------------------------
(* What should hold.                                                       *)

Places == {"idle", "begin", "load", "record", "giveup", "failjob", "unfinished",
           "discovered", "announce", "pick", "lookup", "capacity", "create", "drained",
           "conclude", "finish", "leave"}

\* Every variable keeps its type.
TypeOK ==
  /\ status \in [Jobs -> Alive \cup Terminal \cup {"new"}]
  /\ code \in [Jobs -> Codes]
  /\ {failedPage, nextPage, passNo} \subseteq [Jobs -> Nat]
  /\ pass \in [Jobs -> [total : Nat \cup {NoTotal}, pages : Nat, changed : BOOLEAN]]
  /\ {items, steady} \subseteq [Jobs -> SUBSET Videos]
  /\ cutoff \in [Jobs -> 0 .. MaxVideos]
  /\ {todo, failed} \subseteq [Jobs -> Seq(Videos)]
  /\ {queued, skipped} \subseteq [Jobs -> Nat]
  /\ {cancelSet, complete, retryOnly, late} \subseteq SUBSET Jobs
  /\ made \in [Jobs -> Nat] /\ line \in Seq(Jobs)
  /\ stopped \in BOOLEAN /\ active \in Jobs \cup {NoJob} /\ pc \in Places
  /\ attempt \in 1 .. Attempts
  /\ got \in [kind : {"none", "page", "badCount", "badList", "raises"}, total : Nat,
              pages : Nat, items : SUBSET Videos]
  /\ published \in [Uids -> 0 .. MaxVideos] /\ live \in [Uids -> SUBSET Videos]
  /\ holder \in [Keys -> Jobs \cup {Manual, Nobody}]
  /\ {onDisk, removed} \subseteq SUBSET Keys
  /\ {changes, faults, manuals, reruns} \subseteq Nat

\* At most one job of a creator waits or runs, whatever races start, resume and
\* retry are in (start, _ensure_uid_available_locked).
OneAlivePerUid ==
  \A i, j \in Jobs : i # j /\ UidOf[i] = UidOf[j] =>
    status[i] \notin Alive \/ status[j] \notin Alive

\* A job that is shown to run is the one the worker has, so that stop() finds
\* it through _active_job_id; no worker step leaves a job behind running.
RunningIsActive == \A j \in Jobs : status[j] \in Running => active = j

\* A job that waits is in line and is not forgotten by the trimming of the
\* history: it will be taken.  Nothing is in line twice, though a job may have
\* come back while the worker was still in the tail of its last run.
WaitingIsInLine ==
  /\ \A j \in Jobs : status[j] = "waiting" => Known(j) /\ j \in ToSet(line)
  /\ IsInjective(line)

\* What the manager's requests and its worker owe each other.
JobsAreSafe == OneAlivePerUid /\ RunningIsActive /\ WaitingIsInLine

\* A discovery that ends has seen every video of its scope that was listed all
\* through its last pass, although the list moved under it while it was read
\* page by page, perhaps over several resumptions (_discover).
DiscoveryMissesNothing == \A j \in complete : steady[j] \subseteq items[j]

\* No discovered video is lost or counted twice: each is queued, skipped, failed
\* or still to do, through retries, full queues and cancellations
\* (_enqueue_pending, retry_failed).
EveryItemCounted ==
  \A j \in complete :
    Cardinality(items[j]) = queued[j] + skipped[j] + Len(failed[j]) + Len(todo[j])

\* A job that says it went through has gone through: nothing is left to do, and
\* "completed" means no failed item either (_run_job).
EndIsEarned ==
  \A j \in Jobs : status[j] \in {"completed", "partial"} =>
    /\ j \in complete /\ todo[j] = <<>>
    /\ status[j] = "completed" <=> failed[j] = <<>>

\* The active tasks of a job fit its window (_wait_for_capacity).
OwnWindow == \A j \in Jobs : BulkActive(j) <= WorkerWindow

\* The items of a job, its tasks among them.
ItemsAreSafe == TypeOK /\ EveryItemCounted /\ OwnWindow

\* After a cancellation or a stop was accepted, the job creates one more task at
\* most, the one it was about to create.
OneLateTask ==
  [][\A j \in late : queued'[j] = queued[j] \/ j \notin late']_vars

\* What administrators see of the jobs is the life of ImportLifecycle.
Life == INSTANCE ImportLifecycle WITH Jobs <- Jobs, UidOf <- UidOf, status <- status
ImplementsLife == Life!LifeSpec

\* A job that was told to stop ends, even while the queue is full and the site
\* does not answer; so does every job when the service stops.
StoppingEnds ==
  \A j \in Jobs : status[j] = "stopping" \/ (stopped /\ status[j] \in Alive)
                  ~> status[j] \in Terminal

\* If the queue's workers end every task, every job that was accepted ends, though
\* others take the places that become free.
JobsEnd ==
  (\A k \in Keys : WF_vars(TaskEnds(k)))
    => \A j \in Jobs : status[j] \in Alive ~> status[j] \in Terminal

=============================================================================

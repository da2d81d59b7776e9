------------------------------ MODULE Launcher ------------------------------
(***************************************************************************)
(* The Windows launcher (launcher/bili_workspace_launcher): its window     *)
(* (gui.py), the lock on a data root (paths.py), the resources it unpacks  *)
(* (resources.py), and the backend child that it starts, watches and stops *)
(* (backend_process.py).                                                   *)
(*                                                                         *)
(* Several launchers share one EXE directory: launcher.json, work/ and     *)
(* resources/.  A handler of the window is one step, or one step up to     *)
(* each point where the child or another launcher can observe it.  The end *)
(* of a process frees its lock and kills the children in its job object.   *)
(*                                                                         *)
(* ..._Mutant... operators are wrong versions that no specification uses.  *)
(***************************************************************************)
EXTENDS Naturals, FiniteSets

CONSTANTS
  Launchers, Roots,
  Sessions,    \* backend-<uuid> names
  Nobody,
  MaxEvents    \* bound: failed operations, crashes and hangs

ASSUME LauncherAssumption ==
  /\ Nobody \notin Launchers \cup Roots \cup Sessions
  /\ MaxEvents \in Nat

VARIABLES
  holder,    \* per data root, the launcher that has its lock
  tree,      \* the unpacked resources
  aside,     \* per launcher, the old tree it moved to its backup path
  pc,        \* per launcher, what its window does
  root,      \* its layout
  begun,     \* the session that its start is creating
  mine,      \* the session of its BackendProcessManager
  due,       \* launchers whose first start_backend is scheduled
  dialog,    \* launchers whose folder dialog is open
  shown,     \* the service: stopped, starting (with a deadline), ready, or late
  session,   \* the session directories
  child,     \* the backend children
  jobbed,    \* children in the job object of their launcher
  moved,     \* history: sessions whose data root was changed under their child
  events

window == <<root, due, dialog>>
shared == <<holder, tree, aside>>
vars == <<shared, pc, window, shown, begun, mine, session, child, jobbed, moved, events>>

Alive   == {"waiting", "starting", "serving", "draining", "dying"}
Working == {"starting", "serving", "draining"}    \* it uses the data root
Absent  == [state |-> "unused", root |-> Nobody, by |-> Nobody, stop |-> FALSE]
Running(l) == mine[l] # Nobody /\ child[mine[l]] \in Alive
Exists(s) == session[s].state \in {"bare", "complete"}

At(l, p) == pc[l] = p
Goto(l, p) == pc' = [pc EXCEPT ![l] = p]
Spend == events < MaxEvents /\ events' = events + 1

Init ==
  /\ holder = [r \in Roots |-> Nobody]
  /\ tree \in {"none", "bad", "good"} /\ aside = [l \in Launchers |-> "none"]
  /\ pc = [l \in Launchers |-> "off"] /\ root = [l \in Launchers |-> Nobody]
  /\ begun = [l \in Launchers |-> Nobody] /\ mine = [l \in Launchers |-> Nobody]
  /\ due = {} /\ dialog = {} /\ shown = [l \in Launchers |-> "stopped"]
  /\ session = [s \in Sessions |-> Absent] /\ child = [s \in Sessions |-> "none"]
  /\ jobbed = {} /\ moved = {} /\ events = 0

-----------------------------------------------------------------------------
(* The start of the window: _bootstrap.                                    *)

\* The directory goes with the journal and the request to stop in it.
Removed(e) == [e EXCEPT !.state = "gone", !.root = Nobody, !.stop = FALSE]

\* A complete session whose process is gone.
Removable(s) == session[s].state = "complete" /\ child[s] \notin Alive

\* recover_stale_sessions: directories that resist are left.  ensure_extracted: a
\* tree that matches is used, any other one is replaced by a verified copy, through a
\* backup of the old one.
Boot(l) ==
  /\ At(l, "off") /\ Goto(l, IF tree = "good" THEN "select" ELSE "stage")
  /\ \E kept \in SUBSET {s \in Sessions : Removable(s)} :
       /\ IF kept = {} THEN UNCHANGED events ELSE Spend
       /\ session' = [s \in Sessions |->
            IF Removable(s) /\ s \notin kept THEN Removed(session[s]) ELSE session[s]]
  /\ UNCHANGED <<shared, window, shown, begun, mine, child, jobbed, moved>>

MoveAside(l) ==
  /\ At(l, "stage") /\ Goto(l, "place")
  /\ aside' = [aside EXCEPT ![l] = tree] /\ tree' = "none"
  /\ UNCHANGED <<holder, window, shown, begun, mine, session, child, jobbed, events, moved>>

\* The rename of the copy fails when another launcher has put a tree there.
PlaceTree(l) ==
  /\ At(l, "place")
  /\ IF tree = "none" THEN tree' = "good" /\ Goto(l, "check") ELSE Goto(l, "rollback") /\ UNCHANGED tree
  /\ UNCHANGED <<holder, aside, window, shown, begun, mine, session, child, jobbed, events, moved>>

CheckTree(l) ==
  /\ At(l, "check")
  /\ IF tree = "good" THEN aside' = [aside EXCEPT ![l] = "none"] /\ Goto(l, "select")
     ELSE Goto(l, "undo") /\ UNCHANGED aside
  /\ UNCHANGED <<holder, tree, window, shown, begun, mine, session, child, jobbed, events, moved>>

\* The old tree is put back: over the copy that was placed, or if nothing is there.
\* The service is not started, and nothing is left to do but close the window.
Rollback(l) ==
  /\ pc[l] \in {"rollback", "undo"} /\ Goto(l, "gone")
  /\ IF At(l, "undo") \/ tree = "none" THEN tree' = aside[l] ELSE UNCHANGED tree
  /\ aside' = [aside EXCEPT ![l] = "none"]
  /\ UNCHANGED <<holder, window, shown, begun, mine, session, child, jobbed, events, moved>>

\* An operation of the extraction fails.
ExtractFails(l) ==
  /\ pc[l] \in {"stage", "place", "check"} /\ Spend
  /\ Goto(l, IF At(l, "check") THEN "undo" ELSE "rollback")
  /\ UNCHANGED <<shared, window, shown, begun, mine, session, child, jobbed, moved>>

-----------------------------------------------------------------------------
(* The data root: _prepare_data_root.                                      *)

Lockable(l, r) == holder[r] \in {Nobody, l}

\* The lock of r is taken before anything is written there; the lock of the root
\* before it is released once launcher.json is saved.
Prepare(l, r) ==
  /\ Lockable(l, r)
  /\ holder' = [q \in Roots |-> IF q = r THEN l ELSE IF holder[q] = l THEN Nobody ELSE holder[q]]
  /\ root' = [root EXCEPT ![l] = r]

\* The remembered root or one that the user selects, if any; the first start is then
\* scheduled.
SelectRoot(l) ==
  /\ At(l, "select") /\ Goto(l, "up")
  /\ \/ \E r \in Roots : Prepare(l, r) /\ due' = due \cup {l}
     \/ UNCHANGED <<holder, root, due>>
  /\ UNCHANGED <<tree, aside, dialog, shown, begun, mine, session, child, jobbed, events, moved>>

\* change_data_root: the button is enabled while no child runs.  Timers go on
\* while the dialog is open, that of the first start too.
OpenDialog(l) ==
  /\ At(l, "up") /\ ~Running(l) /\ l \notin dialog
  /\ dialog' = dialog \cup {l}
  /\ UNCHANGED <<shared, pc, root, due, shown, begun, mine, session, child, jobbed, events, moved>>

\* The user cancels, the folder is refused, or it is prepared, without another look
\* at the child.
CloseDialog(l) ==
  /\ At(l, "up") /\ l \in dialog /\ dialog' = dialog \ {l}
  /\ \/ \E r \in Roots :
          /\ Prepare(l, r)
          /\ moved' = moved \cup {s \in Sessions : Running(l) /\ s = mine[l] /\ r # root[l]}
     \/ UNCHANGED <<holder, root, moved>>
  /\ UNCHANGED <<tree, aside, pc, due, shown, begun, mine, session, child, jobbed, events>>

-----------------------------------------------------------------------------
(* The start of the backend.                                               *)

\* A new backend-<uuid> name; which one does not matter.
Unused == {s \in Sessions : session[s].state = "unused"}
Fresh  == CHOOSE s \in Unused : TRUE

\* start_backend, by the timer of _bootstrap or by the button.
StartBackend(l) ==
  /\ At(l, "up")
  /\ l \in due \/ l \notin dialog
  /\ due' = due \ {l}
  /\ IF ~Running(l) /\ root[l] # Nobody
       THEN /\ Unused # {} /\ holder[root[l]] = l
            /\ session' = [session EXCEPT ![Fresh] =
                 [state |-> "bare", root |-> root[l], by |-> l, stop |-> FALSE]]
            /\ begun' = [begun EXCEPT ![l] = Fresh]
            /\ Goto(l, "spawn")
       ELSE l \in due /\ UNCHANGED <<session, begun, pc>>
  /\ UNCHANGED <<shared, root, dialog, shown, mine, child, jobbed, events, moved>>

Spawn(l) ==
  /\ At(l, "spawn") /\ Goto(l, "assign")
  /\ child' = [child EXCEPT ![begun[l]] = "waiting"]
  /\ UNCHANGED <<shared, window, shown, begun, mine, session, jobbed, events, moved>>

Assign_MutantSkipped(l) ==
  /\ At(l, "assign") /\ Goto(l, "commit")
  /\ UNCHANGED <<shared, window, shown, begun, mine, session, child, jobbed, events, moved>>
Assign(l) ==
  /\ At(l, "assign") /\ Goto(l, "commit")
  /\ jobbed' = jobbed \cup {s \in {begun[l]} : child[s] \in Alive}
  /\ UNCHANGED <<shared, window, shown, begun, mine, session, child, events, moved>>

\* The journal gets the pid, which the child waits for; the manager takes over.
CommitPid(l) ==
  /\ At(l, "commit") /\ Goto(l, "up")
  /\ session' = [session EXCEPT ![begun[l]].state = "complete"]
  /\ mine' = [mine EXCEPT ![l] = begun[l]]
  /\ begun' = [begun EXCEPT ![l] = Nobody]
  /\ shown' = [shown EXCEPT ![l] = "starting"]
  /\ UNCHANGED <<shared, window, child, jobbed, events, moved>>

\* A step fails: the child is killed, if that works or the job has it, and the
\* session directory is removed.
StartFails(l) ==
  LET s == begun[l] IN
  /\ pc[l] \in {"spawn", "assign", "commit"} /\ Spend /\ Goto(l, "up")
  /\ \/ child' = [child EXCEPT ![s] = IF @ \in Alive THEN "dead" ELSE @]
     \/ child[s] \in Alive /\ s \notin jobbed /\ UNCHANGED child
  /\ session' = [session EXCEPT ![s] = Removed(@)]
  /\ jobbed' = jobbed \ {s}
  /\ begun' = [begun EXCEPT ![l] = Nobody]
  /\ UNCHANGED <<shared, window, shown, mine, moved>>

-----------------------------------------------------------------------------
(* The child: run_backend_child.                                           *)

Die(s) == child' = [child EXCEPT ![s] = "dead"] /\ jobbed' = jobbed \ {s}

\* What the child finds in its journal: the commit of its parent.
Verified(s) == session[s].state = "complete"

ChildVerify(s) ==
  /\ child[s] = "waiting" /\ Verified(s)
  /\ IF tree = "good" THEN child' = [child EXCEPT ![s] = "starting"] /\ UNCHANGED jobbed ELSE Die(s)
  /\ UNCHANGED <<shared, pc, window, shown, begun, mine, session, events, moved>>

ChildGivesUp_MutantNoClock(s) ==
  /\ child[s] = "waiting" /\ ~Exists(s) /\ Die(s)
  /\ UNCHANGED <<shared, pc, window, shown, begun, mine, session, events, moved>>
\* The commit does not come in five seconds, or the journal is gone.
ChildGivesUp(s) ==
  /\ child[s] = "waiting" /\ ~Verified(s) /\ Die(s)
  /\ UNCHANGED <<shared, pc, window, shown, begun, mine, session, events, moved>>

ChildServe(s) ==
  /\ child[s] = "starting" /\ child' = [child EXCEPT ![s] = "serving"]
  /\ UNCHANGED <<shared, pc, window, shown, begun, mine, session, jobbed, events, moved>>

\* The port is taken, the configuration is refused, or the server breaks.
ChildFails(s) ==
  /\ child[s] \in Working /\ Spend /\ Die(s)
  /\ UNCHANGED <<shared, pc, window, shown, begun, mine, session, moved>>

\* monitor_stop_file and the shutdown of the server; the late end of a killed process.
ChildStop(s) ==
  /\ \/ child[s] = "serving" /\ session[s].stop /\ child' = [child EXCEPT ![s] = "draining"]
        /\ UNCHANGED jobbed
     \/ child[s] \in {"draining", "dying"} /\ Die(s)
  /\ UNCHANGED <<shared, pc, window, shown, begun, mine, session, events, moved>>

-----------------------------------------------------------------------------
(* The watch on the child, and its end.                                    *)

\* _cleanup_session: the job is closed, the directory removed, if it can be.
Cleanup(l) ==
  LET s == mine[l] IN
  /\ child' = [child EXCEPT ![s] = IF s \in jobbed THEN "dead" ELSE @]
  /\ jobbed' = jobbed \ {s}
  /\ \/ session' = [session EXCEPT ![s] = Removed(@)] /\ UNCHANGED events
     \/ Exists(s) /\ Spend /\ UNCHANGED session
  /\ mine' = [mine EXCEPT ![l] = Nobody]
  /\ shown' = [shown EXCEPT ![l] = "stopped"]

\* _poll_backend: the health of a child that runs, and the session of one that ended.
PollHealth(l) ==
  /\ At(l, "up") /\ Running(l)
  /\ \/ child[mine[l]] = "serving" /\ shown[l] # "ready" /\ shown' = [shown EXCEPT ![l] = "ready"]
     \/ child[mine[l]] # "serving" /\ shown[l] = "ready" /\ shown' = [shown EXCEPT ![l] = "late"]
  /\ UNCHANGED <<shared, pc, window, begun, mine, session, child, jobbed, events, moved>>

PollExit(l) ==
  /\ At(l, "up") /\ mine[l] # Nobody /\ ~Running(l) /\ Cleanup(l)
  /\ UNCHANGED <<shared, pc, window, begun, moved>>

AskToStop(l) == session' = [session EXCEPT ![mine[l]].stop = TRUE]

PollDeadline_MutantAnswered(l) ==
  /\ At(l, "up") /\ Running(l) /\ shown[l] = "starting" /\ child[mine[l]] = "serving"
  /\ AskToStop(l) /\ Goto(l, "expiring")
  /\ UNCHANGED <<shared, window, shown, begun, mine, child, jobbed, events, moved>>
\* The child did not get ready before the deadline.  A stop that raises an exception
\* the handler knows is told to the user, and the child goes on without a deadline.
PollDeadline(l) ==
  /\ At(l, "up") /\ Running(l) /\ shown[l] = "starting"
  /\ \/ AskToStop(l) /\ Goto(l, "expiring") /\ UNCHANGED <<shown, events>>
     \/ Spend /\ shown' = [shown EXCEPT ![l] = "late"] /\ UNCHANGED <<session, pc>>
  /\ UNCHANGED <<shared, window, begun, mine, child, jobbed, moved>>

StopBackend(l) ==
  /\ At(l, "up") /\ Running(l) /\ l \notin dialog /\ AskToStop(l) /\ Goto(l, "stopping")
  /\ UNCHANGED <<shared, window, shown, begun, mine, child, jobbed, events, moved>>

\* stop: the child ends in time or is killed.
After == [p \in {"expiring", "stopping", "leaving"} |-> IF p = "leaving" THEN "gone" ELSE "up"]
Stopped(l) ==
  /\ pc[l] \in DOMAIN After /\ ~Running(l)
  /\ Cleanup(l) /\ Goto(l, After[pc[l]])
  /\ UNCHANGED <<shared, window, begun, moved>>

Kill(l) ==
  /\ pc[l] \in DOMAIN After /\ Running(l) /\ Die(mine[l])
  /\ UNCHANGED <<shared, pc, window, shown, begun, mine, session, events, moved>>

\* The killed process does not end in five seconds: TimeoutExpired, which no handler
\* of the window expects, ends the handler, and deadline and window stay as they are.
\* Or the kill raises OSError, which the handlers tell the user.
KillFails(l) ==
  /\ pc[l] \in DOMAIN After /\ Running(l) /\ Spend
  /\ \/ child' = [child EXCEPT ![mine[l]] = "dying"] /\ Goto(l, "up") /\ UNCHANGED shown
     \/ /\ Goto(l, After[pc[l]]) /\ UNCHANGED child
        /\ shown' = [shown EXCEPT ![l] = IF At(l, "expiring") THEN "late" ELSE @]
  /\ UNCHANGED <<shared, window, begun, mine, session, jobbed, moved>>

-----------------------------------------------------------------------------
(* The end of a launcher.                                                  *)

\* explicit_exit, which goes on when the stop fails.
Exit(l) ==
  /\ At(l, "up") /\ l \notin dialog
  /\ \/ Running(l) /\ AskToStop(l) /\ Goto(l, "leaving") /\ UNCHANGED events
     \/ ~Running(l) /\ Goto(l, "gone") /\ UNCHANGED <<session, events>>
     \/ Running(l) /\ Spend /\ Goto(l, "gone") /\ UNCHANGED session
  /\ UNCHANGED <<shared, window, shown, begun, mine, child, jobbed, moved>>

OwnJob(l) == {s \in jobbed : session[s].by = l}

Vanish(l) ==
  /\ Goto(l, "off")
  /\ holder' = [r \in Roots |-> IF holder[r] = l THEN Nobody ELSE holder[r]]
  /\ child' = [s \in Sessions |-> IF s \in OwnJob(l) THEN "dead" ELSE child[s]]
  /\ jobbed' = jobbed \ OwnJob(l)
  /\ root' = [root EXCEPT ![l] = Nobody] /\ begun' = [begun EXCEPT ![l] = Nobody]
  /\ mine' = [mine EXCEPT ![l] = Nobody] /\ aside' = [aside EXCEPT ![l] = "none"]
  /\ due' = due \ {l} /\ dialog' = dialog \ {l} /\ shown' = [shown EXCEPT ![l] = "stopped"]
  /\ UNCHANGED <<tree, session, moved>>

Leave(l) == At(l, "gone") /\ Vanish(l) /\ UNCHANGED events
Crash(l) == pc[l] \notin {"off", "gone"} /\ Spend /\ Vanish(l)

BootStep(l)  == Boot(l) \/ MoveAside(l) \/ PlaceTree(l) \/ CheckTree(l)
                \/ Rollback(l) \/ ExtractFails(l) \/ SelectRoot(l)
RootStep(l)  == OpenDialog(l) \/ CloseDialog(l)
StartStep(l) == StartBackend(l) \/ Spawn(l) \/ Assign(l) \/ CommitPid(l) \/ StartFails(l)
ChildStep(s) == ChildVerify(s) \/ ChildGivesUp(s) \/ ChildServe(s) \/ ChildFails(s) \/ ChildStop(s)
WatchStep(l) == PollHealth(l) \/ PollExit(l) \/ PollDeadline(l) \/ StopBackend(l)
                \/ Stopped(l) \/ Kill(l) \/ KillFails(l)
EndStep(l)   == Exit(l) \/ Leave(l) \/ Crash(l)

Next ==
  \/ \E l \in Launchers : BootStep(l) \/ RootStep(l) \/ StartStep(l) \/ WatchStep(l) \/ EndStep(l)
  \/ \E s \in Sessions : ChildStep(s)

Spec == Init /\ [][Next]_vars

\* The families of different states of the window are never enabled together.
Handler(l) ==
  \/ Spawn(l) \/ Assign(l) \/ CommitPid(l)
  \/ PollHealth(l) \/ PollDeadline(l) \/ PollExit(l)
  \/ Stopped(l) \/ Kill(l) \/ Leave(l)

\* A handler that began goes on, the timer of the window fires, and a child that
\* waits reads its journal and the clock.  Nothing makes a child get ready or stop.
FairSpec ==
  /\ Spec
  /\ \A l \in Launchers : WF_vars(Handler(l))
  /\ \A s \in Sessions : WF_vars(ChildVerify(s) \/ ChildGivesUp(s))

-----------------------------------------------------------------------------
(* Properties.                                                             *)

TypeOK ==
  /\ holder \in [Roots -> Launchers \cup {Nobody}]
  /\ tree \in {"none", "bad", "good"} /\ aside \in [Launchers -> {"none", "bad", "good"}]
  /\ pc \in [Launchers -> {"off", "stage", "place", "check", "rollback", "undo", "select",
                           "up", "spawn", "assign", "commit", "expiring", "stopping", "leaving", "gone"}]
  /\ root \in [Launchers -> Roots \cup {Nobody}]
  /\ begun \in [Launchers -> Sessions \cup {Nobody}] /\ mine \in [Launchers -> Sessions \cup {Nobody}]
  /\ due \subseteq Launchers /\ dialog \subseteq Launchers /\ shown \in [Launchers -> {"stopped", "starting", "ready", "late"}]
  /\ session \in [Sessions -> [state : {"unused", "bare", "complete", "gone"},
                               root : Roots \cup {Nobody}, by : Launchers \cup {Nobody}, stop : BOOLEAN]]
  /\ child \in [Sessions -> {"none", "dead"} \cup Alive]
  /\ jobbed \subseteq {s \in Sessions : child[s] \in Alive} /\ moved \subseteq Sessions
  /\ events \in 0 .. MaxEvents

\* One backend works on a data root, and its launcher has the lock of that root all the
\* time: over starts that fail, crashes, several launchers and changes of the root, but
\* for a change that was begun before the first start and ended after it (moved).
ServerIsLocked ==
  \A s \in Sessions \ moved : child[s] \in Working =>
    /\ holder[session[s].root] = session[s].by
    /\ \A q \in Sessions \ moved :
         child[q] \in Working /\ session[q].root = session[s].root => q = s

\* No launcher removes the session of a backend that works, its own or another's.
ServerHasSession ==
  \A s \in Sessions : child[s] \in Working => session[s].state = "complete"

\* What a backend that works relies on.
ServersAreSafe == TypeOK /\ ServerIsLocked /\ ServerHasSession

\* A child that no launcher watches ends: after a crash between any two steps of its
\* start, and after a failed start that could not kill it.
Watched(s) == s \in {begun[session[s].by], mine[session[s].by]}
OrphansEnd == []<>(\A s \in Sessions : child[s] \in Alive => Watched(s))

\* A start ends: the service is shown as running, its child is gone, or the user is
\* told that it could not be stopped.  A child that resists its kill for five seconds is
\* not told, but the deadline stays and the next poll stops it again.
StartUnderWay(l) == begun[l] # Nobody \/ (Running(l) /\ shown[l] = "starting")
StartEnds == []<>(\A l \in Launchers : ~StartUnderWay(l))
=============================================================================

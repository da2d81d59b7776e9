--------------------------- MODULE Launcher_proofs ---------------------------
(***************************************************************************)
(* Proofs about Launcher: whatever is started, moved, stopped, killed or   *)
(* crashed, a backend that works has its session and the lock of its root, *)
(* for every number of launchers, roots, sessions and failures.            *)
(*                                                                         *)
(* The argument goes along the chain of custody of a child.  The start in  *)
(* hand has a bare session of the locked root (StartInHand); a child is in *)
(* the job object before its session becomes complete; and a child that    *)
(* lives with a complete session is the one that its manager has, in its   *)
(* job, on the root that its launcher has now (Held), unless a folder      *)
(* dialog that was open before the start moved the root (moved).  The end  *)
(* of its launcher, which frees the lock, ends it too.                     *)
(***************************************************************************)
EXTENDS Launcher, TLAPS

Creating == {"spawn", "assign", "commit"}
Early    == {"off", "stage", "place", "check", "rollback", "undo", "select"}

Session == [state : {"unused", "bare", "complete", "gone"},
            root : Roots \cup {Nobody}, by : Launchers \cup {Nobody}, stop : BOOLEAN]

\* A launcher has the lock of its root.
LockKept(l) == root[l] # Nobody => holder[root[l]] = l

\* The session that a start creates is its own, bare, of its locked root, and its
\* child is in the job object before the commit.
StartInHand(l) ==
  /\ begun[l] # Nobody <=> pc[l] \in Creating
  /\ begun[l] # Nobody =>
       /\ session[begun[l]].state = "bare" /\ session[begun[l]].by = l
       /\ session[begun[l]].root = root[l] /\ root[l] # Nobody
       /\ ~Running(l)
       /\ pc[l] = "spawn" => child[begun[l]] = "none"
       /\ pc[l] = "commit" /\ child[begun[l]] \in Alive => begun[l] \in jobbed

\* The manager has a session of its own launcher, that a stop works on.
OwnSession(l) ==
  /\ pc[l] \in Early => mine[l] = Nobody /\ root[l] = Nobody
  /\ pc[l] \in DOMAIN After => mine[l] # Nobody
  /\ mine[l] # Nobody => session[mine[l]].by = l /\ session[mine[l]].state \in {"complete", "gone"}

\* A child that lives with a complete session is in the hands of its launcher.
Held(s) ==
  session[s].state = "complete" /\ child[s] \in Alive =>
    /\ s \in jobbed /\ session[s].by \in Launchers /\ mine[session[s].by] = s
    /\ s \notin moved => session[s].root = root[session[s].by]
    /\ session[s].root # Nobody

\* A child works only after the commit, and an unused session has none.
Earned(s) ==
  /\ child[s] \in Working => session[s].state = "complete"
  /\ session[s].state = "unused" => child[s] = "none"

IInv ==
  /\ TypeOK
  /\ \A l \in Launchers : LockKept(l) /\ StartInHand(l) /\ OwnSession(l)
  /\ \A s \in Sessions : Held(s) /\ Earned(s)

-----------------------------------------------------------------------------
(* One lemma per operation.                                                *)

\* A session that is asked to stop, and one that is removed, keep their fields.
LEMMA StopTyped ==
  ASSUME TypeOK, NEW l \in Launchers, Running(l), AskToStop(l)
  PROVE  session' \in [Sessions -> Session]
<1>1. mine[l] \in Sessions /\ session \in [Sessions -> Session]
  BY DEF TypeOK, Running, Session
<1>2. ASSUME NEW e \in Session  PROVE [e EXCEPT !.stop = TRUE] \in Session
  BY DEF Session
<1>3. session[mine[l]] \in Session
  BY <1>1
<1>. QED  BY <1>1, <1>2, <1>3 DEF AskToStop

LEMMA RemovedIs ==
  ASSUME NEW e \in Session, LauncherAssumption
  PROVE  /\ Removed(e) \in Session /\ Removed(e).state = "gone" /\ Removed(e).by = e.by
         /\ Removed(e).root = Nobody
BY DEF Removed, Session

LEMMA GoneTyped ==
  ASSUME TypeOK, NEW s \in Sessions, session' = [session EXCEPT ![s] = Removed(@)]
  PROVE  /\ session' \in [Sessions -> Session]
         /\ session'[s].state = "gone" /\ session'[s].by = session[s].by
         /\ \A t \in Sessions \ {s} : session'[t] = session[t]
<1>1. session \in [Sessions -> Session]
  BY DEF TypeOK, Session
<1>. QED  BY <1>1, RemovedIs, LauncherAssumption

LEMMA BootTyped ==
  ASSUME TypeOK, NEW l \in Launchers, Boot(l)
  PROVE  /\ session' \in [Sessions -> Session]
         /\ \A t \in Sessions :
              \/ session'[t] = session[t]
              \/ Removable(t) /\ session'[t].state = "gone" /\ session'[t].by = session[t].by
<1>1. \A s \in Sessions : session[s] \in Session
  BY DEF TypeOK, Session
<1>2. PICK kept \in SUBSET {s \in Sessions : Removable(s)} :
        session' = [s \in Sessions |->
          IF Removable(s) /\ s \notin kept THEN Removed(session[s]) ELSE session[s]]
  BY DEF Boot
<1>3. ASSUME NEW s \in Sessions
      PROVE  /\ session'[s] \in Session
             /\ \/ session'[s] = session[s]
                \/ Removable(s) /\ session'[s].state = "gone" /\ session'[s].by = session[s].by
  <2>1. session'[s] = IF Removable(s) /\ s \notin kept THEN Removed(session[s]) ELSE session[s]
    BY <1>2
  <2>. QED  BY <1>1, <2>1, RemovedIs, LauncherAssumption
<1>. QED  BY <1>2, <1>3

\* recover_stale_sessions removes only sessions that no start and no manager uses.
LEMMA BootSafe ==
  ASSUME IInv, NEW l \in Launchers, LauncherAssumption,
         Boot(l)
  PROVE  IInv'
<1>0. /\ session' \in [Sessions -> Session]
      /\ \A t \in Sessions :
           \/ session'[t] = session[t]
           \/ Removable(t) /\ session'[t].state = "gone" /\ session'[t].by = session[t].by
  BY BootTyped DEF IInv
<1>8. /\ pc[l] = "off" /\ pc' = [pc EXCEPT ![l] = IF tree = "good" THEN "select" ELSE "stage"]
      /\ UNCHANGED <<holder, tree, aside, root, due, dialog, shown, begun, mine, child, jobbed, moved>>
  BY DEF Boot, At, Goto, shared, window
<1>1. TypeOK'
  <2>1. events' \in 0 .. MaxEvents
    BY DEF Boot, Spend, IInv, TypeOK, LauncherAssumption
  <2>. QED  BY <1>0, <1>8, <2>1 DEF IInv, TypeOK, Session, Alive
<1>2. \A m \in Launchers : LockKept(m)'
  BY <1>0, <1>8 DEF IInv, TypeOK, Removable, LockKept
<1>3. \A m \in Launchers : StartInHand(m)'
  BY <1>0, <1>8 DEF IInv, TypeOK, Removable, StartInHand, OwnSession, Held, Earned, Creating, Early, Alive, Working, Running
<1>4. \A m \in Launchers : OwnSession(m)'
  BY <1>0, <1>8 DEF IInv, TypeOK, Removable, OwnSession, StartInHand, Creating, Early, Alive, Running, After
<1>6. \A t \in Sessions : Held(t)'
  BY <1>0, <1>8 DEF IInv, TypeOK, Removable, Held, OwnSession, StartInHand, Creating, Early, Alive, Running
<1>7. \A t \in Sessions : Earned(t)'
  BY <1>0, <1>8 DEF IInv, TypeOK, Removable, Earned, Held, OwnSession, StartInHand, Creating, Early, Alive, Working, Running
<1>. QED  BY <1>1, <1>2, <1>3, <1>4, <1>6, <1>7 DEF IInv

\* The extraction of the resources happens before a root, a session or a child exists.
LEMMA TreeSafe ==
  ASSUME IInv, NEW l \in Launchers, LauncherAssumption,
         MoveAside(l) \/ PlaceTree(l) \/ CheckTree(l) \/ Rollback(l) \/ ExtractFails(l)
  PROVE  IInv'
<1> USE DEF At, Goto, shared, window, MoveAside, PlaceTree, CheckTree, Rollback, ExtractFails, Spend
<1>1. TypeOK'
  BY DEF IInv, TypeOK, Alive, Working, StartInHand, OwnSession, Creating, Running
<1>2. \A m \in Launchers : LockKept(m)'
  BY DEF IInv, TypeOK, LockKept
<1>3. \A m \in Launchers : StartInHand(m)'
  BY DEF IInv, TypeOK, StartInHand, OwnSession, Held, Earned, Creating, Early, Alive, Working, Running
<1>4. \A m \in Launchers : OwnSession(m)'
  BY DEF IInv, TypeOK, OwnSession, StartInHand, Creating, Early, Alive, Running, After
<1>6. \A t \in Sessions : Held(t)'
  BY DEF IInv, TypeOK, Held, OwnSession, StartInHand, Creating, Early, Alive, Running
<1>7. \A t \in Sessions : Earned(t)'
  BY DEF IInv, TypeOK, Earned, Held, OwnSession, StartInHand, Creating, Early, Alive, Working, Running
<1>. QED  BY <1>1, <1>2, <1>3, <1>4, <1>6, <1>7 DEF IInv

\* A first root is locked when no session exists; the locks of others stay.
LEMMA SelectRootSafe ==
  ASSUME IInv, NEW l \in Launchers, LauncherAssumption,
         SelectRoot(l)
  PROVE  IInv'
<1> USE DEF At, Goto, shared, window, SelectRoot, Prepare, Lockable
<1>1. TypeOK'
  BY DEF IInv, TypeOK, Alive, Working, StartInHand, OwnSession, Creating, Running
<1>2. \A m \in Launchers : LockKept(m)'
  BY DEF IInv, TypeOK, LockKept
<1>3. \A m \in Launchers : StartInHand(m)'
  BY DEF IInv, TypeOK, StartInHand, OwnSession, Held, Earned, Creating, Early, Alive, Working, Running
<1>4. \A m \in Launchers : OwnSession(m)'
  BY DEF IInv, TypeOK, OwnSession, StartInHand, Creating, Early, Alive, Running, After
<1>6. \A t \in Sessions : Held(t)'
  BY DEF IInv, TypeOK, Held, OwnSession, StartInHand, Creating, Early, Alive, Running
<1>7. \A t \in Sessions : Earned(t)'
  BY DEF IInv, TypeOK, Earned, Held, OwnSession, StartInHand, Creating, Early, Alive, Working, Running
<1>. QED  BY <1>1, <1>2, <1>3, <1>4, <1>6, <1>7 DEF IInv

\* The dialog touches nothing before it closes.
LEMMA OpenDialogSafe ==
  ASSUME IInv, NEW l \in Launchers, LauncherAssumption,
         OpenDialog(l)
  PROVE  IInv'
<1> USE DEF At, Goto, shared, window, OpenDialog
<1>1. TypeOK'
  BY DEF IInv, TypeOK, Alive, Working, StartInHand, OwnSession, Creating, Running
<1>2. \A m \in Launchers : LockKept(m)'
  BY DEF IInv, TypeOK, LockKept
<1>3. \A m \in Launchers : StartInHand(m)'
  BY DEF IInv, TypeOK, StartInHand, OwnSession, Held, Earned, Creating, Early, Alive, Working, Running
<1>4. \A m \in Launchers : OwnSession(m)'
  BY DEF IInv, TypeOK, OwnSession, StartInHand, Creating, Early, Alive, Running, After
<1>6. \A t \in Sessions : Held(t)'
  BY DEF IInv, TypeOK, Held, OwnSession, StartInHand, Creating, Early, Alive, Running
<1>7. \A t \in Sessions : Earned(t)'
  BY DEF IInv, TypeOK, Earned, Held, OwnSession, StartInHand, Creating, Early, Alive, Working, Running
<1>. QED  BY <1>1, <1>2, <1>3, <1>4, <1>6, <1>7 DEF IInv

\* A root that is given up under a child makes its session one of the moved.
LEMMA CloseDialogSafe ==
  ASSUME IInv, NEW l \in Launchers, LauncherAssumption,
         CloseDialog(l)
  PROVE  IInv'
<1> USE DEF At, Goto, shared, window, CloseDialog, Prepare, Lockable
<1>1. TypeOK'
  BY DEF IInv, TypeOK, Alive, Working, StartInHand, OwnSession, Creating, Running
<1>2. \A m \in Launchers : LockKept(m)'
  BY DEF IInv, TypeOK, LockKept
<1>3. \A m \in Launchers : StartInHand(m)'
  BY DEF IInv, TypeOK, StartInHand, OwnSession, Held, Earned, Creating, Early, Alive, Working, Running
<1>4. \A m \in Launchers : OwnSession(m)'
  BY DEF IInv, TypeOK, OwnSession, StartInHand, Creating, Early, Alive, Running, After
<1>6. \A t \in Sessions : Held(t)'
  BY DEF IInv, TypeOK, Held, OwnSession, StartInHand, Creating, Early, Alive, Running
<1>7. \A t \in Sessions : Earned(t)'
  BY DEF IInv, TypeOK, Earned, Held, OwnSession, StartInHand, Creating, Early, Alive, Working, Running
<1>. QED  BY <1>1, <1>2, <1>3, <1>4, <1>6, <1>7 DEF IInv

\* The new session is that of the locked root.
LEMMA StartBackendSafe ==
  ASSUME IInv, NEW l \in Launchers, LauncherAssumption,
         StartBackend(l)
  PROVE  IInv'
<1> USE DEF At, Goto, shared, window
<1>1. CASE Running(l) \/ root[l] = Nobody
  <2>1. /\ pc[l] = "up" /\ due' = due \ {l}
        /\ UNCHANGED <<shared, pc, root, dialog, shown, begun, mine, session, child, jobbed, events, moved>>
    BY <1>1 DEF StartBackend
  <2>2. TypeOK'
    BY <2>1 DEF IInv, TypeOK, Alive
  <2>3. \A m \in Launchers : LockKept(m)' /\ StartInHand(m)' /\ OwnSession(m)'
    BY <2>1 DEF IInv, LockKept, StartInHand, OwnSession, Running
  <2>4. \A t \in Sessions : Held(t)' /\ Earned(t)'
    BY <2>1 DEF IInv, Held, Earned
  <2>. QED  BY <2>2, <2>3, <2>4 DEF IInv
<1>2. CASE ~Running(l) /\ root[l] # Nobody
  <2>. DEFINE s == Fresh
  <2>1. /\ s \in Sessions /\ session[s].state = "unused"
        /\ session' = [session EXCEPT ![s] = [state |-> "bare", root |-> root[l], by |-> l, stop |-> FALSE]]
        /\ begun' = [begun EXCEPT ![l] = s]
        /\ pc' = [pc EXCEPT ![l] = "spawn"]
    <3>1. Unused # {} => Fresh \in Unused
      BY DEF Fresh
    <3>. QED  BY <1>2, <3>1 DEF StartBackend, Unused
  <2>. HIDE DEF s
  <2>2. /\ pc[l] = "up" /\ due' = due \ {l} /\ (l \in due \/ l \notin dialog)
        /\ UNCHANGED <<shared, root, dialog, shown, mine, child, jobbed, events, moved>>
    BY DEF StartBackend
  <2>3. session' = [session EXCEPT ![s] = [state |-> "bare", root |-> root[l], by |-> l, stop |-> FALSE]]
    BY <2>1
  <2>4. s # Nobody /\ child[s] = "none"
    BY <2>1 DEF IInv, Earned, LauncherAssumption
  <2>5. TypeOK'
    <3>1. session' \in [Sessions -> Session]
      BY <2>3 DEF IInv, TypeOK, Session
    <3>. QED  BY <2>1, <2>2, <3>1 DEF IInv, TypeOK, Session, Alive
  <2>6. \A m \in Launchers : LockKept(m)'
    BY <2>2 DEF IInv, LockKept
  <2>7. \A m \in Launchers : StartInHand(m)'
    <3>1. ASSUME NEW m \in Launchers, m # l  PROVE StartInHand(m)'
      <4>1. begun[m] # s
        BY <2>1 DEF IInv, StartInHand
      <4>. QED  BY <2>1, <2>2, <2>3, <3>1, <4>1 DEF IInv, TypeOK, StartInHand, Running
    <3>2. StartInHand(l)'
      BY <1>2, <2>1, <2>2, <2>3, <2>4 DEF IInv, TypeOK, StartInHand, Running, Creating
    <3>. QED  BY <3>1, <3>2
  <2>8. \A m \in Launchers : OwnSession(m)'
    BY <2>1, <2>2, <2>3 DEF IInv, TypeOK, OwnSession, Early, After
  <2>10. \A t \in Sessions : Held(t)'
    BY <2>2, <2>3, <2>4 DEF IInv, TypeOK, Held, Alive
  <2>11. \A t \in Sessions : Earned(t)'
    BY <2>2, <2>3, <2>4 DEF IInv, TypeOK, Earned, Working
  <2>. QED  BY <2>5, <2>6, <2>7, <2>8, <2>10, <2>11 DEF IInv
<1>. QED  BY <1>1, <1>2

\* A child that waits holds nothing.
LEMMA SpawnSafe ==
  ASSUME IInv, NEW l \in Launchers, LauncherAssumption,
         Spawn(l)
  PROVE  IInv'
<1> USE DEF At, Goto, shared, window, Spawn
<1>1. TypeOK'
  BY DEF IInv, TypeOK, Alive, Working, StartInHand, OwnSession, Creating, Running
<1>2. \A m \in Launchers : LockKept(m)'
  BY DEF IInv, TypeOK, LockKept
<1>3. \A m \in Launchers : StartInHand(m)'
  BY DEF IInv, TypeOK, StartInHand, OwnSession, Held, Earned, Creating, Early, Alive, Working, Running
<1>4. \A m \in Launchers : OwnSession(m)'
  BY DEF IInv, TypeOK, OwnSession, StartInHand, Creating, Early, Alive, Running, After
<1>6. \A t \in Sessions : Held(t)'
  BY DEF IInv, TypeOK, Held, OwnSession, StartInHand, Creating, Early, Alive, Running
<1>7. \A t \in Sessions : Earned(t)'
  BY DEF IInv, TypeOK, Earned, Held, OwnSession, StartInHand, Creating, Early, Alive, Working, Running
<1>. QED  BY <1>1, <1>2, <1>3, <1>4, <1>6, <1>7 DEF IInv

\* A child is in the job before its commit.
LEMMA AssignSafe ==
  ASSUME IInv, NEW l \in Launchers, LauncherAssumption,
         Assign(l)
  PROVE  IInv'
<1> USE DEF At, Goto, shared, window, Assign
<1>1. TypeOK'
  BY DEF IInv, TypeOK, Alive, Working, StartInHand, OwnSession, Creating, Running
<1>2. \A m \in Launchers : LockKept(m)'
  BY DEF IInv, TypeOK, LockKept
<1>3. \A m \in Launchers : StartInHand(m)'
  BY DEF IInv, TypeOK, StartInHand, OwnSession, Held, Earned, Creating, Early, Alive, Working, Running
<1>4. \A m \in Launchers : OwnSession(m)'
  BY DEF IInv, TypeOK, OwnSession, StartInHand, Creating, Early, Alive, Running, After
<1>6. \A t \in Sessions : Held(t)'
  BY DEF IInv, TypeOK, Held, OwnSession, StartInHand, Creating, Early, Alive, Running
<1>7. \A t \in Sessions : Earned(t)'
  BY DEF IInv, TypeOK, Earned, Held, OwnSession, StartInHand, Creating, Early, Alive, Working, Running
<1>. QED  BY <1>1, <1>2, <1>3, <1>4, <1>6, <1>7 DEF IInv

\* The session becomes complete, and the manager has it.
LEMMA CommitPidSafe ==
  ASSUME IInv, NEW l \in Launchers, LauncherAssumption,
         CommitPid(l)
  PROVE  IInv'
<1> USE DEF At, Goto, shared, window, CommitPid
<1>1. TypeOK'
  BY DEF IInv, TypeOK, Alive, Working, StartInHand, OwnSession, Creating, Running
<1>2. \A m \in Launchers : LockKept(m)'
  BY DEF IInv, TypeOK, LockKept
<1>3. \A m \in Launchers : StartInHand(m)'
  BY DEF IInv, TypeOK, StartInHand, OwnSession, Held, Earned, Creating, Early, Alive, Working, Running
<1>4. \A m \in Launchers : OwnSession(m)'
  BY DEF IInv, TypeOK, OwnSession, StartInHand, Creating, Early, Alive, Running, After
<1>6. \A t \in Sessions : Held(t)'
  BY DEF IInv, TypeOK, Held, OwnSession, StartInHand, Creating, Early, Alive, Running
<1>7. \A t \in Sessions : Earned(t)'
  BY DEF IInv, TypeOK, Earned, Held, OwnSession, StartInHand, Creating, Early, Alive, Working, Running
<1>. QED  BY <1>1, <1>2, <1>3, <1>4, <1>6, <1>7 DEF IInv

\* A child that a failed start could not kill has no journal and only waits.
LEMMA StartFailsSafe ==
  ASSUME IInv, NEW l \in Launchers, LauncherAssumption,
         StartFails(l)
  PROVE  IInv'
<1>0. /\ session' \in [Sessions -> Session]
      /\ \A t \in Sessions : session'[t] = session[t] \/ (t = begun[l] /\ session'[t].state = "gone" /\ session'[t].by = session[t].by)
  <2>1. begun[l] \in Sessions /\ session' = [session EXCEPT ![begun[l]] = Removed(@)]
    BY DEF IInv, TypeOK, StartInHand, StartFails, At, Creating
  <2>. QED  BY <2>1, GoneTyped DEF IInv
<1> USE DEF At, Goto, shared, window, StartFails, Spend
<1>1. TypeOK'
  <2>1. begun[l] \in Sessions
    BY DEF IInv, TypeOK, StartInHand, Creating
  <2>2. child' \in [Sessions -> {"none", "dead"} \cup Alive] /\ jobbed' \subseteq {t \in Sessions : child'[t] \in Alive}
    BY <2>1 DEF IInv, TypeOK, Alive
  <2>3. /\ pc' = [pc EXCEPT ![l] = "up"] /\ begun' = [begun EXCEPT ![l] = Nobody]
        /\ UNCHANGED <<holder, tree, aside, root, due, dialog, shown, mine, moved>>
    OBVIOUS
  <2>4. events' \in 0 .. MaxEvents
    BY DEF IInv, TypeOK, LauncherAssumption
  <2>. QED  BY <1>0, <2>2, <2>3, <2>4 DEF IInv, TypeOK, Session, Alive
<1>2. \A m \in Launchers : LockKept(m)'
  BY DEF IInv, TypeOK, LockKept
<1>3. \A m \in Launchers : StartInHand(m)'
  BY <1>0 DEF IInv, TypeOK, StartInHand, OwnSession, Held, Earned, Creating, Early, Alive, Working, Running
<1>4. \A m \in Launchers : OwnSession(m)'
  BY <1>0 DEF IInv, TypeOK, OwnSession, StartInHand, Creating, Early, Alive, Running, After
<1>6. \A t \in Sessions : Held(t)'
  BY <1>0 DEF IInv, TypeOK, Held, OwnSession, StartInHand, Creating, Early, Alive, Running
<1>7. \A t \in Sessions : Earned(t)'
  BY <1>0 DEF IInv, TypeOK, Earned, Held, OwnSession, StartInHand, Creating, Early, Alive, Working, Running
<1>. QED  BY <1>1, <1>2, <1>3, <1>4, <1>6, <1>7 DEF IInv

\* A child works only with a complete session.
LEMMA ChildStepSafe ==
  ASSUME IInv, NEW s \in Sessions, LauncherAssumption,
         ChildStep(s)
  PROVE  IInv'
<1> USE DEF At, Goto, shared, window, ChildStep, ChildVerify, Verified, Die, ChildGivesUp, ChildServe, ChildFails, ChildStop, Spend
<1>1. TypeOK'
  <2>1. child' \in [Sessions -> {"none", "dead"} \cup Alive]
    <3>1. \E c \in {"starting", "serving", "draining", "dead"} : child' = [child EXCEPT ![s] = c]
      OBVIOUS
    <3>. QED  BY <3>1 DEF IInv, TypeOK, Alive
  <2>2. jobbed' \subseteq {t \in Sessions : child'[t] \in Alive}
    BY DEF IInv, TypeOK, Alive, Working
  <2>3. events' \in 0 .. MaxEvents
    BY DEF IInv, TypeOK, LauncherAssumption
  <2>4. UNCHANGED <<holder, tree, aside, pc, root, due, dialog, shown, begun, mine, session, moved>>
    OBVIOUS
  <2>. QED  BY <2>1, <2>2, <2>3, <2>4 DEF IInv, TypeOK
<1>2. \A m \in Launchers : LockKept(m)'
  BY DEF IInv, TypeOK, LockKept
<1>3. \A m \in Launchers : StartInHand(m)'
  BY DEF IInv, TypeOK, StartInHand, OwnSession, Held, Earned, Creating, Early, Alive, Working, Running
<1>4. \A m \in Launchers : OwnSession(m)'
  BY DEF IInv, TypeOK, OwnSession, StartInHand, Creating, Early, Alive, Running, After
<1>6. \A t \in Sessions : Held(t)'
  BY DEF IInv, TypeOK, Held, OwnSession, StartInHand, Creating, Early, Alive, Running
<1>7. \A t \in Sessions : Earned(t)'
  BY DEF IInv, TypeOK, Earned, Held, OwnSession, StartInHand, Creating, Early, Alive, Working, Running
<1>. QED  BY <1>1, <1>2, <1>3, <1>4, <1>6, <1>7 DEF IInv

\* Only the display changes.
LEMMA PollHealthSafe ==
  ASSUME IInv, NEW l \in Launchers, LauncherAssumption,
         PollHealth(l)
  PROVE  IInv'
<1> USE DEF At, Goto, shared, window, PollHealth
<1>1. TypeOK'
  BY DEF IInv, TypeOK, Alive, Working, StartInHand, OwnSession, Creating, Running
<1>2. \A m \in Launchers : LockKept(m)'
  BY DEF IInv, TypeOK, LockKept
<1>3. \A m \in Launchers : StartInHand(m)'
  BY DEF IInv, TypeOK, StartInHand, OwnSession, Held, Earned, Creating, Early, Alive, Working, Running
<1>4. \A m \in Launchers : OwnSession(m)'
  BY DEF IInv, TypeOK, OwnSession, StartInHand, Creating, Early, Alive, Running, After
<1>6. \A t \in Sessions : Held(t)'
  BY DEF IInv, TypeOK, Held, OwnSession, StartInHand, Creating, Early, Alive, Running
<1>7. \A t \in Sessions : Earned(t)'
  BY DEF IInv, TypeOK, Earned, Held, OwnSession, StartInHand, Creating, Early, Alive, Working, Running
<1>. QED  BY <1>1, <1>2, <1>3, <1>4, <1>6, <1>7 DEF IInv

\* Only the session of a child that ended is cleaned up.
LEMMA PollExitSafe ==
  ASSUME IInv, NEW l \in Launchers, LauncherAssumption,
         PollExit(l)
  PROVE  IInv'
<1>0. /\ session' \in [Sessions -> Session]
      /\ \A t \in Sessions : session'[t] = session[t] \/ (t = mine[l] /\ session'[t].state = "gone" /\ session'[t].by = session[t].by)
  <2>1. mine[l] \in Sessions /\ session \in [Sessions -> Session]
    BY DEF IInv, TypeOK, Session, OwnSession, PollExit
  <2>2. CASE session' = [session EXCEPT ![mine[l]] = Removed(@)]
    BY <2>1, <2>2, GoneTyped DEF IInv
  <2>3. CASE UNCHANGED session
    BY <2>1, <2>3
  <2>. QED  BY <2>2, <2>3 DEF PollExit, Cleanup
<1> USE DEF At, Goto, shared, window, PollExit, Cleanup, Exists, Spend
<1>1. TypeOK'
  <2>1. mine[l] \in Sessions
    BY DEF IInv, TypeOK, OwnSession
  <2>2. pc' \in [Launchers -> {"off", "stage", "place", "check", "rollback", "undo", "select", "up",
                             "spawn", "assign", "commit", "expiring", "stopping", "leaving", "gone"}]
    BY DEF IInv, TypeOK
  <2>3. child' \in [Sessions -> {"none", "dead"} \cup Alive] /\ jobbed' \subseteq {t \in Sessions : child'[t] \in Alive}
    BY <2>1 DEF IInv, TypeOK, Alive, Running
  <2>4. /\ events' \in 0 .. MaxEvents /\ mine' \in [Launchers -> Sessions \cup {Nobody}]
        /\ shown' \in [Launchers -> {"stopped", "starting", "ready", "late"}]
    BY DEF IInv, TypeOK, LauncherAssumption
  <2>5. UNCHANGED <<holder, tree, aside, root, due, dialog, begun, moved>>
    OBVIOUS
  <2>. QED  BY <1>0, <2>2, <2>3, <2>4, <2>5 DEF IInv, TypeOK, Session
<1>2. \A m \in Launchers : LockKept(m)'
  BY DEF IInv, TypeOK, LockKept
<1>3. \A m \in Launchers : StartInHand(m)'
  BY <1>0 DEF IInv, TypeOK, StartInHand, OwnSession, Held, Earned, Creating, Early, Alive, Working, Running
<1>4. \A m \in Launchers : OwnSession(m)'
  BY <1>0 DEF IInv, TypeOK, OwnSession, StartInHand, Creating, Early, Alive, Running, After
<1>6. \A t \in Sessions : Held(t)'
  BY <1>0 DEF IInv, TypeOK, Held, OwnSession, StartInHand, Creating, Early, Alive, Running
<1>7. \A t \in Sessions : Earned(t)'
  BY <1>0 DEF IInv, TypeOK, Earned, Held, OwnSession, StartInHand, Creating, Early, Alive, Working, Running
<1>. QED  BY <1>1, <1>2, <1>3, <1>4, <1>6, <1>7 DEF IInv

\* A stop that was asked for leaves the session in place.
LEMMA PollDeadlineSafe ==
  ASSUME IInv, NEW l \in Launchers, LauncherAssumption,
         PollDeadline(l)
  PROVE  IInv'
<1> USE DEF At, Goto, shared, window, PollDeadline, AskToStop, Spend
<1>1. TypeOK'
  <2>1. session' \in [Sessions -> Session]
    <3>1. CASE Running(l) /\ AskToStop(l)
      BY <3>1, StopTyped DEF IInv
    <3>2. CASE UNCHANGED session
      BY <3>2 DEF IInv, TypeOK, Session
    <3>. QED  BY <3>1, <3>2
  <2>2. /\ shown' \in [Launchers -> {"stopped", "starting", "ready", "late"}]
        /\ events' \in 0 .. MaxEvents
    BY DEF IInv, TypeOK, LauncherAssumption
  <2>. QED  BY <2>1, <2>2 DEF IInv, TypeOK, Session, Alive, Working, StartInHand, OwnSession, Creating, Running
<1>2. \A m \in Launchers : LockKept(m)'
  BY DEF IInv, TypeOK, LockKept
<1>3. \A m \in Launchers : StartInHand(m)'
  BY DEF IInv, TypeOK, StartInHand, OwnSession, Held, Earned, Creating, Early, Alive, Working, Running
<1>4. \A m \in Launchers : OwnSession(m)'
  BY DEF IInv, TypeOK, OwnSession, StartInHand, Creating, Early, Alive, Running, After
<1>6. \A t \in Sessions : Held(t)'
  <2>1. ASSUME NEW t \in Sessions
        PROVE  /\ session'[t].state = session[t].state /\ session'[t].root = session[t].root
               /\ session'[t].by = session[t].by
    BY DEF IInv, TypeOK
  <2>2. ASSUME NEW t \in Sessions  PROVE Held(t)'
    <3>1. Held(t)
      BY DEF IInv
    <3>. QED  BY <2>1, <3>1 DEF Held
  <2>. QED  BY <2>2
<1>7. \A t \in Sessions : Earned(t)'
  BY DEF IInv, TypeOK, Earned, Held, OwnSession, StartInHand, Creating, Early, Alive, Working, Running
<1>. QED  BY <1>1, <1>2, <1>3, <1>4, <1>6, <1>7 DEF IInv

\* So does the stop button.
LEMMA StopBackendSafe ==
  ASSUME IInv, NEW l \in Launchers, LauncherAssumption,
         StopBackend(l)
  PROVE  IInv'
<1> USE DEF At, Goto, shared, window, StopBackend, AskToStop
<1>1. TypeOK'
  <2>1. session' \in [Sessions -> Session]
    BY StopTyped DEF IInv
  <2>. QED  BY <2>1 DEF IInv, TypeOK, Session, Alive, Working, StartInHand, OwnSession, Creating, Running
<1>2. \A m \in Launchers : LockKept(m)'
  BY DEF IInv, TypeOK, LockKept
<1>3. \A m \in Launchers : StartInHand(m)'
  BY DEF IInv, TypeOK, StartInHand, OwnSession, Held, Earned, Creating, Early, Alive, Working, Running
<1>4. \A m \in Launchers : OwnSession(m)'
  BY DEF IInv, TypeOK, OwnSession, StartInHand, Creating, Early, Alive, Running, After
<1>6. \A t \in Sessions : Held(t)'
  <2>1. ASSUME NEW t \in Sessions
        PROVE  /\ session'[t].state = session[t].state /\ session'[t].root = session[t].root
               /\ session'[t].by = session[t].by
    BY DEF IInv, TypeOK
  <2>2. ASSUME NEW t \in Sessions  PROVE Held(t)'
    <3>1. Held(t)
      BY DEF IInv
    <3>. QED  BY <2>1, <3>1 DEF Held
  <2>. QED  BY <2>2
<1>7. \A t \in Sessions : Earned(t)'
  BY DEF IInv, TypeOK, Earned, Held, OwnSession, StartInHand, Creating, Early, Alive, Working, Running
<1>. QED  BY <1>1, <1>2, <1>3, <1>4, <1>6, <1>7 DEF IInv

\* Only the session of a child that ended is cleaned up.
LEMMA StoppedSafe ==
  ASSUME IInv, NEW l \in Launchers, LauncherAssumption,
         Stopped(l)
  PROVE  IInv'
<1>0. /\ session' \in [Sessions -> Session]
      /\ \A t \in Sessions : session'[t] = session[t] \/ (t = mine[l] /\ session'[t].state = "gone" /\ session'[t].by = session[t].by)
  <2>1. mine[l] \in Sessions /\ session \in [Sessions -> Session]
    BY DEF IInv, TypeOK, Session, OwnSession, Stopped
  <2>2. CASE session' = [session EXCEPT ![mine[l]] = Removed(@)]
    BY <2>1, <2>2, GoneTyped DEF IInv
  <2>3. CASE UNCHANGED session
    BY <2>1, <2>3
  <2>. QED  BY <2>2, <2>3 DEF Stopped, Cleanup
<1> USE DEF At, Goto, shared, window, Stopped, Cleanup, Exists, Spend, After
<1>1. TypeOK'
  <2>1. mine[l] \in Sessions
    BY DEF IInv, TypeOK, OwnSession
  <2>2. pc' \in [Launchers -> {"off", "stage", "place", "check", "rollback", "undo", "select", "up",
                             "spawn", "assign", "commit", "expiring", "stopping", "leaving", "gone"}]
    BY DEF IInv, TypeOK
  <2>3. child' \in [Sessions -> {"none", "dead"} \cup Alive] /\ jobbed' \subseteq {t \in Sessions : child'[t] \in Alive}
    BY <2>1 DEF IInv, TypeOK, Alive, Running
  <2>4. /\ events' \in 0 .. MaxEvents /\ mine' \in [Launchers -> Sessions \cup {Nobody}]
        /\ shown' \in [Launchers -> {"stopped", "starting", "ready", "late"}]
    BY DEF IInv, TypeOK, LauncherAssumption
  <2>5. UNCHANGED <<holder, tree, aside, root, due, dialog, begun, moved>>
    OBVIOUS
  <2>. QED  BY <1>0, <2>2, <2>3, <2>4, <2>5 DEF IInv, TypeOK, Session
<1>2. \A m \in Launchers : LockKept(m)'
  BY DEF IInv, TypeOK, LockKept
<1>3. \A m \in Launchers : StartInHand(m)'
  BY <1>0 DEF IInv, TypeOK, StartInHand, OwnSession, Held, Earned, Creating, Early, Alive, Working, Running
<1>4. \A m \in Launchers : OwnSession(m)'
  BY <1>0 DEF IInv, TypeOK, OwnSession, StartInHand, Creating, Early, Alive, Running, After
<1>6. \A t \in Sessions : Held(t)'
  BY <1>0 DEF IInv, TypeOK, Held, OwnSession, StartInHand, Creating, Early, Alive, Running
<1>7. \A t \in Sessions : Earned(t)'
  BY <1>0 DEF IInv, TypeOK, Earned, Held, OwnSession, StartInHand, Creating, Early, Alive, Working, Running
<1>. QED  BY <1>1, <1>2, <1>3, <1>4, <1>6, <1>7 DEF IInv

\* The killed child leaves the job.
LEMMA KillSafe ==
  ASSUME IInv, NEW l \in Launchers, LauncherAssumption,
         Kill(l)
  PROVE  IInv'
<1> USE DEF At, Goto, shared, window, Kill, Die, After
<1>1. TypeOK'
  BY DEF IInv, TypeOK, Alive, Working, StartInHand, OwnSession, Creating, Running
<1>2. \A m \in Launchers : LockKept(m)'
  BY DEF IInv, TypeOK, LockKept
<1>3. \A m \in Launchers : StartInHand(m)'
  BY DEF IInv, TypeOK, StartInHand, OwnSession, Held, Earned, Creating, Early, Alive, Working, Running
<1>4. \A m \in Launchers : OwnSession(m)'
  BY DEF IInv, TypeOK, OwnSession, StartInHand, Creating, Early, Alive, Running, After
<1>6. \A t \in Sessions : Held(t)'
  BY DEF IInv, TypeOK, Held, OwnSession, StartInHand, Creating, Early, Alive, Running
<1>7. \A t \in Sessions : Earned(t)'
  BY DEF IInv, TypeOK, Earned, Held, OwnSession, StartInHand, Creating, Early, Alive, Working, Running
<1>. QED  BY <1>1, <1>2, <1>3, <1>4, <1>6, <1>7 DEF IInv

\* A child that outlives its kill stays in the job, and the lock is kept.
LEMMA KillFailsSafe ==
  ASSUME IInv, NEW l \in Launchers, LauncherAssumption,
         KillFails(l)
  PROVE  IInv'
<1> USE DEF At, Goto, shared, window, KillFails, Spend, After
<1>1. TypeOK'
  <2>1. mine[l] \in Sessions
    BY DEF IInv, TypeOK, OwnSession
  <2>2. pc' \in [Launchers -> {"off", "stage", "place", "check", "rollback", "undo", "select", "up",
                             "spawn", "assign", "commit", "expiring", "stopping", "leaving", "gone"}]
    BY DEF IInv, TypeOK
  <2>3. child' \in [Sessions -> {"none", "dead"} \cup Alive] /\ jobbed' \subseteq {t \in Sessions : child'[t] \in Alive}
    BY <2>1 DEF IInv, TypeOK, Alive, Running
  <2>4. events' \in 0 .. MaxEvents /\ shown' \in [Launchers -> {"stopped", "starting", "ready", "late"}]
    BY DEF IInv, TypeOK, LauncherAssumption
  <2>5. UNCHANGED <<holder, tree, aside, root, due, dialog, begun, mine, session, jobbed, moved>>
    OBVIOUS
  <2>. QED  BY <2>2, <2>3, <2>4, <2>5 DEF IInv, TypeOK
<1>2. \A m \in Launchers : LockKept(m)'
  BY DEF IInv, TypeOK, LockKept
<1>3. \A m \in Launchers : StartInHand(m)'
  BY DEF IInv, TypeOK, StartInHand, OwnSession, Held, Earned, Creating, Early, Alive, Working, Running
<1>4. \A m \in Launchers : OwnSession(m)'
  BY DEF IInv, TypeOK, OwnSession, StartInHand, Creating, Early, Alive, Running, After
<1>6. \A t \in Sessions : Held(t)'
  BY DEF IInv, TypeOK, Held, OwnSession, StartInHand, Creating, Early, Alive, Running
<1>7. \A t \in Sessions : Earned(t)'
  BY DEF IInv, TypeOK, Earned, Held, OwnSession, StartInHand, Creating, Early, Alive, Working, Running
<1>. QED  BY <1>1, <1>2, <1>3, <1>4, <1>6, <1>7 DEF IInv

\* The lock is kept while the child goes on.
LEMMA ExitSafe ==
  ASSUME IInv, NEW l \in Launchers, LauncherAssumption,
         Exit(l)
  PROVE  IInv'
<1> USE DEF At, Goto, shared, window, Exit, AskToStop, Spend
<1>1. TypeOK'
  <2>1. session' \in [Sessions -> Session]
    <3>1. CASE Running(l) /\ AskToStop(l)
      BY <3>1, StopTyped DEF IInv
    <3>2. CASE UNCHANGED session
      BY <3>2 DEF IInv, TypeOK, Session
    <3>. QED  BY <3>1, <3>2
  <2>. QED  BY <2>1 DEF IInv, TypeOK, Session, Alive, Working, StartInHand, OwnSession, Creating, Running
<1>2. \A m \in Launchers : LockKept(m)'
  BY DEF IInv, TypeOK, LockKept
<1>3. \A m \in Launchers : StartInHand(m)'
  BY DEF IInv, TypeOK, StartInHand, OwnSession, Held, Earned, Creating, Early, Alive, Working, Running
<1>4. \A m \in Launchers : OwnSession(m)'
  BY DEF IInv, TypeOK, OwnSession, StartInHand, Creating, Early, Alive, Running, After
<1>6. \A t \in Sessions : Held(t)'
  <2>1. ASSUME NEW t \in Sessions
        PROVE  /\ session'[t].state = session[t].state /\ session'[t].root = session[t].root
               /\ session'[t].by = session[t].by
    BY DEF IInv, TypeOK
  <2>2. ASSUME NEW t \in Sessions  PROVE Held(t)'
    <3>1. Held(t)
      BY DEF IInv
    <3>. QED  BY <2>1, <3>1 DEF Held
  <2>. QED  BY <2>2
<1>7. \A t \in Sessions : Earned(t)'
  BY DEF IInv, TypeOK, Earned, Held, OwnSession, StartInHand, Creating, Early, Alive, Working, Running
<1>. QED  BY <1>1, <1>2, <1>3, <1>4, <1>6, <1>7 DEF IInv

\* The end of the process frees its lock, and its job ends the child that relied on it.
LEMMA VanishSafe ==
  ASSUME IInv, NEW l \in Launchers, LauncherAssumption,
         Vanish(l), pc[l] # "off", events' \in 0 .. MaxEvents
  PROVE  IInv'
<1> USE DEF At, Goto, shared, window, Vanish, OwnJob
<1>1. TypeOK'
  BY DEF IInv, TypeOK, Alive, Working, StartInHand, OwnSession, Creating, Running
<1>2. \A m \in Launchers : LockKept(m)'
  BY DEF IInv, TypeOK, LockKept
<1>3. \A m \in Launchers : StartInHand(m)'
  BY DEF IInv, TypeOK, StartInHand, OwnSession, Held, Earned, Creating, Early, Alive, Working, Running
<1>4. \A m \in Launchers : OwnSession(m)'
  BY DEF IInv, TypeOK, OwnSession, StartInHand, Creating, Early, Alive, Running, After
<1>6. \A t \in Sessions : Held(t)'
  BY DEF IInv, TypeOK, Held, OwnSession, StartInHand, Creating, Early, Alive, Running
<1>7. \A t \in Sessions : Earned(t)'
  BY DEF IInv, TypeOK, Earned, Held, OwnSession, StartInHand, Creating, Early, Alive, Working, Running
<1>. QED  BY <1>1, <1>2, <1>3, <1>4, <1>6, <1>7 DEF IInv

-----------------------------------------------------------------------------
(* The theorems.                                                           *)

\* Before any launcher starts there is no lock, no session and no child.
LEMMA InitSafe ==
  ASSUME Init, LauncherAssumption  PROVE IInv
<1>1. TypeOK
  BY DEF Init, TypeOK, Absent, Alive, LauncherAssumption
<1>2. \A l \in Launchers : LockKept(l) /\ StartInHand(l) /\ OwnSession(l)
  BY DEF Init, LockKept, StartInHand, OwnSession, Creating, Early, Running, After
<1>3. \A s \in Sessions : Held(s) /\ Earned(s)
  BY DEF Init, Held, Earned, Alive, Working, Absent
<1>. QED  BY <1>1, <1>2, <1>3 DEF IInv

LEMMA NextSafe ==
  ASSUME IInv, [Next]_vars, LauncherAssumption
  PROVE  IInv'
<1>1. ASSUME NEW l \in Launchers, BootStep(l)  PROVE IInv'
  BY <1>1, BootSafe, TreeSafe, SelectRootSafe DEF BootStep
<1>2. ASSUME NEW l \in Launchers, RootStep(l)  PROVE IInv'
  BY <1>2, OpenDialogSafe, CloseDialogSafe DEF RootStep
<1>3. ASSUME NEW l \in Launchers, StartStep(l)  PROVE IInv'
  BY <1>3, StartBackendSafe, SpawnSafe, AssignSafe, CommitPidSafe, StartFailsSafe DEF StartStep
<1>4. ASSUME NEW l \in Launchers, WatchStep(l)  PROVE IInv'
  BY <1>4, PollHealthSafe, PollExitSafe, PollDeadlineSafe, StopBackendSafe, StoppedSafe, KillSafe,
     KillFailsSafe
     DEF WatchStep
<1>5. ASSUME NEW l \in Launchers, EndStep(l)  PROVE IInv'
  <2>1. CASE Exit(l)
    BY <2>1, ExitSafe
  <2>2. CASE Leave(l) \/ Crash(l)
    <3>1. Vanish(l) /\ pc[l] # "off" /\ events' \in 0 .. MaxEvents
      BY <2>2 DEF Leave, Crash, Spend, At, IInv, TypeOK, LauncherAssumption
    <3>. QED  BY <3>1, VanishSafe
  <2>. QED  BY <1>5, <2>1, <2>2 DEF EndStep
<1>6. ASSUME NEW s \in Sessions, ChildStep(s)  PROVE IInv'
  BY <1>6, ChildStepSafe
<1>7. CASE UNCHANGED vars
  BY <1>7 DEF vars, shared, window, IInv, TypeOK, LockKept, StartInHand, OwnSession,
             Held, Earned, Running
<1>. QED  BY <1>1, <1>2, <1>3, <1>4, <1>5, <1>6, <1>7 DEF Next

\* Custody of the children holds in every state, whatever the user and the timers do.
THEOREM LauncherInv == Spec => []IInv
<1>1. Init => IInv
  BY InitSafe, LauncherAssumption
<1>2. IInv /\ [Next]_vars => IInv'
  BY NextSafe, LauncherAssumption
<1>. QED  BY <1>1, <1>2, PTL DEF Spec

\* Of two backends that work on one root, both launchers have its lock: they are one
\* launcher, whose manager has one session.
LEMMA CustodyIsSafe ==
  ASSUME IInv, LauncherAssumption  PROVE ServersAreSafe
<1>1. ASSUME NEW s \in Sessions, child[s] \in Working
      PROVE  /\ session[s].state = "complete"
             /\ session[s].by \in Launchers /\ mine[session[s].by] = s
             /\ s \notin moved => holder[session[s].root] = session[s].by
  BY <1>1 DEF IInv, Earned, Held, LockKept, Alive, Working
<1>2. ServerHasSession
  BY <1>1 DEF ServerHasSession
<1>3. ServerIsLocked
  <2>1. ASSUME NEW s \in Sessions \ moved, NEW q \in Sessions \ moved, child[s] \in Working, child[q] \in Working,
               session[q].root = session[s].root
        PROVE  q = s
    BY <1>1, <2>1
  <2>. QED  BY <1>1, <2>1 DEF ServerIsLocked
<1>. QED  BY <1>2, <1>3 DEF ServersAreSafe, IInv

\* A backend that works is the only one on its data root, its launcher has the lock of
\* that root, and its session directory is there: over failed starts, kills that fail,
\* crashes and any number of launchers, but for the lock of a backend whose root was
\* moved by a dialog that was opened before its start (moved: gui.py:279 and 344).
THEOREM ServersSafe == Spec => []ServersAreSafe
<1>1. IInv => ServersAreSafe
  BY CustodyIsSafe, LauncherAssumption
<1>. QED  BY <1>1, LauncherInv, PTL

=============================================================================

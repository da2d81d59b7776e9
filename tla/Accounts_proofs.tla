-------------------------- MODULE Accounts_proofs --------------------------
(***************************************************************************)
(* Accounts, sessions and the upgrade of an old database, for any users,   *)
(* threads, limits and bounds.  First the upgrade: wherever it fails or    *)
(* dies, the database it came from is kept.  Then the requests: whatever   *)
(* their interleaving, sessions stay within the limit and belong to the    *)
(* present password, and where the application runs there is one           *)
(* administrator.                                                          *)
(***************************************************************************)
EXTENDS Accounts, SequenceTheorems, FiniteSetTheorems, WellFoundedInduction, TLAPS

Copies == [of : 2 .. Current, whole : BOOLEAN]
Newest == backups[Len(backups)]

(***************************************************************************)
(* A copy is begun for an old schema and is the newest until the schema is *)
(* the present one; then no copy is begun any more, and the pruning keeps  *)
(* the newest.  So what `mode` says of the start says what the newest copy *)
(* is worth.                                                               *)
(***************************************************************************)
UpgradeInv ==
  /\ schema \in 2 .. Current /\ origin \in 2 .. Current /\ backups \in Seq(Copies)
  /\ boot \in {"local", "server"}
  /\ schema # Current => schema = origin /\ mode \in {"down", "copying", "migrating"}
  /\ mode \in {"copying", "migrating"} => schema # Current /\ backups # <<>>
  /\ mode = "migrating" => Newest = [of |-> schema, whole |-> TRUE]
  /\ origin # schema => backups # <<>> /\ Newest = [of |-> origin, whole |-> TRUE]

LEMMA AppendNewest ==
  ASSUME NEW S, NEW s \in Seq(S), NEW e \in S
  PROVE  /\ Append(s, e) \in Seq(S) /\ Append(s, e) # <<>>
         /\ Append(s, e)[Len(Append(s, e))] = e
BY AppendProperties

LEMMA FrontIsSequence ==
  ASSUME NEW S, NEW s \in Seq(S), s # <<>>
  PROVE  Front(s) \in Seq(S)
BY EmptySeq, SubSeqProperties DEF Front

\* The newest copies, at least one of them, include the newest.
LEMMA SuffixNewest ==
  ASSUME NEW S, NEW s \in Seq(S), NEW k \in Nat \ {0}
  PROVE  LET cut == SubSeq(s, Max({Len(s) - k, 0}) + 1, Len(s)) IN
         /\ cut \in Seq(S)
         /\ s # <<>> => cut # <<>> /\ cut[Len(cut)] = s[Len(s)]
<1> DEFINE n == Len(s)
           m == IF n - k > 0 THEN n - k ELSE 0
<1>1. n \in Nat /\ (s # <<>> => n > 0)
  BY EmptySeq
<1>2. m \in 0 .. n /\ (n > 0 => m < n)
  BY <1>1
<1>3. Max({n - k, 0}) = m
  <2>1. m \in {n - k, 0} /\ \A x \in {n - k, 0} : m >= x
    BY <1>1
  <2>2. \A y \in {n - k, 0} : (\A x \in {n - k, 0} : y >= x) => y = m
    BY <1>1
  <2> QED BY <2>1, <2>2 DEF Max
<1>4. /\ SubSeq(s, m + 1, n) \in Seq(S)
      /\ Len(SubSeq(s, m + 1, n)) = n - m
      /\ n > 0 => SubSeq(s, m + 1, n)[n - m] = s[n]
  <2> HIDE DEF n, m
  <2>1. \A i \in m + 1 .. n : s[i] \in S
    BY <1>1, <1>2, LenProperties DEF n
  <2>2. /\ SubSeq(s, m + 1, n) \in Seq(S)
        /\ Len(SubSeq(s, m + 1, n)) = IF m + 1 <= n THEN n - (m + 1) + 1 ELSE 0
        /\ \A i \in 1 .. n - (m + 1) + 1 : SubSeq(s, m + 1, n)[i] = s[(m + 1) + i - 1]
    <3>1. m + 1 \in Int /\ n \in Int
      BY <1>1, <1>2
    <3> QED BY <2>1, <3>1, SubSeqProperties, Z3
  <2>3. Len(SubSeq(s, m + 1, n)) = n - m
    BY <1>1, <1>2, <2>2
  <2>4. n > 0 => n - m \in 1 .. n - (m + 1) + 1 /\ (m + 1) + (n - m) - 1 = n
    BY <1>1, <1>2
  <2>5. n > 0 => SubSeq(s, m + 1, n)[n - m] = s[(m + 1) + (n - m) - 1]
    BY <2>2, <2>4
  <2>6. n > 0 => SubSeq(s, m + 1, n)[n - m] = s[n]
    BY <2>4, <2>5, Zenon
  <2> QED BY <2>2, <2>3, <2>6, Zenon
<1> DEFINE cut == SubSeq(s, m + 1, n)
<1>5. cut \in Seq(S) /\ (n > 0 => cut # <<>> /\ cut[Len(cut)] = s[n])
  <2> HIDE DEF m, n
  <2>1. cut \in Seq(S) /\ Len(cut) = n - m
    BY <1>4
  <2>2. n > 0 => Len(cut) # 0
    BY <1>1, <1>2, <2>1
  <2>3. n > 0 => cut # <<>>
    BY <2>2, EmptySeq
  <2>4. n > 0 => cut[Len(cut)] = s[n]
    BY <1>4, <2>1
  <2> QED BY <2>1, <2>3, <2>4
<1>6. cut = SubSeq(s, Max({Len(s) - k, 0}) + 1, Len(s))
  BY <1>3
<1> HIDE DEF cut, m
<1> QED BY <1>1, <1>5, <1>6

-----------------------------------------------------------------------------
LEMMA UpgradeInit == Init => UpgradeInv
<1> SUFFICES ASSUME Init PROVE UpgradeInv
  OBVIOUS
<1>1. CASE InitNew
  BY <1>1 DEF InitNew, UpgradeInv, Current
<1>2. CASE InitOld
  <2>1. /\ mode = "down" /\ boot = "local" /\ backups = <<>>
        /\ schema \in 2 .. Current - 1 /\ origin = schema
    BY <1>2 DEF InitOld
  <2> QED BY <2>1 DEF UpgradeInv, Current
<1> QED BY <1>1, <1>2 DEF Init

\* Requests, the clock and the cleaner touch nothing of the upgrade.
LEMMA RequestsElsewhere ==
  ASSUME NEW t \in Threads, SessionCheck(t) \/ SessionRequests(t) \/ AdminRequests(t)
  PROVE  UNCHANGED <<mode, boot, schema, origin, backups>>
<1>1. CASE SessionCheck(t)
  BY <1>1 DEF SessionCheck, Check, EndExpired, Touch, SkipTouch, Answer, fileVars
<1>2. CASE SessionRequests(t)
  BY <1>2 DEF SessionRequests, Verify, OpenSession, Logout, RevokeOthers, Revoke, ChangePassword,
              RevokeSession, Setup, Login, BeginChange, fileVars
<1>3. CASE AdminRequests(t)
  BY <1>3 DEF AdminRequests, RevokeDisabled, ResetPassword, DisableUser, EnableUser, RevokeAll,
              Revoke, CreateUser, BeginReset, fileVars
<1> QED BY <1>1, <1>2, <1>3

LEMMA BootKeeps ==
  ASSUME UpgradeInv, Boot
  PROVE  UpgradeInv'
<1> USE DatabaseAssumption DEF UpgradeInv, Newest
<1>1. CASE \E m \in {"local", "server"} : CreateBackup(m)
  <2> DEFINE copy == [of |-> schema, whole |-> FALSE]
  <2>1. copy \in Copies
    BY DEF Copies
  <2>2. /\ backups' = Append(backups, copy) /\ mode' = "copying" /\ schema < Current
        /\ boot' \in {"local", "server"} /\ UNCHANGED <<schema, origin>>
    BY <1>1 DEF CreateBackup, Stays
  <2>3. backups' \in Seq(Copies) /\ backups' # <<>> /\ backups'[Len(backups')] = copy
    BY <2>1, <2>2, AppendNewest
  <2> QED BY <2>2, <2>3 DEF Current
<1>2. CASE FillBackup
  <2> DEFINE n == Len(backups)
  <2>1. /\ mode = "copying" /\ mode' = "migrating" /\ UNCHANGED <<boot, schema, origin>>
        /\ backups' = [backups EXCEPT ![n] = [of |-> schema, whole |-> TRUE]]
    BY <1>2 DEF FillBackup, Stays
  <2>2. backups \in Seq(Copies) /\ n \in 1 .. Len(backups) /\ backups[n] \in Copies
    BY <2>1, EmptySeq
  <2> DEFINE copy == [of |-> schema, whole |-> TRUE]
  <2>3. copy \in Copies
    BY DEF Copies
  <2>4. backups' = [backups EXCEPT ![n] = copy]
    BY <2>1
  <2>5. backups' \in Seq(Copies) /\ Len(backups') = n /\ backups'[n] = copy /\ backups' # <<>>
    <3> HIDE DEF copy
    <3>1. /\ [backups EXCEPT ![n] = copy] \in Seq(Copies)
          /\ Len([backups EXCEPT ![n] = copy]) = n
          /\ [backups EXCEPT ![n] = copy][n] = copy
      BY <2>2, <2>3, ExceptSeq
    <3> QED BY <2>2, <2>4, <3>1, EmptySeq
  <2> QED BY <2>1, <2>3, <2>5
<1>3. CASE BackupFails
  BY <1>3, FrontIsSequence DEF BackupFails
<1>4. CASE Migrate
  BY <1>4 DEF Migrate, Stays, Current
<1>5. CASE MigrateFails
  BY <1>5 DEF MigrateFails
<1>6. CASE Prune
  <2>1. /\ mode' \notin {"copying", "migrating"} /\ mode = "pruning" /\ UNCHANGED <<boot, schema, origin>>
        /\ backups' = SubSeq(backups, Max({Len(backups) - KeptBackups, 0}) + 1, Len(backups))
    <3>1. boot' = boot /\ mode' = Serving(boot)
      BY <1>6 DEF Prune
    <3> QED BY <1>6 DEF Prune, Stays, Serving
  <2> QED BY <2>1, SuffixNewest
<1>7. CASE Die
  BY <1>7 DEF Die
<1> QED BY <1>1, <1>2, <1>3, <1>4, <1>5, <1>6, <1>7 DEF Boot

LEMMA StepKeeps ==
  ASSUME UpgradeInv, [Next]_vars
  PROVE  UpgradeInv'
<1>1. CASE UNCHANGED <<mode, boot, schema, origin, backups>>
  BY <1>1 DEF UpgradeInv, Newest
<1>2. ASSUME NEW t \in Threads, SessionCheck(t) \/ SessionRequests(t) \/ AdminRequests(t)
      PROVE  UpgradeInv'
  BY <1>1, <1>2, RequestsElsewhere
<1>3. CASE (\E i \in DOMAIN rows : Expire(i)) \/ Sweep
  BY <1>1, <1>3 DEF Expire, Sweep, fileVars
<1>4. CASE \E m \in {"local", "server"} : Restart(m)
  <2>1. /\ schema = Current /\ mode' \notin {"copying", "migrating"}
        /\ boot' \in {"local", "server"} /\ UNCHANGED <<schema, origin, backups>>
    BY <1>4 DEF Restart, Serving
  <2> QED BY <2>1 DEF UpgradeInv, Newest
<1>5. CASE UNCHANGED vars
  BY <1>1, <1>5 DEF vars, databaseVars
<1> QED BY <1>2, <1>3, <1>4, <1>5, BootKeeps DEF Next

THEOREM UpgradeSafe == Spec => []UpgradeInv
<1> QED BY UpgradeInit, StepKeeps, PTL DEF Spec

(***************************************************************************)
(* Whatever fails, and however often the process dies while it upgrades,   *)
(* a whole copy of the old database stays (app/database.py,                *)
(* Database._prepare_migration_backup to _prune_migration_backups).        *)
(***************************************************************************)
THEOREM OldKept == Spec => []OldIsKept
<1>1. UpgradeInv => OldIsKept
  <2> SUFFICES ASSUME UpgradeInv, origin < schema
               PROVE  \E i \in DOMAIN backups : backups[i] = [of |-> origin, whole |-> TRUE]
    BY DEF OldIsKept
  <2>1. backups # <<>> /\ Newest = [of |-> origin, whole |-> TRUE]
    BY DEF UpgradeInv
  <2>2. Len(backups) \in DOMAIN backups
    BY <2>1, EmptySeq DEF UpgradeInv
  <2> QED BY <2>1, <2>2 DEF Newest
<1> QED BY <1>1, UpgradeSafe, PTL

-----------------------------------------------------------------------------
(***************************************************************************)
(* Sessions and accounts.  The handlers that change an account exclude one *)
(* another, so what they read under the lock is still true when they write *)
(* (Exclusive, Works): a login opens a session of an account that is       *)
(* enabled and has the password it verified, and the one administrator     *)
(* stays the only one (Administered).                                      *)
(***************************************************************************)
AccountType == [state : {"none", "enabled", "disabled"}, admin : BOOLEAN,
                temp : BOOLEAN, default : BOOLEAN, password : Passwords]
RowType == [user : Users, revoked : BOOLEAN, expired : BOOLEAN, current : BOOLEAN]
JobType == [user : Users \cup {Nobody}, session : Nat, temp : BOOLEAN, admin : BOOLEAN,
            target : Users \cup {Nobody}, password : Passwords]
Modes   == {"local", "server", "refused", "down", "copying", "migrating", "pruning"}
Places  == {"idle", "login", "opening", "expiring", "checked", "inside",
            "changing", "disabling", "resetting"}

Holding  == {"opening", "changing", "disabling", "resetting"}
Admitted == {"expiring", "checked", "inside", "changing", "disabling", "resetting"}

DataTyped ==
  /\ account \in [Users -> AccountType]
  /\ rows \in Seq(RowType) /\ Len(rows) <= MaxSessions
  /\ seen \in [DOMAIN rows -> DOMAIN rows] /\ IsInjective(seen) /\ ToSet(seen) = DOMAIN rows
  /\ schema \in 2 .. Current /\ owner \in Users \cup {Nobody}
  /\ mode \in Modes

ThreadsTyped ==
  /\ lock \in Threads \cup {Nobody}
  /\ pc \in [Threads -> Places] /\ job \in [Threads -> JobType]
  /\ torn \subseteq Users /\ events \in 0 .. MaxEvents

\* _mutation_lock is held from the first read to the last write, and no request
\* runs while the process starts.
Exclusive ==
  /\ lock # Nobody => pc[lock] \in Holding
  /\ \A t \in Threads : pc[t] \in Holding => lock = t
  /\ ~Running => \A t \in Threads : pc[t] = "idle"

\* What a request still knows at each place.
Works(t) ==
  /\ pc[t] # "idle" => job[t].user \in Users
  /\ pc[t] = "opening" => Verified(job[t].user, job[t].password) /\ Len(rows) < MaxSessions
  /\ pc[t] \in Admitted =>
       job[t].session \in DOMAIN rows /\ rows[job[t].session].user = job[t].user
  /\ pc[t] # "idle" /\ job[t].admin => account[job[t].user].admin
  /\ pc[t] \in {"disabling", "resetting"} => job[t].target \in Users
  /\ pc[t] = "resetting" => ~account[job[t].target].admin

\* The administrator is one, enabled, from schema 3 on.
Administered ==
  /\ \A u \in Users : account[u].admin => account[u].state = "enabled"
  /\ \A u, v \in Users : account[u].admin /\ account[v].admin => u = v
  /\ HasUsers => IF schema < 3 THEN \E u \in Users : account[u].state = "enabled"
                 ELSE \E u \in Users : account[u].admin
  /\ schema < 3 => \A u \in Users : ~account[u].admin
  /\ schema > 3 /\ origin < Current => owner \in Users /\ account[owner].state # "none"
  /\ mode = "server" => ~MustNotServe
  /\ Running => schema = Current

IInv ==
  /\ DataTyped /\ ThreadsTyped
  /\ SessionLimit /\ PasswordIsCurrent /\ DisabledIsOut
  /\ Exclusive /\ (\A t \in Threads : Works(t))
  /\ Administered

-----------------------------------------------------------------------------
(* Rows.                                                                   *)

\* The same sessions, some of them ended.
Fewer ==
  /\ rows' \in Seq(RowType) /\ Len(rows') = Len(rows) /\ DOMAIN rows' = DOMAIN rows
  /\ \A i \in DOMAIN rows :
       /\ rows'[i].user = rows[i].user /\ (rows'[i].current => rows[i].current)
       /\ Live(i)' => Live(i) /\ (rows[i].current => rows'[i].current)

\* One row for each old session makes a table of the same length.
LEMMA SameLength ==
  ASSUME DataTyped, NEW r \in [DOMAIN rows -> RowType]
  PROVE  /\ r \in Seq(RowType) /\ Len(r) = Len(rows) /\ DOMAIN r = DOMAIN rows
<1>1. Len(rows) \in Nat /\ DOMAIN rows = 1 .. Len(rows) /\ r \in [1 .. Len(rows) -> RowType]
  BY DEF DataTyped
<1>2. r \in Seq(RowType)
  BY <1>1, SeqDef
<1>. QED  BY <1>1, <1>2

LEMMA RowIsTyped ==
  ASSUME DataTyped, NEW i \in DOMAIN rows
  PROVE  rows[i] \in RowType
BY ElementOfSeq, LenProperties DEF DataTyped

LEMMA RevokedRow ==
  ASSUME DataTyped, NEW S, NEW i \in DOMAIN rows
  PROVE  /\ Revoked(S)[i] \in RowType
         /\ Revoked(S)[i].user = rows[i].user /\ Revoked(S)[i].expired = rows[i].expired
         /\ Revoked(S)[i].current = rows[i].current
         /\ Revoked(S)[i].revoked = (rows[i].revoked \/ i \in S)
<1>1. rows[i] \in RowType
  BY RowIsTyped
<1>2. Revoked(S)[i] = [rows[i] EXCEPT !.revoked = rows[i].revoked \/ i \in S]
  BY DEF Revoked
<1>. QED  BY <1>1, <1>2 DEF RowType

LEMMA RevokedTable ==
  ASSUME DataTyped, NEW S
  PROVE  /\ Revoked(S) \in Seq(RowType) /\ Len(Revoked(S)) = Len(rows)
         /\ DOMAIN Revoked(S) = DOMAIN rows
<1>1. Revoked(S) \in [DOMAIN rows -> RowType]
  <2>1. \A i \in DOMAIN rows : Revoked(S)[i] \in RowType
    BY RevokedRow
  <2>2. /\ DOMAIN Revoked(S) = DOMAIN rows
        /\ Revoked(S) = [i \in DOMAIN rows |-> Revoked(S)[i]]
    BY DEF Revoked
  <2>. QED  BY <2>1, <2>2
<1>. QED  BY <1>1, SameLength

\* Revoking ends the sessions of S and opens none.
LEMMA RevokedFewer ==
  ASSUME DataTyped, NEW S, rows' = Revoked(S)
  PROVE  Fewer /\ \A i \in DOMAIN rows : i \in S => ~Live(i)'
<1>1. ASSUME NEW i \in DOMAIN rows
      PROVE  /\ rows'[i].user = rows[i].user /\ (rows'[i].current => rows[i].current)
             /\ Live(i)' => Live(i) /\ (rows[i].current => rows'[i].current)
             /\ i \in S => ~Live(i)'
  <2>1. /\ rows'[i].user = rows[i].user /\ rows'[i].expired = rows[i].expired
        /\ rows'[i].current = rows[i].current
        /\ rows'[i].revoked = (rows[i].revoked \/ i \in S)
    BY RevokedRow
  <2>2. Live(i)' => Live(i) /\ i \notin S
    BY <2>1 DEF Live
  <2>. QED  BY <2>1, <2>2
<1>. QED  BY <1>1, RevokedTable DEF Fewer

\* A new password ends the sessions of S, and leaves those of u outside of kept behind.
LEMMA OutdatedFewer ==
  ASSUME DataTyped, NEW u, NEW kept, NEW S, LiveOf(u) \ kept \subseteq S,
         rows' = Outdated(u, kept, S)
  PROVE  Fewer /\ \A i \in DOMAIN rows : i \in S => ~Live(i)'
<1> DEFINE row(i) == [Revoked(S)[i] EXCEPT !.current = @ /\ (rows[i].user # u \/ i \in kept)]
<1>1. ASSUME NEW i \in DOMAIN rows
      PROVE  /\ row(i) \in RowType /\ row(i).user = rows[i].user
             /\ row(i).expired = rows[i].expired /\ row(i).revoked = (rows[i].revoked \/ i \in S)
             /\ row(i).current = (rows[i].current /\ (rows[i].user # u \/ i \in kept))
  <2>1. Revoked(S)[i] \in RowType
    BY RevokedRow
  <2>2. /\ row(i) \in RowType /\ row(i).user = Revoked(S)[i].user
        /\ row(i).expired = Revoked(S)[i].expired /\ row(i).revoked = Revoked(S)[i].revoked
        /\ row(i).current = (Revoked(S)[i].current /\ (rows[i].user # u \/ i \in kept))
    BY <2>1 DEF RowType
  <2>. QED  BY <2>2, RevokedRow
<1>2. rows' = [i \in DOMAIN rows |-> row(i)]
  BY DEF Outdated
<1> HIDE DEF row
<1>3. rows' \in [DOMAIN rows -> RowType]
  BY <1>1, <1>2
<1>4. ASSUME NEW i \in DOMAIN rows
      PROVE  /\ rows'[i].user = rows[i].user /\ (rows'[i].current => rows[i].current)
             /\ Live(i)' => Live(i) /\ (rows[i].current => rows'[i].current)
             /\ i \in S => ~Live(i)'
  <2>1. rows'[i] = row(i)
    BY <1>2
  <2>2. Live(i)' => Live(i) /\ i \notin S
    BY <1>1, <2>1 DEF Live
  <2>3. Live(i)' => rows[i].user # u \/ i \in kept
    BY <2>2 DEF LiveOf, SessionsOf
  <2>. QED  BY <1>1, <2>1, <2>2, <2>3
<1>. QED  BY <1>3, <1>4, SameLength DEF Fewer

LEMMA ExpiredFewer ==
  ASSUME DataTyped, NEW i \in DOMAIN rows, rows' = [rows EXCEPT ![i].expired = TRUE]
  PROVE  Fewer
<1>1. [rows[i] EXCEPT !.expired = TRUE] \in RowType
  BY RowIsTyped DEF RowType
<1>2. rows' = [rows EXCEPT ![i] = [rows[i] EXCEPT !.expired = TRUE]]
  OBVIOUS
<1>3. rows' \in [DOMAIN rows -> RowType]
  BY <1>1, <1>2, RowIsTyped, LenProperties DEF DataTyped
<1>4. ASSUME NEW j \in DOMAIN rows
      PROVE  /\ rows'[j].user = rows[j].user /\ (rows'[j].current => rows[j].current)
             /\ Live(j)' => Live(j) /\ (rows[j].current => rows'[j].current)
  BY <1>2, RowIsTyped DEF RowType, Live
<1>. QED  BY <1>3, <1>4, SameLength DEF Fewer

LEMMA SameIsFewer ==
  ASSUME DataTyped, rows' = rows
  PROVE  Fewer
BY DEF DataTyped, Fewer, Live

\* Fewer live sessions stay within the limit, and keep their passwords.
LEMMA FewerStaySafe ==
  ASSUME DataTyped, SessionLimit, PasswordIsCurrent, Fewer
  PROVE  SessionLimit' /\ PasswordIsCurrent' /\ \A u \in Users : LiveOf(u)' \subseteq LiveOf(u)
<1>1. ASSUME NEW u \in Users  PROVE LiveOf(u)' \subseteq LiveOf(u)
  BY DEF Fewer, LiveOf, SessionsOf
<1>2. ASSUME NEW u \in Users  PROVE Cardinality(LiveOf(u)') <= MaxLive
  <2>1. IsFiniteSet(LiveOf(u))
    <3>1. IsFiniteSet(DOMAIN rows)
      BY LenProperties, FS_Interval DEF DataTyped
    <3>. QED  BY <3>1, FS_Subset DEF LiveOf, SessionsOf
  <2>2. Cardinality(LiveOf(u)') <= Cardinality(LiveOf(u))
    BY <1>1, <2>1, FS_Subset
  <2>3. Cardinality(LiveOf(u)) \in Nat /\ Cardinality(LiveOf(u)') \in Nat
    BY <1>1, <2>1, FS_Subset, FS_CardinalityType
  <2>. QED  BY <2>2, <2>3, AccountsAssumption DEF SessionLimit
<1>3. PasswordIsCurrent'
  BY DEF PasswordIsCurrent, Fewer
<1>. QED  BY <1>1, <1>2, <1>3 DEF SessionLimit

-----------------------------------------------------------------------------
(* The order of last_seen_at, and what a login revokes.                    *)

\* The set of numbers has a least one, as the order of the naturals is well founded.
LEMMA LeastOf ==
  ASSUME NEW R, \A n \in Nat : \A m \in Nat : (<<n, m>> \in R) <=> (n < m),
         NEW T, T \subseteq Nat, \E m \in T : \A n \in T : ~ (<<n, m>> \in R)
  PROVE  \E m \in T : \A n \in T : m <= n
<1>1. PICK m \in T : \A n \in T : ~ (<<n, m>> \in R)
  OBVIOUS
<1>2. ASSUME NEW n \in T  PROVE m <= n
  <2>1. n \in Nat /\ m \in Nat
    OBVIOUS
  <2>2. ~ (n < m)
    BY <1>1, <2>1, Zenon
  <2>. QED  BY <2>1, <2>2
<1>. QED  BY <1>2

LEMMA LeastNatural ==
  ASSUME NEW T, T \subseteq Nat, T # {}
  PROVE  \E m \in T : \A n \in T : m <= n
<1>1. \A n \in Nat : \A m \in Nat : (<<n, m>> \in OpToRel(<, Nat)) <=> (n < m)
  BY DEF OpToRel
<1>2. \E m \in T : \A n \in T : ~ (<<n, m>> \in OpToRel(<, Nat))
  BY NatLessThanWellFounded, WFMin
<1>. QED  BY <1>1, <1>2, LeastOf, Zenon

\* Whatever has distinct numbers has a first one.
LEMMA FirstOf ==
  ASSUME NEW T, T # {}, NEW f, \A x \in T : f[x] \in Nat
  PROVE  \E x \in T : \A y \in T : f[x] <= f[y]
<1>1. PICK m \in {f[x] : x \in T} : \A n \in {f[x] : x \in T} : m <= n
  <2>1. {f[x] : x \in T} \subseteq Nat /\ {f[x] : x \in T} # {}
    OBVIOUS
  <2>. QED  BY <2>1, LeastNatural
<1>2. PICK x \in T : m = f[x]
  BY <1>1
<1>3. \A y \in T : f[x] <= f[y]
  BY <1>1, <1>2
<1>. QED  BY <1>3

Ordered(s, r) == s \in [DOMAIN r -> DOMAIN r] /\ IsInjective(s) /\ ToSet(s) = DOMAIN r

LEMMA ShiftInjective ==
  ASSUME NEW a \in Nat, NEW b \in Nat, NEW c \in Nat, a # c, b # c,
         (IF a > c THEN a - 1 ELSE a) = (IF b > c THEN b - 1 ELSE b)
  PROVE  a = b
OBVIOUS

LEMMA ToEndOrders ==
  ASSUME DataTyped, NEW i \in DOMAIN rows
  PROVE  Ordered(ToEnd(i), rows)
<1> DEFINE n == Len(rows)
           e == ToEnd(i)
<1>1. /\ n \in Nat /\ DOMAIN rows = 1 .. n /\ Len(seen) = n /\ DOMAIN seen = 1 .. n
      /\ seen \in [1 .. n -> 1 .. n] /\ i \in 1 .. n
  <2>1. n \in Nat /\ DOMAIN rows = 1 .. n
    BY LenProperties DEF DataTyped
  <2>2. seen \in [1 .. n -> 1 .. n]
    BY <2>1 DEF DataTyped
  <2>. QED  BY <2>1, <2>2
<1>2. \A j, k \in 1 .. n : seen[j] = seen[k] => j = k
  BY <1>1 DEF DataTyped, IsInjective
<1>3. /\ DOMAIN e = 1 .. n /\ e[i] = n
      /\ \A j \in 1 .. n : j # i /\ seen[j] > seen[i] => e[j] = seen[j] - 1
      /\ \A j \in 1 .. n : j # i /\ ~ (seen[j] > seen[i]) => e[j] = seen[j]
  BY <1>1 DEF ToEnd
<1>4. \A v \in 1 .. n : \E j \in 1 .. n : seen[j] = v
  BY <1>1 DEF DataTyped, ToSet
<1> HIDE DEF n, e
<1>5. e \in [1 .. n -> 1 .. n]
  <2>1. ASSUME NEW j \in 1 .. n  PROVE e[j] \in 1 .. n
    <3>1. seen[j] \in 1 .. n /\ seen[i] \in 1 .. n /\ n \in Nat
      BY <1>1
    <3>2. CASE j = i
      BY <1>3, <3>1, <3>2
    <3>3. CASE j # i /\ seen[j] > seen[i]
      <4>1. e[j] = seen[j] - 1
        BY <1>3, <3>3
      <4>. QED  BY <3>1, <3>3, <4>1
    <3>4. CASE j # i /\ ~ (seen[j] > seen[i])
      <4>1. e[j] = seen[j]
        BY <1>3, <3>4
      <4>. QED  BY <3>1, <4>1
    <3>. QED  BY <3>2, <3>3, <3>4
  <2>2. e = [j \in 1 .. n |-> e[j]]
    BY <1>1 DEF e, ToEnd
  <2>. QED  BY <2>1, <2>2
<1>6. ASSUME NEW j \in 1 .. n, NEW k \in 1 .. n, e[j] = e[k]  PROVE j = k
  <2>1. seen[j] \in 1 .. n /\ seen[k] \in 1 .. n /\ seen[i] \in 1 .. n
    BY <1>1
  <2>2. \A m \in 1 .. n : m # i => seen[m] # seen[i]
    BY <1>1, <1>2
  <2>3. \A m \in 1 .. n : m # i => e[m] # n
    <3>1. ASSUME NEW m \in 1 .. n, m # i  PROVE e[m] # n
      <4>1. seen[m] \in 1 .. n /\ seen[i] \in 1 .. n /\ seen[m] # seen[i] /\ n \in Nat
        BY <1>1, <2>2, <3>1
      <4>2. e[m] = IF seen[m] > seen[i] THEN seen[m] - 1 ELSE seen[m]
        BY <1>3, <3>1
      <4>. QED  BY <4>1, <4>2
    <3>. QED  BY <3>1
  <2>4. CASE j # i /\ k # i
    <3>1. seen[j] # seen[i] /\ seen[k] # seen[i]
      BY <2>2, <2>4
    <3>2. /\ e[j] = IF seen[j] > seen[i] THEN seen[j] - 1 ELSE seen[j]
          /\ e[k] = IF seen[k] > seen[i] THEN seen[k] - 1 ELSE seen[k]
      BY <1>3, <2>4
    <3>3. seen[j] \in Nat /\ seen[k] \in Nat /\ seen[i] \in Nat
      BY <2>1
    <3>4. seen[j] = seen[k]
      BY <1>6, <3>1, <3>2, <3>3, ShiftInjective
    <3>. QED  BY <1>2, <3>4
  <2>5. CASE j = i \/ k = i
    BY <1>3, <1>6, <2>3, <2>5
  <2>. QED  BY <2>4, <2>5
<1>7. ASSUME NEW v \in 1 .. n  PROVE \E j \in 1 .. n : e[j] = v
  <2>1. CASE v = n
    BY <1>1, <1>3, <2>1
  <2>2. CASE v < n /\ v < seen[i]
    <3>1. PICK j \in 1 .. n : seen[j] = v
      BY <1>4
    <3>2. seen[i] \in 1 .. n
      BY <1>1
    <3>3. j # i /\ ~ (seen[j] > seen[i])
      BY <2>2, <3>1, <3>2
    <3>. QED  BY <1>3, <3>1, <3>3
  <2>3. CASE v < n /\ ~ (v < seen[i])
    <3>1. v + 1 \in 1 .. n /\ seen[i] \in 1 .. n
      BY <1>1, <2>3
    <3>2. PICK j \in 1 .. n : seen[j] = v + 1
      BY <1>4, <3>1
    <3>3. j # i /\ seen[j] > seen[i] /\ seen[j] - 1 = v
      BY <2>3, <3>1, <3>2
    <3>. QED  BY <1>3, <3>2, <3>3
  <2>. QED  BY <1>1, <2>1, <2>2, <2>3
<1>8. IsInjective(e)
  BY <1>3, <1>6 DEF IsInjective
<1>9. ToSet(e) = 1 .. n
  <2>1. ToSet(e) = {e[j] : j \in 1 .. n}
    BY <1>3 DEF ToSet
  <2>2. \A j \in 1 .. n : e[j] \in 1 .. n
    BY <1>5
  <2>. QED  BY <1>7, <2>1, <2>2
<1>. QED  BY <1>1, <1>5, <1>8, <1>9 DEF Ordered, e, n

\* A new session is the last one in the order.
LEMMA AppendOrders ==
  ASSUME DataTyped, NEW r, r \in Seq(RowType), Len(r) = Len(rows) + 1
  PROVE  Ordered(Append(seen, Len(rows) + 1), r)
<1> DEFINE n == Len(rows)
           e == Append(seen, n + 1)
<1>1. n \in Nat /\ DOMAIN rows = 1 .. n /\ DOMAIN r = 1 .. n + 1
  BY LenProperties DEF DataTyped
<1>2. seen \in [1 .. n -> 1 .. n] /\ seen \in Seq(Nat) /\ Len(seen) = n
  <2>1. seen \in [1 .. n -> 1 .. n]
    BY <1>1 DEF DataTyped
  <2>2. seen \in [1 .. n -> Nat]
    BY <1>1, <2>1
  <2>3. seen \in Seq(Nat)
    BY <1>1, <2>2, SeqDef
  <2>. QED  BY <1>1, <2>1, <2>3
<1>3. /\ \A j \in 1 .. n : e[j] = seen[j]
      /\ e[n + 1] = n + 1 /\ e \in Seq(Nat) /\ Len(e) = n + 1 /\ DOMAIN e = 1 .. n + 1
  <2>1. e \in Seq(Nat) /\ Len(e) = n + 1
    BY <1>1, <1>2, AppendProperties
  <2>2. DOMAIN e = 1 .. n + 1
    BY <2>1, LenProperties
  <2>3. \A j \in 1 .. n : e[j] = seen[j]
    BY <1>1, <1>2, AppendProperties
  <2>4. e[n + 1] = n + 1
    BY <1>1, <1>2, AppendProperties
  <2>. QED  BY <2>1, <2>2, <2>3, <2>4
<1> HIDE DEF n, e
<1>4. \A j \in 1 .. n + 1 : j = n + 1 \/ (j \in 1 .. n /\ seen[j] \in 1 .. n)
  BY <1>1, <1>2
<1>5. e \in [1 .. n + 1 -> 1 .. n + 1]
  <2>1. \A j \in 1 .. n + 1 : e[j] \in 1 .. n + 1
    BY <1>1, <1>3, <1>4
  <2>2. e = [j \in 1 .. n + 1 |-> e[j]]
    BY <1>3, LenProperties
  <2>. QED  BY <2>1, <2>2
<1>6. ASSUME NEW j \in 1 .. n + 1, NEW k \in 1 .. n + 1, e[j] = e[k]  PROVE j = k
  <2>1. \A a, b \in 1 .. n : seen[a] = seen[b] => a = b
    BY <1>1, <1>2 DEF DataTyped, IsInjective
  <2>. QED  BY <1>1, <1>3, <1>4, <1>6, <2>1
<1>7. ASSUME NEW v \in 1 .. n + 1  PROVE \E j \in 1 .. n + 1 : e[j] = v
  <2>1. CASE v = n + 1
    BY <1>1, <1>3, <2>1
  <2>2. CASE v \in 1 .. n
    <3>1. PICK j \in 1 .. n : seen[j] = v
      BY <1>1, <1>2, <2>2 DEF DataTyped, ToSet
    <3>. QED  BY <1>1, <1>3, <3>1
  <2>. QED  BY <1>1, <2>1, <2>2
<1>8. IsInjective(e)
  BY <1>3, <1>6 DEF IsInjective
<1>9. ToSet(e) = 1 .. n + 1
  <2>1. ToSet(e) = {e[j] : j \in 1 .. n + 1}
    BY <1>3 DEF ToSet
  <2>2. \A j \in 1 .. n + 1 : e[j] \in 1 .. n + 1
    BY <1>5
  <2>. QED  BY <1>7, <2>1, <2>2
<1>. QED  BY <1>1, <1>5, <1>8, <1>9 DEF Ordered, e, n

LEMMA LiveAreFinite ==
  ASSUME DataTyped, NEW u
  PROVE  IsFiniteSet(LiveOf(u)) /\ LiveOf(u) \subseteq DOMAIN rows
<1>1. IsFiniteSet(DOMAIN rows)
  BY LenProperties, FS_Interval DEF DataTyped
<1>. QED  BY <1>1, FS_Subset DEF LiveOf, SessionsOf

LEMMA SinceIsFinite ==
  ASSUME DataTyped, NEW u, NEW i
  PROVE  IsFiniteSet(SeenSince(u, i)) /\ Cardinality(SeenSince(u, i)) \in Nat
<1>1. SeenSince(u, i) \subseteq LiveOf(u)
  BY DEF SeenSince
<1>. QED  BY <1>1, LiveAreFinite, FS_Subset, FS_CardinalityType

\* Those that a login spares, and the new session, are within the limit: the first of
\* them has all others behind it.
LEMMA SparedFit ==
  ASSUME DataTyped, NEW u
  PROVE  LET spared == LiveOf(u) \ Evicted(u) IN
         IsFiniteSet(spared) /\ Cardinality(spared) <= MaxLive - 1
<1> DEFINE spared == LiveOf(u) \ Evicted(u)
<1>1. IsFiniteSet(spared)
  BY LiveAreFinite, FS_Subset
<1>2. CASE spared = {}
  <2>1. Cardinality(spared) = 0
    BY <1>2, FS_EmptySet
  <2>. QED  BY <1>1, <2>1, AccountsAssumption
<1>3. CASE spared # {}
  <2>1. \A i \in LiveOf(u) : i \in DOMAIN rows /\ seen[i] \in Nat
    BY LiveAreFinite, LenProperties DEF DataTyped
  <2>2. PICK i \in spared : \A j \in spared : seen[i] <= seen[j]
    BY <1>3, <2>1, FirstOf
  <2>3. spared \ {i} \subseteq SeenSince(u, i)
    <3>1. ASSUME NEW j \in spared, j # i  PROVE seen[j] > seen[i]
      <4>1. seen[j] # seen[i]
        BY <2>1, <3>1 DEF DataTyped, IsInjective
      <4>. QED  BY <2>1, <2>2, <4>1
    <3>. QED  BY <3>1 DEF SeenSince
  <2>4. Cardinality(spared \ {i}) <= Cardinality(SeenSince(u, i))
    BY <2>3, SinceIsFinite, FS_Subset
  <2>5. Cardinality(SeenSince(u, i)) < MaxLive - 1
    BY <2>2, SinceIsFinite, AccountsAssumption DEF Evicted
  <2>6. /\ Cardinality(spared \ {i}) = Cardinality(spared) - 1
        /\ Cardinality(spared) \in Nat /\ Cardinality(spared \ {i}) \in Nat
    <3>1. IsFiniteSet(spared \ {i}) /\ Cardinality(spared \ {i}) = Cardinality(spared) - 1
      BY <1>1, <2>2, FS_RemoveElement
    <3>. QED  BY <1>1, <3>1, FS_CardinalityType
  <2>. QED  BY <1>1, <2>4, <2>5, <2>6, SinceIsFinite, AccountsAssumption
<1>. QED  BY <1>2, <1>3

\* What a login revokes was seen before everything it spares.
LEMMA EvictedFirst ==
  ASSUME DataTyped, NEW u, NEW i \in Evicted(u), NEW j \in LiveOf(u) \ Evicted(u)
  PROVE  seen[i] < seen[j]
<1>1. i \in LiveOf(u) /\ seen[i] \in Nat /\ seen[j] \in Nat
  BY LiveAreFinite, LenProperties DEF DataTyped, Evicted
<1>2. Cardinality(SeenSince(u, j)) < Cardinality(SeenSince(u, i))
  BY SinceIsFinite, AccountsAssumption DEF Evicted
<1>3. SUFFICES ASSUME seen[j] <= seen[i]  PROVE FALSE
  BY <1>1
<1>4. SeenSince(u, i) \subseteq SeenSince(u, j)
  <2>1. ASSUME NEW k \in LiveOf(u), seen[k] > seen[i]  PROVE seen[k] > seen[j]
    <3>1. seen[k] \in Nat
      BY LiveAreFinite, LenProperties DEF DataTyped
    <3>. QED  BY <1>1, <1>3, <2>1, <3>1
  <2>. QED  BY <2>1 DEF SeenSince
<1>5. Cardinality(SeenSince(u, i)) <= Cardinality(SeenSince(u, j))
  BY <1>4, SinceIsFinite, FS_Subset
<1>. QED  BY <1>2, <1>5, SinceIsFinite

-----------------------------------------------------------------------------
(* What most steps leave alone.                                            *)

\* Accounts stay, and no session opens.
Calm == Fewer /\ Ordered(seen', rows') /\ UNCHANGED <<account, mode, schema, origin, owner>>

LEMMA CalmData ==
  ASSUME IInv, Calm
  PROVE  DataTyped' /\ SessionLimit' /\ PasswordIsCurrent' /\ Administered'
<1>1. DataTyped'
  BY DEF IInv, DataTyped, Calm, Fewer, Ordered
<1>2. SessionLimit' /\ PasswordIsCurrent'
  BY FewerStaySafe DEF IInv, Calm
<1>3. Administered'
  BY DEF IInv, Administered, Calm, HasUsers, MustNotServe, Admins, Running
<1>. QED  BY <1>1, <1>2, <1>3

LEMMA QuietIsCalm ==
  ASSUME DataTyped, UNCHANGED <<account, rows, seen, mode, schema, origin, owner>>
  PROVE  Calm
BY SameIsFewer DEF DataTyped, Calm, Ordered

LEMMA RevokedIsCalm ==
  ASSUME DataTyped, NEW S, rows' = Revoked(S), UNCHANGED <<account, seen, mode, schema, origin, owner>>
  PROVE  Calm
BY RevokedFewer DEF DataTyped, Calm, Ordered, Fewer

LEMMA NoJobTyped == NoJob \in JobType
  BY DatabaseAssumption DEF NoJob, JobType

\* A thread is at one place with one job.
Moves(t, p, j) == p \in Places /\ j \in JobType /\ Enter(t, p, j)

LEMMA MovesTyped ==
  ASSUME ThreadsTyped, NEW t \in Threads, NEW p, NEW j, Moves(t, p, j)
  PROVE  /\ pc' \in [Threads -> Places] /\ job' \in [Threads -> JobType]
         /\ pc'[t] = p /\ job'[t] = j
         /\ \A s \in Threads : s # t => pc'[s] = pc[s] /\ job'[s] = job[s]
BY DEF ThreadsTyped, Moves, Enter

\* The lock is not touched, taken when free, or given back by its holder.
LockStep(t, p) ==
  \/ p \notin Holding /\ pc[t] \notin Holding /\ UNCHANGED lock
  \/ p \in Holding /\ lock = Nobody /\ lock' = t
  \/ p \notin Holding /\ pc[t] \in Holding /\ lock' = Nobody

LEMMA MoveKeepsLock ==
  ASSUME IInv, NEW t \in Threads, NEW p, NEW j, Moves(t, p, j), LockStep(t, p),
         UNCHANGED mode, Running \/ p = "idle",
         torn' \subseteq Users, events' \in 0 .. MaxEvents
  PROVE  ThreadsTyped' /\ Exclusive'
<1>1. /\ pc' \in [Threads -> Places] /\ job' \in [Threads -> JobType]
      /\ pc'[t] = p /\ job'[t] = j
      /\ \A s \in Threads : s # t => pc'[s] = pc[s] /\ job'[s] = job[s]
  BY MovesTyped DEF IInv
<1>2. ThreadsTyped'
  BY <1>1 DEF IInv, ThreadsTyped, LockStep
<1>3. Exclusive'
  <2>1. lock # Nobody => pc[lock] \in Holding
    BY DEF IInv, Exclusive
  <2>2. \A s \in Threads : pc[s] \in Holding => lock = s
    BY DEF IInv, Exclusive
  <2>3. ~Running => \A s \in Threads : pc[s] = "idle"
    BY DEF IInv, Exclusive
  <2>4. Running' <=> Running
    BY DEF Running
  <2>5. Nobody \notin Threads /\ lock \in Threads \cup {Nobody}
    BY AccountsAssumption DEF IInv, ThreadsTyped
  <2>6. lock' # Nobody => pc'[lock'] \in Holding
    BY <1>1, <2>1, <2>5 DEF LockStep
  <2>7. \A s \in Threads : pc'[s] \in Holding => lock' = s
    BY <1>1, <2>2, <2>5 DEF LockStep
  <2>8. ~Running' => \A s \in Threads : pc'[s] = "idle"
    BY <1>1, <2>3, <2>4
  <2>. QED  BY <2>6, <2>7, <2>8 DEF Exclusive
<1>. QED  BY <1>2, <1>3

\* The other requests go on as before where the accounts stay.
LEMMA OthersGoOn ==
  ASSUME IInv, Calm, NEW s \in Threads, pc'[s] = pc[s], job'[s] = job[s]
  PROVE  Works(s)'
BY DEF IInv, Calm, Fewer, Works, Verified

\* No disabled account gets a session back.
LEMMA StaysOut ==
  ASSUME IInv, Fewer, NEW t \in Threads, pc[t] # "disabling",
         \A s \in Threads : s # t => pc'[s] = pc[s] /\ job'[s] = job[s],
         UNCHANGED torn,
         \A u \in Users : account'[u].state = "disabled" => account[u].state = "disabled"
  PROVE  DisabledIsOut'
<1>1. ASSUME NEW u \in Users, account'[u].state = "disabled"
      PROVE  \/ LiveOf(u)' = {}
             \/ u \in torn'
             \/ \E s \in Threads : pc'[s] = "disabling" /\ job'[s].target = u
  <2>1. \/ LiveOf(u) = {}
        \/ u \in torn
        \/ \E s \in Threads : pc[s] = "disabling" /\ job[s].target = u
    BY <1>1 DEF IInv, DisabledIsOut, At
  <2>2. LiveOf(u)' \subseteq LiveOf(u)
    BY FewerStaySafe DEF IInv
  <2>. QED  BY <2>1, <2>2
<1>. QED  BY <1>1 DEF DisabledIsOut, At

\* A step of one request that leaves the accounts alone.
LEMMA CalmStep ==
  ASSUME IInv, Calm, NEW t \in Threads, NEW p, NEW j, Moves(t, p, j), LockStep(t, p),
         pc[t] # "disabling", UNCHANGED torn, events' \in 0 .. MaxEvents,
         Running \/ p = "idle",
         Works(t)'
  PROVE  IInv'
<1>1. /\ pc'[t] = p /\ job'[t] = j
      /\ \A s \in Threads : s # t => pc'[s] = pc[s] /\ job'[s] = job[s]
  BY MovesTyped DEF IInv
<1>2. ThreadsTyped' /\ Exclusive'
  BY MoveKeepsLock DEF IInv, ThreadsTyped, Calm
<1>3. \A s \in Threads : Works(s)'
  BY <1>1, OthersGoOn
<1>4. DisabledIsOut'
  BY <1>1, StaysOut DEF Calm
<1>. QED  BY <1>2, <1>3, <1>4, CalmData DEF IInv

\* A step of the clock or the cleaner.
LEMMA CalmClock ==
  ASSUME IInv, Calm, UNCHANGED <<threadVars, torn, events>>
  PROVE  IInv'
<1>1. pc' = pc /\ job' = job /\ lock' = lock /\ UNCHANGED <<account, mode>>
  BY DEF threadVars, Calm
<1>2. ThreadsTyped' /\ Exclusive'
  BY <1>1 DEF IInv, ThreadsTyped, Exclusive, Running
<1>3. \A s \in Threads : Works(s)'
  BY <1>1, OthersGoOn
<1>4. DisabledIsOut'
  <2>1. \A u \in Users : LiveOf(u)' \subseteq LiveOf(u)
    BY FewerStaySafe DEF IInv, Calm
  <2>. QED  BY <1>1, <2>1 DEF IInv, DisabledIsOut, At
<1>. QED  BY <1>2, <1>3, <1>4, CalmData DEF IInv

-----------------------------------------------------------------------------
(* The requests that leave the accounts alone.                             *)

LEMMA LoginKeeps ==
  ASSUME IInv, NEW t \in Threads, NEW u \in Users, NEW p \in Passwords, Login(t, u, p)
  PROVE  IInv'
<1> DEFINE j == [NoJob EXCEPT !.user = u, !.password = p]
<1>1. j \in JobType /\ j.user = u /\ j.admin = FALSE
  BY NoJobTyped DEF NoJob, JobType
<1>2. Moves(t, "login", j)
  BY <1>1 DEF Login, Moves, Places
<1> HIDE DEF j
<1>3. Calm
  BY QuietIsCalm DEF Login, IInv, fileVars
<1>4. Works(t)'
  BY <1>1, <1>2, MovesTyped DEF IInv, Works, Admitted
<1>5. UNCHANGED <<lock, torn>> /\ events' \in 0 .. MaxEvents /\ pc[t] = "idle" /\ Running
  BY DatabaseAssumption DEF Login, Spend, At, IInv, ThreadsTyped
<1>. QED  BY <1>2, <1>3, <1>4, <1>5, CalmStep DEF Holding, LockStep

LEMMA LeavesTyped ==
  ASSUME ThreadsTyped, NEW t \in Threads, Leave(t)
  PROVE  Moves(t, "idle", NoJob) /\ pc'[t] = "idle" /\ job'[t] = NoJob /\ Works(t)'
<1>1. Moves(t, "idle", NoJob)
  BY NoJobTyped DEF Leave, Moves, Places
<1>2. pc'[t] = "idle" /\ job'[t] = NoJob
  BY <1>1, MovesTyped
<1>. QED  BY <1>1, <1>2 DEF Works, Admitted

LEMMA GoesTyped ==
  ASSUME ThreadsTyped, NEW t \in Threads, NEW p \in Places, Go(t, p)
  PROVE  Moves(t, p, job[t]) /\ pc'[t] = p /\ job'[t] = job[t]
<1>1. Moves(t, p, job[t])
  BY DEF Go, Moves, ThreadsTyped
<1>. QED  BY <1>1, MovesTyped

\* A request that ends, and revokes sessions at most.
LEMMA LeavingKeeps ==
  ASSUME IInv, Calm, NEW t \in Threads, Leave(t), UNCHANGED <<lock, torn, events>>,
         pc[t] \notin Holding
  PROVE  IInv'
<1>1. Moves(t, "idle", NoJob) /\ Works(t)'
  BY LeavesTyped DEF IInv
<1>2. pc[t] # "disabling" /\ events' \in 0 .. MaxEvents
  BY DEF Holding, IInv, ThreadsTyped
<1>. QED  BY <1>1, <1>2, CalmStep DEF Holding, LockStep

LEMMA VerifyKeeps ==
  ASSUME IInv, NEW t \in Threads, Verify(t)
  PROVE  IInv'
<1>1. Calm /\ UNCHANGED <<account, rows, torn, events>> /\ pc[t] = "login"
  BY QuietIsCalm DEF Verify, At, IInv, fileVars
<1>2. CASE Verified(job[t].user, job[t].password) /\ Len(rows) < MaxSessions
  <2>1. Go(t, "opening") /\ lock = Nobody /\ lock' = t
    BY <1>2 DEF Verify, Acquire
  <2>2. Moves(t, "opening", job[t]) /\ pc'[t] = "opening" /\ job'[t] = job[t]
    BY <2>1, GoesTyped DEF IInv, Places
  <2>3. Works(t)
    BY DEF IInv
  <2>4. Works(t)'
    BY <1>1, <1>2, <2>2, <2>3 DEF Works, Admitted, Verified
  <2>5. Running /\ events' \in 0 .. MaxEvents
    BY <1>1 DEF IInv, Exclusive, ThreadsTyped
  <2>. QED  BY <1>1, <2>1, <2>2, <2>4, <2>5, CalmStep DEF Holding, LockStep
<1>3. CASE ~ (Verified(job[t].user, job[t].password) /\ Len(rows) < MaxSessions)
  <2>1. Leave(t) /\ UNCHANGED lock
    BY <1>3 DEF Verify
  <2>. QED  BY <1>1, <2>1, LeavingKeeps DEF Holding
<1>. QED  BY <1>2, <1>3

LEMMA CheckKeeps ==
  ASSUME IInv, NEW t \in Threads, NEW i \in DOMAIN rows, Check(t, i)
  PROVE  IInv'
<1> DEFINE u == rows[i].user
           p == IF rows[i].expired THEN "expiring" ELSE "checked"
           j == [NoJob EXCEPT !.user = u, !.session = i,
                              !.temp = account[u].temp, !.admin = account[u].admin]
<1>1. u \in Users /\ i \in Nat /\ account[u] \in AccountType
  BY RowIsTyped, LenProperties DEF IInv, DataTyped, RowType
<1>2. account[u].temp \in BOOLEAN /\ account[u].admin \in BOOLEAN
  BY <1>1 DEF AccountType
<1>3. j \in JobType /\ j.user = u /\ j.session = i /\ j.admin = account[u].admin
  <2> HIDE DEF u
  <2>1. j \in JobType
    BY <1>1, <1>2, NoJobTyped DEF NoJob, JobType
  <2>2. j.user = u
    BY NoJobTyped DEF NoJob, JobType
  <2>3. j.session = i
    BY NoJobTyped DEF NoJob, JobType
  <2>4. j.admin = account[u].admin
    BY NoJobTyped DEF NoJob, JobType
  <2>. QED  BY <2>1, <2>2, <2>3, <2>4
<1>5. Enter(t, p, j) /\ p \in Places /\ p \notin Holding /\ p # "idle" /\ p # "disabling" /\ p # "resetting"
  BY DEF Check, Places, Holding
<1>6. Calm /\ UNCHANGED <<account, rows, lock, torn>>
  BY QuietIsCalm DEF Check, IInv, fileVars
<1> HIDE DEF j, p
<1>8. Moves(t, p, j)
  BY <1>3, <1>5 DEF Moves
<1>9. Works(t)'
  <2>1. pc'[t] = p /\ job'[t] = j
    BY <1>8, MovesTyped DEF IInv
  <2>. QED  BY <1>1, <1>3, <1>5, <1>6, <2>1 DEF Works, Holding
<1>10. events' \in 0 .. MaxEvents /\ pc[t] = "idle" /\ Running
  BY DatabaseAssumption DEF Check, Spend, At, IInv, ThreadsTyped
<1>. QED  BY <1>5, <1>6, <1>8, <1>9, <1>10, CalmStep DEF Holding, LockStep

\* The places of a request that passed the check.
LEMMA AdmittedJob ==
  ASSUME IInv, NEW t \in Threads, pc[t] \in Admitted
  PROVE  /\ Running /\ job[t] \in JobType /\ job[t].user \in Users
         /\ job[t].session \in DOMAIN rows /\ rows[job[t].session].user = job[t].user
BY DEF IInv, Exclusive, Works, ThreadsTyped, Admitted

LEMMA EndExpiredKeeps ==
  ASSUME IInv, NEW t \in Threads, EndExpired(t)
  PROVE  IInv'
<1>1. Calm
  BY RevokedIsCalm DEF EndExpired, IInv, fileVars
<1>. QED  BY <1>1, LeavingKeeps DEF EndExpired, At, Holding

LEMMA TouchKeeps ==
  ASSUME IInv, NEW t \in Threads, Touch(t) \/ SkipTouch(t)
  PROVE  IInv'
<1>1. pc[t] = "checked" /\ Go(t, "inside") /\ UNCHANGED <<account, rows, mode, fileVars, lock, torn, events>>
  BY DEF Touch, SkipTouch, At
<1>2. job[t].session \in DOMAIN rows /\ Running
  BY <1>1, AdmittedJob DEF Admitted
<1>3. Calm
  <2>1. Fewer
    BY <1>1, SameIsFewer DEF IInv
  <2>2. Ordered(seen', rows')
    <3>1. CASE seen' = seen
      BY <1>1, <3>1 DEF IInv, DataTyped, Ordered
    <3>2. CASE seen' = ToEnd(job[t].session)
      BY <1>1, <1>2, <3>2, ToEndOrders DEF IInv, Ordered
    <3>. QED  BY <3>1, <3>2 DEF Touch, SkipTouch
  <2>. QED  BY <1>1, <2>1, <2>2 DEF Calm, fileVars
<1>4. Moves(t, "inside", job[t]) /\ pc'[t] = "inside" /\ job'[t] = job[t]
  BY <1>1, GoesTyped DEF IInv, Places
<1>5. Works(t)'
  <2>1. Works(t)
    BY DEF IInv
  <2>. QED  BY <1>1, <1>4, <2>1 DEF Works, Admitted
<1>6. events' \in 0 .. MaxEvents
  BY <1>1 DEF IInv, ThreadsTyped
<1>. QED  BY <1>1, <1>2, <1>3, <1>4, <1>5, <1>6, CalmStep DEF Holding, LockStep

LEMMA AnswerKeeps ==
  ASSUME IInv, NEW t \in Threads, Answer(t)
  PROVE  IInv'
<1>1. Calm
  BY QuietIsCalm DEF Answer, IInv, fileVars
<1>. QED  BY <1>1, LeavingKeeps DEF Answer, Inside, At, Holding

\* Logout, and the revocation of own or of another user's sessions.
LEMMA RevokeKeeps ==
  ASSUME IInv, NEW t \in Threads, NEW S, Inside(t), Revoke(t, S)
  PROVE  IInv'
<1>1. Calm
  BY RevokedIsCalm DEF Revoke, IInv, fileVars
<1>. QED  BY <1>1, LeavingKeeps DEF Revoke, Inside, At, Holding

LEMMA BeginChangeKeeps ==
  ASSUME IInv, NEW t \in Threads, NEW old \in Passwords, NEW new \in Passwords, BeginChange(t, old, new)
  PROVE  IInv'
<1> DEFINE j == [job[t] EXCEPT !.password = new]
<1>1. Calm /\ UNCHANGED <<account, rows, torn, events>>
  BY QuietIsCalm DEF BeginChange, IInv, fileVars
<1>2. pc[t] = "inside" /\ lock = Nobody /\ lock' = t /\ Enter(t, "changing", j)
  BY DEF BeginChange, Inside, At, Acquire
<1>3. Running /\ job[t] \in JobType
  BY <1>2, AdmittedJob DEF Admitted
<1>4. j \in JobType /\ j.user = job[t].user /\ j.session = job[t].session /\ j.admin = job[t].admin
  BY <1>3 DEF JobType
<1>5. Moves(t, "changing", j)
  BY <1>2, <1>4 DEF Moves, Places
<1> HIDE DEF j
<1>6. Works(t)'
  <2>1. Works(t)
    BY DEF IInv
  <2>2. pc'[t] = "changing" /\ job'[t] = j
    BY <1>5, MovesTyped DEF IInv
  <2>. QED  BY <1>1, <1>2, <1>4, <2>1, <2>2 DEF Works, Admitted
<1>7. events' \in 0 .. MaxEvents
  BY <1>1 DEF IInv, ThreadsTyped
<1>. QED  BY <1>1, <1>2, <1>3, <1>5, <1>6, <1>7, CalmStep DEF Holding, LockStep

\* The one administrator does not reset the own password.
LEMMA BeginResetKeeps ==
  ASSUME IInv, NEW t \in Threads, NEW u \in Users, NEW p \in Passwords, BeginReset(t, u, p)
  PROVE  IInv'
<1> DEFINE j == [job[t] EXCEPT !.target = u, !.password = p]
<1>1. Calm /\ UNCHANGED <<account, rows, torn, events>>
  BY QuietIsCalm DEF BeginReset, IInv, fileVars
<1>2. pc[t] = "inside" /\ lock = Nobody /\ lock' = t /\ Enter(t, "resetting", j)
  BY DEF BeginReset, Administers, Entitled, Inside, At, Acquire
<1>3. Running /\ job[t] \in JobType
  BY <1>2, AdmittedJob DEF Admitted
<1>4. /\ j \in JobType /\ j.user = job[t].user /\ j.session = job[t].session /\ j.admin = job[t].admin
      /\ j.target = u
  BY <1>3 DEF JobType
<1>5. Moves(t, "resetting", j)
  BY <1>2, <1>4 DEF Moves, Places
<1>6. ~account[u].admin
  <2>1. job[t].admin /\ u # job[t].user
    BY DEF BeginReset, Administers
  <2>2. job[t].user \in Users /\ account[job[t].user].admin
    BY <1>2, <2>1 DEF IInv, Works
  <2>. QED  BY <2>1, <2>2 DEF IInv, Administered
<1> HIDE DEF j
<1>7. Works(t)'
  <2>1. Works(t)
    BY DEF IInv
  <2>2. pc'[t] = "resetting" /\ job'[t] = j
    BY <1>5, MovesTyped DEF IInv
  <2>. QED  BY <1>1, <1>2, <1>4, <1>6, <2>1, <2>2 DEF Works, Admitted
<1>8. events' \in 0 .. MaxEvents
  BY <1>1 DEF IInv, ThreadsTyped
<1>. QED  BY <1>1, <1>2, <1>3, <1>5, <1>7, <1>8, CalmStep DEF Holding, LockStep

-----------------------------------------------------------------------------
(* The requests that change accounts or open a session.                    *)

\* The session n that a login of u opens, in the table and in the order.
Opens(u, n) ==
  /\ n = Len(rows) + 1 /\ n \notin DOMAIN rows /\ n <= MaxSessions
  /\ rows' \in Seq(RowType) /\ Len(rows') = n /\ DOMAIN rows' = DOMAIN rows \cup {n}
  /\ rows'[n].user = u /\ rows'[n].current /\ Live(n)'
  /\ \A i \in DOMAIN rows :
       /\ rows'[i].user = rows[i].user /\ rows'[i].current = rows[i].current
       /\ Live(i)' <=> Live(i) /\ i \notin Evicted(u)

LEMMA OpenSessionOpens ==
  ASSUME IInv, NEW t \in Threads, OpenSession(t)
  PROVE  \E u \in Users :
           u = job[t].user /\ Verified(u, job[t].password) /\ Opens(u, Len(rows) + 1)
<1>0. PICK u \in Users : u = job[t].user
  BY DEF OpenSession, At, IInv, Works
<1>n. PICK n : n = Len(rows) + 1
  OBVIOUS
<1> DEFINE new == [user |-> u, revoked |-> FALSE, expired |-> FALSE, current |-> TRUE]
<1>1. /\ Verified(u, job[t].password) /\ Len(rows) < MaxSessions /\ n = Len(rows) + 1
      /\ pc[t] = "opening" /\ Len(rows) \in Nat /\ DOMAIN rows = 1 .. Len(rows)
  BY <1>0, <1>n, LenProperties DEF OpenSession, At, IInv, Works, DataTyped
<1>2. rows' = Append(Revoked(Evicted(u)), new)
  BY <1>0, <1>1 DEF OpenSession, Row, Verified
<1>3. new \in RowType
  BY <1>1 DEF RowType
<1> HIDE DEF new
<1>4. /\ rows' \in Seq(RowType) /\ Len(rows') = n /\ DOMAIN rows' = 1 .. n /\ rows'[n] = new
      /\ \A i \in DOMAIN rows : rows'[i] = Revoked(Evicted(u))[i]
  <2>1. /\ Revoked(Evicted(u)) \in Seq(RowType) /\ Len(Revoked(Evicted(u))) = Len(rows)
        /\ DOMAIN Revoked(Evicted(u)) = DOMAIN rows
    BY RevokedTable DEF IInv
  <2>2. rows' \in Seq(RowType) /\ Len(rows') = n
    BY <1>1, <1>2, <1>3, <2>1, AppendProperties
  <2>3. DOMAIN rows' = 1 .. n
    BY <2>2, LenProperties
  <2>4. rows'[n] = new /\ \A i \in DOMAIN rows : rows'[i] = Revoked(Evicted(u))[i]
    BY <1>1, <1>2, <1>3, <2>1, AppendProperties
  <2>. QED  BY <2>2, <2>3, <2>4
<1>5. ASSUME NEW i \in DOMAIN rows
      PROVE  /\ rows'[i].user = rows[i].user /\ rows'[i].current = rows[i].current
             /\ Live(i)' <=> Live(i) /\ i \notin Evicted(u)
  <2>1. /\ rows'[i].user = rows[i].user /\ rows'[i].expired = rows[i].expired
        /\ rows'[i].current = rows[i].current
        /\ rows'[i].revoked = (rows[i].revoked \/ i \in Evicted(u))
    BY <1>4, RevokedRow DEF IInv
  <2>. QED  BY <2>1 DEF Live
<1>6. n \notin DOMAIN rows /\ n <= MaxSessions /\ DOMAIN rows' = DOMAIN rows \cup {n}
  BY <1>1, <1>4, AccountsAssumption
<1>7. rows'[n].user = u /\ rows'[n].current /\ ~rows'[n].revoked /\ ~rows'[n].expired
  BY <1>4 DEF new
<1>8. \A i : Live(i)' <=> ~rows'[i].revoked /\ ~rows'[i].expired
  BY DEF Live
<1>9. Opens(u, n)
  <2>1. Live(n)'
    BY <1>7, <1>8
  <2>. QED  BY <1>1, <1>4, <1>5, <1>6, <1>7, <2>1 DEF Opens
<1>. QED  BY <1>0, <1>1, <1>9

LEMMA OpenSessionKeeps ==
  ASSUME IInv, NEW t \in Threads, OpenSession(t)
  PROVE  IInv'
<1>0. PICK u \in Users : u = job[t].user /\ Verified(u, job[t].password) /\ Opens(u, Len(rows) + 1)
  BY OpenSessionOpens
<1>n. PICK n : n = Len(rows) + 1
  OBVIOUS
<1>1. Verified(u, job[t].password) /\ pc[t] = "opening"
  BY <1>0 DEF OpenSession, At
<1>2. /\ seen' = Append(seen, n) /\ lock' = Nobody /\ Leave(t)
      /\ UNCHANGED <<account, mode, fileVars, torn, events>>
  BY <1>n DEF OpenSession, Release
<1>4. /\ n = Len(rows) + 1 /\ n \notin DOMAIN rows /\ n <= MaxSessions
      /\ rows' \in Seq(RowType) /\ Len(rows') = n /\ DOMAIN rows' = DOMAIN rows \cup {n}
  BY <1>0, <1>n DEF Opens
<1>5. \A i \in DOMAIN rows :
        /\ rows'[i].user = rows[i].user /\ rows'[i].current = rows[i].current
        /\ Live(i)' <=> Live(i) /\ i \notin Evicted(u)
  BY <1>0, <1>n DEF Opens
<1>6. rows'[n].user = u /\ rows'[n].current
  BY <1>0, <1>n DEF Opens
<1>7. \A v \in Users : LiveOf(v)' \subseteq
        (IF v = u THEN (LiveOf(u) \ Evicted(u)) \cup {n} ELSE LiveOf(v))
  BY <1>4, <1>5, <1>6 DEF LiveOf, SessionsOf
<1>8. DataTyped'
  <2>1. Ordered(seen', rows')
    <3>1. Ordered(Append(seen, Len(rows) + 1), rows')
      BY <1>4, AppendOrders DEF IInv
    <3>. QED  BY <1>2, <1>4, <3>1
  <2>2. Len(rows') <= MaxSessions
    BY <1>4
  <2>3. DataTyped /\ UNCHANGED <<account, mode, schema, owner>>
    BY <1>2 DEF IInv, fileVars
  <2>. QED  BY <1>4, <2>1, <2>2, <2>3 DEF DataTyped, Ordered
<1>9. Moves(t, "idle", NoJob) /\ pc'[t] = "idle" /\ job'[t] = NoJob /\ Works(t)'
  BY <1>2, LeavesTyped DEF IInv
<1>10. \A s \in Threads : s # t => pc'[s] = pc[s] /\ job'[s] = job[s]
  BY <1>9, MovesTyped DEF IInv
<1>11. ThreadsTyped' /\ Exclusive'
  BY <1>1, <1>2, <1>9, MoveKeepsLock DEF IInv, ThreadsTyped, LockStep, Holding, fileVars
<1>12. SessionLimit'
  <2>1. ASSUME NEW v \in Users, v # u  PROVE Cardinality(LiveOf(v)') <= MaxLive
    <3>1. /\ LiveOf(v)' \subseteq LiveOf(v) /\ IsFiniteSet(LiveOf(v))
          /\ Cardinality(LiveOf(v)) <= MaxLive
      BY <1>7, <2>1, LiveAreFinite DEF IInv, SessionLimit
    <3>. QED  BY <3>1, FS_Subset, FS_CardinalityType, AccountsAssumption
  <2>2. Cardinality(LiveOf(u)') <= MaxLive
    <3> DEFINE spared == LiveOf(u) \ Evicted(u)
    <3>1. IsFiniteSet(spared) /\ Cardinality(spared) <= MaxLive - 1
      BY SparedFit DEF IInv
    <3> HIDE DEF spared
    <3>2. IsFiniteSet(spared \cup {n}) /\ Cardinality(spared \cup {n}) <= MaxLive
      <4>1. Cardinality(spared) \in Nat /\ IsFiniteSet(spared \cup {n})
        BY <3>1, FS_AddElement, FS_CardinalityType
      <4>2. Cardinality(spared \cup {n}) = Cardinality(spared)
            \/ Cardinality(spared \cup {n}) = Cardinality(spared) + 1
        BY <3>1, FS_AddElement
      <4>. QED  BY <3>1, <4>1, <4>2, AccountsAssumption
    <3>3. LiveOf(u)' \subseteq spared \cup {n}
      BY <1>1, <1>7 DEF spared
    <3>. QED  BY <3>2, <3>3, FS_Subset, FS_CardinalityType, AccountsAssumption
  <2>3. \A v \in Users : Cardinality(LiveOf(v)') <= MaxLive
    BY <2>1, <2>2
  <2>. QED  BY <2>3 DEF SessionLimit
<1>13. PasswordIsCurrent'
  BY <1>4, <1>5, <1>6 DEF IInv, PasswordIsCurrent
<1>14. DisabledIsOut'
  <2>1. ASSUME NEW v \in Users, account'[v].state = "disabled"
        PROVE  \/ LiveOf(v)' = {}
               \/ v \in torn'
               \/ \E s \in Threads : pc'[s] = "disabling" /\ job'[s].target = v
    <3>1. /\ v # u /\ LiveOf(v)' \subseteq LiveOf(v)
          /\ \/ LiveOf(v) = {}
             \/ v \in torn
             \/ \E s \in Threads : pc[s] = "disabling" /\ job[s].target = v
      BY <1>1, <1>2, <1>7, <2>1 DEF IInv, DisabledIsOut, At, Verified
    <3>. QED  BY <1>1, <1>2, <1>10, <3>1
  <2>. QED  BY <2>1 DEF DisabledIsOut, At
<1>15. ASSUME NEW s \in Threads, s # t  PROVE Works(s)'
  <2>1. pc[s] # "opening" /\ pc'[s] = pc[s] /\ job'[s] = job[s]
    BY <1>1, <1>10, <1>15 DEF IInv, Exclusive, Holding
  <2>2. Works(s)
    BY DEF IInv
  <2>. QED  BY <1>2, <1>4, <1>5, <1>6, <2>1, <2>2 DEF Works
<1>16. Administered'
  BY <1>2 DEF IInv, Administered, HasUsers, MustNotServe, Admins, Running, fileVars
<1>. QED  BY <1>8, <1>9, <1>11, <1>12, <1>13, <1>14, <1>15, <1>16 DEF IInv

\* The accounts after a change that appoints nobody and dismisses nobody.
SameAdmin ==
  /\ account' \in [Users -> AccountType]
  /\ \A u \in Users :
       /\ account'[u].admin = account[u].admin
       /\ account[u].state # "none" => account'[u].state # "none"
       /\ account[u].admin =>
            /\ account'[u].state = "enabled"
            /\ account'[u].temp /\ account'[u].default => account[u].temp /\ account[u].default

LEMMA SameAdministered ==
  ASSUME IInv, SameAdmin, Running, HasUsers' => HasUsers, UNCHANGED <<mode, schema, origin, owner>>
  PROVE  Administered'
<1>1. schema = Current /\ (HasUsers => \E u \in Users : account[u].admin)
  BY DEF IInv, Administered, Current
<1>2. ~MustNotServe => ~MustNotServe'
  BY DEF SameAdmin, MustNotServe, Admins, IInv, Administered
<1>3. schema' > 3 /\ origin' < Current => owner' \in Users /\ account'[owner'].state # "none"
  BY <1>1 DEF SameAdmin, IInv, Administered, Current
<1>4. HasUsers' => IF schema' < 3 THEN \E u \in Users : account'[u].state = "enabled"
                   ELSE \E u \in Users : account'[u].admin
  BY <1>1 DEF SameAdmin, Current
<1>5. /\ \A u \in Users : account'[u].admin => account'[u].state = "enabled"
      /\ \A u, v \in Users : account'[u].admin /\ account'[v].admin => u = v
      /\ schema' < 3 => \A u \in Users : ~account'[u].admin
      /\ mode' = "server" => ~MustNotServe'
      /\ Running' => schema' = Current
  BY <1>1, <1>2 DEF SameAdmin, IInv, Administered, Running, Current
<1>. QED  BY <1>3, <1>4, <1>5 DEF Administered

\* A step of the request that may change accounts, of which only one is under way.
LEMMA AccountStep ==
  ASSUME IInv, Fewer, Ordered(seen', rows'), SameAdmin, HasUsers' => HasUsers,
         UNCHANGED <<mode, schema, origin, owner, events>>, torn' \subseteq Users,
         NEW t \in Threads, NEW p, NEW j, Moves(t, p, j), LockStep(t, p),
         lock \in {Nobody, t}, pc[t] # "idle", Works(t)', DisabledIsOut'
  PROVE  IInv'
<1>1. /\ pc'[t] = p /\ job'[t] = j
      /\ \A s \in Threads : s # t => pc'[s] = pc[s] /\ job'[s] = job[s]
  BY MovesTyped DEF IInv
<1>2. Running /\ events' \in 0 .. MaxEvents
  BY DEF IInv, Exclusive, ThreadsTyped
<1>3. ThreadsTyped' /\ Exclusive'
  BY <1>2, MoveKeepsLock
<1>4. DataTyped'
  BY DEF IInv, DataTyped, Fewer, Ordered, SameAdmin
<1>5. Administered'
  BY <1>2, SameAdministered
<1>6. SessionLimit' /\ PasswordIsCurrent'
  BY FewerStaySafe DEF IInv
<1>7. ASSUME NEW s \in Threads, s # t  PROVE Works(s)'
  <2>1. pc[s] \notin Holding /\ pc'[s] = pc[s] /\ job'[s] = job[s]
    BY <1>1, <1>7, AccountsAssumption DEF IInv, Exclusive
  <2>2. Works(s)
    BY DEF IInv
  <2>. QED  BY <2>1, <2>2 DEF Works, Fewer, SameAdmin, Holding
<1>. QED  BY <1>3, <1>4, <1>5, <1>6, <1>7 DEF IInv

\* The request of an administrator.
LEMMA AdminIsIn ==
  ASSUME IInv, NEW t \in Threads, Administers(t)
  PROVE  /\ pc[t] = "inside" /\ Running /\ HasUsers /\ job[t] \in JobType
         /\ pc[t] # "idle" /\ pc[t] \notin Holding
<1>1. pc[t] = "inside" /\ job[t].admin
  BY DEF Administers, Entitled, Inside, At
<1>2. job[t].user \in Users /\ account[job[t].user].admin
  BY <1>1 DEF IInv, Works
<1>3. HasUsers
  BY <1>2 DEF HasUsers, IInv, Administered
<1>. QED  BY <1>1, <1>3, AdmittedJob DEF Admitted, Holding

LEMMA SameSessions ==
  ASSUME DataTyped, UNCHANGED <<rows, seen>>
  PROVE  Fewer /\ Ordered(seen', rows')
BY SameIsFewer DEF DataTyped, Ordered

LEMMA CreateUserKeeps ==
  ASSUME IInv, NEW t \in Threads, NEW u \in Users, NEW p \in Passwords, CreateUser(t, u, p)
  PROVE  IInv'
<1> DEFINE a == Account(FALSE, TRUE, FALSE, p)
<1>1. /\ account[u].state = "none" /\ account' = [account EXCEPT ![u] = a] /\ Leave(t) /\ lock = Nobody
      /\ UNCHANGED <<rows, seen, mode, fileVars, lock, torn, events>>
  BY DEF CreateUser
<1>2. a \in AccountType /\ a.state = "enabled" /\ a.admin = FALSE
  BY DEF Account, AccountType
<1> HIDE DEF a
<1>3. SameAdmin
  <2>1. account[u] \in AccountType /\ (account[u].admin => account[u].state = "enabled")
    BY DEF IInv, DataTyped, Administered
  <2>2. account[u].admin = FALSE
    BY <1>1, <2>1 DEF AccountType
  <2>3. account' \in [Users -> AccountType]
    BY <1>1, <1>2 DEF IInv, DataTyped
  <2>4. \A v \in Users : account'[v] = IF v = u THEN a ELSE account[v]
    BY <1>1 DEF IInv, DataTyped
  <2>. QED  BY <1>1, <1>2, <2>2, <2>3, <2>4 DEF SameAdmin, IInv, Administered
<1>4. Fewer /\ Ordered(seen', rows')
  BY <1>1, SameSessions DEF IInv
<1>5. Running /\ HasUsers /\ pc[t] # "idle" /\ pc[t] \notin Holding /\ pc[t] # "disabling"
  BY AdminIsIn DEF CreateUser, Holding
<1>6. Moves(t, "idle", NoJob) /\ Works(t)'
  BY <1>1, LeavesTyped DEF IInv
<1>7. DisabledIsOut'
  <2>1. \A v \in Users : account'[v].state = "disabled" => account[v].state = "disabled"
    BY <1>1, <1>2 DEF IInv, DataTyped
  <2>2. \A s \in Threads : s # t => pc'[s] = pc[s] /\ job'[s] = job[s]
    BY <1>6, MovesTyped DEF IInv
  <2>. QED  BY <1>1, <1>4, <1>5, <2>1, <2>2, StaysOut
<1>. QED  BY <1>1, <1>3, <1>4, <1>5, <1>6, <1>7, AccountStep DEF LockStep, Holding, fileVars, IInv, ThreadsTyped

LEMMA EnableUserKeeps ==
  ASSUME IInv, NEW t \in Threads, NEW u \in Users, EnableUser(t, u)
  PROVE  IInv'
<1>1. /\ account[u].state # "none" /\ ~account[u].admin /\ account' = [account EXCEPT ![u].state = "enabled"]
      /\ Leave(t) /\ lock = Nobody
      /\ UNCHANGED <<rows, seen, mode, fileVars, lock, torn, events>>
  BY DEF EnableUser
<1>2. SameAdmin
  BY <1>1 DEF SameAdmin, IInv, DataTyped, Administered, AccountType
<1>3. Fewer /\ Ordered(seen', rows')
  BY <1>1, SameSessions DEF IInv
<1>4. Running /\ HasUsers /\ pc[t] # "idle" /\ pc[t] \notin Holding /\ pc[t] # "disabling"
  BY AdminIsIn DEF EnableUser, Holding
<1>5. Moves(t, "idle", NoJob) /\ Works(t)'
  BY <1>1, LeavesTyped DEF IInv
<1>6. DisabledIsOut'
  <2>1. \A v \in Users : account'[v].state = "disabled" => account[v].state = "disabled"
    BY <1>1 DEF IInv, DataTyped, AccountType
  <2>2. \A s \in Threads : s # t => pc'[s] = pc[s] /\ job'[s] = job[s]
    BY <1>5, MovesTyped DEF IInv
  <2>. QED  BY <1>1, <1>3, <1>4, <2>1, <2>2, StaysOut
<1>. QED  BY <1>1, <1>2, <1>3, <1>4, <1>5, <1>6, AccountStep DEF LockStep, Holding, fileVars, IInv, ThreadsTyped

\* The account is disabled first, its sessions end with the next step.
LEMMA DisableUserKeeps ==
  ASSUME IInv, NEW t \in Threads, NEW u \in Users, DisableUser(t, u)
  PROVE  IInv'
<1> DEFINE j == [job[t] EXCEPT !.target = u]
<1>1. /\ account[u].state # "none" /\ ~account[u].admin /\ account' = [account EXCEPT ![u].state = "disabled"]
      /\ Enter(t, "disabling", j) /\ lock = Nobody /\ lock' = t
      /\ UNCHANGED <<rows, seen, mode, fileVars, torn, events>>
  BY DEF DisableUser, Acquire
<1>2. SameAdmin
  BY <1>1 DEF SameAdmin, IInv, DataTyped, Administered, AccountType
<1>3. Fewer /\ Ordered(seen', rows')
  BY <1>1, SameSessions DEF IInv
<1>4. /\ Running /\ HasUsers /\ pc[t] # "idle" /\ pc[t] \notin Holding /\ pc[t] = "inside"
      /\ job[t] \in JobType
  BY AdminIsIn DEF DisableUser
<1>5. /\ j \in JobType /\ j.user = job[t].user /\ j.session = job[t].session /\ j.admin = job[t].admin
      /\ j.target = u
  BY <1>4 DEF JobType
<1> HIDE DEF j
<1>6. Moves(t, "disabling", j)
  BY <1>1, <1>5 DEF Moves, Places
<1>7. /\ pc'[t] = "disabling" /\ job'[t] = j
      /\ \A s \in Threads : s # t => pc'[s] = pc[s] /\ job'[s] = job[s]
  BY <1>6, MovesTyped DEF IInv
<1>8. Works(t)'
  <2>1. Works(t)
    BY DEF IInv
  <2>. QED  BY <1>1, <1>2, <1>4, <1>5, <1>7, <2>1 DEF Works, Admitted, SameAdmin
<1>9. DisabledIsOut'
  <2>1. ASSUME NEW v \in Users, account'[v].state = "disabled", v # u
        PROVE  \/ LiveOf(v)' = {}
               \/ v \in torn'
               \/ \E s \in Threads : pc'[s] = "disabling" /\ job'[s].target = v
    <3>1. account[v].state = "disabled"
      BY <1>1, <2>1 DEF IInv, DataTyped
    <3>2. LiveOf(v)' = LiveOf(v)
      BY <1>1 DEF LiveOf, SessionsOf, Live
    <3>. QED  BY <1>1, <1>4, <1>7, <3>1, <3>2 DEF IInv, DisabledIsOut, At
  <2>. QED  BY <1>5, <1>7, <2>1 DEF DisabledIsOut, At
<1>. QED  BY <1>1, <1>2, <1>3, <1>4, <1>6, <1>8, <1>9, AccountStep DEF LockStep, Holding, fileVars, IInv, ThreadsTyped

LEMMA RevokeDisabledKeeps ==
  ASSUME IInv, NEW t \in Threads, RevokeDisabled(t)
  PROVE  IInv'
<1>0. PICK u \in Users : u = job[t].target
  BY DEF RevokeDisabled, At, IInv, Works
<1>1. /\ pc[t] = "disabling" /\ rows' = Revoked(LiveOf(u)) /\ torn' = torn \ {u} /\ lock' = Nobody /\ Leave(t)
      /\ UNCHANGED <<account, seen, mode, fileVars, events>>
  BY <1>0 DEF RevokeDisabled, Release, At
<1>2. SameAdmin
  BY <1>1 DEF SameAdmin, IInv, DataTyped, Administered
<1>3. Fewer /\ Ordered(seen', rows') /\ \A i \in DOMAIN rows : i \in LiveOf(u) => ~Live(i)'
  BY <1>1, RevokedFewer DEF IInv, DataTyped, Ordered, Fewer
<1>4. lock = t /\ Running /\ pc[t] \in Holding /\ pc[t] # "idle"
  BY <1>1 DEF IInv, Exclusive, Holding
<1>5. Moves(t, "idle", NoJob) /\ Works(t)'
  BY <1>1, LeavesTyped DEF IInv
<1>6. DisabledIsOut'
  <2>1. LiveOf(u)' = {}
    BY <1>3, FewerStaySafe DEF IInv, LiveOf, SessionsOf, Fewer
  <2>2. ASSUME NEW v \in Users, account'[v].state = "disabled", v # u
        PROVE  LiveOf(v)' = {} \/ v \in torn'
    <3>1. LiveOf(v)' \subseteq LiveOf(v)
      BY <1>3, FewerStaySafe DEF IInv
    <3>2. \A s \in Threads : pc[s] = "disabling" => s = t
      BY <1>4 DEF IInv, Exclusive, Holding
    <3>. QED  BY <1>0, <1>1, <2>2, <3>1, <3>2 DEF IInv, DisabledIsOut, At
  <2>. QED  BY <2>1, <2>2 DEF DisabledIsOut
<1>7. HasUsers' => HasUsers
  BY <1>1 DEF HasUsers
<1>8. LockStep(t, "idle") /\ torn' \subseteq Users
  BY <1>1, <1>4 DEF LockStep, Holding, IInv, ThreadsTyped
<1>. QED  BY <1>1, <1>2, <1>3, <1>4, <1>5, <1>6, <1>7, <1>8, AccountStep DEF fileVars

\* An account with another password, for ever or for the next login.
LEMMA NewPassword ==
  ASSUME DataTyped, NEW u \in Users, NEW p \in Passwords, NEW temp \in BOOLEAN,
         account' = [account EXCEPT ![u].password = p, ![u].temp = temp]
  PROVE  /\ account' \in [Users -> AccountType]
         /\ \A v \in Users :
              /\ account'[v].state = account[v].state /\ account'[v].admin = account[v].admin
              /\ account'[v].default = account[v].default
              /\ account'[v].temp = IF v = u THEN temp ELSE account[v].temp
<1> DEFINE a == [account[u] EXCEPT !.password = p, !.temp = temp]
<1>1. account[u] \in AccountType
  BY DEF DataTyped
<1>2. /\ a \in AccountType /\ a.state = account[u].state /\ a.admin = account[u].admin
      /\ a.default = account[u].default /\ a.temp = temp
  BY <1>1 DEF AccountType
<1>3. account' = [account EXCEPT ![u] = a]
  BY DEF DataTyped
<1> HIDE DEF a
<1>4. account' \in [Users -> AccountType]
  BY <1>2, <1>3 DEF DataTyped
<1>5. \A v \in Users : account'[v] = IF v = u THEN a ELSE account[v]
  BY <1>3 DEF DataTyped
<1>. QED  BY <1>2, <1>4, <1>5

LEMMA ChangePasswordKeeps ==
  ASSUME IInv, NEW t \in Threads, ChangePassword(t)
  PROVE  IInv'
<1> DEFINE u == job[t].user
           k == job[t].session
<1>1. pc[t] = "changing" /\ Leave(t) /\ lock' = Nobody /\ UNCHANGED <<mode, fileVars, torn, events>>
  BY DEF ChangePassword, At, Release
<1>2. /\ Running /\ u \in Users /\ k \in DOMAIN rows /\ rows[k].user = u
      /\ job[t].password \in Passwords
  BY <1>1, AdmittedJob DEF Admitted, JobType
<1>3. lock = t /\ pc[t] \in Holding /\ pc[t] # "idle" /\ pc[t] # "disabling"
  BY <1>1 DEF IInv, Exclusive, Holding
<1>4. Moves(t, "idle", NoJob) /\ Works(t)' /\ LockStep(t, "idle")
  BY <1>1, <1>3, LeavesTyped DEF IInv, LockStep, Holding
<1>5. /\ Fewer /\ Ordered(seen', rows') /\ account' \in [Users -> AccountType]
      /\ \A v \in Users :
           /\ account'[v].state = account[v].state /\ account'[v].admin = account[v].admin
           /\ account'[v].default = account[v].default
           /\ account'[v].temp => account[v].temp
  <2>1. CASE Keepable(t)
    <3>1. /\ account' = [account EXCEPT ![u].password = job[t].password, ![u].temp = FALSE]
          /\ rows' = Outdated(u, {k}, LiveOf(u) \ {k}) /\ seen' = ToEnd(k)
      BY <2>1 DEF ChangePassword
    <3>2. /\ account' \in [Users -> AccountType]
          /\ \A v \in Users :
               /\ account'[v].state = account[v].state /\ account'[v].admin = account[v].admin
               /\ account'[v].default = account[v].default
               /\ account'[v].temp = IF v = u THEN FALSE ELSE account[v].temp
      <4> HIDE DEF u
      <4>. QED  BY <1>2, <3>1, NewPassword DEF IInv
    <3>3. Fewer
      BY <3>1, OutdatedFewer DEF IInv
    <3>4. Ordered(seen', rows')
      BY <1>2, <3>1, <3>3, ToEndOrders DEF IInv, Ordered, Fewer
    <3>. QED  BY <3>2, <3>3, <3>4
  <2>2. CASE ~Keepable(t)
    <3>1. UNCHANGED <<account, rows, seen>>
      BY <2>2 DEF ChangePassword
    <3>. QED  BY <3>1, SameSessions DEF IInv, DataTyped
  <2>. QED  BY <2>1, <2>2
<1>6. SameAdmin /\ (HasUsers' => HasUsers)
  BY <1>5 DEF SameAdmin, IInv, Administered, HasUsers
<1>7. DisabledIsOut'
  <2>1. \A s \in Threads : s # t => pc'[s] = pc[s] /\ job'[s] = job[s]
    BY <1>4, MovesTyped DEF IInv
  <2>. QED  BY <1>1, <1>3, <1>5, <2>1, StaysOut
<1>. QED  BY <1>1, <1>3, <1>4, <1>5, <1>6, <1>7, AccountStep DEF fileVars, IInv, ThreadsTyped

LEMMA ResetPasswordKeeps ==
  ASSUME IInv, NEW t \in Threads, ResetPassword(t)
  PROVE  IInv'
<1>0. PICK u \in Users : u = job[t].target
  BY DEF ResetPassword, At, IInv, Works
<1>1. /\ pc[t] = "resetting" /\ Leave(t) /\ lock' = Nobody
      /\ account' = [account EXCEPT ![u].password = job[t].password, ![u].temp = TRUE]
      /\ rows' = Outdated(u, {}, LiveOf(u))
      /\ UNCHANGED <<seen, mode, fileVars, torn, events>>
  BY <1>0 DEF ResetPassword, At, Release
<1>2. job[t].password \in Passwords /\ ~account[u].admin
  BY <1>0, <1>1, AdmittedJob DEF Admitted, JobType, IInv, Works
<1>3. lock = t /\ pc[t] \in Holding /\ pc[t] # "idle" /\ pc[t] # "disabling"
  BY <1>1 DEF IInv, Exclusive, Holding
<1>4. Moves(t, "idle", NoJob) /\ Works(t)' /\ LockStep(t, "idle")
  BY <1>1, <1>3, LeavesTyped DEF IInv, LockStep, Holding
<1>5. Fewer /\ Ordered(seen', rows')
  <2>1. Fewer
    BY <1>1, OutdatedFewer DEF IInv
  <2>. QED  BY <1>1, <2>1 DEF IInv, DataTyped, Ordered, Fewer
<1>6. /\ account' \in [Users -> AccountType]
      /\ \A v \in Users :
           /\ account'[v].state = account[v].state /\ account'[v].admin = account[v].admin
           /\ account'[v].default = account[v].default
           /\ account'[v].temp = IF v = u THEN TRUE ELSE account[v].temp
  BY <1>1, <1>2, NewPassword DEF IInv
<1>7. SameAdmin /\ (HasUsers' => HasUsers)
  BY <1>2, <1>6 DEF SameAdmin, IInv, Administered, HasUsers
<1>8. DisabledIsOut'
  <2>1. \A s \in Threads : s # t => pc'[s] = pc[s] /\ job'[s] = job[s]
    BY <1>4, MovesTyped DEF IInv
  <2>. QED  BY <1>1, <1>3, <1>5, <1>6, <2>1, StaysOut
<1>. QED  BY <1>1, <1>3, <1>4, <1>5, <1>6, <1>7, <1>8, AccountStep DEF fileVars, IInv, ThreadsTyped

\* The first account of a server is its administrator.
LEMMA SetupKeeps ==
  ASSUME IInv, NEW t \in Threads, NEW u \in Users, NEW p \in Passwords, Setup(t, u, p)
  PROVE  IInv'
<1> DEFINE a == Account(TRUE, FALSE, FALSE, p)
           j == [NoJob EXCEPT !.user = u, !.password = p]
<1>1. /\ pc[t] = "idle" /\ ~HasUsers /\ Running /\ account' = [account EXCEPT ![u] = a]
      /\ Enter(t, "login", j) /\ UNCHANGED <<rows, seen, mode, fileVars, lock, torn>>
      /\ lock = Nobody /\ events' \in 0 .. MaxEvents
  BY DatabaseAssumption DEF Setup, At, Spend, IInv, ThreadsTyped
<1>2. a \in AccountType /\ a.state = "enabled" /\ a.admin = TRUE /\ a.temp = FALSE
  BY DEF Account, AccountType
<1>3. j \in JobType /\ j.user = u /\ j.admin = FALSE
  BY NoJobTyped DEF NoJob, JobType
<1> HIDE DEF a, j
<1>4. Moves(t, "login", j)
  BY <1>1, <1>3 DEF Moves, Places
<1>5. /\ pc'[t] = "login" /\ job'[t] = j
      /\ \A s \in Threads : s # t => pc'[s] = pc[s] /\ job'[s] = job[s]
  BY <1>4, MovesTyped DEF IInv
<1>6. Fewer /\ Ordered(seen', rows')
  BY <1>1, SameSessions DEF IInv
<1>7. /\ account' \in [Users -> AccountType]
      /\ \A v \in Users : account'[v] = IF v = u THEN a ELSE account[v]
  BY <1>1, <1>2 DEF IInv, DataTyped
<1>8. /\ \A v \in Users : account[v].state = "none" /\ ~account[v].admin
      /\ \A i \in DOMAIN rows : rows[i].user \in Users
  <2>1. \A i \in DOMAIN rows : rows[i].user \in Users
    BY RowIsTyped DEF IInv, RowType
  <2>. QED  BY <1>1, <2>1 DEF HasUsers, IInv, Administered
<1>9. ThreadsTyped' /\ Exclusive'
  BY <1>1, <1>4, MoveKeepsLock DEF LockStep, Holding, IInv, ThreadsTyped
<1>10. DataTyped' /\ SessionLimit' /\ PasswordIsCurrent'
  <2>1. DataTyped'
    BY <1>1, <1>6, <1>7 DEF IInv, DataTyped, Fewer, Ordered, fileVars
  <2>. QED  BY <1>6, <2>1, FewerStaySafe DEF IInv
<1>11. \A s \in Threads : Works(s)'
  <2>1. Works(t)'
    BY <1>3, <1>5 DEF Works, Admitted
  <2>2. ASSUME NEW s \in Threads, s # t  PROVE Works(s)'
    <3>1. pc[s] \notin Holding /\ Works(s)
      BY <1>1, AccountsAssumption DEF IInv, Exclusive
    <3>2. pc[s] # "idle" => ~job[s].admin
      BY <1>8, <3>1 DEF Works
    <3>. QED  BY <1>1, <1>5, <2>2, <3>1, <3>2 DEF Works, Holding
  <2>. QED  BY <2>1, <2>2
<1>12. Administered'
  <2>1. schema = Current /\ schema' = Current /\ mode' = mode /\ origin' = origin /\ owner' = owner
    BY <1>1 DEF IInv, Administered, fileVars
  <2>2. ~(origin < Current)
    BY <1>8, <2>1 DEF IInv, Administered, Current
  <2>3. \A v \in Users : account'[v].admin <=> v = u
    BY <1>2, <1>7, <1>8
  <2>4. ~MustNotServe'
    BY <1>2, <1>7, <2>3 DEF MustNotServe, Admins
  <2>. QED  BY <1>2, <1>7, <2>1, <2>2, <2>3, <2>4 DEF Administered, Current
<1>13. DisabledIsOut'
  BY <1>2, <1>7, <1>8 DEF DisabledIsOut
<1>. QED  BY <1>9, <1>10, <1>11, <1>12, <1>13 DEF IInv

-----------------------------------------------------------------------------
(* Time, the cleaner and restarts.                                         *)

LEMMA ExpireKeeps ==
  ASSUME IInv, NEW i \in DOMAIN rows, Expire(i)
  PROVE  IInv'
<1>1. Calm
  BY ExpiredFewer DEF Expire, IInv, DataTyped, Calm, Ordered, Fewer, fileVars
<1>. QED  BY <1>1, CalmClock DEF Expire

LEMMA SweepKeeps ==
  ASSUME IInv, Sweep
  PROVE  IInv'
<1>1. Calm
  BY RevokedIsCalm DEF Sweep, IInv, fileVars
<1>. QED  BY <1>1, CalmClock DEF Sweep

\* The default administrator is added where nobody is.
LEMMA DefaultAdded ==
  ASSUME DataTyped, NEW m
  PROVE  /\ WithDefault(m) \in [Users -> AccountType]
         /\ m = "local" /\ ~HasUsers =>
              \A v \in Users :
                WithDefault(m)[v] = IF v = DefaultAdmin THEN Account(TRUE, TRUE, TRUE, DefaultPassword)
                                    ELSE account[v]
         /\ ~ (m = "local" /\ ~HasUsers) => WithDefault(m) = account
<1>1. DefaultAdmin \in Users /\ Account(TRUE, TRUE, TRUE, DefaultPassword) \in AccountType
  BY DatabaseAssumption DEF Account, AccountType
<1>. QED  BY <1>1 DEF WithDefault, DataTyped

\* Nobody is disabled, dismissed or forgotten by that.
LEMMA DefaultAdministered ==
  ASSUME IInv, NEW m, account' = WithDefault(m), schema = Current, UNCHANGED <<schema, origin, owner>>,
         mode' = "server" => m = "server" /\ ~MustNotServe
  PROVE  /\ Administered' /\ account' \in [Users -> AccountType]
         /\ \A u \in Users : account'[u].state = "disabled" => account[u].state = "disabled"
<1>1. CASE m = "local" /\ ~HasUsers
  <2> DEFINE a == Account(TRUE, TRUE, TRUE, DefaultPassword)
  <2>1. a.state = "enabled" /\ a.admin = TRUE
    BY DEF Account
  <2>2. \A v \in Users : account'[v] = IF v = DefaultAdmin THEN a ELSE account[v]
    BY <1>1, DefaultAdded DEF IInv
  <2>3. \A v \in Users : account[v].state = "none" /\ ~account[v].admin
    BY <1>1 DEF HasUsers, IInv, Administered
  <2>4. ~ (origin < Current) /\ mode' # "server"
    BY <1>1, <2>3 DEF IInv, Administered, Current
  <2> HIDE DEF a
  <2>5. \A v \in Users : account'[v].admin <=> v = DefaultAdmin
    BY <2>1, <2>2, <2>3
  <2>6. Administered'
    BY <2>1, <2>2, <2>4, <2>5, DatabaseAssumption DEF Administered, Current
  <2>. QED  BY <1>1, <2>1, <2>2, <2>6, DefaultAdded DEF IInv
<1>2. CASE ~ (m = "local" /\ ~HasUsers)
  <2>1. account' = account
    BY <1>2, DefaultAdded DEF IInv
  <2>2. MustNotServe' = MustNotServe /\ HasUsers' = HasUsers
    BY <2>1 DEF MustNotServe, Admins, HasUsers
  <2>. QED  BY <2>1, <2>2 DEF IInv, DataTyped, Administered, Current
<1>. QED  BY <1>1, <1>2

LEMMA ServesOnly ==
  ASSUME NEW m \in {"local", "server"}
  PROVE  /\ Serving(m) \in {"local", "server", "refused"}
         /\ Serving(m) = "server" => m = "server" /\ ~MustNotServe
BY DEF Serving

\* The process starts again, all requests are gone.
LEMMA RestartKeeps ==
  ASSUME IInv, NEW m \in {"local", "server"}, Restart(m)
  PROVE  IInv'
<1>1. /\ schema = Current /\ mode' = Serving(m) /\ account' = WithDefault(m) /\ lock' = Nobody
      /\ pc' = [t \in Threads |-> "idle"] /\ job' = [t \in Threads |-> NoJob]
      /\ torn' = torn \cup {job[t].target : t \in {x \in Threads : At(x, "disabling")}}
      /\ UNCHANGED <<rows, seen, schema, origin, owner>> /\ events' \in 0 .. MaxEvents
  BY DatabaseAssumption DEF Restart, Spend, IInv, ThreadsTyped
<1>2. /\ Administered' /\ account' \in [Users -> AccountType]
      /\ \A u \in Users : account'[u].state = "disabled" => account[u].state = "disabled"
  BY <1>1, ServesOnly, DefaultAdministered
<1>3. Fewer /\ Ordered(seen', rows')
  BY <1>1, SameSessions DEF IInv
<1>4. DataTyped'
  <2>1. mode' \in Modes
    BY <1>1, ServesOnly DEF Modes
  <2>. QED  BY <1>1, <1>2, <1>3, <2>1 DEF IInv, DataTyped, Fewer, Ordered
<1>5. SessionLimit' /\ PasswordIsCurrent' /\ \A u \in Users : LiveOf(u)' \subseteq LiveOf(u)
  BY <1>3, FewerStaySafe DEF IInv
<1>6. ThreadsTyped'
  <2>1. \A t \in Threads : pc[t] = "disabling" => job[t].target \in Users
    BY DEF IInv, Works
  <2>2. torn' \subseteq Users
    BY <1>1, <2>1 DEF At, IInv, ThreadsTyped
  <2>. QED  BY <1>1, <2>2, NoJobTyped DEF ThreadsTyped, Places
<1>7. Exclusive' /\ \A t \in Threads : Works(t)'
  BY <1>1 DEF Exclusive, Works, Holding, Admitted
<1>8. DisabledIsOut'
  <2>1. ASSUME NEW u \in Users, account'[u].state = "disabled"  PROVE LiveOf(u)' = {} \/ u \in torn'
    BY <1>1, <1>2, <1>5, <2>1 DEF IInv, DisabledIsOut
  <2>. QED  BY <2>1 DEF DisabledIsOut
<1>. QED  BY <1>2, <1>4, <1>5, <1>6, <1>7, <1>8 DEF IInv

\* While the process starts there is no request.
LEMMA BootStep ==
  ASSUME IInv, ~Running, Fewer, UNCHANGED <<seen, threadVars, torn>>, events' \in 0 .. MaxEvents,
         account' \in [Users -> AccountType], mode' \in Modes, schema' \in 2 .. Current,
         owner' \in Users \cup {Nobody}, Administered',
         \A u \in Users : account'[u].state = "disabled" => account[u].state = "disabled"
  PROVE  IInv'
<1>1. pc' = pc /\ job' = job /\ lock' = lock /\ \A t \in Threads : pc[t] = "idle"
  BY DEF threadVars, IInv, Exclusive
<1>2. DataTyped'
  BY DEF IInv, DataTyped, Fewer
<1>3. ThreadsTyped' /\ Exclusive' /\ \A t \in Threads : Works(t)'
  BY <1>1 DEF IInv, ThreadsTyped, Exclusive, Works, Holding, Admitted
<1>4. SessionLimit' /\ PasswordIsCurrent' /\ \A u \in Users : LiveOf(u)' \subseteq LiveOf(u)
  BY FewerStaySafe DEF IInv
<1>5. DisabledIsOut'
  BY <1>1, <1>4 DEF IInv, DisabledIsOut, At
<1>. QED  BY <1>2, <1>3, <1>4, <1>5 DEF IInv

LEMMA QuietBoot ==
  ASSUME IInv, ~Running, UNCHANGED <<account, rows, schema, origin, owner, seen, threadVars, torn>>,
         events' \in 0 .. MaxEvents, mode' \in {"down", "copying", "migrating"}
  PROVE  IInv'
<1>1. Administered'
  BY DEF IInv, Administered, HasUsers, Running
<1>2. Fewer
  BY SameIsFewer DEF IInv
<1>. QED  BY <1>1, <1>2, BootStep DEF Modes, IInv, DataTyped

\* Of several users one is the eldest.
LEMMA EldestIn ==
  ASSUME NEW S, S \subseteq Users, S # {}
  PROVE  Eldest(S) \in S
<1>1. \A u \in S : Created[u] \in Nat
  BY DatabaseAssumption
<1>2. \E u \in S : \A v \in S : Created[u] <= Created[v]
  BY <1>1, FirstOf
<1>. QED  BY <1>2 DEF Eldest

\* The upgrade appoints one administrator who is enabled.
LEMMA AppointsOne ==
  ASSUME IInv, UpgradeInv, mode = "migrating", Migratable
  PROVE  /\ WithAdmin \in [Users -> AccountType]
         /\ \E r \in Users : /\ WithAdmin[r].state = "enabled"
                             /\ \A u \in Users : WithAdmin[u].admin <=> u = r
         /\ \A u \in Users : WithAdmin[u].state = "disabled" => account[u].state = "disabled"
         /\ owner \in Users /\ account[owner].state # "none" => WithAdmin[owner].state # "none"
<1>1. CASE schema < 4 /\ ~HasUsers
  <2>1. WithAdmin = WithDefault(boot) /\ \E u \in Users : WithAdmin[u].admin
    BY <1>1 DEF WithAdmin, Migratable
  <2>2. \A v \in Users : account[v].state = "none" /\ ~account[v].admin
    BY <1>1 DEF HasUsers, IInv, Administered
  <2>3. boot = "local"
    BY <1>1, <2>1, <2>2, DefaultAdded DEF IInv
  <2> DEFINE a == Account(TRUE, TRUE, TRUE, DefaultPassword)
  <2>4. a.state = "enabled" /\ a.admin = TRUE
    BY DEF Account
  <2>5. /\ WithAdmin \in [Users -> AccountType]
        /\ \A v \in Users : WithAdmin[v] = IF v = DefaultAdmin THEN a ELSE account[v]
    BY <1>1, <2>1, <2>3, DefaultAdded DEF IInv
  <2> HIDE DEF a
  <2>. QED  BY <2>2, <2>4, <2>5, DatabaseAssumption
<1>2. CASE schema < 3 /\ HasUsers
  <2> DEFINE r == First(account)
  <2>1. WithAdmin = [u \in Users |-> [account[u] EXCEPT !.admin = u = r]]
    BY <1>2 DEF WithAdmin, WithRoles
  <2>2. r \in Users /\ account[r].state = "enabled"
    <3>1. InState(account, "enabled") # {} /\ InState(account, "enabled") \subseteq Users
      BY <1>2 DEF IInv, Administered, InState
    <3>2. r \in InState(account, "enabled")
      BY <3>1, EldestIn DEF First
    <3>. QED  BY <3>2 DEF InState
  <2> HIDE DEF r
  <2>3. ASSUME NEW u \in Users
        PROVE  /\ WithAdmin[u] \in AccountType /\ WithAdmin[u].state = account[u].state
               /\ WithAdmin[u].admin <=> u = r
    <3>1. account[u] \in AccountType
      BY DEF IInv, DataTyped
    <3>2. WithAdmin[u] = [account[u] EXCEPT !.admin = u = r]
      BY <2>1
    <3>. QED  BY <3>1, <3>2 DEF AccountType
  <2>4. WithAdmin \in [Users -> AccountType]
    BY <2>1, <2>3
  <2>. QED  BY <2>2, <2>3, <2>4
<1>3. CASE ~ (schema < 3) /\ ~ (schema < 4 /\ ~HasUsers)
  <2>1. WithAdmin = account
    BY <1>3 DEF WithAdmin, WithRoles
  <2>2. HasUsers
    BY <1>3 DEF UpgradeInv, IInv, DataTyped, Administered, HasUsers, Current
  <2>3. \E r \in Users : account[r].admin
    BY <1>3, <2>2 DEF IInv, Administered
  <2>. QED  BY <2>1, <2>3 DEF IInv, DataTyped, Administered
<1>4. schema \in Nat
  BY DEF UpgradeInv
<1>. QED  BY <1>1, <1>2, <1>3, <1>4

LEMMA MigrateKeeps ==
  ASSUME IInv, UpgradeInv, Migrate, UNCHANGED <<seen, threadVars, torn>>
  PROVE  IInv'
<1>1. /\ mode = "migrating" /\ mode' = "pruning" /\ schema' = Current /\ account' = WithAdmin
      /\ owner' = OwnerIn(account') /\ UNCHANGED <<origin, events>>
      /\ rows' = IF schema < 3 THEN Revoked(DOMAIN rows) ELSE rows
  BY DEF Migrate, Stays
<1>2. /\ account' \in [Users -> AccountType]
      /\ \A u \in Users : account'[u].state = "disabled" => account[u].state = "disabled"
      /\ owner \in Users /\ account[owner].state # "none" => account'[owner].state # "none"
  BY <1>1, AppointsOne DEF Migrate
<1>3. PICK r \in Users : account'[r].state = "enabled" /\ \A u \in Users : account'[u].admin <=> u = r
  BY <1>1, AppointsOne DEF Migrate
<1>4. owner' \in Users /\ account'[owner'].state # "none"
  <2>1. \E u \in Users : account'[u].admin
    BY <1>3
  <2>2. /\ (CHOOSE u \in Users : account'[u].admin) \in Users
        /\ account'[CHOOSE u \in Users : account'[u].admin].admin
    BY <2>1
  <2>. QED  BY <1>1, <1>3, <2>2 DEF OwnerIn
<1>5. Administered'
  BY <1>1, <1>3, <1>4 DEF Administered, Running, Current
<1>6. Fewer
  BY <1>1, SameIsFewer, RevokedFewer DEF IInv
<1>7. ~Running /\ mode' \in Modes /\ schema' \in 2 .. Current /\ events' \in 0 .. MaxEvents
  BY <1>1 DEF Running, Modes, Current, IInv, ThreadsTyped
<1>. QED  BY <1>1, <1>2, <1>4, <1>5, <1>6, <1>7, BootStep

LEMMA PruneKeeps ==
  ASSUME IInv, UpgradeInv, Prune, UNCHANGED <<seen, threadVars, torn>>
  PROVE  IInv'
<1>1. /\ mode = "pruning" /\ mode' = Serving(boot) /\ account' = WithDefault(boot)
      /\ UNCHANGED <<rows, schema, owner, origin, events>> /\ boot \in {"local", "server"}
      /\ schema = Current
  BY DEF Prune, Stays, UpgradeInv
<1>2. /\ Administered' /\ account' \in [Users -> AccountType]
      /\ \A u \in Users : account'[u].state = "disabled" => account[u].state = "disabled"
  BY <1>1, ServesOnly, DefaultAdministered
<1>3. Fewer
  BY <1>1, SameIsFewer DEF IInv
<1>4. /\ ~Running /\ mode' \in Modes /\ schema' \in 2 .. Current /\ events' \in 0 .. MaxEvents
      /\ owner' \in Users \cup {Nobody}
  <2>1. mode' \in Modes
    BY <1>1, ServesOnly DEF Modes
  <2>. QED  BY <1>1, <2>1 DEF Running, IInv, DataTyped, ThreadsTyped
<1>. QED  BY <1>1, <1>2, <1>3, <1>4, BootStep

LEMMA StartKeeps ==
  ASSUME IInv, UpgradeInv, Boot, UNCHANGED <<seen, threadVars, torn>>
  PROVE  IInv'
<1>1. CASE (\E m \in {"local", "server"} : CreateBackup(m)) \/ FillBackup \/ BackupFails \/ MigrateFails \/ Die
  <2>1. /\ UNCHANGED <<account, rows, schema, origin, owner>> /\ ~Running
        /\ mode' \in {"down", "copying", "migrating"}
    BY <1>1 DEF CreateBackup, FillBackup, BackupFails, MigrateFails, Die, Stays, Running
  <2>2. events' = events \/ Spend
    BY <1>1 DEF CreateBackup, FillBackup, BackupFails, MigrateFails, Die, Stays
  <2>3. events' \in 0 .. MaxEvents
    BY <2>2, DatabaseAssumption DEF Spend, IInv, ThreadsTyped
  <2>. QED  BY <2>1, <2>3, QuietBoot
<1>. QED  BY <1>1, MigrateKeeps, PruneKeeps DEF Boot

-----------------------------------------------------------------------------
(* The theorems.                                                           *)

LEMMA InitSafe == Init => IInv
<1> SUFFICES ASSUME Init  PROVE IInv
  OBVIOUS
<1> USE DatabaseAssumption, AccountsAssumption
<1>1. /\ seen = [i \in DOMAIN rows |-> i] /\ lock = Nobody /\ torn = {}
      /\ pc = [t \in Threads |-> "idle"] /\ job = [t \in Threads |-> NoJob]
  BY DEF Init
<1>2. Exclusive /\ \A t \in Threads : Works(t)
  BY <1>1 DEF Exclusive, Works, Holding, Admitted
<1>4. Ordered(seen, rows)
  BY <1>1 DEF Ordered, IsInjective, ToSet
<1>5. CASE InitNew
  <2>1. /\ mode \in {"local", "server"} /\ schema = Current /\ origin = Current /\ owner = Nobody
        /\ rows = <<>> /\ events = 0
        /\ account = [u \in Users |-> IF mode = "local" /\ u = DefaultAdmin
                                      THEN Account(TRUE, TRUE, TRUE, DefaultPassword) ELSE NoAccount]
    BY <1>5 DEF InitNew
  <2>2. rows \in Seq(RowType) /\ Len(rows) = 0 /\ DOMAIN rows = {}
    BY <2>1, EmptySeq
  <2>3. \A u : LiveOf(u) = {}
    BY <2>2 DEF LiveOf, SessionsOf
  <2>4. account \in [Users -> AccountType]
    BY <2>1 DEF AccountType, Account, NoAccount
  <2>5. \A u \in Users : /\ account[u].admin <=> mode = "local" /\ u = DefaultAdmin
                         /\ account[u].state = IF account[u].admin THEN "enabled" ELSE "none"
    BY <2>1 DEF Account, NoAccount
  <2>6. Administered
    <3>1. /\ \A u \in Users : account[u].admin => account[u].state = "enabled"
          /\ \A u, v \in Users : account[u].admin /\ account[v].admin => u = v
      BY <2>5
    <3>2. HasUsers => \E u \in Users : account[u].admin
      BY <2>5 DEF HasUsers
    <3>3. schema = Current /\ origin = Current /\ Current = 5
      BY <2>1 DEF Current
    <3>4. mode = "server" => ~MustNotServe
      <4>1. mode = "server" => Admins(account) = {}
        BY <2>5 DEF Admins
      <4>. QED  BY <4>1 DEF MustNotServe
    <3>5. Running => schema = Current
      BY <3>3
    <3>. QED  BY <3>1, <3>2, <3>3, <3>4, <3>5 DEF Administered
  <2>7. DataTyped
    <3>1. Len(rows) <= MaxSessions
      BY <2>2
    <3>2. schema \in 2 .. Current /\ owner \in Users \cup {Nobody} /\ mode \in Modes
      BY <2>1 DEF Modes, Current
    <3>. QED  BY <1>4, <2>2, <2>4, <3>1, <3>2 DEF DataTyped, Ordered
  <2>8. ThreadsTyped
    BY <1>1, <2>1, NoJobTyped DEF ThreadsTyped, Places
  <2>9. SessionLimit
    <3>1. \A u \in Users : Cardinality(LiveOf(u)) = 0
      BY <2>3, FS_EmptySet
    <3>. QED  BY <3>1 DEF SessionLimit
  <2>10. PasswordIsCurrent
    BY <2>2 DEF PasswordIsCurrent
  <2>11. DisabledIsOut
    BY <2>3 DEF DisabledIsOut
  <2>. QED  BY <1>2, <2>6, <2>7, <2>8, <2>9, <2>10, <2>11 DEF IInv
<1>6. CASE InitOld
  <2>1. /\ mode = "down" /\ events = LateEvents /\ schema \in 2 .. Current - 1 /\ origin = schema
    BY <1>6 DEF InitOld
  <2>2. PICK state \in [Users -> {"none", "enabled", "disabled"}], p \in Passwords \ {DefaultPassword} :
       LET accounts == [u \in Users |-> IF state[u] = "none" THEN NoAccount
                          ELSE [Account(FALSE, FALSE, FALSE, p) EXCEPT !.state = state[u]]]
           enabled  == {u \in Users : state[u] = "enabled"}
       IN  /\ enabled = {} => \A u \in Users : state[u] = "none"
           /\ account = IF schema < 3 \/ enabled = {} THEN accounts
                        ELSE [accounts EXCEPT ![First(accounts)].admin = TRUE]
           /\ \/ rows = <<>>
              \/ \E u \in enabled : rows = <<[user |-> u, revoked |-> FALSE, expired |-> FALSE,
                                              current |-> TRUE]>>
           /\ owner \in IF schema < 4 THEN Users \cup {Nobody}
                        ELSE {u \in Users : state[u] # "none"}
    BY <1>6 DEF InitOld
  <2> DEFINE accounts == [u \in Users |-> IF state[u] = "none" THEN NoAccount
                            ELSE [Account(FALSE, FALSE, FALSE, p) EXCEPT !.state = state[u]]]
             enabled  == {u \in Users : state[u] = "enabled"}
             r == First(accounts)
  <2>3. \A u \in Users : accounts[u] \in AccountType /\ accounts[u].state = state[u] /\ ~accounts[u].admin
    BY DEF AccountType, Account, NoAccount
  <2>4. enabled # {} => r \in enabled
    <3>1. InState(accounts, "enabled") = enabled
      BY <2>3 DEF InState
    <3>. QED  BY <3>1, EldestIn DEF First
  <2>5. /\ enabled = {} => \A u \in Users : state[u] = "none"
        /\ account = IF schema < 3 \/ enabled = {} THEN accounts ELSE [accounts EXCEPT ![r].admin = TRUE]
        /\ rows = <<>> \/ \E u \in enabled : rows = <<[user |-> u, revoked |-> FALSE, expired |-> FALSE,
                                                       current |-> TRUE]>>
        /\ owner \in IF schema < 4 THEN Users \cup {Nobody} ELSE {u \in Users : state[u] # "none"}
    BY <2>2
  <2>6. accounts \in [Users -> AccountType] /\ enabled \subseteq Users
    BY <2>3
  <2> HIDE DEF accounts, r
  <2>7. /\ account \in [Users -> AccountType]
        /\ \A u \in Users : /\ account[u].state = state[u]
                            /\ account[u].admin <=> ~ (schema < 3) /\ enabled # {} /\ u = r
    <3>1. CASE schema < 3 \/ enabled = {}
      BY <2>3, <2>5, <2>6, <3>1
    <3>2. CASE ~ (schema < 3 \/ enabled = {})
      <4>1. account = [accounts EXCEPT ![r].admin = TRUE] /\ r \in Users
        BY <2>4, <2>5, <3>2
      <4>2. ASSUME NEW e \in AccountType
            PROVE  /\ [e EXCEPT !.admin = TRUE] \in AccountType
                   /\ [e EXCEPT !.admin = TRUE].state = e.state /\ [e EXCEPT !.admin = TRUE].admin
        BY DEF AccountType
      <4>3. account = [accounts EXCEPT ![r] = [accounts[r] EXCEPT !.admin = TRUE]]
        BY <4>1, <2>6
      <4>4. \A u \in Users : account[u] = IF u = r THEN [accounts[r] EXCEPT !.admin = TRUE] ELSE accounts[u]
        BY <2>6, <4>1, <4>3
      <4>5. account \in [Users -> AccountType]
        BY <2>6, <4>1, <4>2, <4>3
      <4>. QED  BY <2>3, <3>2, <4>1, <4>2, <4>4, <4>5
    <3>. QED  BY <3>1, <3>2
  <2>8. Administered
    <3> HIDE DEF enabled
    <3>1. \A u, v \in Users : account[u].admin /\ account[v].admin => u = v
      BY <2>7
    <3>2. HasUsers => enabled # {}
      BY <2>5, <2>7 DEF HasUsers
    <3>3. schema < 3 /\ enabled # {} => \E u \in Users : account[u].state = "enabled"
      BY <2>7 DEF enabled
    <3>4. ~ (schema < 3) /\ enabled # {} => \E u \in Users : account[u].admin
      BY <2>4, <2>6, <2>7
    <3>5. schema < 3 => \A u \in Users : ~account[u].admin
      BY <2>7
    <3>6. schema > 3 => owner \in Users /\ account[owner].state # "none"
      BY <2>1, <2>5, <2>7
    <3>7. mode = "down" /\ (Running => schema = Current)
      BY <2>1 DEF Running
    <3>8. \A u \in Users : account[u].admin => account[u].state = "enabled"
      BY <2>4, <2>7 DEF enabled
    <3>. QED  BY <3>8, <3>1, <3>2, <3>3, <3>4, <3>5, <3>6, <3>7 DEF Administered
  <2>9. /\ rows \in Seq(RowType) /\ Len(rows) \in {0, 1} /\ DOMAIN rows \subseteq {1}
        /\ \A i \in DOMAIN rows : rows[i].user \in enabled /\ rows[i].current
    <3>1. CASE rows = <<>>
      BY <3>1, EmptySeq
    <3>2. ASSUME NEW u \in enabled,
                 rows = <<[user |-> u, revoked |-> FALSE, expired |-> FALSE, current |-> TRUE]>>
          PROVE  /\ rows \in Seq(RowType) /\ Len(rows) = 1 /\ DOMAIN rows = {1}
                 /\ \A i \in DOMAIN rows : rows[i].user \in enabled /\ rows[i].current
      <4>1. [user |-> u, revoked |-> FALSE, expired |-> FALSE, current |-> TRUE] \in RowType
        BY DEF RowType
      <4>. QED  BY <3>2, <4>1
    <3>. QED  BY <2>5, <3>1, <3>2
  <2>10. DataTyped
    <3>1. Len(rows) <= MaxSessions
      BY <2>9
    <3>. QED  BY <1>4, <2>1, <2>5, <2>7, <2>9, <3>1 DEF DataTyped, Ordered, Modes, Current
  <2>11. ThreadsTyped
    BY <1>1, <2>1, NoJobTyped DEF ThreadsTyped, Places
  <2>12. \A u \in Users : LiveOf(u) \subseteq {1} /\ (LiveOf(u) # {} => u \in enabled)
    BY <2>9 DEF LiveOf, SessionsOf
  <2>13. SessionLimit
    <3>1. IsFiniteSet({1}) /\ Cardinality({1}) = 1
      BY FS_Singleton
    <3>2. \A u \in Users : Cardinality(LiveOf(u)) <= 1 /\ Cardinality(LiveOf(u)) \in Nat
      BY <2>12, <3>1, FS_Subset, FS_CardinalityType
    <3>. QED  BY <3>2 DEF SessionLimit
  <2>14. PasswordIsCurrent /\ DisabledIsOut
    BY <2>7, <2>9, <2>12 DEF PasswordIsCurrent, DisabledIsOut
  <2>. QED  BY <1>2, <2>8, <2>10, <2>11, <2>13, <2>14 DEF IInv
<1>. QED  BY <1>5, <1>6 DEF Init

LEMMA NextSafe ==
  ASSUME IInv, UpgradeInv, [Next]_vars
  PROVE  IInv'
<1>1. ASSUME NEW t \in Threads, SessionCheck(t)  PROVE IInv'
  BY <1>1, CheckKeeps, EndExpiredKeeps, TouchKeeps, AnswerKeeps DEF SessionCheck
<1>2. ASSUME NEW t \in Threads, SessionRequests(t)  PROVE IInv'
  <2>1. CASE Logout(t) \/ RevokeOthers(t) \/ \E i \in DOMAIN rows : RevokeSession(t, i)
    BY <2>1, RevokeKeeps DEF Logout, RevokeOthers, RevokeSession, Entitled
  <2>. QED  BY <1>2, <2>1, VerifyKeeps, OpenSessionKeeps, ChangePasswordKeeps, SetupKeeps, LoginKeeps,
               BeginChangeKeeps DEF SessionRequests
<1>3. ASSUME NEW t \in Threads, AdminRequests(t)  PROVE IInv'
  <2>1. ASSUME NEW u \in Users, RevokeAll(t, u)  PROVE IInv'
    BY <2>1, RevokeKeeps DEF RevokeAll, Administers, Entitled
  <2>. QED  BY <1>3, <2>1, RevokeDisabledKeeps, ResetPasswordKeeps, DisableUserKeeps, EnableUserKeeps,
               CreateUserKeeps, BeginResetKeeps DEF AdminRequests
<1>4. CASE UNCHANGED vars
  <2>1. Calm
    BY <1>4, QuietIsCalm DEF vars, databaseVars, IInv
  <2>. QED  BY <1>4, <2>1, CalmClock DEF vars, databaseVars, threadVars
<1>. QED  BY <1>1, <1>2, <1>3, <1>4, ExpireKeeps, SweepKeeps, RestartKeeps, StartKeeps DEF Next

\* The inductive invariant of accounts and sessions, over upgrades, restarts and all
\* interleavings of requests.
THEOREM AccountsInv == Spec => []IInv
<1>1. Init => IInv
  BY InitSafe
<1>2. IInv /\ UpgradeInv /\ [Next]_vars => IInv'
  BY NextSafe
<1>. QED  BY <1>1, <1>2, UpgradeSafe, PTL DEF Spec


(***************************************************************************)
(* No interleaving of logins leaves a user with more live sessions than    *)
(* the limit, every live session belongs to the present password of its    *)
(* account, and a disabled account is out unless a crash cut its disabling *)
(* off (app/account_store.py, AuthStore.create_session, change_password,   *)
(* reset_password and set_user_disabled).                                  *)
(***************************************************************************)
THEOREM SessionsSafe == Spec => []SessionsAreSafe
<1>1. IInv /\ UpgradeInv => SessionsAreSafe
  <2> SUFFICES ASSUME IInv, UpgradeInv  PROVE SessionsAreSafe
    OBVIOUS
  <2>1. \A i \in DOMAIN rows : rows[i] \in RowType
    BY RowIsTyped DEF IInv
  <2>2. \A i \in DOMAIN backups : backups[i] \in Copies
    BY ElementOfSeq, LenProperties DEF UpgradeInv
  <2>3. TypeOK
    BY <2>1, <2>2 DEF IInv, DataTyped, ThreadsTyped, TypeOK, AccountType, RowType, Copies, Modes, Places
  <2>. QED  BY <2>3 DEF IInv, SessionsAreSafe
<1>. QED  BY <1>1, AccountsInv, UpgradeSafe, PTL

(***************************************************************************)
(* Where the application runs, there is one administrator as soon as there *)
(* is any account, a server does not run while that account has the        *)
(* default password, and the owner of an old task is somebody              *)
(* (app/database.py, Database._migrate_locked and _admin_user_id_locked).  *)
(***************************************************************************)
THEOREM OneAdminAlways == Spec => []OneAdmin
<1>1. IInv => OneAdmin
  <2> SUFFICES ASSUME IInv, Running
               PROVE  /\ mode = "server" => ~MustNotServe
                      /\ Cardinality(Admins(account)) = (IF HasUsers THEN 1 ELSE 0)
                      /\ origin < Current => account[owner].state # "none"
    BY DEF OneAdmin, Running
  <2>1. schema = Current /\ Current = 5
    BY DEF IInv, Administered, Current
  <2>0. (mode = "server" => ~MustNotServe) /\ (origin < Current => account[owner].state # "none")
    <3>1. Administered
      BY DEF IInv
    <3>. QED  BY <2>1, <3>1 DEF Administered
  <2>2. CASE HasUsers
    <3>1. PICK r \in Users : account[r].admin
      BY <2>1, <2>2 DEF IInv, Administered
    <3>2. Admins(account) = {r}
      BY <3>1 DEF Admins, IInv, Administered
    <3>3. Cardinality(Admins(account)) = 1
      BY <3>2, FS_Singleton
    <3>. QED  BY <2>1, <2>0, <2>2, <3>3
  <2>3. CASE ~HasUsers
    <3>1. Admins(account) = {}
      BY <2>3 DEF Admins, HasUsers
    <3>2. Cardinality(Admins(account)) = 0
      BY <3>1, FS_EmptySet
    <3>. QED  BY <2>0, <2>3, <3>2
  <2>. QED  BY <2>2, <2>3
<1>. QED  BY <1>1, AccountsInv, PTL

\* Only a login opens a session.
LEMMA StepFewer ==
  ASSUME IInv, [Next]_vars
  PROVE  Fewer \/ \E u \in Users : Opens(u, Len(rows) + 1)
<1>1. CASE \E t \in Threads : OpenSession(t)
  BY <1>1, OpenSessionOpens
<1>2. ASSUME rows' = rows  PROVE Fewer
  BY <1>2, SameIsFewer DEF IInv
<1>3. ASSUME NEW S, rows' = Revoked(S)  PROVE Fewer
  BY <1>3, RevokedFewer DEF IInv
<1>4. ASSUME NEW t \in Threads, SessionCheck(t)  PROVE Fewer
  <2>1. CASE EndExpired(t)
    BY <1>3, <2>1 DEF EndExpired
  <2>2. ~EndExpired(t) => rows' = rows
    BY <1>4 DEF SessionCheck, Check, Touch, SkipTouch, Answer
  <2>. QED  BY <1>2, <2>1, <2>2
<1>5. ASSUME NEW t \in Threads, ChangePassword(t)  PROVE Fewer
  <2>1. CASE Keepable(t)
    <3> DEFINE u == job[t].user
               k == {job[t].session}
    <3>1. rows' = Outdated(u, k, LiveOf(u) \ k)
      BY <1>5, <2>1 DEF ChangePassword
    <3> HIDE DEF u, k
    <3>. QED  BY <3>1, OutdatedFewer DEF IInv
  <2>2. CASE ~Keepable(t)
    <3>1. rows' = rows
      BY <1>5, <2>2 DEF ChangePassword
    <3>. QED  BY <1>2, <3>1
  <2>. QED  BY <2>1, <2>2
<1>6. ASSUME NEW t \in Threads, ResetPassword(t)  PROVE Fewer
  <2> DEFINE u == job[t].target
  <2>1. rows' = Outdated(u, {}, LiveOf(u))
    BY <1>6 DEF ResetPassword
  <2> HIDE DEF u
  <2>. QED  BY <2>1, OutdatedFewer DEF IInv
<1>7. ASSUME NEW t \in Threads, SessionRequests(t), ~OpenSession(t)  PROVE Fewer
  <2>1. ASSUME NEW S, Revoke(t, S)  PROVE Fewer
    BY <1>3, <2>1 DEF Revoke
  <2>2. CASE Logout(t)
    BY <2>1, <2>2 DEF Logout
  <2>3. CASE RevokeOthers(t)
    BY <2>1, <2>3 DEF RevokeOthers
  <2>4. ASSUME NEW i \in DOMAIN rows, RevokeSession(t, i)  PROVE Fewer
    BY <2>1, <2>4 DEF RevokeSession
  <2>5. CASE Verify(t) \/ (\E u \in Users, p \in Passwords : Setup(t, u, p) \/ Login(t, u, p))
             \/ (\E p, q \in Passwords : BeginChange(t, p, q))
    <3>1. rows' = rows
      BY <2>5 DEF Verify, Setup, Login, BeginChange
    <3>. QED  BY <1>2, <3>1
  <2>. QED  BY <1>5, <1>7, <2>2, <2>3, <2>4, <2>5 DEF SessionRequests
<1>8. ASSUME NEW t \in Threads, AdminRequests(t)  PROVE Fewer
  <2>1. CASE RevokeDisabled(t)
    BY <1>3, <2>1 DEF RevokeDisabled
  <2>2. ASSUME NEW u \in Users, RevokeAll(t, u)  PROVE Fewer
    BY <1>3, <2>2 DEF RevokeAll, Revoke
  <2>3. ASSUME NEW u \in Users, DisableUser(t, u) \/ EnableUser(t, u)  PROVE Fewer
    <3>1. rows' = rows
      BY <2>3 DEF DisableUser, EnableUser
    <3>. QED  BY <1>2, <3>1
  <2>4. ASSUME NEW u \in Users, NEW p \in Passwords, CreateUser(t, u, p) \/ BeginReset(t, u, p)  PROVE Fewer
    <3>1. rows' = rows
      BY <2>4 DEF CreateUser, BeginReset
    <3>. QED  BY <1>2, <3>1
  <2>. QED  BY <1>6, <1>8, <2>1, <2>2, <2>3, <2>4 DEF AdminRequests
<1>9. CASE Boot
  <2>1. CASE Migrate
    <3>1. rows' = Revoked(DOMAIN rows) \/ rows' = rows
      BY <2>1 DEF Migrate
    <3>. QED  BY <1>2, <1>3, <3>1
  <2>. QED  BY <1>2, <1>9, <2>1 DEF Boot, CreateBackup, FillBackup, BackupFails, MigrateFails, Prune, Die
<1>10. ASSUME NEW i \in DOMAIN rows, Expire(i)  PROVE Fewer
  BY <1>10, ExpiredFewer DEF Expire, IInv
<1>11. CASE Sweep
  BY <1>3, <1>11 DEF Sweep
<1>12. CASE (\E m \in {"local", "server"} : Restart(m)) \/ UNCHANGED vars
  BY <1>2, <1>12 DEF Restart, vars, databaseVars
<1>. QED  BY <1>1, <1>4, <1>7, <1>8, <1>9, <1>10, <1>11, <1>12 DEF Next

(***************************************************************************)
(* A login revokes the sessions that were seen longest ago, and the one it *)
(* opens is live (app/account_store.py, AuthStore.create_session).         *)
(***************************************************************************)
THEOREM EvictsOldest == Spec => LoginEvictsOldest
<1> DEFINE Evicts ==
      \A u \in Users :
        (Len(rows') > Len(rows) /\ rows'[Len(rows')].user = u) =>
          /\ Len(rows') \in LiveOf(u)'
          /\ \A i \in LiveOf(u) \ LiveOf(u)', j \in LiveOf(u) \cap LiveOf(u)' : seen[i] < seen[j]
<1>1. ASSUME IInv, [Next]_vars  PROVE Evicts
  <2> SUFFICES ASSUME NEW u \in Users, Len(rows') > Len(rows), rows'[Len(rows')].user = u
               PROVE  /\ Len(rows') \in LiveOf(u)'
                      /\ \A i \in LiveOf(u) \ LiveOf(u)', j \in LiveOf(u) \cap LiveOf(u)' : seen[i] < seen[j]
    OBVIOUS
  <2>1. Len(rows) \in Nat
    BY LenProperties DEF IInv, DataTyped
  <2>2. ~Fewer
    BY <2>1 DEF Fewer
  <2>n. PICK n : n = Len(rows) + 1
    OBVIOUS
  <2>3. PICK v \in Users : Opens(v, n)
    BY <1>1, <2>2, <2>n, StepFewer
  <2>4. /\ Len(rows') = n /\ DOMAIN rows' = DOMAIN rows \cup {n} /\ Live(n)' /\ v = u
        /\ \A i \in DOMAIN rows : rows'[i].user = rows[i].user /\ (Live(i)' <=> Live(i) /\ i \notin Evicted(u))
    BY <2>3 DEF Opens
  <2>5. Len(rows') \in LiveOf(u)'
    BY <2>4 DEF LiveOf, SessionsOf
  <2>6. ASSUME NEW i \in LiveOf(u), NEW j \in LiveOf(u), i \notin LiveOf(u)', j \in LiveOf(u)'
        PROVE  seen[i] < seen[j]
    <3>1. i \in Evicted(u) /\ j \notin Evicted(u)
      BY <2>4, <2>6 DEF LiveOf, SessionsOf
    <3>. QED  BY <1>1, <3>1, EvictedFirst DEF IInv
  <2>. QED  BY <2>5, <2>6
<1>. QED  BY <1>1, AccountsInv, PTL DEF Spec, LoginEvictsOldest

-----------------------------------------------------------------------------
(* The life of a session.                                                  *)
Lives == [i \in 1 .. MaxSessions |-> LifeOf(i)]
Belonging == {i \in DOMAIN rows : rows[i].current}

LEMMA RowsInBounds ==
  ASSUME DataTyped
  PROVE  DOMAIN rows \subseteq 1 .. MaxSessions
BY LenProperties, AccountsAssumption DEF DataTyped

LEMMA InitLives ==
  ASSUME Init
  PROVE  Life!Init
<1>1. DataTyped
  BY InitSafe DEF IInv
<1>2. \A i \in DOMAIN rows : Live(i) /\ rows[i].current
  <2>1. CASE InitNew
    <3>1. DOMAIN rows = {}
      BY <2>1, EmptySeq DEF InitNew
    <3>. QED  BY <3>1
  <2>2. CASE InitOld
    <3>1. rows = <<>> \/ \E u \in Users : rows = <<[user |-> u, revoked |-> FALSE, expired |-> FALSE,
                                                   current |-> TRUE]>>
      BY <2>2 DEF InitOld
    <3>2. CASE rows = <<>>
      BY <3>2, EmptySeq
    <3>. QED  BY <3>1, <3>2 DEF Live
  <2>. QED  BY <2>1, <2>2 DEF Init
<1>3. Lives \in [1 .. MaxSessions -> {"none", "open"}]
  BY <1>2 DEF Lives, LifeOf
<1>4. Belonging = {i \in 1 .. MaxSessions : Lives[i] = "open"}
  BY <1>1, <1>2, RowsInBounds DEF Belonging, Lives, LifeOf
<1>. QED  BY <1>3, <1>4 DEF Life!Init, Lives, Belonging

\* What a session may do is what SessionLife promises.
LEMMA StepLives ==
  ASSUME IInv, IInv', Fewer \/ \E u \in Users : Opens(u, Len(rows) + 1)
  PROVE  Life!Next
<1>n. PICK n : n = Len(rows) + 1
  OBVIOUS
<1>1. \A i \in DOMAIN rows : /\ i \in DOMAIN rows' /\ (Live(i)' => Live(i) /\ rows'[i].current)
                             /\ (rows'[i].current => rows[i].current)
  <2>1. PasswordIsCurrent'
    BY DEF IInv
  <2>. QED  BY <1>n, <2>1 DEF Fewer, Opens, PasswordIsCurrent
<1>2. /\ DOMAIN rows' \subseteq DOMAIN rows \cup {n}
      /\ n \in DOMAIN rows' => n \notin DOMAIN rows /\ Live(n)' /\ rows'[n].current
  <2>1. Len(rows) \in Nat /\ n \notin DOMAIN rows
    BY <1>n, LenProperties DEF IInv, DataTyped
  <2>2. CASE Fewer
    BY <2>1, <2>2 DEF Fewer
  <2>3. ASSUME NEW u \in Users, Opens(u, n)
        PROVE  DOMAIN rows' = DOMAIN rows \cup {n} /\ Live(n)' /\ rows'[n].current
    BY <2>3 DEF Opens
  <2>. QED  BY <1>n, <2>1, <2>2, <2>3
<1>3. DOMAIN rows' \subseteq 1 .. MaxSessions
  <2>1. rows' \in Seq(RowType) /\ Len(rows') <= MaxSessions
    BY DEF IInv, DataTyped
  <2>. QED  BY <2>1, LenProperties, AccountsAssumption
<1>4. \A i \in 1 .. MaxSessions : Lives[i] = LifeOf(i) /\ Lives'[i] = LifeOf(i)'
  BY DEF Lives
<1>5. ASSUME NEW i \in 1 .. MaxSessions
      PROVE  Life!Open(i) \/ Life!Close(i) \/ Life!Stay(i)
  <2>1. CASE i \in DOMAIN rows
    BY <1>1, <1>4, <2>1 DEF Life!Close, Life!Stay, Lives, Belonging, LifeOf
  <2>2. CASE i \notin DOMAIN rows
    BY <1>2, <1>4, <2>2 DEF Life!Open, Life!Stay, Lives, Belonging, LifeOf
  <2>. QED  BY <2>1, <2>2
<1>6. \A i \in Belonging' \ Belonging : Life!Open(i)
  BY <1>1, <1>2, <1>3, <1>4 DEF Life!Open, Lives, Belonging, LifeOf
<1>7. Lives' \in [1 .. MaxSessions -> {"none", "open", "closed"}]
  BY DEF Lives, LifeOf
<1>. QED  BY <1>5, <1>6, <1>7 DEF Life!Next, Lives, Belonging

(***************************************************************************)
(* Every session lives as SessionLife promises: it opens with the present  *)
(* password, opens nothing once that password is gone, and is closed for   *)
(* good (app/account_store.py, AuthStore.create_session and get_session).  *)
(***************************************************************************)
THEOREM SessionsLive == Spec => ImplementsSession
<1>1. IInv /\ IInv' /\ [Next]_vars => [Life!Next]_<<Lives, Belonging>>
  BY StepFewer, StepLives
<1>2. Init => Life!Init
  BY InitLives
<1>. QED  BY <1>1, <1>2, AccountsInv, PTL DEF Spec, ImplementsSession, Life!Spec, Life!vars, Lives, Belonging
=============================================================================

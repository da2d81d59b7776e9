----------------------------- MODULE Database -----------------------------
(***************************************************************************)
(* Opening an old database: Database.__init__ (app/database.py).  A copy   *)
(* of the file is put aside, one transaction brings tables and data to the *)
(* present schema, and the oldest copies are removed.  The process may     *)
(* fail or die at each of these steps and be started again, in either      *)
(* mode.  Another process cannot interfere: it would need the lock of the  *)
(* data root.  Accounts goes on where this module ends.                    *)
(*                                                                         *)
(* Of the data the model has what an upgrade decides about: who becomes    *)
(* the administrator, which sessions end, and who owns an old task.  The   *)
(* roles came with schema 3, the owners with schema 4.                     *)
(*                                                                         *)
(* ..._Mutant... operators are wrong versions that no specification uses.  *)
(***************************************************************************)
EXTENDS FiniteSets, SequencesExt

CONSTANTS
  Users, Passwords,
  Created,                        \* when each user was: created_at
  DefaultAdmin, DefaultPassword,  \* the account a local installation starts with
  Nobody,
  KeptBackups,  \* how many copies stay
  MaxEvents,    \* bound: requests that get past the check, failures and restarts
  LateEvents    \* bound: how many of them are over where an old database starts

ASSUME DatabaseAssumption ==
  /\ Nobody \notin Users /\ Created \in [Users -> Nat] /\ IsInjective(Created)
  /\ DefaultAdmin \in Users /\ DefaultPassword \in Passwords
  /\ KeptBackups \in Nat \ {0} /\ MaxEvents \in Nat /\ LateEvents \in 0 .. MaxEvents

VARIABLES
  account,  \* the users table
  rows,     \* the sessions table
  mode,     \* "local", "server", or where the start of the process is
  boot,     \* the mode in which it was started
  schema,   \* user_version
  origin,   \* the schema it was created with, a history variable
  backups,  \* the copies, oldest first
  owner,    \* the owner of a task of the old database, if it names one
  events    \* how many of the bounded events happened

databaseVars == <<account, rows, mode, boot, schema, origin, backups, owner, events>>

Current == 5  \* DATABASE_SCHEMA_VERSION
Spend == events < MaxEvents /\ events' = events + 1

NoAccount == [state |-> "none", admin |-> FALSE, temp |-> FALSE,
              default |-> FALSE, password |-> DefaultPassword]
Account(admin, temp, default, p) ==
  [state |-> "enabled", admin |-> admin, temp |-> temp, default |-> default, password |-> p]

Revoked(S) == [i \in DOMAIN rows |-> [rows[i] EXCEPT !.revoked = @ \/ i \in S]]

HasUsers == \E u \in Users : account[u].state # "none"
Admins(accounts) == {u \in Users : accounts[u].state = "enabled" /\ accounts[u].admin}
MustNotServe == \E u \in Admins(account) : account[u].temp /\ account[u].default

\* A local installation gets its default administrator when it starts.
WithDefault(m) ==
  IF m = "local" /\ ~HasUsers
  THEN [account EXCEPT ![DefaultAdmin] = Account(TRUE, TRUE, TRUE, DefaultPassword)]
  ELSE account

InState(accounts, state) == {u \in Users : accounts[u].state = state}
Eldest(S) == CHOOSE u \in S : \A v \in S : Created[u] <= Created[v]
First_MutantEvenDisabled(accounts) ==
  Eldest(InState(accounts, "enabled") \cup InState(accounts, "disabled"))
\* ORDER BY disabled, created_at.
First(accounts) ==
  Eldest(IF InState(accounts, "enabled") # {} THEN InState(accounts, "enabled")
         ELSE InState(accounts, "disabled"))

\* Old databases: without accounts, or with one that is enabled.
InitOld ==
  /\ mode = "down" /\ boot = "local" /\ events = LateEvents
  /\ schema \in 2 .. Current - 1 /\ origin = schema /\ backups = <<>>
  /\ \E state \in [Users -> {"none", "enabled", "disabled"}], p \in Passwords \ {DefaultPassword} :
       LET accounts == [u \in Users |-> IF state[u] = "none" THEN NoAccount
                          ELSE [Account(FALSE, FALSE, FALSE, p) EXCEPT !.state = state[u]]]
           enabled  == {u \in Users : state[u] = "enabled"}
       IN  /\ enabled = {} => \A u \in Users : state[u] = "none"
           /\ account = IF schema < 3 \/ enabled = {} THEN accounts
                        ELSE [accounts EXCEPT ![First(accounts)].admin = TRUE]
           /\ \/ rows = <<>>
              \/ \E u \in enabled : rows = <<[user |-> u, revoked |-> FALSE, expired |-> FALSE,
                                              current |-> TRUE]>>
           /\ owner \in IF schema < 4 THEN Users \cup {Nobody}
                        ELSE {u \in Users : state[u] # "none"}

-----------------------------------------------------------------------------
Stays == UNCHANGED <<origin, events>>

\* _prepare_migration_backup: a file is created, and then filled.
CreateBackup(m) ==
  /\ mode = "down" /\ schema < Current
  /\ mode' = "copying" /\ boot' = m
  /\ backups' = Append(backups, [of |-> schema, whole |-> FALSE])
  /\ Stays /\ UNCHANGED <<account, rows, schema, owner>>

FillBackup ==
  /\ mode = "copying" /\ mode' = "migrating"
  /\ backups' = [backups EXCEPT ![Len(backups)] = [of |-> schema, whole |-> TRUE]]
  /\ Stays /\ UNCHANGED <<account, rows, boot, schema, owner>>

\* The copy fails and what there is of it is removed.
BackupFails ==
  /\ mode = "copying" /\ mode' = "down" /\ Spend
  /\ backups' = Front(backups)
  /\ UNCHANGED <<account, rows, boot, schema, origin, owner>>

\* To schema 3: the first account becomes the administrator.
WithRoles ==
  IF schema < 3 /\ HasUsers
  THEN [u \in Users |-> [account[u] EXCEPT !.admin = u = First(account)]]
  ELSE account

\* _admin_user_id_locked, to schema 4, which a local installation without accounts gives
\* its default administrator.
WithAdmin == IF schema < 4 /\ ~HasUsers THEN WithDefault(boot) ELSE WithRoles

Migratable == schema < 4 => \E u \in Users : WithAdmin[u].admin

\* To schema 4: a task whose owner is unknown gets the administrator.
OwnerIn(accounts) ==
  IF owner \in Users /\ accounts[owner].state # "none" THEN owner
  ELSE CHOOSE u \in Users : accounts[u].admin

\* _migrate_locked, in one transaction: it commits, or nothing has happened.  To
\* schema 3 every session ends.
Migrate ==
  /\ mode = "migrating" /\ Migratable
  /\ mode' = "pruning" /\ schema' = Current
  /\ account' = WithAdmin
  /\ rows' = IF schema < 3 THEN Revoked(DOMAIN rows) ELSE rows
  /\ owner' = OwnerIn(account')
  /\ Stays /\ UNCHANGED <<boot, backups>>

\* Any statement may fail, and without an administrator it does.
MigrateFails ==
  /\ mode = "migrating" /\ mode' = "down" /\ Spend
  /\ UNCHANGED <<account, rows, boot, schema, origin, backups, owner>>

Serving(m) == IF m = "server" /\ MustNotServe THEN "refused" ELSE m

Prune_MutantOldest ==
  /\ mode = "pruning" /\ mode' = Serving(boot)
  /\ backups' = SubSeq(backups, 1, Min({KeptBackups, Len(backups)}))
  /\ account' = WithDefault(boot)
  /\ Stays /\ UNCHANGED <<rows, boot, schema, owner>>
\* _prune_migration_backups, and the start of AuthStore.
Prune ==
  /\ mode = "pruning" /\ mode' = Serving(boot)
  /\ backups' = SubSeq(backups, Max({Len(backups) - KeptBackups, 0}) + 1, Len(backups))
  /\ account' = WithDefault(boot)
  /\ Stays /\ UNCHANGED <<rows, boot, schema, owner>>

\* The process dies while it starts.
Die ==
  /\ mode \in {"copying", "migrating", "pruning"} /\ mode' = "down" /\ Spend
  /\ UNCHANGED <<account, rows, boot, schema, origin, backups, owner>>

Boot ==
  \/ \E m \in {"local", "server"} : CreateBackup(m)
  \/ FillBackup \/ BackupFails \/ Migrate \/ MigrateFails \/ Prune \/ Die

-----------------------------------------------------------------------------
(* Whatever fails, and however often the process dies and starts again,    *)
(* an upgraded database has a whole copy of what it was, and the copies    *)
(* that a crash cut off never crowd it out.                                *)
OldIsKept ==
  origin < schema => \E i \in DOMAIN backups : backups[i] = [of |-> origin, whole |-> TRUE]

(* Where the application runs, one account is the administrator as soon    *)
(* as there is any, and what was in the old database belongs to somebody.  *)
(* A server never runs while the administrator has the default password.   *)
OneAdmin ==
  mode \in {"local", "server"} =>
    /\ mode = "server" => ~MustNotServe
    /\ Cardinality(Admins(account)) = (IF HasUsers THEN 1 ELSE 0)
    /\ origin < Current => account[owner].state # "none"
=============================================================================

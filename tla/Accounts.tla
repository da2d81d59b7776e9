----------------------------- MODULE Accounts -----------------------------
(***************************************************************************)
(* Accounts and sessions: AuthStore (app/account_store.py), the session    *)
(* check in front of every request (app/main.py) and the requests of       *)
(* app/routes.py that change accounts.                                     *)
(*                                                                         *)
(* A request is checked once, when it starts; its handler then works with  *)
(* the session and the role it had at that moment.  Handlers that change   *)
(* an account hold _mutation_lock from their first read to their last      *)
(* write; the check and the cleaner do not.  Each step is one statement or *)
(* transaction of SQLite.                                                  *)
(*                                                                         *)
(* A session is a row of `rows`, in the order of creation.  Not modelled:  *)
(* CSRF, Host and body checks, the audit log, display names, the limit on  *)
(* failed logins per address and where a login comes from.                 *)
(* `current` of a row is a history variable: whether the session still     *)
(* belongs to the password of its account.                                 *)
(*                                                                         *)
(* ..._Mutant... operators are wrong versions that no specification uses.  *)
(***************************************************************************)
EXTENDS Database

CONSTANTS
  Threads,     \* HTTP request threads
  MaxLive,     \* MAX_ACTIVE_SESSIONS_PER_USER
  MaxSessions  \* bound: sessions opened

ASSUME AccountsAssumption ==
  Nobody \notin Threads /\ MaxLive \in Nat \ {0} /\ MaxSessions \in Nat \ {0}

VARIABLES
  seen,     \* the place of each session in the order of last_seen_at
  lock,     \* the thread that holds _mutation_lock
  pc, job,  \* where each thread is and what it does
  torn      \* users whose disabling was cut off before their sessions were revoked

threadVars == <<lock, pc, job>>
fileVars == <<boot, schema, origin, backups, owner>>
vars == <<databaseVars, seen, threadVars, torn>>

Row(u, p) == [user |-> u, revoked |-> FALSE, expired |-> FALSE,
              current |-> account[u].password = p]
NoJob  == [user |-> Nobody, session |-> 0, temp |-> FALSE, admin |-> FALSE,
           target |-> Nobody, password |-> DefaultPassword]

Live(i) == ~rows[i].revoked /\ ~rows[i].expired
SessionsOf(u) == {i \in DOMAIN rows : rows[i].user = u}
LiveOf(u) == {i \in SessionsOf(u) : Live(i)}

At(t, p) == pc[t] = p
Enter(t, p, j) == pc' = [pc EXCEPT ![t] = p] /\ job' = [job EXCEPT ![t] = j]
Go(t, p) == Enter(t, p, job[t])
Leave(t) == Enter(t, "idle", NoJob)
Acquire(t) == lock = Nobody /\ lock' = t
Release(t) == lock' = Nobody

\* The rows with the sessions of S revoked, and marked where the new password of u
\* leaves them behind.
Outdated(u, kept, S) ==
  [i \in DOMAIN rows |->
     [Revoked(S)[i] EXCEPT !.current = @ /\ (rows[i].user # u \/ i \in kept)]]
ToEnd(i) ==
  [j \in DOMAIN seen |-> IF j = i THEN Len(seen) ELSE IF seen[j] > seen[i] THEN seen[j] - 1 ELSE seen[j]]

InitNew ==
  /\ mode \in {"local", "server"} /\ boot = mode /\ events = 0
  /\ schema = Current /\ origin = Current /\ backups = <<>> /\ owner = Nobody
  /\ rows = <<>>
  /\ account = [u \in Users |-> IF mode = "local" /\ u = DefaultAdmin
                                THEN Account(TRUE, TRUE, TRUE, DefaultPassword)
                                ELSE NoAccount]

Init ==
  /\ InitNew \/ InitOld
  /\ seen = [i \in DOMAIN rows |-> i] /\ lock = Nobody
  /\ pc = [t \in Threads |-> "idle"] /\ job = [t \in Threads |-> NoJob]
  /\ torn = {}

Running == mode \in {"local", "server"}

-----------------------------------------------------------------------------
(* Login.  verify_password and the transaction are apart, under the lock.  *)

\* setup_admin; the same request then logs in with the password it set.
Setup(t, u, p) ==
  /\ Running /\ At(t, "idle") /\ lock = Nobody /\ Spend
  /\ ~HasUsers /\ p # DefaultPassword
  /\ account' = [account EXCEPT ![u] = Account(TRUE, FALSE, FALSE, p)]
  /\ Enter(t, "login", [NoJob EXCEPT !.user = u, !.password = p])
  /\ UNCHANGED <<rows, seen, mode, fileVars, lock, torn>>

Login(t, u, p) ==
  /\ Running /\ At(t, "idle") /\ Spend
  /\ account[u].state # "none"
  /\ Enter(t, "login", [NoJob EXCEPT !.user = u, !.password = p])
  /\ UNCHANGED <<account, rows, seen, mode, fileVars, lock, torn>>

Verified(u, p) == account[u].state = "enabled" /\ account[u].password = p
\* Verified before the lock is taken: another thread may hold it.
Verify_MutantUnlocked(t) ==
  LET j == job[t] IN
  /\ At(t, "login")
  /\ IF Verified(j.user, j.password) /\ Len(rows) < MaxSessions THEN Go(t, "opening") ELSE Leave(t)
  /\ UNCHANGED <<account, rows, seen, mode, fileVars, lock, torn, events>>

Verify(t) ==
  LET j == job[t] IN
  /\ At(t, "login")
  /\ IF Verified(j.user, j.password) /\ Len(rows) < MaxSessions
     THEN Acquire(t) /\ Go(t, "opening")
     ELSE lock = Nobody /\ UNCHANGED lock /\ Leave(t)
  /\ UNCHANGED <<account, rows, seen, mode, fileVars, torn, events>>

Evicted_MutantByAge(u) ==
  {i \in LiveOf(u) : Cardinality({j \in LiveOf(u) : j > i}) >= MaxLive - 1}

\* Those to revoke when u logs in: besides the new session, the most recently seen
\* stay, as many as the limit allows.
SeenSince(u, i) == {j \in LiveOf(u) : seen[j] > seen[i]}
Evicted(u) == {i \in LiveOf(u) : Cardinality(SeenSince(u, i)) >= MaxLive - 1}

OpenSession(t) ==
  LET u == job[t].user
      n == Len(rows) + 1 IN
  /\ At(t, "opening")
  /\ rows' = Append(Revoked(Evicted(u)), Row(u, job[t].password))
  /\ seen' = Append(seen, n)
  /\ Release(t) /\ Leave(t)
  /\ UNCHANGED <<account, mode, fileVars, torn, events>>

-----------------------------------------------------------------------------
(* The check of a request: get_session reads the row, and then ends the    *)
(* session if it expired or notes that it was seen, in statements of their *)
(* own; the handler runs with what was read.                               *)

Check(t, i) ==
  /\ Running /\ At(t, "idle") /\ Spend
  /\ i \in DOMAIN rows /\ ~rows[i].revoked /\ account[rows[i].user].state = "enabled"
  /\ LET u == rows[i].user IN
     Enter(t, IF rows[i].expired THEN "expiring" ELSE "checked",
           [NoJob EXCEPT !.user = u, !.session = i,
                         !.temp = account[u].temp, !.admin = account[u].admin])
  /\ UNCHANGED <<account, rows, seen, mode, fileVars, lock, torn>>

EndExpired(t) ==
  /\ At(t, "expiring")
  /\ rows' = Revoked({job[t].session})
  /\ Leave(t)
  /\ UNCHANGED <<account, seen, mode, fileVars, lock, torn, events>>

Touch(t) ==
  /\ At(t, "checked")
  /\ seen' = IF rows[job[t].session].revoked THEN seen ELSE ToEnd(job[t].session)
  /\ Go(t, "inside")
  /\ UNCHANGED <<account, rows, mode, fileVars, lock, torn, events>>

\* Seen less than five minutes ago.
SkipTouch(t) ==
  /\ At(t, "checked") /\ Go(t, "inside")
  /\ UNCHANGED <<account, rows, seen, mode, fileVars, lock, torn, events>>

\* Who may get to which handler: a temporary password opens only the change
\* of the password and logout, the administration is for the administrator.
Inside(t) == At(t, "inside")
Entitled(t) == Inside(t) /\ ~job[t].temp
Administers(t) == Entitled(t) /\ job[t].admin

\* A handler that changes nothing here, or refuses.
Answer(t) ==
  /\ Inside(t) /\ Leave(t)
  /\ UNCHANGED <<account, rows, seen, mode, fileVars, lock, torn, events>>

-----------------------------------------------------------------------------
(* Requests of a user about the own sessions and password                  *)

\* One UPDATE of sessions, under the lock.
Revoke(t, S) ==
  /\ lock = Nobody /\ rows' = Revoked(S) /\ Leave(t)
  /\ UNCHANGED <<account, seen, mode, fileVars, lock, torn, events>>

Logout(t) == Inside(t) /\ Revoke(t, {job[t].session})
RevokeSession(t, i) ==
  Entitled(t) /\ i \in LiveOf(job[t].user) \ {job[t].session} /\ Revoke(t, {i})
RevokeOthers(t) ==
  Entitled(t) /\ Revoke(t, LiveOf(job[t].user) \ {job[t].session})

\* The present password verified, the new one hashed.
BeginChange(t, old, new) ==
  /\ Inside(t) /\ Acquire(t)
  /\ Verified(job[t].user, old) /\ new \notin {old, DefaultPassword}
  /\ Enter(t, "changing", [job[t] EXCEPT !.password = new])
  /\ UNCHANGED <<account, rows, seen, mode, fileVars, torn, events>>

\* Nothing is written when the session it came from is over meanwhile.
Keepable(t) == Live(job[t].session)
ChangePassword(t) ==
  LET j == job[t] IN
  /\ At(t, "changing")
  /\ IF Keepable(t)
     THEN /\ account' = [account EXCEPT ![j.user].password = j.password, ![j.user].temp = FALSE]
          /\ rows' = Outdated(j.user, {j.session}, LiveOf(j.user) \ {j.session})
          /\ seen' = ToEnd(j.session)
     ELSE UNCHANGED <<account, rows, seen>>
  /\ Release(t) /\ Leave(t)
  /\ UNCHANGED <<mode, fileVars, torn, events>>

-----------------------------------------------------------------------------
(* Requests of the administrator                                           *)

CreateUser(t, u, p) ==
  /\ Administers(t) /\ lock = Nobody
  /\ account[u].state = "none" /\ p # DefaultPassword
  /\ account' = [account EXCEPT ![u] = Account(FALSE, TRUE, FALSE, p)]
  /\ Leave(t)
  /\ UNCHANGED <<rows, seen, mode, fileVars, lock, torn, events>>

\* set_user_disabled: the account in one statement, its sessions in another.
DisableUser(t, u) ==
  /\ Administers(t) /\ Acquire(t)
  /\ account[u].state # "none" /\ ~account[u].admin
  /\ account' = [account EXCEPT ![u].state = "disabled"]
  /\ Enter(t, "disabling", [job[t] EXCEPT !.target = u])
  /\ UNCHANGED <<rows, seen, mode, fileVars, torn, events>>
RevokeDisabled(t) ==
  LET u == job[t].target IN
  /\ At(t, "disabling")
  /\ rows' = Revoked(LiveOf(u))
  /\ torn' = torn \ {u}
  /\ Release(t) /\ Leave(t)
  /\ UNCHANGED <<account, seen, mode, fileVars, events>>

EnableUser(t, u) ==
  /\ Administers(t) /\ lock = Nobody
  /\ account[u].state # "none" /\ ~account[u].admin
  /\ account' = [account EXCEPT ![u].state = "enabled"]
  /\ Leave(t)
  /\ UNCHANGED <<rows, seen, mode, fileVars, lock, torn, events>>

BeginReset(t, u, p) ==
  /\ Administers(t) /\ Acquire(t)
  /\ account[u].state # "none" /\ u # job[t].user /\ p # DefaultPassword
  /\ Enter(t, "resetting", [job[t] EXCEPT !.target = u, !.password = p])
  /\ UNCHANGED <<account, rows, seen, mode, fileVars, torn, events>>
ResetPassword_MutantOnlyTemporary(t) ==
  LET u == job[t].target IN
  /\ At(t, "resetting")
  /\ account' = [account EXCEPT ![u].password = job[t].password, ![u].temp = TRUE]
  /\ rows' = Outdated(u, {}, {})
  /\ Release(t) /\ Leave(t)
  /\ UNCHANGED <<seen, mode, fileVars, torn, events>>

ResetPassword(t) ==
  LET u == job[t].target IN
  /\ At(t, "resetting")
  /\ account' = [account EXCEPT ![u].password = job[t].password, ![u].temp = TRUE]
  /\ rows' = Outdated(u, {}, LiveOf(u))
  /\ Release(t) /\ Leave(t)
  /\ UNCHANGED <<seen, mode, fileVars, torn, events>>

RevokeAll(t, u) ==
  Administers(t) /\ u # job[t].user /\ Revoke(t, LiveOf(u))

-----------------------------------------------------------------------------
(* Time, the cleaner, and a restart                                        *)

\* 30 days after the login, so in the order of creation.
Expire(i) ==
  /\ i \in DOMAIN rows /\ ~rows[i].expired
  /\ \A h \in 1..(i - 1) : rows[h].expired
  /\ rows' = [rows EXCEPT ![i].expired = TRUE]
  /\ UNCHANGED <<account, seen, mode, fileVars, threadVars, torn, events>>

Sweep ==
  /\ Running
  /\ \E i \in DOMAIN rows : rows[i].expired /\ ~rows[i].revoked
  /\ rows' = Revoked({i \in DOMAIN rows : rows[i].expired})
  /\ UNCHANGED <<account, seen, mode, fileVars, threadVars, torn, events>>

\* The process ends anywhere and is started again, in either mode.
Restart(m) ==
  /\ schema = Current /\ mode # "pruning" /\ Spend
  /\ mode' = Serving(m) /\ boot' = m
  /\ account' = WithDefault(m)
  /\ torn' = torn \cup {job[t].target : t \in {x \in Threads : At(x, "disabling")}}
  /\ lock' = Nobody
  /\ pc' = [t \in Threads |-> "idle"] /\ job' = [t \in Threads |-> NoJob]
  /\ UNCHANGED <<rows, seen, schema, origin, backups, owner>>

-----------------------------------------------------------------------------
SessionCheck(t) ==
  \/ \E i \in DOMAIN rows : Check(t, i)
  \/ EndExpired(t) \/ Touch(t) \/ SkipTouch(t) \/ Answer(t)

SessionRequests(t) ==
  \/ Verify(t) \/ OpenSession(t) \/ Logout(t) \/ RevokeOthers(t) \/ ChangePassword(t)
  \/ \E i \in DOMAIN rows : RevokeSession(t, i)
  \/ \E u \in Users, p \in Passwords : Setup(t, u, p) \/ Login(t, u, p)
  \/ \E p, q \in Passwords : BeginChange(t, p, q)

AdminRequests(t) ==
  \/ RevokeDisabled(t) \/ ResetPassword(t)
  \/ \E u \in Users : DisableUser(t, u) \/ EnableUser(t, u) \/ RevokeAll(t, u)
  \/ \E u \in Users, p \in Passwords : CreateUser(t, u, p) \/ BeginReset(t, u, p)

Next ==
  \/ \E t \in Threads : SessionCheck(t) \/ SessionRequests(t) \/ AdminRequests(t)
  \/ \E i \in DOMAIN rows : Expire(i)
  \/ Sweep
  \/ \E m \in {"local", "server"} : Restart(m)
  \/ Boot /\ UNCHANGED <<seen, threadVars, torn>>

Spec == Init /\ [][Next]_vars

-----------------------------------------------------------------------------
(* Properties                                                              *)

TypeOK ==
  /\ account \in [Users -> [state : {"none", "enabled", "disabled"}, admin : BOOLEAN,
                            temp : BOOLEAN, default : BOOLEAN, password : Passwords]]
  /\ \A i \in DOMAIN rows : rows[i] \in [user : Users, revoked : BOOLEAN,
                                         expired : BOOLEAN, current : BOOLEAN]
  /\ IsInjective(seen) /\ ToSet(seen) = DOMAIN rows
  /\ mode \in {"local", "server", "refused", "down", "copying", "migrating", "pruning"}
  /\ schema \in 2 .. Current /\ owner \in Users \cup {Nobody}
  /\ \A i \in DOMAIN backups : backups[i] \in [of : 2 .. Current, whole : BOOLEAN]
  /\ lock \in Threads \cup {Nobody}
  /\ pc \in [Threads -> {"idle", "login", "opening", "expiring", "checked", "inside",
                         "changing", "disabling", "resetting"}]
  /\ torn \subseteq Users /\ events \in 0..MaxEvents

(* No interleaving of logins leaves a user with more live sessions than    *)
(* the limit.                                                              *)
SessionLimit == \A u \in Users : Cardinality(LiveOf(u)) <= MaxLive

(* A live session was opened with the account's present password, or is    *)
(* the one its last change came from: no login that was verified against   *)
(* an older hash outlives the change.                                      *)
PasswordIsCurrent == \A i \in DOMAIN rows : Live(i) => rows[i].current

(* A disabled account has no live session, except between the two          *)
(* statements of set_user_disabled, or after a crash between them: then    *)
(* the sessions open again if the account is enabled.                      *)
DisabledIsOut ==
  \A u \in Users : account[u].state = "disabled" =>
    \/ LiveOf(u) = {}
    \/ u \in torn
    \/ \E t \in Threads : At(t, "disabling") /\ job[t].target = u

\* Who is in, and for how long.
SessionsAreSafe == TypeOK /\ SessionLimit /\ PasswordIsCurrent /\ DisabledIsOut

(* What a login revokes was seen before everything it spares, and the new  *)
(* session is live.                                                        *)
LoginEvictsOldest ==
  [][\A u \in Users :
       (Len(rows') > Len(rows) /\ rows'[Len(rows')].user = u) =>
         /\ Len(rows') \in LiveOf(u)'
         /\ \A i \in LiveOf(u) \ LiveOf(u)', j \in LiveOf(u) \cap LiveOf(u)' :
              seen[i] < seen[j]]_vars

(* Every session lives as SessionLife promises; expiry closes it.          *)
LifeOf(i) == IF i \notin DOMAIN rows THEN "none" ELSE IF Live(i) THEN "open" ELSE "closed"
Life == INSTANCE SessionLife
  WITH Ids <- 1..MaxSessions,
       life <- [i \in 1..MaxSessions |-> LifeOf(i)],
       current <- {i \in DOMAIN rows : rows[i].current}
ImplementsSession == Life!Spec
=============================================================================

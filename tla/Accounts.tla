------------------------------ MODULE Accounts ------------------------------
(***************************************************************************)
(* Accounts and their sessions: src/src/auth/auth.service.ts,              *)
(* src/src/users/users.service.ts, revokeRefreshTokens of                  *)
(* src/src/security/security-admin.service.ts and the two guards of        *)
(* src/src/common/guards.  A session is a chain of refresh tokens: login   *)
(* and register insert the first one, refresh revokes one and inserts the  *)
(* next.  Login and refresh also sign an access token, which holds the     *)
(* roles its user had then and cannot be revoked.                          *)
(*                                                                         *)
(* login and refresh read their rows before they open the transaction in   *)
(* which they write.  A request is its record in req; what its transaction *)
(* writes is applied when it commits, and the locks of its rows are held   *)
(* until then.  Of the roles only 'admin' decides anything here.  Bodies   *)
(* of tokens, passwords, the log of attempts, audit and outbox rows are    *)
(* left out: a password is right or wrong, a request that fails in one of  *)
(* those INSERTs is rolled back, also when writeLoginAttempt swallows the  *)
(* error, because the transaction is aborted by then.                      *)
(***************************************************************************)
EXTENDS Naturals, FiniteSets

CONSTANTS
  Users, NoUser,  \* identifiers of rows of users
  Email,          \* users.email of each
  Seeded, SeededAdmins,
  Tokens, NoToken,
  Resets, NoReset,
  Statuses,       \* users.status
  Threshold,      \* failed logins that lock an account
  Requests, NoRequest,
  MaxFailures, MaxLapses, MaxRequests

ASSUME AccountsAssumption ==
  /\ SeededAdmins \subseteq Seeded /\ Seeded \subseteq Users
  /\ \A u, v \in Seeded : Email[u] = Email[v] => u = v
  /\ "active" \in Statuses
  /\ Statuses \subseteq {"active", "pending_verification", "suspended",
                         "blocked", "deleted"}
  /\ Threshold \in Nat \ {0}
  /\ NoUser \notin Users /\ NoToken \notin Tokens /\ NoReset \notin Resets
  /\ NoRequest \notin Requests

VARIABLES
  status,        \* users.status, "none" while there is no such row
  admins,        \* users with the role admin in user_roles
  failed,        \* failed_login_attempts
  locked,        \* users whose locked_until is in the future
  owner,         \* user_refresh_tokens.user_id, or NoUser
  revoked,       \* tokens with revoked_at
  expired,       \* tokens whose expires_at is over
  parent,        \* the token a token replaced
  reset,         \* password_reset_tokens: [user, state]
  access,        \* access tokens that are valid: <<user, holds the role admin>>
  userLock, tokenLock, resetLock,
  req,
  failures, lapses, served,
  \* --- history
  wrong,         \* failed logins that were recorded
  used,          \* resets of the password each reset token has made
  spent,         \* revoked while no refresh of the token was being served
  demoted        \* lost the role admin while granting it to nobody

accounts == <<status, admins, failed, locked>>
sessions == <<owner, revoked, parent>>
locks    == <<userLock, tokenLock, resetLock>>
bounds   == <<failures, lapses, served>>
history  == <<wrong, used, spent, demoted>>
rows == <<accounts, sessions, expired, reset, access, history>>
vars == <<rows, locks, req, bounds>>

-----------------------------------------------------------------------------
Idle == [pc |-> "idle", kind |-> "none", actor |-> NoUser, user |-> NoUser,
         token |-> NoToken, fresh |-> NoToken, key |-> NoReset, seen |-> 0,
         admin |-> FALSE, hit |-> FALSE, status |-> "none", revoking |-> {},
         calm |-> FALSE]

TypeOK ==
  /\ status \in [Users -> Statuses \cup {"none"}]
  /\ admins \subseteq Users /\ locked \subseteq Users
  /\ failed \in [Users -> Nat]
  /\ owner \in [Tokens -> Users \cup {NoUser}]
  /\ revoked \subseteq Tokens /\ expired \subseteq Tokens
  /\ parent \in [Tokens -> Tokens \cup {NoToken}]
  /\ reset \in [Resets -> [user : Users \cup {NoUser},
                           state : {"none", "live", "consumed", "expired"}]]
  /\ access \subseteq Users \X BOOLEAN
  /\ userLock \in [Users -> Requests \cup {NoRequest}]
  /\ tokenLock \in [Tokens -> Requests \cup {NoRequest}]
  /\ resetLock \in [Resets -> Requests \cup {NoRequest}]
  /\ \A u \in Users : userLock[u] # NoRequest => req[userLock[u]].user = u
  /\ req \in [Requests ->
       [pc : {"idle", "insertUser", "updateUser", "updateToken", "lockReset",
              "snapshot", "lockTokens", "writeRole", "commit"},
        kind : {"none", "register", "login", "failedLogin", "refresh", "reset",
                "revokeAll", "status", "addRole", "removeRole"},
        actor : Users \cup {NoUser}, user : Users \cup {NoUser},
        token : Tokens \cup {NoToken}, fresh : Tokens \cup {NoToken},
        key : Resets \cup {NoReset}, seen : Nat, admin : BOOLEAN,
        hit : BOOLEAN, status : Statuses \cup {"none"},
        revoking : SUBSET Tokens, calm : BOOLEAN]]

Init ==
  /\ status = [u \in Users |-> IF u \in Seeded THEN "active" ELSE "none"]
  /\ admins = SeededAdmins
  /\ failed = [u \in Users |-> 0]
  /\ locked = {}
  /\ owner = [t \in Tokens |-> NoUser]
  /\ revoked = {} /\ expired = {}
  /\ parent = [t \in Tokens |-> NoToken]
  /\ reset = [k \in Resets |-> [user |-> NoUser, state |-> "none"]]
  /\ access = {}
  /\ userLock = [u \in Users |-> NoRequest]
  /\ tokenLock = [t \in Tokens |-> NoRequest]
  /\ resetLock = [k \in Resets |-> NoRequest]
  /\ req = [r \in Requests |-> Idle]
  /\ failures = 0 /\ lapses = 0 /\ served = 0
  /\ wrong = [u \in Users |-> 0]
  /\ used = [k \in Resets |-> 0]
  /\ spent = {} /\ demoted = {}

-----------------------------------------------------------------------------
Exists(u) == status[u] # "none"

\* JwtAuthGuard and RolesGuard: they look at the access token only.
Authenticated(u) == \E admin \in BOOLEAN : <<u, admin>> \in access
CallsAsAdmin(u) == <<u, TRUE>> \in access

\* userHasRole: the row of user_roles.
HasAdminRole(u) == u \in admins

\* The rows that an UPDATE ... WHERE user_id = u AND revoked_at IS NULL finds.
Unrevoked(u) == {t \in Tokens : owner[t] = u /\ t \notin revoked}

\* A refresh token that refresh accepts.
Accepts(t) ==
  /\ owner[t] # NoUser /\ t \notin revoked /\ t \notin expired
  /\ status[owner[t]] = "active"

Refreshing(o, t) == req[o].kind = "refresh" /\ req[o].token = t

OpensSession(request, u) ==
  request.kind \in {"register", "login", "refresh"} /\ request.user = u

\* A slot takes a request.  A revocation of all sessions of its user is calm no
\* more when the request is to open one.
Begins(r, request) ==
  /\ req[r].pc = "idle"
  /\ served < MaxRequests
  /\ served' = served + 1
  /\ req' = [o \in Requests |->
               IF o = r THEN request
               ELSE [req[o] EXCEPT !.calm = @ /\ ~ OpensSession(request, req[o].user)]]
  /\ UNCHANGED <<rows, locks, failures, lapses>>

\* The row of user_refresh_tokens the request is to insert.
Unused(t) == owner[t] = NoUser /\ \A o \in Requests : req[o].fresh # t

Goto(r, where) == req' = [req EXCEPT ![r].pc = where]

-----------------------------------------------------------------------------
(* Requests begin: the reads before the transaction, or its first ones.    *)

\* register: SELECT ... FOR UPDATE finds no row with this email.
BeginRegister(r, u, t) ==
  /\ ~ Exists(u) /\ \A o \in Requests : req[o].user # u
  /\ \A v \in Users : Exists(v) => Email[v] # Email[u]
  /\ Unused(t)
  /\ Begins(r, [Idle EXCEPT !.pc = "insertUser", !.kind = "register",
                            !.user = u, !.fresh = t])

\* login: findUserWithRoles and the comparison of the password.  What a locked
\* or inactive account answers changes nothing but the log of attempts.
BeginLogin(r, u, t) ==
  /\ status[u] = "active" /\ u \notin locked
  /\ Unused(t)
  /\ Begins(r, [Idle EXCEPT !.pc = "updateUser", !.kind = "login", !.user = u,
                            !.fresh = t, !.admin = HasAdminRole(u)])

BeginFailedLogin(r, u) ==
  /\ status[u] = "active" /\ u \notin locked
  /\ Begins(r, [Idle EXCEPT !.pc = "updateUser", !.kind = "failedLogin",
                            !.user = u, !.seen = failed[u]])

\* Mutant: refresh forgets to look at revoked_at.
BeginRefreshOfRevoked(r, t, f) ==
  /\ owner[t] # NoUser /\ t \notin expired /\ status[owner[t]] = "active"
  /\ Unused(f)
  /\ Begins(r, [Idle EXCEPT !.pc = "updateToken", !.kind = "refresh",
                            !.user = owner[t], !.token = t, !.fresh = f,
                            !.admin = HasAdminRole(owner[t])])

\* refresh: its SELECT, outside of the transaction.
BeginRefresh(r, t, f) ==
  /\ Accepts(t)
  /\ Unused(f)
  /\ Begins(r, [Idle EXCEPT !.pc = "updateToken", !.kind = "refresh",
                            !.user = owner[t], !.token = t, !.fresh = f,
                            !.admin = HasAdminRole(owner[t])])

BeginReset(r, k) ==
  /\ reset[k].state = "live"
  /\ Begins(r, [Idle EXCEPT !.pc = "lockReset", !.kind = "reset", !.key = k,
                            !.user = reset[k].user])

\* revokeRefreshTokens, by an administrator.
BeginRevokeAll(r, u) ==
  /\ \E a \in Users : CallsAsAdmin(a)
  /\ Exists(u)
  /\ Begins(r, [Idle EXCEPT !.pc = "snapshot", !.kind = "revokeAll", !.user = u])

BeginStatus(r, u, s) ==
  /\ \E a \in Users : CallsAsAdmin(a)
  /\ Exists(u)
  /\ Begins(r, [Idle EXCEPT !.pc = "updateUser", !.kind = "status", !.user = u,
                            !.status = s])

\* Mutant: the guard's answer is enough to grant the role.
BeginAddRoleByGuard(r, a, u) ==
  /\ CallsAsAdmin(a)
  /\ Exists(u)
  /\ Begins(r, [Idle EXCEPT !.pc = "writeRole", !.kind = "addRole", !.user = u,
                            !.actor = a])

\* addRole of 'admin': the actor must have the role in the database too.
BeginAddRole(r, a, u) ==
  /\ CallsAsAdmin(a)
  /\ HasAdminRole(a)
  /\ Exists(u)
  /\ Begins(r, [Idle EXCEPT !.pc = "writeRole", !.kind = "addRole", !.user = u,
                            !.actor = a])

BeginRemoveRole(r, a, u) ==
  /\ CallsAsAdmin(a)
  /\ Exists(u)
  /\ Begins(r, [Idle EXCEPT !.pc = "writeRole", !.kind = "removeRole",
                            !.user = u, !.actor = a])

-----------------------------------------------------------------------------
(* Requests of one statement, which is its own transaction.                *)

\* requestPasswordReset.
RequestReset(k, u) ==
  /\ served < MaxRequests
  /\ reset[k].state = "none"
  /\ status[u] \notin {"none", "deleted"}
  /\ reset' = [reset EXCEPT ![k] = [user |-> u, state |-> "live"]]
  /\ served' = served + 1
  /\ UNCHANGED <<accounts, sessions, expired, access, locks, req, failures,
                 lapses, history>>

\* Of the tokens of S, those that no other request than r is refreshing.
Settled(S, r) == {t \in S : \A o \in Requests \ {r} : ~ Refreshing(o, t)}

\* logout: the UPDATE waits for a refresh that holds the row, and then finds it
\* revoked.
Logout(t) ==
  /\ served < MaxRequests
  /\ owner[t] # NoUser /\ Authenticated(owner[t])
  /\ tokenLock[t] = NoRequest
  /\ t \notin revoked
  /\ revoked' = revoked \cup {t}
  /\ spent' = spent \cup Settled({t}, NoRequest)
  /\ served' = served + 1
  /\ UNCHANGED <<accounts, owner, parent, expired, reset, access, locks, req,
                 failures, lapses, wrong, used, demoted>>

-----------------------------------------------------------------------------
(* The statements of a transaction.                                        *)

\* Mutant: the locks of a transaction outlive it.
EndRequestKeepingLocks(r) ==
  /\ req' = [req EXCEPT ![r] = Idle]
  /\ UNCHANGED locks

EndRequest(r) ==
  /\ req' = [req EXCEPT ![r] = Idle]
  /\ userLock' = [u \in Users |->
                    IF userLock[u] = r THEN NoRequest ELSE userLock[u]]
  /\ tokenLock' = [t \in Tokens |->
                     IF tokenLock[t] = r THEN NoRequest ELSE tokenLock[t]]
  /\ resetLock' = [k \in Resets |->
                     IF resetLock[k] = r THEN NoRequest ELSE resetLock[k]]

\* Mutant: there is no unique index on users.email.
InsertUserTwice(r) ==
  /\ req[r].pc = "insertUser"
  /\ Goto(r, "commit")
  /\ UNCHANGED <<rows, locks, bounds>>

\* The INSERT into users waits for an open transaction that inserted the same
\* email; if that one committed, it is answered with a conflict.
InsertUser(r) ==
  LET same(v) == Email[v] = Email[req[r].user] IN
  /\ req[r].pc = "insertUser"
  /\ \A o \in Requests \ {r} :
       ~ (req[o].kind = "register" /\ req[o].pc = "commit" /\ same(req[o].user))
  /\ IF \E v \in Users : Exists(v) /\ same(v)
       THEN EndRequest(r)
       ELSE Goto(r, "commit") /\ UNCHANGED locks
  /\ UNCHANGED <<rows, bounds>>

\* The UPDATE of users of login, recordFailedLogin, resetPassword, updateStatus.
UpdateUser(r) ==
  LET u == req[r].user IN
  /\ req[r].pc = "updateUser"
  /\ userLock[u] = NoRequest
  /\ userLock' = [userLock EXCEPT ![u] = r]
  /\ Goto(r, IF req[r].kind = "reset" THEN "snapshot" ELSE "commit")
  /\ UNCHANGED <<rows, tokenLock, resetLock, bounds>>

\* refresh has inserted the replacement; its UPDATE of the old token has no
\* condition on revoked_at.
UpdateToken(r) ==
  LET t == req[r].token IN
  /\ req[r].pc = "updateToken"
  /\ tokenLock[t] = NoRequest
  /\ tokenLock' = [tokenLock EXCEPT ![t] = r]
  /\ Goto(r, "commit")
  /\ UNCHANGED <<rows, userLock, resetLock, bounds>>

\* Mutant: the SELECT of the reset token has no FOR UPDATE.
ReadReset(r) ==
  LET k == req[r].key IN
  /\ req[r].pc = "lockReset"
  /\ IF reset[k].state = "live"
       THEN Goto(r, "updateUser") /\ UNCHANGED locks
       ELSE EndRequest(r)
  /\ UNCHANGED <<rows, bounds>>

\* resetPassword: SELECT ... WHERE consumed_at IS NULL ... FOR UPDATE.
LockReset(r) ==
  LET k == req[r].key IN
  /\ req[r].pc = "lockReset"
  /\ resetLock[k] = NoRequest
  /\ IF reset[k].state = "live"
       THEN /\ resetLock' = [resetLock EXCEPT ![k] = r]
            /\ Goto(r, "updateUser")
            /\ UNCHANGED <<userLock, tokenLock>>
       ELSE EndRequest(r)
  /\ UNCHANGED <<rows, bounds>>

\* The UPDATE that revokes all tokens of the user sees the tokens committed when
\* it starts, then waits for the rows another transaction holds and looks at
\* revoked_at again.
SnapshotTokens(r) ==
  LET u == req[r].user IN
  /\ req[r].pc = "snapshot"
  /\ req' = [req EXCEPT ![r].pc = "lockTokens", ![r].revoking = Unrevoked(u),
               ![r].calm = \A o \in Requests : ~ OpensSession(req[o], u)]
  /\ UNCHANGED <<rows, locks, bounds>>

LockTokens(r) ==
  LET found == req[r].revoking IN
  /\ req[r].pc = "lockTokens"
  /\ \A t \in found : tokenLock[t] = NoRequest
  /\ tokenLock' = [t \in Tokens |-> IF t \in found \ revoked THEN r
                                    ELSE tokenLock[t]]
  /\ req' = [req EXCEPT ![r].pc = "commit", ![r].revoking = found \ revoked]
  /\ UNCHANGED <<rows, userLock, resetLock, bounds>>

\* The open transaction of o has inserted the user's row of user_roles, or has
\* deleted it.
Inserted(o, u) ==
  req[o].kind = "addRole" /\ req[o].pc = "commit" /\ req[o].hit /\ req[o].user = u
Deleted(o, u) ==
  req[o].kind = "removeRole" /\ req[o].pc = "commit" /\ req[o].hit /\ req[o].user = u

\* INSERT ... ON CONFLICT DO NOTHING waits for both, DELETE for the other
\* DELETE only: it does not see a row that is not committed.
WriteRole(r) ==
  LET u == req[r].user IN
  /\ req[r].pc = "writeRole"
  /\ \A o \in Requests \ {r} :
       /\ ~ Deleted(o, u)
       /\ req[r].kind = "addRole" => ~ Inserted(o, u)
  /\ req' = [req EXCEPT ![r].pc = "commit",
                        ![r].hit = (req[r].kind = "removeRole") <=> (u \in admins)]
  /\ UNCHANGED <<rows, locks, bounds>>

-----------------------------------------------------------------------------
(* COMMIT, by kind of request.                                             *)

\* createRefreshToken and signAccessToken.
OpenSession(r, previous) ==
  /\ owner' = [owner EXCEPT ![req[r].fresh] = req[r].user]
  /\ parent' = [parent EXCEPT ![req[r].fresh] = previous]
  /\ access' = access \cup {<<req[r].user, req[r].admin>>}

CommitRegister(r) ==
  /\ req[r].kind = "register"
  /\ status' = [status EXCEPT ![req[r].user] = "active"]
  /\ OpenSession(r, NoToken)
  /\ UNCHANGED <<admins, failed, locked, revoked, reset, history>>

CommitLogin(r) ==
  LET u == req[r].user IN
  /\ req[r].kind = "login"
  /\ failed' = [failed EXCEPT ![u] = 0]
  /\ locked' = locked \ {u}
  /\ OpenSession(r, NoToken)
  /\ UNCHANGED <<status, admins, revoked, reset, history>>

\* Mutant: the account is locked one failure too early.
LocksEarly(n) == n + 1 >= Threshold

\* shouldLock of recordFailedLogin.
ShouldLock(n) == n >= Threshold

\* recordFailedLogin writes the counter that login has read, and one.
CommitFailedLogin(r) ==
  LET u == req[r].user
      next == req[r].seen + 1
  IN /\ req[r].kind = "failedLogin"
     /\ failed' = [failed EXCEPT ![u] = next]
     /\ locked' = IF ShouldLock(next) THEN locked \cup {u} ELSE locked
     /\ wrong' = [wrong EXCEPT ![u] = @ + 1]
     /\ UNCHANGED <<status, admins, sessions, reset, access,
                    used, spent, demoted>>

CommitRefresh(r) ==
  LET t == req[r].token IN
  /\ req[r].kind = "refresh"
  /\ OpenSession(r, t)
  /\ revoked' = revoked \cup {t}
  /\ spent' = spent \cup Settled({t}, r)
  /\ UNCHANGED <<accounts, reset, wrong, used, demoted>>

\* Mutant: the password is reset and the sessions are kept.
CommitResetKeepingSessions(r) ==
  LET u == req[r].user
      k == req[r].key
  IN /\ req[r].kind = "reset"
     /\ failed' = [failed EXCEPT ![u] = 0]
     /\ locked' = locked \ {u}
     /\ reset' = [reset EXCEPT ![k].state = "consumed"]
     /\ used' = [used EXCEPT ![k] = @ + 1]
     /\ UNCHANGED <<status, admins, sessions, access, spent, wrong,
                    demoted>>

CommitReset(r) ==
  LET u == req[r].user
      k == req[r].key
  IN /\ req[r].kind = "reset"
     /\ failed' = [failed EXCEPT ![u] = 0]
     /\ locked' = locked \ {u}
     /\ reset' = [reset EXCEPT ![k].state = "consumed"]
     /\ revoked' = revoked \cup req[r].revoking
     /\ used' = [used EXCEPT ![k] = @ + 1]
     /\ spent' = spent \cup Settled(req[r].revoking, r)
     /\ UNCHANGED <<status, admins, owner, parent, access, wrong, demoted>>

CommitRevokeAll(r) ==
  /\ req[r].kind = "revokeAll"
  /\ revoked' = revoked \cup req[r].revoking
  /\ spent' = spent \cup Settled(req[r].revoking, r)
  /\ UNCHANGED <<accounts, owner, parent, reset, access,
                 wrong, used, demoted>>

CommitStatus(r) ==
  /\ req[r].kind = "status"
  /\ status' = [status EXCEPT ![req[r].user] = req[r].status]
  /\ UNCHANGED <<admins, failed, locked, sessions, reset, access, history>>

CommitAddRole(r) ==
  LET u == req[r].user IN
  /\ req[r].kind = "addRole"
  /\ admins' = IF req[r].hit THEN admins \cup {u} ELSE admins
  /\ demoted' = IF req[r].hit THEN demoted \ {u} ELSE demoted
  /\ UNCHANGED <<status, failed, locked, sessions, reset, access,
                 wrong, used, spent>>

CommitRemoveRole(r) ==
  LET u == req[r].user
      granting == \E o \in Requests : req[o].kind = "addRole" /\ req[o].actor = u
  IN /\ req[r].kind = "removeRole"
     /\ admins' = IF req[r].hit THEN admins \ {u} ELSE admins
     /\ demoted' = IF req[r].hit /\ ~ granting THEN demoted \cup {u} ELSE demoted
     /\ UNCHANGED <<status, failed, locked, sessions, reset, access,
                    wrong, used, spent>>

Commit(r) ==
  /\ req[r].pc = "commit"
  /\ \/ CommitRegister(r) \/ CommitLogin(r) \/ CommitFailedLogin(r)
     \/ CommitRefresh(r) \/ CommitReset(r) \/ CommitRevokeAll(r)
     \/ CommitStatus(r) \/ CommitAddRole(r) \/ CommitRemoveRole(r)
  /\ EndRequest(r)
  /\ UNCHANGED <<expired, bounds>>

-----------------------------------------------------------------------------
\* A statement fails or the process dies: the transaction is rolled back.  For a
\* failed login the client is refused all the same.
Rollback(r) ==
  /\ req[r].pc # "idle"
  /\ failures < MaxFailures
  /\ failures' = failures + 1
  /\ EndRequest(r)
  /\ UNCHANGED <<rows, lapses, served>>

\* The 15 minutes of a lock, the 30 of a reset token, the days of a refresh
\* token or the 15 minutes of an access token are over.
Lapse ==
  /\ lapses < MaxLapses
  /\ lapses' = lapses + 1
  /\ \/ /\ \E u \in locked : locked' = locked \ {u}
        /\ UNCHANGED <<reset, expired, access>>
     \/ /\ \E k \in Resets : /\ reset[k].state = "live"
                             /\ resetLock[k] = NoRequest
                             /\ reset' = [reset EXCEPT ![k].state = "expired"]
        /\ UNCHANGED <<locked, expired, access>>
     \/ /\ \E t \in Tokens \ expired : /\ owner[t] # NoUser
                                       /\ expired' = expired \cup {t}
        /\ UNCHANGED <<locked, reset, access>>
     \/ /\ \E a \in access : access' = access \ {a}
        /\ UNCHANGED <<locked, reset, expired>>
  /\ UNCHANGED <<status, admins, failed, sessions, locks, req, failures, served,
                 history>>

Serve(r) ==
  \/ InsertUser(r) \/ UpdateUser(r) \/ UpdateToken(r) \/ LockReset(r)
  \/ SnapshotTokens(r) \/ LockTokens(r) \/ WriteRole(r) \/ Commit(r)

Next ==
  \/ \E r \in Requests :
       \/ \E u \in Users, t \in Tokens : BeginRegister(r, u, t) \/ BeginLogin(r, u, t)
       \/ \E t, f \in Tokens : BeginRefresh(r, t, f)
       \/ \E k \in Resets : BeginReset(r, k)
       \/ \E u \in Users : BeginFailedLogin(r, u) \/ BeginRevokeAll(r, u)
       \/ \E u \in Users, s \in Statuses : BeginStatus(r, u, s)
       \/ \E a, u \in Users : BeginAddRole(r, a, u) \/ BeginRemoveRole(r, a, u)
       \/ Serve(r)
       \/ Rollback(r)
  \/ \E k \in Resets, u \in Users : RequestReset(k, u)
  \/ \E t \in Tokens : Logout(t)
  \/ Lapse

Spec == Init /\ [][Next]_vars

-----------------------------------------------------------------------------
(* Properties.                                                             *)

\* Two registrations of one email at the same time leave one account: the index
\* decides what SELECT ... FOR UPDATE of no row cannot (register).
OneAccountPerEmail ==
  \A u, v \in Users : Exists(u) /\ Exists(v) /\ Email[u] = Email[v] => u = v

\* A reset token that is sent twice, also at the same time, resets the password
\* once (resetPassword, docs/endpoints/endpoints.md:239).
ResetTakesEffectOnce == \A k \in Resets : used[k] <= 1

\* No interleaving of failed logins, which write what they read, of logins that
\* reset the counter, and of time locks an account that has not seen as many
\* wrong passwords as it takes (recordFailedLogin).
NoLockWithoutCause == \A u \in locked : wrong[u] >= Threshold

\* A token that was revoked, by whatever request, while nobody was refreshing it
\* never gets a successor: only a refresh that was already being served can go
\* on with it (refresh reads revoked_at before its transaction).
SpentTokenIsNotRefreshed ==
  [][\A t \in Tokens : parent'[t] # parent[t] => parent'[t] \notin spent]_vars

\* When a reset of the password or a revocation by an administrator commits and
\* no session of the user was being opened meanwhile, none is left.
CalmRevocationLeavesNoSession ==
  [][\A r \in Requests, u \in Users :
       req[r].calm /\ req[r].user = u /\ req[r].pc = "commit"
         /\ req'[r].pc = "idle" /\ failures' = failures
       => Unrevoked(u)' = {}]_vars

\* An administrator who lost the role while no grant of theirs was being served
\* grants it to nobody, although their access token still says 'admin' (addRole,
\* userHasRole).
DemotedCannotPromote ==
  [][\A u \in admins' \ admins :
       \E r \in Requests : req[r].user = u /\ req[r].kind = "addRole"
                          /\ req[r].pc = "commit" /\ req[r].actor \notin demoted]_vars
=============================================================================

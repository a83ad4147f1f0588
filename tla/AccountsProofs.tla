--------------------------- MODULE AccountsProofs ---------------------------
(***************************************************************************)
(* Proofs about Accounts, for any users, tokens, reset tokens, requests in *)
(* flight, threshold and bounds.                                           *)
(***************************************************************************)
EXTENDS Accounts, TLAPS

-----------------------------------------------------------------------------
(* The inductive invariant.                                                *)

Request ==
  [pc : {"idle", "insertUser", "updateUser", "updateToken", "lockReset",
         "snapshot", "lockTokens", "writeRole", "commit"},
   kind : {"none", "register", "login", "failedLogin", "refresh", "reset",
           "revokeAll", "status", "addRole", "removeRole"},
   actor : Users \cup {NoUser}, user : Users \cup {NoUser},
   token : Tokens \cup {NoToken}, fresh : Tokens \cup {NoToken},
   key : Resets \cup {NoReset}, seen : Nat, admin : BOOLEAN,
   hit : BOOLEAN, status : Statuses \cup {"none"},
   revoking : SUBSET Tokens, calm : BOOLEAN]

\* What a request that has come to q.pc is about.
WellFormed(q) ==
  /\ q.pc = "idle" <=> q.kind = "none"
  /\ q.pc = "idle" <=> q.user = NoUser
  /\ q.pc = "insertUser" => q.kind = "register"
  /\ q.pc = "updateUser" => q.kind \in {"login", "failedLogin", "reset", "status"}
  /\ q.pc = "updateToken" => q.kind = "refresh"
  /\ q.pc = "lockReset" => q.kind = "reset"
  /\ q.pc \in {"snapshot", "lockTokens"} => q.kind \in {"reset", "revokeAll"}
  /\ q.pc = "writeRole" => q.kind \in {"addRole", "removeRole"}
  /\ q.kind \in {"register", "login", "refresh"} => q.fresh \in Tokens
  /\ q.kind = "refresh" => q.token \in Tokens
  /\ q.kind = "reset" => q.key \in Resets
  /\ q.kind = "addRole" => q.actor \in Users
  /\ q.kind = "status" => q.status \in Statuses
  /\ q.calm => q.pc \in {"lockTokens", "commit"} /\ q.kind \in {"reset", "revokeAll"}

\* The requests in flight, and the rows their fields come from.
RequestsOK ==
  /\ \A r \in Requests : WellFormed(req[r])
  /\ \A k \in Resets : reset[k].state # "none" => reset[k].user \in Users
  /\ failures \in Nat

\* The open transaction of r has inserted its user.
Registering(r) == req[r].kind = "register" /\ req[r].pc = "commit"

\* The index on users.email: no two transactions have inserted one email, and none
\* an email that is committed.
EmailsOK ==
  /\ OneAccountPerEmail
  /\ \A r \in Requests : req[r].kind = "status" => Exists(req[r].user)
  /\ \A r \in Requests, v \in Users :
       Registering(r) /\ Exists(v) => Email[v] # Email[req[r].user]
  /\ \A r, o \in Requests :
       Registering(r) /\ Registering(o) /\ Email[req[r].user] = Email[req[o].user]
         => r = o

\* A request that has found its reset token holds its row, which is live until then.
ResetsOK ==
  /\ used \in [Resets -> Nat]
  /\ \A k \in Resets : used[k] = IF reset[k].state = "consumed" THEN 1 ELSE 0
  /\ \A r \in Requests : req[r].kind = "reset" /\ req[r].pc # "lockReset" =>
       resetLock[req[r].key] = r /\ reset[req[r].key].state = "live"

\* No counter, in a row or in what a request has read of it, is ahead of the failures.
FailuresOK ==
  /\ wrong \in [Users -> Nat]
  /\ \A u \in Users : failed[u] <= wrong[u]
  /\ \A r \in Requests : req[r].kind = "failedLogin" => req[r].seen <= wrong[req[r].user]
  /\ NoLockWithoutCause

\* Nobody is refreshing a token that is spent.
SpentOK ==
  /\ spent \subseteq revoked
  /\ \A r \in Requests, t \in Tokens : Refreshing(r, t) => t \notin spent

\* A calm revocation has found every token of its user, and nobody makes another one.
CalmOK ==
  \A r \in Requests : req[r].calm =>
    /\ \A o \in Requests : ~ OpensSession(req[o], req[r].user)
    /\ Unrevoked(req[r].user) \subseteq req[r].revoking

\* Who is demoted has not the role and does not grant it.
RolesOK ==
  /\ demoted \cap admins = {}
  /\ \A r \in Requests : req[r].kind = "addRole" => req[r].actor \notin demoted

IInv ==
  /\ TypeOK /\ RequestsOK /\ EmailsOK /\ ResetsOK /\ FailuresOK /\ SpentOK
  /\ CalmOK /\ RolesOK

-----------------------------------------------------------------------------
(* Requests begin.                                                         *)

\* A request of one of the kinds that BEGIN something, at slot r.
Beginning(r) ==
  \/ \E u \in Users, t \in Tokens : BeginRegister(r, u, t) \/ BeginLogin(r, u, t)
  \/ \E t, f \in Tokens : BeginRefresh(r, t, f)
  \/ \E k \in Resets : BeginReset(r, k)
  \/ \E u \in Users : BeginFailedLogin(r, u) \/ BeginRevokeAll(r, u)
  \/ \E u \in Users, s \in Statuses : BeginStatus(r, u, s)
  \/ \E a, u \in Users : BeginAddRole(r, a, u) \/ BeginRemoveRole(r, a, u)

\* What is true of a request that begins.
New(q) ==
  /\ WellFormed(q)
  /\ q.pc \notin {"idle", "commit"} /\ ~ q.calm
  /\ q.kind = "reset" => q.pc = "lockReset"
  /\ q.kind = "failedLogin" => q.seen = failed[q.user]
  /\ q.kind = "refresh" => q.token \notin revoked
  /\ q.kind = "status" => Exists(q.user)
  /\ q.kind = "addRole" => q.actor \in admins

LEMMA BeginForm ==
  ASSUME AccountsAssumption, TypeOK, RequestsOK, NEW r \in Requests, Beginning(r)
  PROVE  \E q \in Request : Begins(r, q) /\ New(q)
<1> USE DEF Request, New, WellFormed, Idle, TypeOK, AccountsAssumption
<1>1. ASSUME NEW u \in Users, NEW t \in Tokens, BeginRegister(r, u, t)
      PROVE  \E q \in Request : Begins(r, q) /\ New(q)
  <2> DEFINE q == [Idle EXCEPT !.pc = "insertUser", !.kind = "register",
                               !.user = u, !.fresh = t]
  <2>1. q \in Request /\ New(q)
    OBVIOUS
  <2> QED BY <1>1, <2>1 DEF BeginRegister
<1>2. ASSUME NEW u \in Users, NEW t \in Tokens, BeginLogin(r, u, t)
      PROVE  \E q \in Request : Begins(r, q) /\ New(q)
  <2> DEFINE q == [Idle EXCEPT !.pc = "updateUser", !.kind = "login", !.user = u,
                               !.fresh = t, !.admin = HasAdminRole(u)]
  <2>1. HasAdminRole(u) \in BOOLEAN
    BY DEF HasAdminRole
  <2>2. q \in Request /\ New(q)
    BY <2>1
  <2> QED BY <1>2, <2>2 DEF BeginLogin
<1>3. ASSUME NEW u \in Users, BeginFailedLogin(r, u)
      PROVE  \E q \in Request : Begins(r, q) /\ New(q)
  <2> DEFINE q == [Idle EXCEPT !.pc = "updateUser", !.kind = "failedLogin",
                               !.user = u, !.seen = failed[u]]
  <2>1. q \in Request /\ New(q)
    OBVIOUS
  <2> QED BY <1>3, <2>1 DEF BeginFailedLogin
<1>4. ASSUME NEW t \in Tokens, NEW f \in Tokens, BeginRefresh(r, t, f)
      PROVE  \E q \in Request : Begins(r, q) /\ New(q)
  <2> DEFINE q == [Idle EXCEPT !.pc = "updateToken", !.kind = "refresh",
                               !.user = owner[t], !.token = t, !.fresh = f,
                               !.admin = HasAdminRole(owner[t])]
  <2>1. owner[t] \in Users /\ t \notin revoked
    BY <1>4 DEF BeginRefresh, Accepts
  <2>2. HasAdminRole(owner[t]) \in BOOLEAN
    BY DEF HasAdminRole
  <2>3. q \in Request /\ New(q)
    BY <2>1, <2>2
  <2> QED BY <1>4, <2>3 DEF BeginRefresh
<1>5. ASSUME NEW k \in Resets, BeginReset(r, k)
      PROVE  \E q \in Request : Begins(r, q) /\ New(q)
  <2> DEFINE q == [Idle EXCEPT !.pc = "lockReset", !.kind = "reset", !.key = k,
                               !.user = reset[k].user]
  <2>1. reset[k].user \in Users
    BY <1>5 DEF BeginReset, RequestsOK
  <2>2. q \in Request /\ New(q)
    BY <2>1
  <2> QED BY <1>5, <2>2 DEF BeginReset
<1>6. ASSUME NEW u \in Users, BeginRevokeAll(r, u)
      PROVE  \E q \in Request : Begins(r, q) /\ New(q)
  <2> DEFINE q == [Idle EXCEPT !.pc = "snapshot", !.kind = "revokeAll", !.user = u]
  <2>1. q \in Request /\ New(q)
    OBVIOUS
  <2> QED BY <1>6, <2>1 DEF BeginRevokeAll
<1>7. ASSUME NEW u \in Users, NEW s \in Statuses, BeginStatus(r, u, s)
      PROVE  \E q \in Request : Begins(r, q) /\ New(q)
  <2> DEFINE q == [Idle EXCEPT !.pc = "updateUser", !.kind = "status", !.user = u,
                               !.status = s]
  <2>1. q \in Request /\ New(q)
    BY <1>7 DEF BeginStatus
  <2> QED BY <1>7, <2>1 DEF BeginStatus
<1>8. ASSUME NEW a \in Users, NEW u \in Users, BeginAddRole(r, a, u)
      PROVE  \E q \in Request : Begins(r, q) /\ New(q)
  <2> DEFINE q == [Idle EXCEPT !.pc = "writeRole", !.kind = "addRole", !.user = u,
                               !.actor = a]
  <2>1. q \in Request /\ New(q)
    BY <1>8 DEF BeginAddRole, HasAdminRole
  <2> QED BY <1>8, <2>1 DEF BeginAddRole
<1>9. ASSUME NEW a \in Users, NEW u \in Users, BeginRemoveRole(r, a, u)
      PROVE  \E q \in Request : Begins(r, q) /\ New(q)
  <2> DEFINE q == [Idle EXCEPT !.pc = "writeRole", !.kind = "removeRole",
                               !.user = u, !.actor = a]
  <2>1. q \in Request /\ New(q)
    OBVIOUS
  <2> QED BY <1>9, <2>1 DEF BeginRemoveRole
<1> QED BY <1>1, <1>2, <1>3, <1>4, <1>5, <1>6, <1>7, <1>8, <1>9 DEF Beginning

\* The slots after a request has begun: of the others, at most calm changes.
LEMMA BeginSlots ==
  ASSUME TypeOK, NEW r \in Requests, NEW q \in Request, New(q), Begins(r, q)
  PROVE  /\ req' \in [Requests -> Request]
         /\ req[r].pc = "idle" /\ req'[r] = q
         /\ \A o \in Requests \ {r} :
              /\ req'[o] \in Request
              /\ req'[o] = [req[o] EXCEPT !.calm = req'[o].calm]
              /\ req'[o].calm => req[o].calm /\ ~ OpensSession(q, req[o].user)
<1>1. \A o \in Requests : req[o] \in Request
  BY DEF TypeOK, Request
<1>2. \A o \in Requests \ {r} :
        req'[o] = [req[o] EXCEPT !.calm = @ /\ ~ OpensSession(q, req[o].user)]
  BY DEF Begins
<1>3. ASSUME NEW o \in Requests \ {r}
      PROVE  /\ req'[o] \in Request
             /\ req'[o] = [req[o] EXCEPT !.calm = req'[o].calm]
             /\ req'[o].calm => req[o].calm /\ ~ OpensSession(q, req[o].user)
  <2> DEFINE c == req[o].calm /\ ~ OpensSession(q, req[o].user)
  <2>1. c \in BOOLEAN /\ req'[o] = [req[o] EXCEPT !.calm = c]
    BY <1>2
  <2> HIDE DEF c
  <2>2. req'[o] \in Request /\ req'[o].calm = c
    BY <1>1, <2>1 DEF Request
  <2> QED BY <2>1, <2>2 DEF c
<1>4. req'[r] = q /\ req[r].pc = "idle" /\ req' = [o \in Requests |-> req'[o]]
  BY DEF Begins
<1> QED BY <1>3, <1>4

LEMMA BeginInv ==
  ASSUME AccountsAssumption, IInv, NEW r \in Requests, Beginning(r)
  PROVE  IInv'
<1>1. PICK q \in Request : Begins(r, q) /\ New(q)
  BY BeginForm DEF IInv
<1>2. /\ req' \in [Requests -> Request]
      /\ req[r].pc = "idle" /\ req'[r] = q
      /\ \A o \in Requests \ {r} :
           /\ req'[o] \in Request
           /\ req'[o] = [req[o] EXCEPT !.calm = req'[o].calm]
           /\ req'[o].calm => req[o].calm /\ ~ OpensSession(q, req[o].user)
  BY <1>1, BeginSlots DEF IInv
<1>3. \A o \in Requests \ {r} :
        /\ req'[o].pc = req[o].pc /\ req'[o].kind = req[o].kind
        /\ req'[o].actor = req[o].actor /\ req'[o].user = req[o].user
        /\ req'[o].token = req[o].token /\ req'[o].fresh = req[o].fresh
        /\ req'[o].key = req[o].key /\ req'[o].seen = req[o].seen
        /\ req'[o].status = req[o].status /\ req'[o].revoking = req[o].revoking
        /\ req'[o].calm => req[o].calm /\ ~ OpensSession(q, req[o].user)
  BY <1>2 DEF IInv, TypeOK, Request
<1>4. UNCHANGED <<rows, locks, failures, lapses>>
  BY <1>1 DEF Begins
<1> HIDE DEF Begins
<1>5. TypeOK'
  <2>1. \A u \in Users : userLock[u] # NoRequest => userLock[u] \in Requests \ {r}
    BY <1>2 DEF IInv, TypeOK, RequestsOK, WellFormed, AccountsAssumption
  <2>2. \A u \in Users : userLock'[u] # NoRequest => req'[userLock'[u]].user = u
    BY <1>3, <1>4, <2>1 DEF IInv, TypeOK, locks
  <2> QED BY <1>2, <1>4, <2>2 DEF IInv, TypeOK, Request, rows, accounts, sessions, locks
<1>6. RequestsOK'
  <2>1. \A o \in Requests : WellFormed(req'[o])
    BY <1>1, <1>2, <1>3 DEF IInv, RequestsOK, WellFormed, New
  <2> QED BY <1>4, <2>1 DEF IInv, RequestsOK, rows
<1>7. EmailsOK'
  BY <1>1, <1>2, <1>3, <1>4 DEF IInv, EmailsOK, OneAccountPerEmail, Exists, Registering,
     New, rows, accounts
<1>8. ResetsOK'
  BY <1>1, <1>2, <1>3, <1>4 DEF IInv, ResetsOK, New, rows, locks, history
<1>9. FailuresOK'
  <2>1. q.kind = "failedLogin" => q.user \in Users /\ q.seen = failed[q.user]
    BY <1>1 DEF New, WellFormed, Request
  <2> QED BY <1>1, <1>2, <1>3, <1>4, <2>1 DEF IInv, FailuresOK, NoLockWithoutCause,
             rows, accounts, history
<1>10. SpentOK'
  BY <1>1, <1>2, <1>3, <1>4 DEF IInv, SpentOK, Refreshing, New, rows, sessions, history
<1>11. CalmOK'
  BY <1>1, <1>2, <1>3, <1>4 DEF IInv, CalmOK, OpensSession, Unrevoked, New, rows, sessions
<1>12. RolesOK'
  BY <1>1, <1>2, <1>3, <1>4 DEF IInv, RolesOK, New, rows, accounts, history
<1> QED BY <1>5, <1>6, <1>7, <1>8, <1>9, <1>10, <1>11, <1>12 DEF IInv

-----------------------------------------------------------------------------
(* Requests go on, or end.                                                 *)

\* The request is the same, further on in its transaction.
Same(q, p) ==
  /\ q.kind = p.kind /\ q.actor = p.actor /\ q.user = p.user /\ q.token = p.token
  /\ q.fresh = p.fresh /\ q.key = p.key /\ q.seen = p.seen /\ q.status = p.status

\* A transaction that ends leaves no lock and no trace in the slots.
LEMMA EndSlots ==
  ASSUME AccountsAssumption, TypeOK, RequestsOK, NEW r \in Requests, EndRequest(r)
  PROVE  /\ req' \in [Requests -> Request]
         /\ req'[r] = Idle /\ WellFormed(Idle)
         /\ \A o \in Requests \ {r} : req'[o] = req[o]
         /\ userLock' \in [Users -> Requests \cup {NoRequest}]
         /\ tokenLock' \in [Tokens -> Requests \cup {NoRequest}]
         /\ resetLock' \in [Resets -> Requests \cup {NoRequest}]
         /\ \A u \in Users : userLock'[u] # NoRequest => req'[userLock'[u]].user = u
         /\ \A k \in Resets : resetLock[k] # r => resetLock'[k] = resetLock[k]
<1>1. Idle \in Request /\ WellFormed(Idle)
  BY DEF Idle, Request, WellFormed, AccountsAssumption
<1>2. req \in [Requests -> Request] /\ req' = [req EXCEPT ![r] = Idle]
  BY DEF TypeOK, Request, EndRequest
<1>3. /\ req' \in [Requests -> Request]
      /\ req'[r] = Idle
      /\ \A o \in Requests \ {r} : req'[o] = req[o]
  BY <1>1, <1>2
<1>4. /\ userLock' \in [Users -> Requests \cup {NoRequest}]
      /\ tokenLock' \in [Tokens -> Requests \cup {NoRequest}]
      /\ resetLock' \in [Resets -> Requests \cup {NoRequest}]
      /\ \A k \in Resets : resetLock[k] # r => resetLock'[k] = resetLock[k]
  BY DEF TypeOK, EndRequest
<1>5. ASSUME NEW u \in Users, userLock'[u] # NoRequest
      PROVE  req'[userLock'[u]].user = u
  <2>1. userLock'[u] = userLock[u] /\ userLock[u] # r /\ userLock[u] \in Requests
    BY <1>5 DEF TypeOK, EndRequest
  <2> QED BY <1>3, <1>5, <2>1 DEF TypeOK
<1> QED BY <1>1, <1>3, <1>4, <1>5

\* What the invariant says of rows and of requests, when the rows stay and one
\* request goes on, or ends; its own statements are left to each of them.
LEMMA StepInv ==
  ASSUME IInv, NEW r \in Requests, UNCHANGED <<rows, bounds>>,
         req' \in [Requests -> Request], WellFormed(req'[r]),
         \A o \in Requests \ {r} : req'[o] = req[o],
         req'[r] = Idle \/ Same(req'[r], req[r])
  PROVE  /\ RequestsOK' /\ FailuresOK' /\ SpentOK' /\ RolesOK'
         /\ ~ Registering(r)' \/ Registering(r) => EmailsOK'
<1>1. Idle.kind = "none"
  BY DEF Idle
<1>2. RequestsOK'
  BY DEF IInv, RequestsOK, rows, bounds
<1>3. FailuresOK'
  BY <1>1 DEF IInv, FailuresOK, NoLockWithoutCause, Same, rows, accounts, history
<1>4. SpentOK'
  BY <1>1 DEF IInv, SpentOK, Refreshing, Same, rows, sessions, history
<1>5. RolesOK'
  BY <1>1 DEF IInv, RolesOK, Same, rows, accounts, history
<1>6. ASSUME ~ Registering(r)' \/ Registering(r)
      PROVE  EmailsOK'
  BY <1>1, <1>6 DEF IInv, EmailsOK, OneAccountPerEmail, Exists, Registering, Same,
     rows, accounts
<1> QED BY <1>2, <1>3, <1>4, <1>5, <1>6

\* Calm revocations, when nobody but r goes on and r is not one.
LEMMA StepCalm ==
  ASSUME IInv, NEW r \in Requests, UNCHANGED rows,
         \A o \in Requests \ {r} : req'[o] = req[o],
         req'[r] = Idle \/ (Same(req'[r], req[r]) /\ req'[r].calm = req[r].calm
                             /\ req'[r].revoking = req[r].revoking)
  PROVE  CalmOK'
<1>1. Idle.kind = "none" /\ Idle.calm = FALSE
  BY DEF Idle
<1> QED BY <1>1 DEF IInv, CalmOK, OpensSession, Unrevoked, Same, rows, sessions

LEMMA RollbackInv ==
  ASSUME AccountsAssumption, IInv, NEW r \in Requests, Rollback(r)
  PROVE  IInv'
<1>1. EndRequest(r) /\ UNCHANGED <<rows, lapses, served>> /\ failures' = failures + 1
  BY DEF Rollback
<1>2. TypeOK /\ RequestsOK
  BY DEF IInv
<1>3. Idle.kind = "none" /\ Idle.calm = FALSE
  BY DEF Idle
<1>4. TypeOK'
  BY <1>1, <1>2, EndSlots DEF TypeOK, Request, rows, accounts, sessions
<1>5. RequestsOK'
  BY <1>1, <1>2, EndSlots DEF RequestsOK, rows
<1>6. EmailsOK'
  BY <1>1, <1>2, <1>3, EndSlots DEF IInv, EmailsOK, OneAccountPerEmail, Exists,
     Registering, rows, accounts
<1>7. ResetsOK'
  BY <1>1, <1>2, <1>3, EndSlots DEF IInv, ResetsOK, RequestsOK, WellFormed, rows, history
<1>8. FailuresOK'
  BY <1>1, <1>2, <1>3, EndSlots DEF IInv, FailuresOK, NoLockWithoutCause, rows, accounts,
     history
<1>9. SpentOK'
  BY <1>1, <1>2, <1>3, EndSlots DEF IInv, SpentOK, Refreshing, rows, sessions, history
<1>10. CalmOK'
  BY <1>1, <1>2, <1>3, EndSlots, StepCalm DEF IInv
<1>11. RolesOK'
  BY <1>1, <1>2, <1>3, EndSlots DEF IInv, RolesOK, rows, accounts, history
<1> QED BY <1>4, <1>5, <1>6, <1>7, <1>8, <1>9, <1>10, <1>11 DEF IInv

-----------------------------------------------------------------------------
(* The statements of a transaction.                                        *)

\* A request that goes on, seen as a step of its slot only.
LEMMA GoesOn ==
  ASSUME IInv, NEW r \in Requests, NEW q \in Request, req' = [req EXCEPT ![r] = q],
         WellFormed(q), q.user = req[r].user
  PROVE  /\ req' \in [Requests -> Request]
         /\ req'[r] = q /\ WellFormed(req'[r])
         /\ \A o \in Requests \ {r} : req'[o] = req[o]
         /\ \A u \in Users : userLock[u] # NoRequest => req'[userLock[u]].user = u
<1>1. req \in [Requests -> Request]
  BY DEF IInv, TypeOK, Request
<1>2. /\ req' \in [Requests -> Request] /\ req'[r] = q
      /\ \A o \in Requests \ {r} : req'[o] = req[o]
  BY <1>1
<1> QED BY <1>2 DEF IInv, TypeOK

LEMMA InsertUserInv ==
  ASSUME AccountsAssumption, IInv, NEW r \in Requests, InsertUser(r)
  PROVE  IInv'
<1>1. /\ TypeOK /\ RequestsOK /\ UNCHANGED <<rows, bounds>>
      /\ req[r] \in Request /\ req[r].kind = "register" /\ req[r].user \in Users
      /\ ~ req[r].calm
  BY DEF IInv, InsertUser, TypeOK, RequestsOK, WellFormed, Request
<1>2. CASE EndRequest(r)
  <2>1. TypeOK'
    BY <1>1, <1>2, EndSlots DEF TypeOK, Request, rows, accounts, sessions
  <2>2. ~ Registering(r)'
    BY <1>1, <1>2, EndSlots DEF Registering, Idle
  <2>3. RequestsOK' /\ FailuresOK' /\ SpentOK' /\ RolesOK' /\ EmailsOK' /\ CalmOK'
    BY <1>1, <1>2, <2>2, EndSlots, StepInv, StepCalm
  <2>4. ResetsOK'
    BY <1>1, <1>2, EndSlots DEF IInv, ResetsOK, Idle, RequestsOK, WellFormed, rows, history
  <2> QED BY <2>1, <2>3, <2>4 DEF IInv
<1>3. CASE /\ ~ \E v \in Users : Exists(v) /\ Email[v] = Email[req[r].user]
           /\ Goto(r, "commit") /\ UNCHANGED locks
  <2> DEFINE q == [req[r] EXCEPT !.pc = "commit"]
  <2>1. /\ q \in Request /\ WellFormed(q) /\ Same(q, req[r]) /\ q.pc = "commit"
        /\ q.calm = req[r].calm /\ q.revoking = req[r].revoking
        /\ q.kind = "register" /\ q.user = req[r].user
    BY <1>1 DEF IInv, RequestsOK, InsertUser, WellFormed, Same, Request
  <2>2. req' = [req EXCEPT ![r] = q]
    BY <1>3 DEF Goto
  <2> HIDE DEF q
  <2>3. /\ req' \in [Requests -> Request] /\ req'[r] = q /\ WellFormed(req'[r])
        /\ \A o \in Requests \ {r} : req'[o] = req[o]
        /\ \A u \in Users : userLock[u] # NoRequest => req'[userLock[u]].user = u
    BY <2>1, <2>2, GoesOn
  <2>4. TypeOK'
    BY <1>1, <1>3, <2>3 DEF TypeOK, Request, rows, accounts, sessions, locks
  <2>5. RequestsOK' /\ FailuresOK' /\ SpentOK' /\ RolesOK' /\ CalmOK'
    BY <1>1, <2>1, <2>3, StepInv, StepCalm
  <2>6. ResetsOK'
    BY <1>1, <1>3, <2>1, <2>3 DEF IInv, ResetsOK, locks, rows, history
  <2>7. \A o \in Requests \ {r} :
          ~ (Registering(o) /\ Email[req[o].user] = Email[req[r].user])
    BY DEF InsertUser, Registering
  <2>8. EmailsOK'
    BY <1>1, <1>3, <2>1, <2>3, <2>7 DEF IInv, EmailsOK, OneAccountPerEmail, Exists,
       Registering, rows, accounts
  <2> QED BY <2>4, <2>5, <2>6, <2>8 DEF IInv
<1> QED BY <1>2, <1>3 DEF InsertUser

LEMMA UpdateUserInv ==
  ASSUME AccountsAssumption, IInv, NEW r \in Requests, UpdateUser(r)
  PROVE  IInv'
<1> DEFINE u == req[r].user
           q == [req[r] EXCEPT !.pc = IF req[r].kind = "reset" THEN "snapshot"
                                      ELSE "commit"]
<1>1. /\ TypeOK /\ RequestsOK /\ UNCHANGED <<rows, tokenLock, resetLock, bounds>>
      /\ req[r] \in Request /\ req[r].kind \in {"login", "failedLogin", "reset", "status"}
      /\ req[r].pc = "updateUser" /\ u \in Users /\ ~ req[r].calm
      /\ userLock' = [userLock EXCEPT ![u] = r]
  BY DEF IInv, UpdateUser, TypeOK, RequestsOK, WellFormed, Request
<1>2. /\ q \in Request /\ WellFormed(q) /\ Same(q, req[r]) /\ q.pc # "lockReset"
      /\ q.calm = req[r].calm /\ q.revoking = req[r].revoking /\ q.kind = req[r].kind
      /\ q.user = req[r].user /\ q.key = req[r].key
  BY <1>1 DEF RequestsOK, WellFormed, Same, Request
<1>3. req' = [req EXCEPT ![r] = q]
  BY DEF UpdateUser, Goto
<1> HIDE DEF q
<1>4. /\ req' \in [Requests -> Request] /\ req'[r] = q /\ WellFormed(req'[r])
      /\ \A o \in Requests \ {r} : req'[o] = req[o]
      /\ \A v \in Users : userLock[v] # NoRequest => req'[userLock[v]].user = v
  BY <1>2, <1>3, GoesOn
<1>5. TypeOK'
  BY <1>1, <1>2, <1>4 DEF TypeOK, Request, rows, accounts, sessions
<1>6. ~ Registering(r)'
  BY <1>1, <1>2, <1>4 DEF Registering
<1>7. RequestsOK' /\ FailuresOK' /\ SpentOK' /\ RolesOK' /\ EmailsOK' /\ CalmOK'
  BY <1>1, <1>2, <1>4, <1>6, StepInv, StepCalm
<1>8. ResetsOK'
  BY <1>1, <1>2, <1>4 DEF IInv, ResetsOK, rows, history
<1> QED BY <1>5, <1>7, <1>8 DEF IInv

LEMMA UpdateTokenInv ==
  ASSUME AccountsAssumption, IInv, NEW r \in Requests, UpdateToken(r)
  PROVE  IInv'
<1> DEFINE q == [req[r] EXCEPT !.pc = "commit"]
<1>1. /\ TypeOK /\ RequestsOK /\ UNCHANGED <<rows, userLock, resetLock, bounds>>
      /\ req[r] \in Request /\ req[r].kind = "refresh" /\ req[r].token \in Tokens
      /\ req[r].pc = "updateToken" /\ req[r].user \in Users /\ ~ req[r].calm
      /\ tokenLock' = [tokenLock EXCEPT ![req[r].token] = r]
  BY DEF IInv, UpdateToken, TypeOK, RequestsOK, WellFormed, Request
<1>2. /\ q \in Request /\ WellFormed(q) /\ Same(q, req[r])
      /\ q.calm = req[r].calm /\ q.revoking = req[r].revoking /\ q.kind = req[r].kind
      /\ q.user = req[r].user
  BY <1>1 DEF RequestsOK, WellFormed, Same, Request
<1>3. req' = [req EXCEPT ![r] = q]
  BY DEF UpdateToken, Goto
<1> HIDE DEF q
<1>4. /\ req' \in [Requests -> Request] /\ req'[r] = q /\ WellFormed(req'[r])
      /\ \A o \in Requests \ {r} : req'[o] = req[o]
      /\ \A v \in Users : userLock[v] # NoRequest => req'[userLock[v]].user = v
  BY <1>2, <1>3, GoesOn
<1>5. TypeOK'
  BY <1>1, <1>2, <1>4 DEF TypeOK, Request, rows, accounts, sessions
<1>6. ~ Registering(r)'
  BY <1>1, <1>2, <1>4 DEF Registering
<1>7. RequestsOK' /\ FailuresOK' /\ SpentOK' /\ RolesOK' /\ EmailsOK' /\ CalmOK'
  BY <1>1, <1>2, <1>4, <1>6, StepInv, StepCalm
<1>8. ResetsOK'
  BY <1>1, <1>2, <1>4 DEF IInv, ResetsOK, rows, history
<1> QED BY <1>5, <1>7, <1>8 DEF IInv

LEMMA LockResetInv ==
  ASSUME AccountsAssumption, IInv, NEW r \in Requests, LockReset(r)
  PROVE  IInv'
<1> DEFINE k == req[r].key
           q == [req[r] EXCEPT !.pc = "updateUser"]
<1>1. /\ TypeOK /\ RequestsOK /\ UNCHANGED <<rows, bounds>>
      /\ req[r] \in Request /\ req[r].kind = "reset" /\ k \in Resets
      /\ req[r].pc = "lockReset" /\ req[r].user \in Users /\ ~ req[r].calm
      /\ resetLock[k] = NoRequest
  BY DEF IInv, LockReset, TypeOK, RequestsOK, WellFormed, Request
<1>2. CASE EndRequest(r)
  <2>1. TypeOK'
    BY <1>1, <1>2, EndSlots DEF TypeOK, Request, rows, accounts, sessions
  <2>2. ~ Registering(r)'
    BY <1>1, <1>2, EndSlots DEF Registering, Idle
  <2>3. RequestsOK' /\ FailuresOK' /\ SpentOK' /\ RolesOK' /\ EmailsOK' /\ CalmOK'
    BY <1>1, <1>2, <2>2, EndSlots, StepInv, StepCalm
  <2>4. ResetsOK'
    BY <1>1, <1>2, EndSlots DEF IInv, ResetsOK, Idle, RequestsOK, WellFormed, rows, history
  <2> QED BY <2>1, <2>3, <2>4 DEF IInv
<1>3. CASE /\ reset[k].state = "live"
           /\ resetLock' = [resetLock EXCEPT ![k] = r]
           /\ Goto(r, "updateUser")
           /\ UNCHANGED <<userLock, tokenLock>>
  <2>1. /\ q \in Request /\ WellFormed(q) /\ Same(q, req[r])
        /\ q.calm = req[r].calm /\ q.revoking = req[r].revoking /\ q.kind = req[r].kind
        /\ q.user = req[r].user /\ q.key = k
    BY <1>1 DEF RequestsOK, WellFormed, Same, Request
  <2>2. req' = [req EXCEPT ![r] = q]
    BY <1>3 DEF Goto
  <2> HIDE DEF q
  <2>3. /\ req' \in [Requests -> Request] /\ req'[r] = q /\ WellFormed(req'[r])
        /\ \A o \in Requests \ {r} : req'[o] = req[o]
        /\ \A v \in Users : userLock[v] # NoRequest => req'[userLock[v]].user = v
    BY <2>1, <2>2, GoesOn
  <2>4. TypeOK'
    BY <1>1, <1>3, <2>1, <2>3 DEF TypeOK, Request, rows, accounts, sessions
  <2>5. ~ Registering(r)'
    BY <1>1, <2>1, <2>3 DEF Registering
  <2>6. RequestsOK' /\ FailuresOK' /\ SpentOK' /\ RolesOK' /\ EmailsOK' /\ CalmOK'
    BY <1>1, <2>1, <2>3, <2>5, StepInv, StepCalm
  <2>7. ASSUME NEW o \in Requests, req[o].kind = "reset", req[o].pc # "lockReset"
        PROVE  req[o].key # k
    BY <1>1, <2>7, AccountsAssumption DEF IInv, ResetsOK, AccountsAssumption
  <2>8. resetLock'[k] = r /\ \A j \in Resets \ {k} : resetLock'[j] = resetLock[j]
    BY <1>1, <1>3 DEF TypeOK
  <2>9. ASSUME NEW o \in Requests, req'[o].kind = "reset", req'[o].pc # "lockReset"
        PROVE  resetLock'[req'[o].key] = o /\ reset[req'[o].key].state = "live"
    <3>1. CASE o = r
      BY <1>3, <2>1, <2>3, <2>8, <3>1
    <3>2. CASE o # r
      <4>1. req'[o] = req[o] /\ req[o].key \in Resets \ {k}
        BY <1>1, <2>3, <2>7, <2>9, <3>2 DEF RequestsOK, WellFormed
      <4> QED BY <2>8, <2>9, <4>1 DEF IInv, ResetsOK
    <3> QED BY <3>1, <3>2
  <2>10. ResetsOK'
    BY <1>1, <2>9 DEF IInv, ResetsOK, rows, history
  <2> QED BY <2>4, <2>6, <2>10 DEF IInv
<1> QED BY <1>2, <1>3 DEF LockReset

LEMMA SnapshotTokensInv ==
  ASSUME AccountsAssumption, IInv, NEW r \in Requests, SnapshotTokens(r)
  PROVE  IInv'
<1> DEFINE u == req[r].user
           calm == \A o \in Requests : ~ OpensSession(req[o], u)
           q == [req[r] EXCEPT !.pc = "lockTokens", !.revoking = Unrevoked(u),
                               !.calm = calm]
<1>1. /\ TypeOK /\ RequestsOK /\ UNCHANGED <<rows, locks, bounds>>
      /\ req[r] \in Request /\ req[r].kind \in {"reset", "revokeAll"}
      /\ req[r].pc = "snapshot" /\ u \in Users
  BY DEF IInv, SnapshotTokens, TypeOK, RequestsOK, WellFormed, Request
<1>0. req' = [req EXCEPT ![r] = q]
  <2>1. req \in [Requests -> Request]
    BY DEF IInv, TypeOK, Request
  <2> QED BY <2>1 DEF SnapshotTokens, Request
<1>2. calm \in BOOLEAN /\ Unrevoked(u) \subseteq Tokens
  BY DEF Unrevoked
<1> HIDE DEF calm
<1>3. /\ q \in Request /\ WellFormed(q) /\ Same(q, req[r]) /\ q.pc = "lockTokens"
      /\ q.calm = calm /\ q.revoking = Unrevoked(u) /\ q.kind = req[r].kind
      /\ q.user = u /\ q.key = req[r].key
  BY <1>1, <1>2 DEF RequestsOK, WellFormed, Same, Request
<1> HIDE DEF q
<1>4. /\ req' \in [Requests -> Request] /\ req'[r] = q /\ WellFormed(req'[r])
      /\ \A o \in Requests \ {r} : req'[o] = req[o]
      /\ \A v \in Users : userLock[v] # NoRequest => req'[userLock[v]].user = v
  BY <1>0, <1>1, <1>3, GoesOn
<1>5. TypeOK'
  BY <1>1, <1>4 DEF TypeOK, Request, rows, accounts, sessions, locks
<1>6. ~ Registering(r)'
  BY <1>3, <1>4 DEF Registering
<1>7. RequestsOK' /\ FailuresOK' /\ SpentOK' /\ RolesOK' /\ EmailsOK'
  BY <1>1, <1>3, <1>4, <1>6, StepInv
<1>8. ResetsOK'
  BY <1>1, <1>3, <1>4 DEF IInv, ResetsOK, rows, locks, history
<1>9. CalmOK'
  <2>1. \A v : Unrevoked(v)' = Unrevoked(v)
    BY <1>1 DEF Unrevoked, rows, sessions
  <2>2. \A v : \A o \in Requests : OpensSession(req'[o], v) <=> OpensSession(req[o], v)
    BY <1>1, <1>3, <1>4 DEF OpensSession
  <2>3. calm => \A o \in Requests : ~ OpensSession(req[o], u)
    BY DEF calm
  <2> QED BY <1>3, <1>4, <2>1, <2>2, <2>3 DEF IInv, CalmOK
<1> QED BY <1>5, <1>7, <1>8, <1>9 DEF IInv

LEMMA LockTokensInv ==
  ASSUME AccountsAssumption, IInv, NEW r \in Requests, LockTokens(r)
  PROVE  IInv'
<1> DEFINE found == req[r].revoking
           q == [req[r] EXCEPT !.pc = "commit", !.revoking = found \ revoked]
<1>1. /\ TypeOK /\ RequestsOK /\ UNCHANGED <<rows, userLock, resetLock, bounds>>
      /\ req[r] \in Request /\ req[r].kind \in {"reset", "revokeAll"}
      /\ req[r].pc = "lockTokens" /\ req[r].user \in Users
      /\ tokenLock' = [t \in Tokens |-> IF t \in found \ revoked THEN r ELSE tokenLock[t]]
  BY DEF IInv, LockTokens, TypeOK, RequestsOK, WellFormed, Request
<1>0. req' = [req EXCEPT ![r] = q]
  <2>1. req \in [Requests -> Request]
    BY DEF IInv, TypeOK, Request
  <2> QED BY <2>1 DEF LockTokens, Request
<1>2. /\ q \in Request /\ WellFormed(q) /\ Same(q, req[r]) /\ q.pc = "commit"
      /\ q.calm = req[r].calm /\ q.revoking = found \ revoked /\ q.kind = req[r].kind
      /\ q.user = req[r].user /\ q.key = req[r].key
  BY <1>1 DEF RequestsOK, WellFormed, Same, Request
<1> HIDE DEF q
<1>3. /\ req' \in [Requests -> Request] /\ req'[r] = q /\ WellFormed(req'[r])
      /\ \A o \in Requests \ {r} : req'[o] = req[o]
      /\ \A v \in Users : userLock[v] # NoRequest => req'[userLock[v]].user = v
  BY <1>0, <1>1, <1>2, GoesOn
<1>4. tokenLock' \in [Tokens -> Requests \cup {NoRequest}]
  BY <1>1 DEF TypeOK
<1>5. TypeOK'
  BY <1>1, <1>3, <1>4 DEF TypeOK, Request, rows, accounts, sessions
<1>6. ~ Registering(r)'
  BY <1>1, <1>2, <1>3 DEF Registering
<1>7. RequestsOK' /\ FailuresOK' /\ SpentOK' /\ RolesOK' /\ EmailsOK'
  BY <1>1, <1>2, <1>3, <1>6, StepInv
<1>8. ResetsOK'
  BY <1>1, <1>2, <1>3 DEF IInv, ResetsOK, rows, history
<1>9. CalmOK'
  <2>1. \A v : Unrevoked(v)' = Unrevoked(v) /\ Unrevoked(v) \cap revoked = {}
    BY <1>1 DEF Unrevoked, rows, sessions
  <2>2. \A v : \A o \in Requests : OpensSession(req'[o], v) <=> OpensSession(req[o], v)
    BY <1>1, <1>2, <1>3 DEF OpensSession
  <2> QED BY <1>2, <1>3, <2>1, <2>2 DEF IInv, CalmOK
<1> QED BY <1>5, <1>7, <1>8, <1>9 DEF IInv

LEMMA WriteRoleInv ==
  ASSUME AccountsAssumption, IInv, NEW r \in Requests, WriteRole(r)
  PROVE  IInv'
<1> DEFINE hit == (req[r].kind = "removeRole") <=> (req[r].user \in admins)
           q == [req[r] EXCEPT !.pc = "commit", !.hit = hit]
<1>1. /\ TypeOK /\ RequestsOK /\ UNCHANGED <<rows, locks, bounds>>
      /\ req[r] \in Request /\ req[r].kind \in {"addRole", "removeRole"}
      /\ req[r].pc = "writeRole" /\ req[r].user \in Users
  BY DEF IInv, WriteRole, TypeOK, RequestsOK, WellFormed, Request
<1>0. req' = [req EXCEPT ![r] = q]
  <2>1. req \in [Requests -> Request]
    BY DEF IInv, TypeOK, Request
  <2> QED BY <2>1 DEF WriteRole, Request
<1>2. hit \in BOOLEAN
  OBVIOUS
<1> HIDE DEF hit
<1>3. /\ q \in Request /\ WellFormed(q) /\ Same(q, req[r]) /\ q.pc = "commit"
      /\ q.calm = req[r].calm /\ q.revoking = req[r].revoking /\ q.kind = req[r].kind
      /\ q.user = req[r].user
  <2>1. /\ q \in Request /\ q.pc = "commit" /\ Same(q, req[r]) /\ q.kind = req[r].kind
        /\ q.user = req[r].user /\ q.revoking = req[r].revoking
    BY <1>1, <1>2 DEF Same, Request
  <2>2. q.calm = req[r].calm
    BY <1>1 DEF Request
  <2> HIDE DEF q
  <2>3. WellFormed(q)
    BY <1>1, <2>1, <2>2 DEF RequestsOK, WellFormed, Same
  <2> QED BY <2>1, <2>2, <2>3
<1> HIDE DEF q
<1>4. /\ req' \in [Requests -> Request] /\ req'[r] = q /\ WellFormed(req'[r])
      /\ \A o \in Requests \ {r} : req'[o] = req[o]
      /\ \A v \in Users : userLock[v] # NoRequest => req'[userLock[v]].user = v
  BY <1>0, <1>1, <1>3, GoesOn
<1>5. TypeOK'
  BY <1>1, <1>4 DEF TypeOK, Request, rows, accounts, sessions, locks
<1>6. ~ Registering(r)'
  BY <1>1, <1>3, <1>4 DEF Registering
<1>7. RequestsOK' /\ FailuresOK' /\ SpentOK' /\ RolesOK' /\ EmailsOK' /\ CalmOK'
  BY <1>1, <1>3, <1>4, <1>6, StepInv, StepCalm
<1>8. ResetsOK'
  BY <1>1, <1>3, <1>4 DEF IInv, ResetsOK, rows, locks, history
<1> QED BY <1>5, <1>7, <1>8 DEF IInv

-----------------------------------------------------------------------------
(* COMMIT.                                                                 *)

\* A commit keeps each part of the invariant whose rows it leaves alone.
LEMMA CommitFrame ==
  ASSUME AccountsAssumption, IInv, NEW r \in Requests, EndRequest(r),
         UNCHANGED <<expired, bounds>>
  PROVE  /\ UNCHANGED reset => RequestsOK'
         /\ UNCHANGED status => EmailsOK'
         /\ UNCHANGED <<reset, used>> => ResetsOK'
         /\ UNCHANGED <<failed, locked, wrong>> => FailuresOK'
         /\ UNCHANGED <<revoked, spent>> => SpentOK'
         /\ UNCHANGED <<admins, demoted>> => RolesOK'
<1>1. TypeOK /\ RequestsOK /\ Idle.kind = "none" /\ Idle.calm = FALSE
  BY DEF IInv, Idle
<1>2. /\ req'[r] = Idle /\ WellFormed(Idle)
      /\ \A o \in Requests \ {r} : req'[o] = req[o]
      /\ \A k \in Resets : resetLock[k] # r => resetLock'[k] = resetLock[k]
  BY <1>1, EndSlots
<1>3. UNCHANGED reset => RequestsOK'
  BY <1>1, <1>2 DEF RequestsOK, bounds
<1>4. UNCHANGED status => EmailsOK'
  BY <1>1, <1>2 DEF IInv, EmailsOK, OneAccountPerEmail, Exists, Registering
<1>5. UNCHANGED <<reset, used>> => ResetsOK'
  BY <1>1, <1>2 DEF IInv, ResetsOK, RequestsOK, WellFormed
<1>6. UNCHANGED <<failed, locked, wrong>> => FailuresOK'
  BY <1>1, <1>2 DEF IInv, FailuresOK, NoLockWithoutCause
<1>7. UNCHANGED <<revoked, spent>> => SpentOK'
  BY <1>1, <1>2 DEF IInv, SpentOK, Refreshing
<1>8. UNCHANGED <<admins, demoted>> => RolesOK'
  BY <1>1, <1>2 DEF IInv, RolesOK
<1> QED BY <1>3, <1>4, <1>5, <1>6, <1>7, <1>8

\* A commit keeps the types when it writes values of the right ones.
LEMMA CommitType ==
  ASSUME AccountsAssumption, IInv, NEW r \in Requests, EndRequest(r),
         UNCHANGED <<expired, bounds>>,
         status' \in [Users -> Statuses \cup {"none"}],
         admins' \subseteq Users, locked' \subseteq Users,
         failed' \in [Users -> Nat],
         owner' \in [Tokens -> Users \cup {NoUser}],
         revoked' \subseteq Tokens,
         parent' \in [Tokens -> Tokens \cup {NoToken}],
         reset' \in [Resets -> [user : Users \cup {NoUser},
                                state : {"none", "live", "consumed", "expired"}]],
         access' \subseteq Users \X BOOLEAN
  PROVE  TypeOK'
BY EndSlots DEF IInv, TypeOK, Request

\* Calm revocations outlive a commit that opens a session for another user only.
LEMMA CommitCalm ==
  ASSUME AccountsAssumption, IInv, NEW r \in Requests, EndRequest(r),
         revoked \subseteq revoked',
         \A t \in Tokens : owner'[t] # owner[t] =>
           owner'[t] = req[r].user /\ OpensSession(req[r], req[r].user)
  PROVE  CalmOK'
<1>1. /\ TypeOK /\ RequestsOK /\ Idle.kind = "none" /\ Idle.calm = FALSE
      /\ CalmOK
  BY DEF IInv, Idle
<1>2. /\ req'[r] = Idle
      /\ \A o \in Requests \ {r} : req'[o] = req[o]
  BY <1>1, EndSlots
<1> SUFFICES ASSUME NEW o \in Requests, req'[o].calm
             PROVE  /\ \A p \in Requests : ~ OpensSession(req'[p], req'[o].user)
                    /\ Unrevoked(req[o].user)' \subseteq req'[o].revoking
  BY DEF CalmOK
<1>3. o # r /\ req'[o] = req[o]
  BY <1>1, <1>2
<1>4. \A p \in Requests : ~ OpensSession(req'[p], req'[o].user)
  BY <1>1, <1>2, <1>3 DEF CalmOK, OpensSession
<1>5. ASSUME NEW t \in Unrevoked(req[o].user)'
      PROVE  t \in Unrevoked(req[o].user)
  <2>1. t \in Tokens /\ owner'[t] = req[o].user /\ t \notin revoked
    BY <1>3, <1>5 DEF Unrevoked
  <2>2. ~ OpensSession(req[r], req[o].user)
    BY <1>1, <1>3 DEF CalmOK
  <2>3. owner'[t] = owner[t]
    BY <2>1, <2>2
  <2> QED BY <2>1, <2>3 DEF Unrevoked
<1>6. Unrevoked(req[o].user) \subseteq req[o].revoking
  BY <1>1, <1>3 DEF CalmOK
<1> QED BY <1>3, <1>4, <1>5, <1>6

\* Tokens that become spent are refreshed by nobody but who ends.
LEMMA CommitSpent ==
  ASSUME AccountsAssumption, IInv, NEW r \in Requests, EndRequest(r), NEW S,
         revoked' = revoked \cup S, spent' = spent \cup Settled(S, r)
  PROVE  SpentOK'
<1>1. TypeOK /\ RequestsOK /\ Idle.kind = "none"
  BY DEF IInv, Idle
<1>2. /\ req'[r] = Idle
      /\ \A o \in Requests \ {r} : req'[o] = req[o]
  BY <1>1, EndSlots
<1> QED BY <1>1, <1>2 DEF IInv, SpentOK, Refreshing, Settled

\* The rows of a new session.
LEMMA OpenSessionRows ==
  ASSUME TypeOK, RequestsOK, NEW r \in Requests, NEW previous \in Tokens \cup {NoToken},
         req[r].pc = "commit", req[r].kind \in {"register", "login", "refresh"},
         OpenSession(r, previous)
  PROVE  /\ owner' \in [Tokens -> Users \cup {NoUser}]
         /\ parent' \in [Tokens -> Tokens \cup {NoToken}]
         /\ access' \subseteq Users \X BOOLEAN
         /\ \A t \in Tokens : owner'[t] # owner[t] =>
              owner'[t] = req[r].user /\ OpensSession(req[r], req[r].user)
<1>1. req[r] \in Request /\ WellFormed(req[r])
  BY DEF TypeOK, RequestsOK, Request
<1>2. req[r].user \in Users /\ req[r].fresh \in Tokens /\ req[r].admin \in BOOLEAN
  BY <1>1 DEF Request, WellFormed
<1>3. <<req[r].user, req[r].admin>> \in Users \X BOOLEAN
  BY <1>2
<1> QED BY <1>2, <1>3 DEF OpenSession, OpensSession, TypeOK

\* A request about to commit.
Committing(r) == req[r].pc = "commit" /\ EndRequest(r) /\ UNCHANGED <<expired, bounds>>

LEMMA CommitRegisterInv ==
  ASSUME AccountsAssumption, IInv, NEW r \in Requests, Committing(r), CommitRegister(r)
  PROVE  IInv'
<1> DEFINE u == req[r].user
<1>1. /\ TypeOK /\ RequestsOK /\ EndRequest(r) /\ UNCHANGED <<expired, bounds>>
      /\ req[r] \in Request /\ u \in Users /\ Registering(r)
      /\ Idle.kind = "none"
  BY DEF IInv, Committing, CommitRegister, TypeOK, RequestsOK, WellFormed, Request,
         Registering, Idle
<1>2. /\ status' = [status EXCEPT ![u] = "active"] /\ "active" \in Statuses
      /\ UNCHANGED <<admins, failed, locked, revoked, reset, history>>
      /\ OpenSession(r, NoToken)
  BY DEF CommitRegister, AccountsAssumption
<1>3. /\ owner' \in [Tokens -> Users \cup {NoUser}]
      /\ parent' \in [Tokens -> Tokens \cup {NoToken}]
      /\ access' \subseteq Users \X BOOLEAN
      /\ \A t \in Tokens : owner'[t] # owner[t] => owner'[t] = u /\ OpensSession(req[r], u)
  BY <1>1, <1>2, OpenSessionRows DEF Registering
<1>4. TypeOK'
  BY <1>1, <1>2, <1>3, CommitType DEF TypeOK
<1>5. RequestsOK' /\ ResetsOK' /\ FailuresOK' /\ SpentOK' /\ RolesOK' /\ CalmOK'
  BY <1>1, <1>2, <1>3, CommitFrame, CommitCalm DEF history
<1>6. EmailsOK'
  <2>1. /\ req'[r] = Idle
        /\ \A o \in Requests \ {r} : req'[o] = req[o]
    BY <1>1, EndSlots
  <2>2. \A v \in Users : Exists(v)' <=> Exists(v) \/ v = u
    BY <1>1, <1>2 DEF Exists, TypeOK
  <2>3. \A v \in Users : Exists(v) => Email[v] # Email[u]
    BY <1>1 DEF IInv, EmailsOK
  <2>4. OneAccountPerEmail'
    BY <2>2, <2>3 DEF IInv, EmailsOK, OneAccountPerEmail
  <2>5. ASSUME NEW o \in Requests, req'[o].kind = "status"
        PROVE  Exists(req[o].user)'
    <3>1. o # r /\ req'[o] = req[o]
      BY <1>1, <2>1, <2>5
    <3>2. req[o].user \in Users /\ Exists(req[o].user)
      BY <1>1, <2>5, <3>1 DEF IInv, EmailsOK, RequestsOK, WellFormed, TypeOK
    <3>3. status'[req[o].user] # "none"
      BY <1>1, <1>2, <3>2 DEF Exists, TypeOK
    <3> QED BY <3>1, <3>3 DEF Exists
  <2>6. \A o \in Requests, v \in Users :
          Registering(o)' /\ Exists(v)' => Email[v] # Email[req'[o].user]
    BY <1>1, <2>1, <2>2 DEF IInv, EmailsOK, Registering
  <2>7. \A o, p \in Requests :
          Registering(o)' /\ Registering(p)' /\ Email[req'[o].user] = Email[req'[p].user]
            => o = p
    BY <1>1, <2>1 DEF IInv, EmailsOK, Registering
  <2> QED BY <2>4, <2>5, <2>6, <2>7 DEF EmailsOK
<1> QED BY <1>4, <1>5, <1>6 DEF IInv

\* A counter that starts again is not ahead of the failures.
LEMMA ClearFailures ==
  ASSUME AccountsAssumption, IInv, NEW r \in Requests, EndRequest(r), NEW u \in Users,
         failed' = [failed EXCEPT ![u] = 0], locked' = locked \ {u}, UNCHANGED wrong
  PROVE  FailuresOK'
<1>1. TypeOK /\ RequestsOK /\ FailuresOK /\ Idle.kind = "none"
  BY DEF IInv, Idle
<1>2. /\ req'[r] = Idle
      /\ \A o \in Requests \ {r} : req'[o] = req[o]
  BY <1>1, EndSlots
<1>3. wrong' \in [Users -> Nat] /\ \A v \in Users : failed'[v] <= wrong'[v]
  BY <1>1 DEF FailuresOK, TypeOK
<1>4. \A o \in Requests :
        req'[o].kind = "failedLogin" => req'[o].seen <= wrong'[req'[o].user]
  BY <1>1, <1>2 DEF FailuresOK
<1>5. \A v \in locked' : wrong'[v] >= Threshold
  BY <1>1 DEF FailuresOK, NoLockWithoutCause
<1> QED BY <1>3, <1>4, <1>5 DEF FailuresOK, NoLockWithoutCause

LEMMA CommitLoginInv ==
  ASSUME AccountsAssumption, IInv, NEW r \in Requests, Committing(r), CommitLogin(r)
  PROVE  IInv'
<1> DEFINE u == req[r].user
<1>1. /\ TypeOK /\ RequestsOK /\ EndRequest(r) /\ UNCHANGED <<expired, bounds>>
      /\ req[r] \in Request /\ u \in Users /\ Idle.kind = "none"
  BY DEF IInv, Committing, CommitLogin, TypeOK, RequestsOK, WellFormed, Request, Idle
<1>2. /\ failed' = [failed EXCEPT ![u] = 0] /\ locked' = locked \ {u}
      /\ UNCHANGED <<status, admins, revoked, reset, history>>
      /\ OpenSession(r, NoToken)
  BY DEF CommitLogin
<1>3. /\ owner' \in [Tokens -> Users \cup {NoUser}]
      /\ parent' \in [Tokens -> Tokens \cup {NoToken}]
      /\ access' \subseteq Users \X BOOLEAN
      /\ \A t \in Tokens : owner'[t] # owner[t] => owner'[t] = u /\ OpensSession(req[r], u)
  BY <1>1, <1>2, OpenSessionRows DEF Committing, CommitLogin
<1>4. TypeOK'
  BY <1>1, <1>2, <1>3, CommitType DEF TypeOK
<1>5. RequestsOK' /\ ResetsOK' /\ EmailsOK' /\ SpentOK' /\ RolesOK' /\ CalmOK'
  BY <1>1, <1>2, <1>3, CommitFrame, CommitCalm DEF history
<1>6. FailuresOK'
  BY <1>1, <1>2, ClearFailures DEF history
<1> QED BY <1>4, <1>5, <1>6 DEF IInv

LEMMA CommitFailedLoginInv ==
  ASSUME AccountsAssumption, IInv, NEW r \in Requests, Committing(r), CommitFailedLogin(r)
  PROVE  IInv'
<1> DEFINE u == req[r].user
           next == req[r].seen + 1
<1>1. /\ TypeOK /\ RequestsOK /\ EndRequest(r) /\ UNCHANGED <<expired, bounds>>
      /\ req[r] \in Request /\ u \in Users /\ req[r].seen \in Nat /\ Idle.kind = "none"
  BY DEF IInv, Committing, CommitFailedLogin, TypeOK, RequestsOK, WellFormed, Request, Idle
<1>2. /\ failed' = [failed EXCEPT ![u] = next]
      /\ locked' = IF next >= Threshold THEN locked \cup {u} ELSE locked
      /\ wrong' = [wrong EXCEPT ![u] = wrong[u] + 1]
      /\ UNCHANGED <<status, admins, sessions, reset, access, used, spent, demoted>>
  BY DEF CommitFailedLogin, ShouldLock
<1>3. TypeOK'
  <2>1. next \in Nat
    BY <1>1
  <2>2. failed' \in [Users -> Nat] /\ locked' \subseteq Users
    BY <1>1, <1>2, <2>1 DEF TypeOK
  <2>3. /\ owner' \in [Tokens -> Users \cup {NoUser}]
        /\ revoked' \subseteq Tokens
        /\ parent' \in [Tokens -> Tokens \cup {NoToken}]
    BY <1>1, <1>2 DEF TypeOK, sessions
  <2> HIDE DEF u, next
  <2> QED BY <1>1, <1>2, <2>2, <2>3, CommitType DEF TypeOK
<1>4. RequestsOK' /\ ResetsOK' /\ EmailsOK' /\ SpentOK' /\ RolesOK' /\ CalmOK'
  BY <1>1, <1>2, CommitFrame, CommitCalm DEF sessions
<1>5. FailuresOK'
  <2>1. req[r].seen <= wrong[u] /\ wrong \in [Users -> Nat]
    BY DEF IInv, FailuresOK, CommitFailedLogin
  <2>2. /\ wrong' \in [Users -> Nat] /\ wrong'[u] >= next
        /\ \A v \in Users : wrong'[v] >= wrong[v] /\ (v # u => wrong'[v] = wrong[v])
    BY <1>1, <1>2, <2>1
  <2>3. \A v \in Users : failed'[v] <= wrong'[v]
    BY <1>1, <1>2, <2>2 DEF IInv, FailuresOK, TypeOK
  <2>4. ASSUME NEW o \in Requests, req'[o].kind = "failedLogin"
        PROVE  req'[o].seen <= wrong'[req'[o].user]
    <3>1. o # r /\ req'[o] = req[o]
      BY <1>1, <2>4, EndSlots
    <3>2. req[o].seen \in Nat /\ req[o].user \in Users
      BY <1>1, <2>4, <3>1 DEF TypeOK, Request, RequestsOK, WellFormed
    <3> QED BY <2>1, <2>2, <2>4, <3>1, <3>2 DEF IInv, FailuresOK
  <2>5. ASSUME NEW v \in locked'
        PROVE  wrong'[v] >= Threshold
    <3>1. v \in Users /\ (v \in locked => wrong[v] >= Threshold) /\ Threshold \in Nat
      BY <1>1, <1>2, <2>5 DEF IInv, FailuresOK, NoLockWithoutCause, TypeOK,
         AccountsAssumption
    <3>2. CASE v \in locked
      BY <2>1, <2>2, <3>1, <3>2
    <3>3. CASE v \notin locked
      <4>1. v = u /\ next >= Threshold
        BY <1>2, <2>5, <3>3
      <4> QED BY <1>1, <2>1, <2>2, <3>1, <4>1
    <3> QED BY <3>2, <3>3
  <2> QED BY <2>2, <2>3, <2>4, <2>5 DEF FailuresOK, NoLockWithoutCause
<1> QED BY <1>3, <1>4, <1>5 DEF IInv

LEMMA CommitRefreshInv ==
  ASSUME AccountsAssumption, IInv, NEW r \in Requests, Committing(r), CommitRefresh(r)
  PROVE  IInv'
<1> DEFINE u == req[r].user
           t == req[r].token
<1>1. /\ TypeOK /\ RequestsOK /\ EndRequest(r) /\ UNCHANGED <<expired, bounds>>
      /\ req[r] \in Request /\ u \in Users /\ t \in Tokens
  BY DEF IInv, Committing, CommitRefresh, TypeOK, RequestsOK, WellFormed, Request
<1>2. /\ OpenSession(r, t)
      /\ revoked' = revoked \cup {t}
      /\ spent' = spent \cup Settled({t}, r)
      /\ UNCHANGED <<accounts, reset, wrong, used, demoted>>
  BY DEF CommitRefresh
<1>3. /\ owner' \in [Tokens -> Users \cup {NoUser}]
      /\ parent' \in [Tokens -> Tokens \cup {NoToken}]
      /\ access' \subseteq Users \X BOOLEAN
      /\ \A x \in Tokens : owner'[x] # owner[x] => owner'[x] = u /\ OpensSession(req[r], u)
  BY <1>1, <1>2, OpenSessionRows DEF Committing, CommitRefresh
<1>4. TypeOK'
  BY <1>1, <1>2, <1>3, CommitType DEF TypeOK, accounts
<1>5. RequestsOK' /\ ResetsOK' /\ EmailsOK' /\ FailuresOK' /\ RolesOK' /\ CalmOK'
  BY <1>1, <1>2, <1>3, CommitFrame, CommitCalm DEF accounts
<1>6. SpentOK'
  BY <1>1, <1>2, CommitSpent
<1> QED BY <1>4, <1>5, <1>6 DEF IInv

LEMMA CommitResetInv ==
  ASSUME AccountsAssumption, IInv, NEW r \in Requests, Committing(r), CommitReset(r)
  PROVE  IInv'
<1> DEFINE u == req[r].user
           k == req[r].key
           found == req[r].revoking
<1>1. /\ TypeOK /\ RequestsOK /\ EndRequest(r) /\ UNCHANGED <<expired, bounds>>
      /\ req[r] \in Request /\ u \in Users /\ k \in Resets /\ found \subseteq Tokens
      /\ req[r].kind = "reset" /\ req[r].pc = "commit"
      /\ Idle.kind = "none"
  BY DEF IInv, Committing, CommitReset, TypeOK, RequestsOK, WellFormed, Request, Idle
<1>2. /\ failed' = [failed EXCEPT ![u] = 0] /\ locked' = locked \ {u}
      /\ reset' = [reset EXCEPT ![k].state = "consumed"]
      /\ used' = [used EXCEPT ![k] = used[k] + 1]
      /\ revoked' = revoked \cup found
      /\ spent' = spent \cup Settled(found, r)
      /\ UNCHANGED <<status, admins, owner, parent, access, wrong, demoted>>
  BY DEF CommitReset
<1>3. /\ reset[k].state = "live" /\ resetLock[k] = r
      /\ used \in [Resets -> Nat] /\ used[k] = 0
  BY <1>1 DEF IInv, ResetsOK
<1>4. /\ reset' \in [Resets -> [user : Users \cup {NoUser},
                                state : {"none", "live", "consumed", "expired"}]]
      /\ reset'[k].state = "consumed" /\ reset'[k].user = reset[k].user
      /\ \A x \in Resets \ {k} : reset'[x] = reset[x]
  BY <1>1, <1>2 DEF TypeOK
<1>5. TypeOK'
  <2>1. failed' \in [Users -> Nat] /\ locked' \subseteq Users /\ revoked' \subseteq Tokens
    BY <1>1, <1>2 DEF TypeOK
  <2>2. /\ status' \in [Users -> Statuses \cup {"none"}] /\ admins' \subseteq Users
        /\ owner' \in [Tokens -> Users \cup {NoUser}]
        /\ parent' \in [Tokens -> Tokens \cup {NoToken}]
        /\ access' \subseteq Users \X BOOLEAN
    BY <1>1, <1>2 DEF TypeOK
  <2> QED BY <1>1, <1>4, <2>1, <2>2, CommitType
<1>6. EmailsOK' /\ RolesOK' /\ CalmOK' /\ SpentOK' /\ FailuresOK'
  BY <1>1, <1>2, CommitFrame, CommitCalm, CommitSpent, ClearFailures
<1>7. /\ req'[r] = Idle /\ WellFormed(Idle)
      /\ \A o \in Requests \ {r} : req'[o] = req[o]
      /\ \A x \in Resets : resetLock[x] # r => resetLock'[x] = resetLock[x]
  BY <1>1, EndSlots
<1>8. RequestsOK'
  <2>1. \A o \in Requests : WellFormed(req'[o])
    BY <1>1, <1>7 DEF RequestsOK
  <2>2. \A x \in Resets : reset'[x].state # "none" => reset'[x].user \in Users
    BY <1>1, <1>3, <1>4 DEF RequestsOK
  <2> QED BY <1>1, <2>1, <2>2 DEF RequestsOK, bounds
<1>9. ResetsOK'
  <2>1. /\ used' \in [Resets -> Nat]
        /\ \A x \in Resets : used'[x] = IF reset'[x].state = "consumed" THEN 1 ELSE 0
    BY <1>1, <1>2, <1>3, <1>4 DEF IInv, ResetsOK
  <2>2. ASSUME NEW o \in Requests, req'[o].kind = "reset", req'[o].pc # "lockReset"
        PROVE  resetLock'[req'[o].key] = o /\ reset'[req'[o].key].state = "live"
    <3>1. o # r /\ req'[o] = req[o]
      BY <1>1, <1>7, <2>2
    <3>2. /\ req[o].key \in Resets /\ resetLock[req[o].key] = o
          /\ reset[req[o].key].state = "live"
      BY <1>1, <2>2, <3>1 DEF IInv, ResetsOK, RequestsOK, WellFormed
    <3>3. req[o].key # k
      BY <1>3, <3>1, <3>2
    <3> QED BY <1>4, <1>7, <3>1, <3>2, <3>3
  <2> QED BY <2>1, <2>2 DEF ResetsOK
<1> QED BY <1>5, <1>6, <1>8, <1>9 DEF IInv

LEMMA CommitRevokeAllInv ==
  ASSUME AccountsAssumption, IInv, NEW r \in Requests, Committing(r), CommitRevokeAll(r)
  PROVE  IInv'
<1> DEFINE found == req[r].revoking
<1>1. /\ TypeOK /\ EndRequest(r) /\ UNCHANGED <<expired, bounds>>
      /\ found \subseteq Tokens
  BY DEF IInv, Committing, TypeOK
<1>2. /\ revoked' = revoked \cup found
      /\ spent' = spent \cup Settled(found, r)
      /\ UNCHANGED <<accounts, owner, parent, reset, access, wrong, used, demoted>>
  BY DEF CommitRevokeAll
<1>3. TypeOK'
  BY <1>1, <1>2, CommitType DEF TypeOK, accounts
<1>4. /\ RequestsOK' /\ ResetsOK' /\ EmailsOK' /\ FailuresOK' /\ RolesOK'
      /\ CalmOK' /\ SpentOK'
  BY <1>1, <1>2, CommitFrame, CommitCalm, CommitSpent DEF accounts
<1> QED BY <1>3, <1>4 DEF IInv

LEMMA CommitStatusInv ==
  ASSUME AccountsAssumption, IInv, NEW r \in Requests, Committing(r), CommitStatus(r)
  PROVE  IInv'
<1> DEFINE u == req[r].user
<1>1. /\ TypeOK /\ RequestsOK /\ EndRequest(r) /\ UNCHANGED <<expired, bounds>>
      /\ u \in Users /\ req[r].status \in Statuses /\ Exists(u)
      /\ Idle.kind = "none" /\ req[r].status # "none"
  BY DEF IInv, Committing, CommitStatus, TypeOK, RequestsOK, WellFormed, EmailsOK, Idle,
         AccountsAssumption
<1>2. /\ status' = [status EXCEPT ![u] = req[r].status]
      /\ UNCHANGED <<admins, failed, locked, sessions, reset, access, history>>
  BY DEF CommitStatus
<1>3. TypeOK'
  <2>1. status' \in [Users -> Statuses \cup {"none"}]
    BY <1>1, <1>2 DEF TypeOK
  <2>2. /\ owner' \in [Tokens -> Users \cup {NoUser}] /\ revoked' \subseteq Tokens
        /\ parent' \in [Tokens -> Tokens \cup {NoToken}]
    BY <1>1, <1>2 DEF TypeOK, sessions
  <2> QED BY <1>1, <1>2, <2>1, <2>2, CommitType DEF TypeOK
<1>4. RequestsOK' /\ ResetsOK' /\ FailuresOK' /\ SpentOK' /\ RolesOK' /\ CalmOK'
  BY <1>1, <1>2, CommitFrame, CommitCalm DEF sessions, history
<1>5. EmailsOK'
  <2>1. /\ req'[r] = Idle
        /\ \A o \in Requests \ {r} : req'[o] = req[o]
    BY <1>1, EndSlots
  <2>2. \A v \in Users : Exists(v)' <=> Exists(v)
    BY <1>1, <1>2 DEF Exists, TypeOK
  <2>3. OneAccountPerEmail'
    BY <2>2 DEF IInv, EmailsOK, OneAccountPerEmail
  <2>4. ASSUME NEW o \in Requests, req'[o].kind = "status"
        PROVE  Exists(req[o].user)' /\ req'[o].user = req[o].user
    <3>1. req'[o] = req[o]
      BY <1>1, <2>1, <2>4
    <3>2. req[o].user \in Users /\ Exists(req[o].user)
      BY <1>1, <2>4, <3>1 DEF IInv, EmailsOK, RequestsOK, WellFormed, TypeOK
    <3>3. status'[req[o].user] # "none"
      BY <1>1, <1>2, <3>2 DEF Exists, TypeOK
    <3> QED BY <3>1, <3>3 DEF Exists
  <2>5. \A o \in Requests, v \in Users :
          Registering(o)' /\ Exists(v)' => Email[v] # Email[req'[o].user]
    BY <1>1, <2>1, <2>2 DEF IInv, EmailsOK, Registering
  <2>6. \A o, p \in Requests :
          Registering(o)' /\ Registering(p)' /\ Email[req'[o].user] = Email[req'[p].user]
            => o = p
    BY <1>1, <2>1 DEF IInv, EmailsOK, Registering
  <2> QED BY <2>3, <2>4, <2>5, <2>6 DEF EmailsOK, Exists
<1> QED BY <1>3, <1>4, <1>5 DEF IInv

LEMMA CommitRoleInv ==
  ASSUME AccountsAssumption, IInv, NEW r \in Requests, Committing(r),
         CommitAddRole(r) \/ CommitRemoveRole(r)
  PROVE  IInv'
<1> DEFINE u == req[r].user
<1>1. /\ TypeOK /\ RequestsOK /\ EndRequest(r) /\ UNCHANGED <<expired, bounds>>
      /\ u \in Users /\ Idle.kind = "none"
  BY DEF IInv, Committing, CommitAddRole, CommitRemoveRole, TypeOK, RequestsOK,
         WellFormed, Idle
<1>2. /\ UNCHANGED <<status, failed, locked, sessions, reset, access, wrong, used, spent>>
      /\ admins' \subseteq admins \cup {u}
  BY DEF CommitAddRole, CommitRemoveRole
<1>3. TypeOK'
  BY <1>1, <1>2, CommitType DEF TypeOK, sessions
<1>4. RequestsOK' /\ ResetsOK' /\ EmailsOK' /\ FailuresOK' /\ SpentOK' /\ CalmOK'
  BY <1>1, <1>2, CommitFrame, CommitCalm DEF sessions
<1>5. RolesOK'
  <2>1. /\ req'[r] = Idle
        /\ \A o \in Requests \ {r} : req'[o] = req[o]
    BY <1>1, EndSlots
  <2>2. demoted' \cap admins' = {}
    BY DEF IInv, RolesOK, CommitAddRole, CommitRemoveRole
  <2>3. ASSUME NEW o \in Requests, req'[o].kind = "addRole"
        PROVE  req'[o].actor \notin demoted'
    <3>1. req'[o] = req[o] /\ req[o].kind = "addRole"
      BY <1>1, <2>1, <2>3
    <3>2. req[o].actor \notin demoted
      BY <3>1 DEF IInv, RolesOK
    <3> QED BY <3>1, <3>2 DEF CommitAddRole, CommitRemoveRole
  <2> QED BY <2>2, <2>3 DEF RolesOK
<1> QED BY <1>3, <1>4, <1>5 DEF IInv

LEMMA CommitInv ==
  ASSUME AccountsAssumption, IInv, NEW r \in Requests, Commit(r)
  PROVE  IInv'
<1>1. Committing(r)
  BY DEF Commit, Committing
<1> QED BY <1>1, CommitRegisterInv, CommitLoginInv, CommitFailedLoginInv, CommitRefreshInv,
           CommitResetInv, CommitRevokeAllInv, CommitStatusInv, CommitRoleInv DEF Commit

-----------------------------------------------------------------------------
(* The other steps.                                                        *)

LEMMA RequestResetInv ==
  ASSUME AccountsAssumption, IInv, NEW k \in Resets, NEW u \in Users, RequestReset(k, u)
  PROVE  IInv'
<1>1. /\ TypeOK /\ reset' = [reset EXCEPT ![k] = [user |-> u, state |-> "live"]]
      /\ reset[k].state = "none"
      /\ UNCHANGED <<accounts, sessions, expired, access, locks, req, failures, history>>
  BY DEF IInv, RequestReset
<1>2. /\ reset' \in [Resets -> [user : Users \cup {NoUser},
                                state : {"none", "live", "consumed", "expired"}]]
      /\ reset'[k].state = "live" /\ reset'[k].user = u
      /\ \A x \in Resets \ {k} : reset'[x] = reset[x]
  BY <1>1 DEF TypeOK
<1>3. TypeOK'
  BY <1>1, <1>2 DEF TypeOK, accounts, sessions, locks
<1>4. RequestsOK'
  BY <1>1, <1>2 DEF IInv, RequestsOK
<1>5. EmailsOK'
  BY <1>1 DEF IInv, EmailsOK, OneAccountPerEmail, Exists, Registering, accounts
<1>6. ResetsOK'
  BY <1>1, <1>2 DEF IInv, ResetsOK, RequestsOK, WellFormed, locks, history
<1>7. FailuresOK' /\ RolesOK'
  BY <1>1 DEF IInv, FailuresOK, NoLockWithoutCause, RolesOK, accounts, history
<1>8. SpentOK' /\ CalmOK'
  BY <1>1 DEF IInv, SpentOK, Refreshing, CalmOK, OpensSession, Unrevoked, sessions, history
<1> QED BY <1>3, <1>4, <1>5, <1>6, <1>7, <1>8 DEF IInv

LEMMA LogoutInv ==
  ASSUME AccountsAssumption, IInv, NEW t \in Tokens, Logout(t)
  PROVE  IInv'
<1>1. /\ TypeOK /\ revoked' = revoked \cup {t}
      /\ spent' = spent \cup Settled({t}, NoRequest)
      /\ UNCHANGED <<accounts, owner, parent, expired, reset, access, locks, req,
                     failures, wrong, used, demoted>>
  BY DEF IInv, Logout
<1>2. TypeOK'
  BY <1>1 DEF TypeOK, accounts, locks
<1>3. RequestsOK' /\ ResetsOK'
  BY <1>1 DEF IInv, RequestsOK, ResetsOK, locks
<1>4. EmailsOK'
  BY <1>1 DEF IInv, EmailsOK, OneAccountPerEmail, Exists, Registering, accounts
<1>5. FailuresOK' /\ RolesOK'
  BY <1>1 DEF IInv, FailuresOK, NoLockWithoutCause, RolesOK, accounts
<1>6. SpentOK'
  BY <1>1 DEF IInv, SpentOK, Refreshing, Settled, AccountsAssumption
<1>7. CalmOK'
  BY <1>1 DEF IInv, CalmOK, OpensSession, Unrevoked
<1> QED BY <1>2, <1>3, <1>4, <1>5, <1>6, <1>7 DEF IInv

LEMMA LapseInv ==
  ASSUME AccountsAssumption, IInv, Lapse
  PROVE  IInv'
<1>1. /\ TypeOK
      /\ UNCHANGED <<status, admins, failed, sessions, locks, req, failures, history>>
  BY DEF IInv, Lapse
<1>2. locked' \subseteq locked /\ expired' \subseteq Tokens /\ access' \subseteq access
  BY <1>1 DEF Lapse, TypeOK
<1>3. /\ reset' \in [Resets -> [user : Users \cup {NoUser},
                                state : {"none", "live", "consumed", "expired"}]]
      /\ \A k \in Resets : reset'[k] # reset[k] =>
           /\ reset[k].state = "live" /\ resetLock[k] = NoRequest
           /\ reset'[k].state = "expired" /\ reset'[k].user = reset[k].user
  <2>1. CASE UNCHANGED reset
    BY <1>1, <2>1 DEF TypeOK
  <2>2. CASE \E k \in Resets : /\ reset[k].state = "live" /\ resetLock[k] = NoRequest
                               /\ reset' = [reset EXCEPT ![k].state = "expired"]
    BY <1>1, <2>2 DEF TypeOK
  <2> QED BY <2>1, <2>2 DEF Lapse
<1>4. TypeOK'
  BY <1>1, <1>2, <1>3 DEF TypeOK, sessions, locks
<1>5. RequestsOK'
  BY <1>1, <1>3 DEF IInv, RequestsOK
<1>6. EmailsOK'
  BY <1>1 DEF IInv, EmailsOK, OneAccountPerEmail, Exists, Registering
<1>7. ResetsOK'
  <2>1. \A k \in Resets : used'[k] = IF reset'[k].state = "consumed" THEN 1 ELSE 0
    BY <1>1, <1>3 DEF IInv, ResetsOK, history
  <2>2. ASSUME NEW r \in Requests, req[r].kind = "reset", req[r].pc # "lockReset"
        PROVE  resetLock[req[r].key] = r /\ reset'[req[r].key].state = "live"
    <3>1. /\ req[r].key \in Resets /\ resetLock[req[r].key] = r
          /\ reset[req[r].key].state = "live"
      BY <2>2 DEF IInv, ResetsOK, RequestsOK, WellFormed
    <3> QED BY <1>3, <3>1 DEF AccountsAssumption
  <2> QED BY <1>1, <2>1, <2>2 DEF IInv, ResetsOK, locks, history
<1>8. FailuresOK' /\ RolesOK'
  BY <1>1, <1>2 DEF IInv, FailuresOK, NoLockWithoutCause, RolesOK, history
<1>9. SpentOK' /\ CalmOK'
  BY <1>1 DEF IInv, SpentOK, Refreshing, CalmOK, OpensSession, Unrevoked, sessions, history
<1> QED BY <1>4, <1>5, <1>6, <1>7, <1>8, <1>9 DEF IInv

LEMMA StutterInv ==
  ASSUME IInv, UNCHANGED vars
  PROVE  IInv'
BY DEF IInv, TypeOK, RequestsOK, EmailsOK, OneAccountPerEmail, Exists, Registering,
   ResetsOK, FailuresOK, NoLockWithoutCause, SpentOK, Refreshing, CalmOK, OpensSession,
   Unrevoked, RolesOK, vars, rows, accounts, sessions, locks, bounds, history

LEMMA InitInv ==
  ASSUME AccountsAssumption, Init
  PROVE  IInv
<1>1. /\ Idle \in Request /\ WellFormed(Idle) /\ Idle.kind = "none" /\ Idle.calm = FALSE
      /\ \A r \in Requests : req[r] = Idle
  BY DEF Init, Idle, Request, WellFormed, AccountsAssumption
<1>2. TypeOK
  BY <1>1 DEF Init, TypeOK, Request, AccountsAssumption
<1>3. RequestsOK /\ ResetsOK
  BY <1>1 DEF Init, RequestsOK, ResetsOK
<1>4. EmailsOK
  BY <1>1 DEF Init, EmailsOK, OneAccountPerEmail, Exists, Registering, AccountsAssumption
<1>5. FailuresOK /\ SpentOK /\ CalmOK /\ RolesOK
  BY <1>1 DEF Init, FailuresOK, NoLockWithoutCause, SpentOK, Refreshing, CalmOK, RolesOK
<1> QED BY <1>2, <1>3, <1>4, <1>5 DEF IInv

LEMMA NextInv ==
  ASSUME AccountsAssumption, IInv, [Next]_vars
  PROVE  IInv'
<1>1. ASSUME NEW r \in Requests, Serve(r)
      PROVE  IInv'
  BY <1>1, InsertUserInv, UpdateUserInv, UpdateTokenInv, LockResetInv, SnapshotTokensInv,
     LockTokensInv, WriteRoleInv, CommitInv DEF Serve
<1>2. ASSUME NEW r \in Requests, Beginning(r)
      PROVE  IInv'
  BY <1>2, BeginInv
<1>3. ASSUME NEW r \in Requests, Rollback(r)
      PROVE  IInv'
  BY <1>3, RollbackInv
<1>4. CASE \E k \in Resets, u \in Users : RequestReset(k, u)
  BY <1>4, RequestResetInv
<1>5. CASE \E t \in Tokens : Logout(t)
  BY <1>5, LogoutInv
<1>6. CASE Lapse
  BY <1>6, LapseInv
<1>7. CASE UNCHANGED vars
  BY <1>7, StutterInv
<1> QED BY <1>1, <1>2, <1>3, <1>4, <1>5, <1>6, <1>7 DEF Next, Beginning

LEMMA Invariant ==
  ASSUME AccountsAssumption
  PROVE  Spec => []IInv
BY InitInv, NextInv, PTL DEF Spec

\* Roles and chains of tokens are written by commits only.
LEMMA CommitsWrite ==
  ASSUME AccountsAssumption, IInv, [Next]_vars, \A r \in Requests : ~ Commit(r)
  PROVE  UNCHANGED <<admins, parent>>
<1>1. ASSUME NEW r \in Requests, Beginning(r)
      PROVE  UNCHANGED <<admins, parent>>
  <2>1. PICK q : Begins(r, q)
    BY <1>1, BeginForm DEF IInv
  <2> QED BY <2>1 DEF Begins, rows, accounts, sessions
<1>2. ASSUME NEW r \in Requests, Serve(r) \/ Rollback(r)
      PROVE  UNCHANGED <<admins, parent>>
  BY <1>2 DEF Serve, InsertUser, UpdateUser, UpdateToken, LockReset, SnapshotTokens,
     LockTokens, WriteRole, Rollback, rows, accounts, sessions
<1>3. CASE \E k \in Resets, u \in Users : RequestReset(k, u)
  BY <1>3 DEF RequestReset, accounts, sessions
<1>4. CASE \E t \in Tokens : Logout(t)
  BY <1>4 DEF Logout, accounts
<1>5. CASE Lapse
  BY <1>5 DEF Lapse, sessions
<1>6. CASE UNCHANGED vars
  BY <1>6 DEF vars, rows, accounts, sessions
<1> QED BY <1>1, <1>2, <1>3, <1>4, <1>5, <1>6 DEF Next, Beginning

-----------------------------------------------------------------------------
(* The theorems.                                                           *)

\* Every reachable state of users, tokens, resets, locks and requests is well typed,
\* and who holds the lock of a user's row is about that user (auth.service.ts,
\* users.service.ts).
THEOREM TypeCorrect == Spec => []TypeOK
<1>1. IInv => TypeOK
  BY DEF IInv
<1> QED BY <1>1, Invariant, AccountsAssumption, PTL

\* However registrations, changes of status and failures interleave, no two users
\* that exist have the same email (register, the index on users.email).
THEOREM EmailsStayUnique == Spec => []OneAccountPerEmail
<1>1. IInv => OneAccountPerEmail
  BY DEF IInv, EmailsOK
<1> QED BY <1>1, Invariant, AccountsAssumption, PTL

\* A reset token resets the password at most once: from the moment a request has
\* found it live until it commits, its row is locked (resetPassword).
THEOREM ResetsAreUsedOnce == Spec => []ResetTakesEffectOnce
<1>1. IInv => ResetTakesEffectOnce
  BY DEF IInv, ResetsOK, ResetTakesEffectOnce
<1> QED BY <1>1, Invariant, AccountsAssumption, PTL

\* An account is locked only after as many wrong passwords as it takes, whatever the
\* threshold and however many requests write a stale counter (recordFailedLogin).
THEOREM LocksHaveCause == Spec => []NoLockWithoutCause
<1>1. IInv => NoLockWithoutCause
  BY DEF IInv, FailuresOK
<1> QED BY <1>1, Invariant, AccountsAssumption, PTL

\* No step makes a successor of a token that is spent: of the commits, only refresh
\* writes a parent, and nobody is refreshing a token that is spent.
THEOREM SpentTokensStaySpent == Spec => SpentTokenIsNotRefreshed
<1> DEFINE Step == \A t \in Tokens : parent'[t] # parent[t] => parent'[t] \notin spent
<1>1. IInv /\ [Next]_vars => [Step]_vars
  <2> SUFFICES ASSUME IInv, [Next]_vars, NEW t \in Tokens, parent'[t] # parent[t]
               PROVE  parent'[t] \notin spent
    OBVIOUS
  <2>1. TypeOK /\ spent \subseteq Tokens /\ NoToken \notin spent
    BY AccountsAssumption DEF IInv, SpentOK, TypeOK
  <2>2. PICK r \in Requests : CommitRegister(r) \/ CommitLogin(r) \/ CommitRefresh(r)
    <3>1. ~ UNCHANGED parent
      OBVIOUS
    <3>2. PICK r \in Requests : Commit(r)
      BY <3>1, CommitsWrite, AccountsAssumption
    <3> QED BY <3>1, <3>2 DEF Commit, CommitFailedLogin, CommitReset, CommitRevokeAll,
               CommitStatus, CommitAddRole, CommitRemoveRole, sessions
  <2>3. parent'[t] = NoToken \/ (parent'[t] = req[r].token /\ req[r].kind = "refresh")
    BY <2>1, <2>2 DEF CommitRegister, CommitLogin, CommitRefresh, OpenSession, TypeOK
  <2>4. req[r].kind = "refresh" => req[r].token \notin spent
    BY <2>1 DEF IInv, SpentOK, Refreshing
  <2> QED BY <2>1, <2>3, <2>4
<1> QED BY <1>1, Invariant, AccountsAssumption, PTL DEF Spec, SpentTokenIsNotRefreshed

\* When a calm revocation commits, all tokens of its user are revoked: it has found
\* every one there is, and nobody has been about to insert another (resetPassword,
\* revokeRefreshTokens).
THEOREM CalmRevocationsAreComplete == Spec => CalmRevocationLeavesNoSession
<1> DEFINE Step == \A r \in Requests, u \in Users :
             req[r].calm /\ req[r].user = u /\ req[r].pc = "commit"
               /\ req'[r].pc = "idle" /\ failures' = failures
             => Unrevoked(u)' = {}
<1>1. IInv /\ [Next]_vars => [Step]_vars
  <2> SUFFICES ASSUME IInv, [Next]_vars, NEW r \in Requests, NEW u \in Users,
                      req[r].calm, req[r].user = u, req[r].pc = "commit",
                      req'[r].pc = "idle", failures' = failures
               PROVE  Unrevoked(u)' = {}
    OBVIOUS
  <2>1. /\ TypeOK /\ RequestsOK /\ req[r].kind \in {"reset", "revokeAll"}
        /\ Unrevoked(u) \subseteq req[r].revoking /\ failures \in Nat
    BY DEF IInv, RequestsOK, WellFormed, CalmOK
  <2>2. ASSUME NEW o \in Requests, NEW q \in Request, Begins(o, q), New(q)
        PROVE  FALSE
    <3>1. o # r /\ req'[r] = [req[r] EXCEPT !.calm = req'[r].calm]
      BY <2>1, <2>2, BeginSlots
    <3>2. req[r] \in Request
      BY <2>1 DEF TypeOK, Request
    <3>3. req'[r].pc = "commit"
      BY <3>1, <3>2 DEF Request
    <3> QED BY <3>3
  <2>3. PICK o \in Requests : Serve(o)
    <3>1. \A o \in Requests : ~ Beginning(o)
      BY <2>1, <2>2, BeginForm, AccountsAssumption
    <3>2. \A o \in Requests : ~ Rollback(o)
      BY <2>1 DEF Rollback
    <3>3. ~ UNCHANGED req
      OBVIOUS
    <3> QED BY <3>1, <3>2, <3>3 DEF Next, Beginning, RequestReset, Logout, Lapse, vars
  <2>4. o = r
    BY <2>1, <2>3 DEF Serve, InsertUser, UpdateUser, UpdateToken, LockReset, SnapshotTokens,
       LockTokens, WriteRole, Commit, EndRequest, Goto, TypeOK
  <2>5. CommitReset(r) \/ CommitRevokeAll(r)
    BY <2>1, <2>3, <2>4 DEF Serve, InsertUser, UpdateUser, UpdateToken, LockReset,
       SnapshotTokens, LockTokens, WriteRole, Commit, CommitRegister, CommitLogin,
       CommitFailedLogin, CommitRefresh, CommitStatus, CommitAddRole, CommitRemoveRole
  <2>6. UNCHANGED owner /\ revoked' = revoked \cup req[r].revoking
    BY <2>5 DEF CommitReset, CommitRevokeAll
  <2> QED BY <2>1, <2>6 DEF Unrevoked
<1> QED BY <1>1, Invariant, AccountsAssumption, PTL
       DEF Spec, CalmRevocationLeavesNoSession

\* Who gets the role admin gets it from a request whose actor is not demoted: who is
\* removed from admins while granting nothing begins no grant afterwards (addRole).
THEOREM DemotedDoNotPromote == Spec => DemotedCannotPromote
<1> DEFINE Step == \A u \in admins' \ admins :
             \E r \in Requests : req[r].user = u /\ req[r].kind = "addRole"
                                /\ req[r].pc = "commit" /\ req[r].actor \notin demoted
<1>1. IInv /\ [Next]_vars => [Step]_vars
  <2> SUFFICES ASSUME IInv, [Next]_vars, NEW u \in admins' \ admins
               PROVE  \E r \in Requests :
                        req[r].user = u /\ req[r].kind = "addRole"
                          /\ req[r].pc = "commit" /\ req[r].actor \notin demoted
    OBVIOUS
  <2>1. PICK r \in Requests : Commit(r)
    <3>1. ~ UNCHANGED admins
      OBVIOUS
    <3> QED BY <3>1, CommitsWrite, AccountsAssumption
  <2>2. CommitAddRole(r) /\ req[r].pc = "commit"
    BY <2>1 DEF Commit, CommitRegister, CommitLogin, CommitFailedLogin, CommitRefresh,
       CommitReset, CommitRevokeAll, CommitStatus, CommitRemoveRole, accounts
  <2>3. u = req[r].user /\ req[r].kind = "addRole"
    BY <2>2 DEF CommitAddRole
  <2> QED BY <2>2, <2>3 DEF IInv, RolesOK
<1> QED BY <1>1, Invariant, AccountsAssumption, PTL DEF Spec, DemotedCannotPromote
=============================================================================

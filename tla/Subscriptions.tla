---------------------------- MODULE Subscriptions ----------------------------
(***************************************************************************)
(* Subscriptions and their payments:                                       *)
(* src/src/subscriptions/subscriptions.service.ts (checkout,               *)
(* activateManual, cancel) and src/src/payments/payments.service.ts        *)
(* (webhook).  Each request is one PostgreSQL transaction (READ            *)
(* COMMITTED) of several statements; an UPDATE keeps the lock of its rows, *)
(* and an INSERT its key in a unique index, until the transaction ends.    *)
(* What a transaction writes is applied here when it commits.              *)
(*                                                                         *)
(* The payment provider is outside of the repository: it sends a webhook   *)
(* until it is answered with success, and possibly again, in any order.    *)
(* Amount and currency, and the audit rows, are left out; a webhook        *)
(* answered 'idempotent' changes nothing and is no step.                   *)
(***************************************************************************)
EXTENDS Integers, FiniteSets

CONSTANTS
  Users, NoUser,
  Subs,          \* identifiers of rows of subscriptions
  NoSub,
  Webhooks,      \* provider + externalEventId of the webhooks
  NoWebhook,
  Outcome,       \* eventType of a webhook, without the prefix "payment."
  Reference,     \* the subscription its externalReference stands for
  Requests,      \* slots for requests being served
  NoRequest,
  Duration,      \* duration_days of the plan
  MaxTime,       \* the last instant of the clock
  MaxFailures    \* bound on the requests that fail between two statements

Outcomes == {"succeeded", "failed", "cancelled", "refunded"}
Time == 0..MaxTime
Dates == 0..(MaxTime + Duration)

ASSUME SubscriptionsAssumption ==
  /\ Outcome \in [Webhooks -> Outcomes]
  /\ Reference \in [Webhooks -> Subs]
  /\ Duration \in Nat \ {0}
  /\ MaxTime \in Nat
  /\ MaxFailures \in Nat
  /\ NoUser \notin Users
  /\ NoSub \notin Subs
  /\ NoWebhook \notin Webhooks
  /\ NoRequest \notin Requests

VARIABLES
  now,
  \* --- committed rows
  status,        \* subscriptions.status, "none" while there is no such row
  owner, startsAt, endsAt,
  payment,       \* payment_transactions.status of its checkout, or "none"
  processed,     \* webhooks with a row in payment_webhook_events
  activated,     \* SubscriptionActivated events a webhook wrote for it
  \* --- locks
  subLock, payLock,
  \* --- requests being served
  pc, kind, sub, user,
  hook,
  txNow,         \* now() in its transaction, the instant at which it began
  from, to,      \* starts_at and ends_at it inserts
  cancelling,    \* active subscriptions that activateManual ends
  failures

tables  == <<status, owner, startsAt, endsAt, payment, processed, activated>>
locks   == <<subLock, payLock>>
request == <<kind, sub, user, hook, txNow, from, to, cancelling>>
vars == <<now, tables, locks, pc, request, failures>>

-----------------------------------------------------------------------------
Statuses == {"active", "cancelled", "pending_payment", "payment_failed"}

\* The condition on a row of subscriptions under which its user is premium at t,
\* as hasActiveSubscription and activateManual have it.
ActiveAt(s, t) == status[s] = "active" /\ startsAt[s] <= t /\ endsAt[s] > t

\* The key is in the unique index (provider, external_event_id), for another
\* transaction that is still open.
KeyHeld(r) ==
  \E o \in Requests \ {r} :
    hook[o] = hook[r] /\ pc[o] \in {"updatePayment", "updateSub", "commit"}

TypeOK ==
  /\ now \in Time
  /\ status \in [Subs -> Statuses \cup {"none"}]
  /\ owner \in [Subs -> Users \cup {NoUser}]
  /\ startsAt \in [Subs -> Dates]
  /\ endsAt \in [Subs -> Dates]
  /\ payment \in [Subs -> Outcomes \cup {"pending", "none"}]
  /\ processed \subseteq Webhooks
  /\ activated \in [Subs -> Nat]
  /\ subLock \in [Subs -> Requests \cup {NoRequest}]
  /\ payLock \in [Subs -> Requests \cup {NoRequest}]
  /\ pc \in [Requests -> {"idle", "cancelOthers", "insertEvent",
                          "updatePayment", "updateSub", "commit"}]
  /\ kind \in [Requests -> {"checkout", "activate", "cancel", "webhook"}]
  /\ sub \in [Requests -> Subs \cup {NoSub}]
  /\ user \in [Requests -> Users \cup {NoUser}]
  /\ hook \in [Requests -> Webhooks \cup {NoWebhook}]
  /\ txNow \in [Requests -> Time]
  /\ from \in [Requests -> Dates]
  /\ to \in [Requests -> Dates]
  /\ cancelling \in [Requests -> SUBSET Subs]
  /\ failures \in 0..MaxFailures

Init ==
  /\ now = 0
  /\ status = [s \in Subs |-> "none"]
  /\ owner = [s \in Subs |-> NoUser]
  /\ startsAt = [s \in Subs |-> 0]
  /\ endsAt = [s \in Subs |-> 0]
  /\ payment = [s \in Subs |-> "none"]
  /\ processed = {}
  /\ activated = [s \in Subs |-> 0]
  /\ subLock = [s \in Subs |-> NoRequest]
  /\ payLock = [s \in Subs |-> NoRequest]
  /\ pc = [r \in Requests |-> "idle"]
  /\ kind = [r \in Requests |-> "checkout"]
  /\ sub = [r \in Requests |-> NoSub]
  /\ user = [r \in Requests |-> NoUser]
  /\ hook = [r \in Requests |-> NoWebhook]
  /\ txNow = [r \in Requests |-> 0]
  /\ from = [r \in Requests |-> 0]
  /\ to = [r \in Requests |-> 0]
  /\ cancelling = [r \in Requests |-> {}]
  /\ failures = 0

-----------------------------------------------------------------------------
(* A request begins: it is validated and opens its transaction.            *)

Begin(r, k, first) ==
  /\ pc[r] = "idle"
  /\ pc' = [pc EXCEPT ![r] = first]
  /\ kind' = [kind EXCEPT ![r] = k]
  /\ txNow' = [txNow EXCEPT ![r] = now]

\* The row a request inserts: a new identifier.
Inserts(r, u, start, end) ==
  /\ \E s \in Subs :
       /\ status[s] = "none"
       /\ \A o \in Requests : sub[o] # s
       /\ sub' = [sub EXCEPT ![r] = s]
  /\ user' = [user EXCEPT ![r] = u]
  /\ from' = [from EXCEPT ![r] = start]
  /\ to' = [to EXCEPT ![r] = end]

\* checkout: a subscription and its payment, both pending.
BeginCheckout(r, u) ==
  /\ Begin(r, "checkout", "commit")
  /\ Inserts(r, u, now, now + Duration)
  /\ UNCHANGED <<now, tables, locks, hook, cancelling, failures>>

\* activateManual, with the dates given or now and the plan's duration.
BeginActivate(r, u) ==
  /\ Begin(r, "activate", "cancelOthers")
  /\ \E start \in Time : Inserts(r, u, start, start + Duration)
  /\ UNCHANGED <<now, tables, locks, hook, cancelling, failures>>

BeginCancel(r, s) ==
  /\ status[s] # "none"
  /\ Begin(r, "cancel", "updateSub")
  /\ sub' = [sub EXCEPT ![r] = s]
  /\ UNCHANGED <<now, tables, locks, user, hook, from, to, cancelling, failures>>

\* webhook: the webhook is not known yet, and its payment is.
BeginWebhook(r, w) ==
  /\ w \notin processed
  /\ payment[Reference[w]] # "none"
  /\ Begin(r, "webhook", "insertEvent")
  /\ hook' = [hook EXCEPT ![r] = w]
  /\ sub' = [sub EXCEPT ![r] = Reference[w]]
  /\ UNCHANGED <<now, tables, locks, user, from, to, cancelling, failures>>

-----------------------------------------------------------------------------
(* Its statements.                                                         *)

Goto(r, where) == pc' = [pc EXCEPT ![r] = where]

\* Mutant: only what this request wrote is forgotten, not the locks.
EndRequestKeepingLocks(r) ==
  /\ UNCHANGED locks
  /\ Goto(r, "idle")
  /\ kind' = [kind EXCEPT ![r] = "checkout"]
  /\ sub' = [sub EXCEPT ![r] = NoSub]
  /\ user' = [user EXCEPT ![r] = NoUser]
  /\ hook' = [hook EXCEPT ![r] = NoWebhook]
  /\ txNow' = [txNow EXCEPT ![r] = 0]
  /\ from' = [from EXCEPT ![r] = 0]
  /\ to' = [to EXCEPT ![r] = 0]
  /\ cancelling' = [cancelling EXCEPT ![r] = {}]

EndRequest(r) ==
  /\ subLock' = [s \in Subs |-> IF subLock[s] = r THEN NoRequest ELSE subLock[s]]
  /\ payLock' = [s \in Subs |-> IF payLock[s] = r THEN NoRequest ELSE payLock[s]]
  /\ Goto(r, "idle")
  /\ kind' = [kind EXCEPT ![r] = "checkout"]
  /\ sub' = [sub EXCEPT ![r] = NoSub]
  /\ user' = [user EXCEPT ![r] = NoUser]
  /\ hook' = [hook EXCEPT ![r] = NoWebhook]
  /\ txNow' = [txNow EXCEPT ![r] = 0]
  /\ from' = [from EXCEPT ![r] = 0]
  /\ to' = [to EXCEPT ![r] = 0]
  /\ cancelling' = [cancelling EXCEPT ![r] = {}]

\* activateManual's UPDATE of the active subscriptions of the user.  It waits
\* for the transactions that changed one of them.
CancelOthers(r) ==
  LET active == {s \in Subs : owner[s] = user[r] /\ ActiveAt(s, txNow[r])}
  IN /\ pc[r] = "cancelOthers"
     /\ \A s \in active : subLock[s] = NoRequest
     /\ cancelling' = [cancelling EXCEPT ![r] = active]
     /\ subLock' = [s \in Subs |-> IF s \in active THEN r ELSE subLock[s]]
     /\ Goto(r, "commit")
     /\ UNCHANGED <<now, tables, payLock, kind, sub, user, hook, txNow, from, to,
                    failures>>

\* Mutant: there is no unique index.
InsertEventTwice(r) ==
  /\ pc[r] = "insertEvent"
  /\ Goto(r, "updatePayment")
  /\ UNCHANGED <<now, tables, locks, request, failures>>

\* The INSERT into payment_webhook_events waits for a transaction that inserted
\* the same webhook; if that one commits, it is an error and all is rolled back.
InsertEvent(r) ==
  /\ pc[r] = "insertEvent"
  /\ ~ KeyHeld(r)
  /\ IF hook[r] \in processed
       THEN EndRequest(r)
       ELSE /\ Goto(r, "updatePayment")
            /\ UNCHANGED <<locks, request>>
  /\ UNCHANGED <<now, tables, failures>>

UpdatePayment(r) ==
  /\ pc[r] = "updatePayment"
  /\ payLock[sub[r]] = NoRequest
  /\ payLock' = [payLock EXCEPT ![sub[r]] = r]
  /\ Goto(r, "updateSub")
  /\ UNCHANGED <<now, tables, subLock, request, failures>>

\* webhook sets starts_at = now() and keeps ends_at: subscriptions_dates_check
\* refuses that once ends_at is over, and all is rolled back.
UpdateSub(r) ==
  /\ pc[r] = "updateSub"
  /\ subLock[sub[r]] = NoRequest
  /\ IF kind[r] = "webhook" /\ Outcome[hook[r]] = "succeeded"
          /\ endsAt[sub[r]] <= txNow[r]
       THEN EndRequest(r)
       ELSE /\ subLock' = [subLock EXCEPT ![sub[r]] = r]
            /\ Goto(r, "commit")
            /\ UNCHANGED <<payLock, request>>
  /\ UNCHANGED <<now, tables, failures>>

CommitCheckout(r) ==
  LET s == sub[r] IN
  /\ kind[r] = "checkout"
  /\ status' = [status EXCEPT ![s] = "pending_payment"]
  /\ payment' = [payment EXCEPT ![s] = "pending"]
  /\ owner' = [owner EXCEPT ![s] = user[r]]
  /\ startsAt' = [startsAt EXCEPT ![s] = from[r]]
  /\ endsAt' = [endsAt EXCEPT ![s] = to[r]]
  /\ UNCHANGED <<processed, activated>>

CommitActivate(r) ==
  LET s == sub[r] IN
  /\ kind[r] = "activate"
  /\ status' = [t \in Subs |-> IF t = s THEN "active"
                               ELSE IF t \in cancelling[r] THEN "cancelled"
                               ELSE status[t]]
  /\ owner' = [owner EXCEPT ![s] = user[r]]
  /\ startsAt' = [startsAt EXCEPT ![s] = from[r]]
  /\ endsAt' = [endsAt EXCEPT ![s] = to[r]]
  /\ UNCHANGED <<payment, processed, activated>>

CommitCancel(r) ==
  /\ kind[r] = "cancel"
  /\ status' = [status EXCEPT ![sub[r]] = "cancelled"]
  /\ UNCHANGED <<owner, startsAt, endsAt, payment, processed, activated>>

\* Mutant: a refund does not end the subscription.
StatusAfterIgnoringRefunds(o) ==
  IF o \in {"succeeded", "refunded"} THEN "active"
  ELSE IF o = "failed" THEN "payment_failed" ELSE "cancelled"

\* subscriptions.status after a webhook.
StatusAfter(o) ==
  IF o = "succeeded" THEN "active"
  ELSE IF o = "failed" THEN "payment_failed" ELSE "cancelled"

CommitWebhook(r) ==
  LET s == sub[r]
      o == Outcome[hook[r]]
  IN /\ kind[r] = "webhook"
     /\ payment' = [payment EXCEPT ![s] = o]
     /\ status' = [status EXCEPT ![s] = StatusAfter(o)]
     /\ IF o = "succeeded"
          THEN /\ startsAt' = [startsAt EXCEPT ![s] = txNow[r]]
               /\ activated' = [activated EXCEPT ![s] = @ + 1]
          ELSE UNCHANGED <<startsAt, activated>>
     /\ processed' = processed \cup {hook[r]}
     /\ UNCHANGED <<owner, endsAt>>

Commit(r) ==
  /\ pc[r] = "commit"
  /\ \/ CommitCheckout(r) \/ CommitActivate(r)
     \/ CommitCancel(r) \/ CommitWebhook(r)
  /\ EndRequest(r)
  /\ UNCHANGED <<now, failures>>

\* A statement fails or the process dies: the transaction is rolled back.
Rollback(r) ==
  /\ pc[r] # "idle"
  /\ failures < MaxFailures
  /\ failures' = failures + 1
  /\ EndRequest(r)
  /\ UNCHANGED <<now, tables>>

Tick ==
  /\ now < MaxTime
  /\ now' = now + 1
  /\ UNCHANGED <<tables, locks, pc, request, failures>>

Serve(r) ==
  \/ CancelOthers(r) \/ InsertEvent(r) \/ UpdatePayment(r) \/ UpdateSub(r)
  \/ Commit(r)

Next ==
  \/ \E r \in Requests :
       \/ \E u \in Users : BeginCheckout(r, u) \/ BeginActivate(r, u)
       \/ \E s \in Subs : BeginCancel(r, s)
       \/ \E w \in Webhooks : BeginWebhook(r, w)
       \/ Serve(r)
       \/ Rollback(r)
  \/ Tick

Spec == Init /\ [][Next]_vars

\* A statement that is sent returns, and PostgreSQL gives a lock to the one that
\* has waited longest for it, so that no later request can overtake it for ever;
\* the provider sends a webhook until it is processed.  Nobody else has to call.
Fairness ==
  /\ \A r \in Requests : SF_vars(Serve(r))
  /\ \A w \in Webhooks : SF_vars(\E r \in Requests : BeginWebhook(r, w))

FairSpec == Spec /\ Fairness

-----------------------------------------------------------------------------
(* Properties.                                                             *)

\* A subscription that came from a checkout is active only while the last
\* webhook about its payment said that it succeeded, however webhooks, manual
\* changes and failures interleave (both UPDATEs of webhook's transaction).
ActiveIsPaid ==
  \A s \in Subs :
    payment[s] # "none" /\ status[s] = "active" => payment[s] = "succeeded"

\* A webhook that is delivered several times, also at the same time, takes
\* effect once (docs/endpoints/endpoints.md:113; UNIQUE (provider,
\* external_event_id)).
WebhookTakesEffectOnce ==
  \A s \in Subs :
    activated[s] = Cardinality({w \in processed :
                      Reference[w] = s /\ Outcome[w] = "succeeded"})

\* No request waits for ever for a row or a key of another one.
RequestsEnd == \A r \in Requests : pc[r] # "idle" ~> pc[r] = "idle"

\* "cancela suscripción activa anterior": when a manual activation commits, the
\* user has no other subscription that is active now.
ActivationEndsTheOthers ==
  [][\A r \in Requests :
       kind[r] = "activate" /\ pc[r] = "commit" /\ status[sub[r]] = "none"
         /\ status'[sub[r]] = "active"
       => \A s \in Subs \ {sub[r]} : owner[s] = user[r] => ~ ActiveAt(s, now)']_vars
=============================================================================

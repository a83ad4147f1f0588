----------------------------- MODULE EventOutbox -----------------------------
(***************************************************************************)
(* The event pipeline of src/src/events/events.service.ts: the outbox rows *)
(* the other services write, and the dispatchers that consume them.        *)
(*                                                                         *)
(* A dispatcher is a process that runs dispatchPending: the CLI worker and *)
(* POST /admin/events/worker/run-once through runWorkerBatch (Workers),    *)
(* which first take a lock with a TTL in Redis, and POST                   *)
(* /admin/events/dispatch-pending, which takes none.  Each event is        *)
(* consumed in one PostgreSQL transaction (READ COMMITTED): what it writes *)
(* is kept in the variables tx... and becomes visible when it commits; the row of        *)
(* event_outbox it locked with FOR UPDATE is owned by d until then.        *)
(*                                                                         *)
(* next_retry_at is left out: only the catch block sets it, together with  *)
(* status 'failed', and retry() clears it, so that it is null on every     *)
(* pending row.  worker_runs (a log whose write errors are swallowed) is   *)
(* left out too.                                                           *)
(***************************************************************************)
EXTENDS Integers, FiniteSets

CONSTANTS
  Events,        \* identifiers of the rows of event_outbox
  EventType,     \* event_type of each of them
  Aggregate,     \* aggregate_id: the article the event is about
  OccurredAt,    \* occurred_at, the start of the transaction that wrote it
  Articles,
  Users,
  Dispatchers,   \* processes that can run dispatchPending
  Workers,       \* those of them that run it through runWorkerBatch
  LockKeys,      \* keys worker-lock:<workerName> of Redis
  LockKey,       \* the one of each worker, who chooses its name
  NoOne,         \* no dispatcher
  NoEvent,       \* no event
  RedisEnabled,  \* REDIS_URL is configured
  Limit,         \* LIMIT of the SELECT of pending events
  MaxDisturbances \* bound on errors, crashes and manual retries together

Consumers ==
  {"notification-worker", "search-index-worker", "cache-invalidation-worker"}

EventTypes == {"PublicArticlePublished", "PremiumArticlePublished",
               "ArticleUpdatedAfterPublication", "ArticleUnpublished", "Other"}

ASSUME EventsAssumption ==
  /\ EventType \in [Events -> EventTypes]
  /\ Aggregate \in [Events -> Articles]
  /\ OccurredAt \in [Events -> Nat]
  /\ NoEvent \notin Events

ASSUME DispatchersAssumption ==
  /\ Workers \subseteq Dispatchers
  /\ NoOne \notin Dispatchers
  /\ LockKey \in [Workers -> LockKeys]

ASSUME ParametersAssumption ==
  /\ RedisEnabled \in BOOLEAN
  /\ Limit \in Nat \ {0}
  /\ MaxDisturbances \in Nat
  /\ IsFiniteSet(Users)

VARIABLES
  \* --- committed rows of the database
  status,        \* event_outbox.status, "none" while the row does not exist
  inbox,         \* event_inbox.status of each event and consumer
  effects,       \* how often the effect of a consumer was committed: rows of
                 \* notification_batches and cache_invalidation_jobs, upserts
                 \* of search_index_documents
  notified,      \* rows of notifications for an event and a user
  total,         \* notification_batches.total_recipients
  doc,           \* payload.sourceEventId of an article's search document
  standing,      \* what users and subscriptions say of a user
  \* --- locks
  rowLock,       \* who holds the row of event_outbox FOR UPDATE
  redisLock,     \* whose value each key worker-lock holds
  outlived,      \* --- history: workers whose key expired while they ran
  \* --- dispatchers
  pc, batch,
  cur,           \* the event of the open transaction
  todo,          \* users still to notify
  \* --- what the open transaction of a dispatcher has written
  txInbox,       \* rows of event_inbox
  txDone,        \* consumers whose effect it made
  txSent,        \* users it inserted a notification for
  txTotal,       \* total_recipients
  txAborted,     \* an error aborted it
  disturbances

committed == <<status, inbox, effects, notified, total, doc>>
tx        == <<txInbox, txDone, txSent, txTotal, txAborted>>
local     == <<pc, batch, cur, todo, tx>>
redis     == <<redisLock, outlived>>
vars == <<committed, standing, rowLock, redis, local, disturbances>>

-----------------------------------------------------------------------------
(* What the code derives from an event.                                    *)

IsPremium(e) == EventType[e] = "PremiumArticlePublished"

NeedsNotification(e) ==
  EventType[e] \in {"PublicArticlePublished", "PremiumArticlePublished"}

NeedsIndexing(e) ==
  EventType[e] \in {"PublicArticlePublished", "PremiumArticlePublished",
                    "ArticleUpdatedAfterPublication", "ArticleUnpublished"}

ConsumersOf(e) ==
  {c \in Consumers : IF c = "notification-worker" THEN NeedsNotification(e)
                                                  ELSE NeedsIndexing(e)}

\* consumeWithNotificationWorker's SELECT of the recipients
Audience(e) ==
  IF IsPremium(e) THEN {u \in Users : standing[u] = "premium"}
                  ELSE {u \in Users : standing[u] \in {"registered", "premium"}}

Pending == {e \in Events : status[e] = "pending"}

\* The rows the SELECT ... ORDER BY occurred_at ASC LIMIT :limit may return.
Selections ==
  {b \in SUBSET Pending :
     /\ \A e \in b, f \in Pending \ b : OccurredAt[e] <= OccurredAt[f]
     /\ Cardinality(b) <= Limit
     /\ Cardinality(b) < Limit => b = Pending}

InboxStatus == {"none", "processing", "consumed"}

NoRows == [c \in Consumers |-> "none"]

\* pc of a dispatcher whose transaction is open
InTx == {"notification", "insert", "search", "cache", "publish", "catch"}

\* runWorkerBatch's finally releases the lock; dispatchPending alone has none.
Leave(d) == IF d \in Workers /\ RedisEnabled THEN "release" ELSE "idle"

\* Where dispatchOne goes first for an event of this type.
FirstStep(e) == IF NeedsNotification(e) THEN "notification"
                ELSE IF NeedsIndexing(e) THEN "search" ELSE "publish"

\* Mutant: the INSERT ignores the committed row (no unique index).
SeesInboxTxOnly(d, c) == txInbox[d][c]

\* The row of event_inbox as the transaction of d sees it.
SeesInbox(d, c) ==
  IF txInbox[d][c] # "none" THEN txInbox[d][c] ELSE inbox[cur[d]][c]

\* markInboxProcessing: an INSERT that another open transaction made for the
\* same key must be decided first (unique index on event_id, consumer_name).
InboxKeyFree(d, c) ==
  \A o \in Dispatchers \ {d} : cur[o] = cur[d] => txInbox[o][c] = "none"

\* The upsert waits for an open transaction that wrote the same document.
DocFree(d) ==
  \A o \in Dispatchers \ {d} :
    ~ /\ cur[o] # NoEvent
      /\ "search-index-worker" \in txDone[o]
      /\ Aggregate[cur[o]] = Aggregate[cur[d]]

TypeOK ==
  /\ status \in [Events -> {"none", "pending", "published", "failed"}]
  /\ inbox \in [Events -> [Consumers -> InboxStatus]]
  /\ effects \in [Events -> [Consumers -> Nat]]
  /\ notified \in [Events -> [Users -> Nat]]
  /\ total \in [Events -> Nat]
  /\ doc \in [Articles -> Events \cup {NoEvent}]
  /\ standing \in [Users -> {"blocked", "registered", "premium"}]
  /\ rowLock \in [Events -> Dispatchers \cup {NoOne}]
  /\ redisLock \in [LockKeys -> Workers \cup {NoOne}]
  /\ outlived \subseteq Workers
  /\ pc \in [Dispatchers -> InTx \cup {"idle", "select", "loop", "release"}]
  /\ batch \in [Dispatchers -> SUBSET Events]
  /\ cur \in [Dispatchers -> Events \cup {NoEvent}]
  /\ todo \in [Dispatchers -> SUBSET Users]
  /\ txInbox \in [Dispatchers -> [Consumers -> InboxStatus]]
  /\ txDone \in [Dispatchers -> SUBSET Consumers]
  /\ txSent \in [Dispatchers -> SUBSET Users]
  /\ txTotal \in [Dispatchers -> Nat]
  /\ txAborted \in [Dispatchers -> BOOLEAN]
  /\ disturbances \in 0..MaxDisturbances

Init ==
  /\ status = [e \in Events |-> "none"]
  /\ inbox = [e \in Events |-> NoRows]
  /\ effects = [e \in Events |-> [c \in Consumers |-> 0]]
  /\ notified = [e \in Events |-> [u \in Users |-> 0]]
  /\ total = [e \in Events |-> 0]
  /\ doc = [a \in Articles |-> NoEvent]
  /\ standing = [u \in Users |-> "registered"]
  /\ rowLock = [e \in Events |-> NoOne]
  /\ redisLock = [k \in LockKeys |-> NoOne]
  /\ outlived = {}
  /\ pc = [d \in Dispatchers |-> "idle"]
  /\ batch = [d \in Dispatchers |-> {}]
  /\ cur = [d \in Dispatchers |-> NoEvent]
  /\ todo = [d \in Dispatchers |-> {}]
  /\ txInbox = [d \in Dispatchers |-> NoRows]
  /\ txDone = [d \in Dispatchers |-> {}]
  /\ txSent = [d \in Dispatchers |-> {}]
  /\ txTotal = [d \in Dispatchers |-> 0]
  /\ txAborted = [d \in Dispatchers |-> FALSE]
  /\ disturbances = 0

-----------------------------------------------------------------------------
(* The rest of the backend.                                                *)

\* A service commits a transaction that called writeOutbox.  Transactions
\* commit in any order, whatever their occurred_at.
Emit(e) ==
  /\ status[e] = "none"
  /\ status' = [status EXCEPT ![e] = "pending"]
  /\ UNCHANGED <<inbox, effects, notified, total, doc, standing, rowLock,
                 redis, local, disturbances>>

\* Users are blocked, and subscriptions start and end, between two statements.
ChangeStanding(u) ==
  /\ \E s \in {"blocked", "registered", "premium"} \ {standing[u]} :
       standing' = [standing EXCEPT ![u] = s]
  /\ UNCHANGED <<committed, rowLock, redis, local, disturbances>>

Disturb ==
  /\ disturbances < MaxDisturbances
  /\ disturbances' = disturbances + 1

\* POST /admin/events/outbox/:id/retry: an UPDATE whatever the status is, that
\* waits for the transaction holding the row.
Retry(e) ==
  /\ status[e] # "none"
  /\ rowLock[e] = NoOne
  /\ status' = [status EXCEPT ![e] = "pending"]
  /\ Disturb
  /\ UNCHANGED <<inbox, effects, notified, total, doc, standing, rowLock,
                 redis, local>>

\* Mutant: SET NX without EX.
LockStays(k) == FALSE

\* Redis drops the key when its TTL is over, be its owner still running or not:
\* nobody renews it, and nothing bounds a batch.
LockExpires(k) ==
  LET w == redisLock[k] IN
  /\ w # NoOne
  /\ redisLock' = [redisLock EXCEPT ![k] = NoOne]
  /\ outlived' = IF pc[w] = "idle" THEN outlived ELSE outlived \cup {w}
  /\ UNCHANGED <<committed, standing, rowLock, local, disturbances>>

-----------------------------------------------------------------------------
(* A run of a dispatcher.  A worker that finds the lock of its name taken, *)
(* or Redis failing, skips the run: nothing changes.                       *)

Goto(d, where) == pc' = [pc EXCEPT ![d] = where]

\* Mutant: SET without NX.
StartRunAlways(d) ==
  /\ pc[d] = "idle"
  /\ IF Leave(d) = "release"
       THEN /\ redisLock' = [redisLock EXCEPT ![LockKey[d]] = d]
            /\ outlived' = outlived \ {d}
       ELSE UNCHANGED redis
  /\ Goto(d, "select")
  /\ UNCHANGED <<committed, standing, rowLock, batch, cur, todo, tx,
                 disturbances>>

\* SET NX EX of the key of the worker's name.
StartRun(d) ==
  /\ pc[d] = "idle"
  /\ \/ /\ Leave(d) = "release"
        /\ redisLock[LockKey[d]] = NoOne
        /\ redisLock' = [redisLock EXCEPT ![LockKey[d]] = d]
        /\ outlived' = outlived \ {d}
     \/ /\ Leave(d) = "idle"
        /\ UNCHANGED redis
  /\ Goto(d, "select")
  /\ UNCHANGED <<committed, standing, rowLock, batch, cur, todo, tx,
                 disturbances>>

SelectBatch(d) ==
  /\ pc[d] = "select"
  /\ \E b \in Selections : batch' = [batch EXCEPT ![d] = b]
  /\ Goto(d, "loop")
  /\ UNCHANGED <<committed, standing, rowLock, redis, cur, todo, tx,
                 disturbances>>

\* Mutant: SELECT without FOR UPDATE.
LockEventUnlocked(d) ==
  /\ pc[d] = "loop"
  /\ \E e \in batch[d] :
       /\ \A f \in batch[d] : OccurredAt[e] <= OccurredAt[f]
       /\ rowLock' = [rowLock EXCEPT ![e] = d]
       /\ cur' = [cur EXCEPT ![d] = e]
       /\ batch' = [batch EXCEPT ![d] = @ \ {e}]
       /\ Goto(d, FirstStep(e))
  /\ UNCHANGED <<committed, standing, redis, todo, tx, disturbances>>

\* dispatchOne opens a transaction and locks the row; it does not look at the
\* status again.
LockEvent(d) ==
  /\ pc[d] = "loop"
  /\ \E e \in batch[d] :
       /\ \A f \in batch[d] : OccurredAt[e] <= OccurredAt[f]
       /\ rowLock[e] = NoOne
       /\ rowLock' = [rowLock EXCEPT ![e] = d]
       /\ cur' = [cur EXCEPT ![d] = e]
       /\ batch' = [batch EXCEPT ![d] = @ \ {e}]
       /\ Goto(d, FirstStep(e))
  /\ UNCHANGED <<committed, standing, redis, todo, tx, disturbances>>

EndBatch(d) ==
  /\ pc[d] = "loop"
  /\ batch[d] = {}
  /\ Goto(d, Leave(d))
  /\ UNCHANGED <<committed, standing, rowLock, redis, batch, cur, todo, tx,
                 disturbances>>

\* The inbox row, the audience and the row of notification_batches.
StartNotifications(d) ==
  LET c == "notification-worker"
      to == Audience(cur[d])
  IN /\ pc[d] = "notification"
     /\ InboxKeyFree(d, c)
     /\ \/ /\ SeesInbox(d, c) = "none"
           /\ txInbox' = [txInbox EXCEPT ![d] = [@ EXCEPT ![c] = "processing"]]
           /\ txDone' = [txDone EXCEPT ![d] = @ \cup {c}]
           /\ txTotal' = [txTotal EXCEPT ![d] = Cardinality(to)]
           /\ UNCHANGED <<txSent, txAborted>>
           /\ todo' = [todo EXCEPT ![d] = to]
           /\ Goto(d, "insert")
        \/ /\ SeesInbox(d, c) # "none"
           /\ Goto(d, "search")
           /\ UNCHANGED <<tx, todo>>
     /\ UNCHANGED <<committed, standing, rowLock, redis, batch, cur,
                    disturbances>>

InsertNotification(d) ==
  /\ pc[d] = "insert"
  /\ \E u \in todo[d] :
       /\ txSent' = [txSent EXCEPT ![d] = @ \cup {u}]
       /\ todo' = [todo EXCEPT ![d] = @ \ {u}]
  /\ UNCHANGED <<committed, standing, rowLock, redis, pc, batch, cur,
                 txInbox, txDone, txTotal, txAborted, disturbances>>

\* Mutant: markInboxConsumed is forgotten.
FinishUnmarked(d) ==
  /\ pc[d] = "insert"
  /\ todo[d] = {}
  /\ Goto(d, "search")
  /\ UNCHANGED <<committed, standing, rowLock, redis, batch, cur, todo, tx,
                 disturbances>>

\* Mutant: the loop over the recipients ends before the last one.
FinishEarly(d) ==
  /\ pc[d] = "insert"
  /\ txInbox' = [txInbox EXCEPT ![d] =
                    [@ EXCEPT !["notification-worker"] = "consumed"]]
  /\ Goto(d, "search")
  /\ todo' = [todo EXCEPT ![d] = {}]
  /\ UNCHANGED <<committed, standing, rowLock, redis, batch, cur,
                 txDone, txSent, txTotal, txAborted, disturbances>>

FinishNotifications(d) ==
  /\ pc[d] = "insert"
  /\ todo[d] = {}
  /\ txInbox' = [txInbox EXCEPT ![d] =
                    [@ EXCEPT !["notification-worker"] = "consumed"]]
  /\ Goto(d, "search")
  /\ UNCHANGED <<committed, standing, rowLock, redis, batch, cur, todo,
                 txDone, txSent, txTotal, txAborted, disturbances>>

\* The effect of consumer c and its inbox row, unless the row is there.
Consume(d, c) ==
  /\ InboxKeyFree(d, c)
  /\ \/ /\ SeesInbox(d, c) = "none"
        /\ txInbox' = [txInbox EXCEPT ![d] = [@ EXCEPT ![c] = "consumed"]]
        /\ txDone' = [txDone EXCEPT ![d] = @ \cup {c}]
        /\ UNCHANGED <<txSent, txTotal, txAborted>>
     \/ /\ SeesInbox(d, c) # "none"
        /\ UNCHANGED tx

ConsumeWithSearchWorker(d) ==
  /\ pc[d] = "search"
  /\ DocFree(d)
  /\ Consume(d, "search-index-worker")
  /\ Goto(d, "cache")
  /\ UNCHANGED <<committed, standing, rowLock, redis, batch, cur, todo,
                 disturbances>>

\* The Redis keys it deletes, at once and not when the transaction commits, are
\* the state of module ArticleCache.
ConsumeWithCacheWorker(d) ==
  /\ pc[d] = "cache"
  /\ Consume(d, "cache-invalidation-worker")
  /\ Goto(d, "publish")
  /\ UNCHANGED <<committed, standing, rowLock, redis, batch, cur, todo,
                 disturbances>>

\* COMMIT: the rows of d become visible, with the status s of the event.
Commit(d, s) ==
  LET e == cur[d]
  IN /\ status' = [status EXCEPT ![e] = s]
     /\ inbox' = [inbox EXCEPT ![e] = [c \in Consumers |-> SeesInbox(d, c)]]
     /\ effects' = [effects EXCEPT ![e] =
          [c \in Consumers |-> @[c] + (IF c \in txDone[d] THEN 1 ELSE 0)]]
     /\ notified' = [notified EXCEPT ![e] =
          [u \in Users |-> @[u] + (IF u \in txSent[d] THEN 1 ELSE 0)]]
     /\ total' = [total EXCEPT ![e] = @ + txTotal[d]]
     /\ doc' = [doc EXCEPT ![Aggregate[e]] =
          IF "search-index-worker" \in txDone[d] THEN e ELSE @]

DropTx(d) ==
  /\ txInbox' = [txInbox EXCEPT ![d] = NoRows]
  /\ txDone' = [txDone EXCEPT ![d] = {}]
  /\ txSent' = [txSent EXCEPT ![d] = {}]
  /\ txTotal' = [txTotal EXCEPT ![d] = 0]
  /\ txAborted' = [txAborted EXCEPT ![d] = FALSE]

\* Mutant: the connection goes back to the pool with its transaction open.
EndTxKeepingRow(d) ==
  /\ UNCHANGED rowLock
  /\ cur' = [cur EXCEPT ![d] = NoEvent]
  /\ todo' = [todo EXCEPT ![d] = {}]
  /\ DropTx(d)

\* The transaction is over, committed or not: its locks and its rows are gone.
EndTx(d) ==
  /\ rowLock' = [rowLock EXCEPT ![cur[d]] = NoOne]
  /\ cur' = [cur EXCEPT ![d] = NoEvent]
  /\ todo' = [todo EXCEPT ![d] = {}]
  /\ DropTx(d)

\* The UPDATE to 'published' and COMMIT.
Publish(d) ==
  /\ pc[d] = "publish"
  /\ Commit(d, "published")
  /\ EndTx(d)
  /\ Goto(d, "loop")
  /\ UNCHANGED <<standing, redis, batch, disturbances>>

\* PostgreSQL commits and the connection breaks before the answer: the batch
\* ends with an error although the event is published.
PublishUnacknowledged(d) ==
  /\ pc[d] = "publish"
  /\ Commit(d, "published")
  /\ EndTx(d)
  /\ batch' = [batch EXCEPT ![d] = {}]
  /\ Goto(d, Leave(d))
  /\ Disturb
  /\ UNCHANGED <<standing, redis>>

\* A statement fails (a timeout, a constraint, a broken connection): PostgreSQL
\* aborts the transaction and the catch block of dispatchOne is entered.
SqlError(d) ==
  /\ pc[d] \in InTx \ {"catch"}
  /\ txAborted' = [txAborted EXCEPT ![d] = TRUE]
  /\ Goto(d, "catch")
  /\ Disturb
  /\ UNCHANGED <<committed, standing, rowLock, redis, batch, cur, todo,
                 txInbox, txDone, txSent, txTotal>>

\* Mutant: the consumers autocommit, so that the catch block commits what they
\* did before the error.
CatchKeepingEffects(d) ==
  /\ pc[d] = "catch"
  /\ Commit(d, "failed")
  /\ EndTx(d)
  /\ Goto(d, "loop")
  /\ UNCHANGED <<standing, redis, batch, disturbances>>

\* The catch block's UPDATE to 'failed'.  In an aborted transaction it raises in
\* its turn: Sequelize rolls back, and the error ends the batch.
Catch(d) ==
  /\ pc[d] = "catch"
  /\ IF txAborted[d]
       THEN /\ UNCHANGED committed
            /\ batch' = [batch EXCEPT ![d] = {}]
            /\ Goto(d, Leave(d))
       ELSE /\ Commit(d, "failed")
            /\ UNCHANGED batch
            /\ Goto(d, "loop")
  /\ EndTx(d)
  /\ UNCHANGED <<standing, redis, disturbances>>

\* Mutant: DEL without comparing.
ReleaseAny(d) ==
  /\ pc[d] = "release"
  /\ redisLock' = [redisLock EXCEPT ![LockKey[d]] = NoOne]
  /\ Goto(d, "idle")
  /\ UNCHANGED <<committed, standing, rowLock, outlived, batch, cur, todo, tx,
                 disturbances>>

\* releaseLock: a compare-and-delete, run by a script in Redis.
Release(d) ==
  /\ pc[d] = "release"
  /\ redisLock' = [redisLock EXCEPT ![LockKey[d]] = IF @ = d THEN NoOne ELSE @]
  /\ Goto(d, "idle")
  /\ UNCHANGED <<committed, standing, rowLock, outlived, batch, cur, todo, tx,
                 disturbances>>

\* releaseLock swallows an error of Redis: the key stays until it expires.
ReleaseFails(d) ==
  /\ pc[d] = "release"
  /\ Goto(d, "idle")
  /\ Disturb
  /\ UNCHANGED <<committed, standing, rowLock, redis, batch, cur, todo, tx>>

\* The process dies or gets SIGTERM: PostgreSQL rolls its transaction back, the
\* lock in Redis stays.
Crash(d) ==
  /\ pc[d] # "idle"
  /\ rowLock' = [e \in Events |-> IF rowLock[e] = d THEN NoOne ELSE rowLock[e]]
  /\ cur' = [cur EXCEPT ![d] = NoEvent]
  /\ todo' = [todo EXCEPT ![d] = {}]
  /\ DropTx(d)
  /\ batch' = [batch EXCEPT ![d] = {}]
  /\ Goto(d, "idle")
  /\ Disturb
  /\ UNCHANGED <<committed, standing, redis>>

-----------------------------------------------------------------------------
\* What a dispatcher does once it runs, when nothing fails.
Step(d) ==
  \/ SelectBatch(d) \/ LockEvent(d) \/ EndBatch(d)
  \/ StartNotifications(d) \/ InsertNotification(d) \/ FinishNotifications(d)
  \/ ConsumeWithSearchWorker(d) \/ ConsumeWithCacheWorker(d)
  \/ Publish(d) \/ Catch(d) \/ Release(d)

Fault(d) == PublishUnacknowledged(d) \/ SqlError(d) \/ ReleaseFails(d) \/ Crash(d)

Next ==
  \/ \E e \in Events : Emit(e) \/ Retry(e)
  \/ \E u \in Users : ChangeStanding(u)
  \/ \E k \in LockKeys : LockExpires(k)
  \/ \E d \in Dispatchers : StartRun(d) \/ Step(d) \/ Fault(d)

Spec == Init /\ [][Next]_vars

\* A statement that is sent returns, the key expires, and the CLI worker starts
\* a run every intervalMs; nobody has to call the endpoint without the lock.
Fairness ==
  /\ \A d \in Dispatchers : WF_vars(Step(d))
  /\ \A w \in Workers : WF_vars(StartRun(w))
  /\ \A k \in LockKeys : WF_vars(LockExpires(k))

FairSpec == Spec /\ Fairness

-----------------------------------------------------------------------------
(* Properties.                                                             *)

\* However runs overlap, fail and repeat, the effect of a consumer for an event
\* is committed at most once, and exactly when its inbox row says 'consumed'
\* (rule 4 of REGLAS_NEGOCIO_CRITICAS.md; markInboxProcessing).
EffectOncePerConsumer ==
  \A e \in Events, c \in Consumers :
    effects[e][c] = IF inbox[e][c] = "consumed" THEN 1 ELSE 0

\* No run, crashed or failed, leaves an inbox row 'processing': such a row would
\* make every later run skip the consumer (markInboxProcessing returns false).
NoStrandedInbox ==
  \A e \in Events, c \in Consumers : inbox[e][c] # "processing"

\* The consumers of an event are applied together or not at all, and an event
\* is published only with all of them applied (dispatchOne's transaction).
AllConsumersTogether ==
  \A e \in Events :
    /\ {c \in Consumers : inbox[e][c] # "none"} \in {{}, ConsumersOf(e)}
    /\ status[e] = "published" => \A c \in ConsumersOf(e) : inbox[e][c] # "none"

\* A user gets an event's notification at most once, and a batch that is sent
\* has as many notifications as the total_recipients it recorded.
NotificationsMatchBatch ==
  \A e \in Events :
    /\ \A u \in Users : notified[e][u] <= 1
    /\ Cardinality({u \in Users : notified[e][u] > 0}) = total[e]

\* The owner of a row of event_outbox is the one dispatcher consuming it.
RowLockOwner ==
  \A d \in Dispatchers, e \in Events : rowLock[e] = d <=> cur[d] = e

\* A worker whose lock expired does not remove the lock of the worker that took
\* it since (releaseLock's comparison).
StaleHolderKeepsOff ==
  [][\A d \in Workers :
       pc[d] = "release" /\ pc'[d] = "idle" /\ redisLock[LockKey[d]] # d
         => redisLock' = redisLock]_vars

\* Two workers of one name run at the same time only when one of them has outlived
\* its TTL, whatever crashed, was released late or was released by whom before: of
\* the workers that are within their TTL, the lock lets one run (runWorkerBatch).
OverlapOnlyAfterExpiry ==
  RedisEnabled =>
    \A v, w \in Workers \ outlived :
      LockKey[v] = LockKey[w] /\ pc[v] # "idle" /\ pc[w] # "idle" => v = w

\* An event whose dispatch failed is recorded as failed.
FailedEventIsRecorded ==
  [][\A d \in Dispatchers :
       pc[d] = "catch" /\ pc'[d] \in {"loop", "release"}
         => status'[cur[d]] = "failed"]_vars

\* Every event is published in the end, once errors and crashes cease.
PendingIsPublished ==
  \A e \in Events : status[e] = "pending" ~> status[e] = "published"

\* The pipeline implements EventDelivery: dispatchOne's transaction is the one
\* step that delivers, and a manual retry is the one that opens again.
Delivery == INSTANCE EventDelivery WITH
  stage <- [e \in Events |-> IF status[e] = "none" THEN "none"
                             ELSE IF status[e] = "published" THEN "delivered"
                             ELSE "open"],
  applied <- effects

DeliversEachEventOnce == Delivery!Spec

\* No run waits forever, for a row, a document or an inbox key.
RunsEnd == \A d \in Dispatchers : pc[d] = "select" ~> pc[d] = "idle"
=============================================================================

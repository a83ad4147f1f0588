# A formal model of the newspaper backend

The repository is a NestJS backend over PostgreSQL and Redis. Its services talk
to each other through rows: an operation writes its tables and a row of
`event_outbox` in one transaction, and a worker reads the outbox later and feeds
three consumers. This directory holds TLA+ models of the parts where that is hard
to get right, their TLC configurations, and TLAPS proofs of what they promise.
All paths below are relative to the repository.

## 1. The system

Every service has the same shape: a controller behind guards (`JwtAuthGuard`,
`RolesGuard`, a Zod pipe), a method that opens one Sequelize transaction (READ
COMMITTED) and awaits a sequence of raw SQL statements, and sometimes Redis
commands among them. The Node process serves many requests at a time, so requests
interleave at every `await`; several processes (API, event worker) share
PostgreSQL and Redis. Two facts decide most of the behaviour:

* an ordinary `SELECT` locks nothing, and what it returned may be old when the
  request writes; an `UPDATE`, a `SELECT ... FOR UPDATE` or an `INSERT` on a
  unique key waits for the transaction that holds the row or the key;
* Redis commands take effect at once, before the transaction around them commits,
  and their errors are swallowed.

| component | state it keeps | operations | what is hard | what makes it correct |
|---|---|---|---|---|
| events (`src/events`, `scripts/workers`) | `event_outbox`, `event_inbox`, batches, notifications, search documents, the worker lock in Redis | dispatch, run-once, retry, the three consumers | overlapping dispatchers, crashes between statements, a lock with a TTL, lost COMMIT answers | every consumer takes effect once and with the others; every pending event is published |
| articles (`src/articles`) | `articles`, `article_revisions`, `article_tags`, `article_media`, outbox rows | create, update, transitions, attach media, read | requests for one article that read before another one wrote | outbox, revisions and dates agree with the row; no lost edits; the tags of one update, one cover |
| cache (`src/cache`, `src/cache-invalidation`, readers of `src/articles`, `src/categories`, `src/tags`) | Redis keys with TTL | get, set, remember, delete by pattern, lock, increment | reads that fill the cache around an invalidation, swallowed errors, how a pattern is written | no premium text in an anonymous key; cached pages catch up with the article |
| subscriptions, payments | `subscriptions`, `payment_transactions`, `payment_webhook_events` | checkout, webhook, manual activation, cancel | duplicated and reordered webhooks, concurrent activations, expiry | active means paid; a webhook takes effect once |
| auth, users, security-admin, guards | `users`, `user_roles`, refresh and reset tokens, failed-login counters, access tokens with their clients | register, login, refresh, logout, reset, revoke, change of status and roles | checks before the transaction that relies on them; guards that look at the token only | one account per email; a reset token works once; revoked means revoked; a demoted administrator promotes nobody |
| rate limit | counters in Redis or in the memory of a process | count a request | INCR and EXPIRE are two commands; Redis fails; several processes | a window holds the limit, and ends |
| reactions, comments, ads, analytics | their tables, the pool of connections | react, comment, moderate, serve ads, count views | stale access checks, a second connection inside a transaction, a trigger in the middle of a loop | no impression after the article is premium but one; requests end |
| categories, tags | their tables and cached lists | create, update, list | lists cached across a change | cached lists catch up with the tables |
| write batches (migration 0700), backup (`scripts/backup-to-neon.ts`) | `api_write_batches` and items, `database_backup_runs`, the copy | triggers on every row; dump, drop, restore, check | a key that starts anew in a restored database; overlapping jobs, swallowed errors | a batch is one transaction; 'succeeded' means that the copy is whole |
| roles and permissions, notification preferences, media, search-indexing | their tables | CRUD | | |
| audit, health, configuration, pipes, filters, seeders, other scripts | none of their own | | | |
| schema (`database/migrations`) | constraints and triggers | | they decide races between transactions | used as guards of the actions |

`PROJECT.json` lists every component with its status, and the hazards with the
line where each bites and the properties that watch it.

## 2. Modules

| module | models | composes |
|---|---|---|
| `EventDelivery` | what the pipeline promises: an event is delivered to all its consumers in one step, each once | |
| `EventOutbox` | `events.service.ts`, the Redis lock, the worker loop | implements `EventDelivery` |
| `ArticlePublishing` | the editorial requests of `articles.service.ts` | |
| `RedisKeys` | how `redis-cache.service.ts` writes keys and patterns | |
| `ArticleCache` | `getPublishedArticleBySlug` and the anonymous Redis entry | extends `ArticlePublishing` and `RedisKeys`; the dispatch of its outbox stands for `EventOutbox` |
| `Subscriptions` | `subscriptions.service.ts` and `payments.service.ts` | |
| `Accounts` | `auth.service.ts`, `users.service.ts`, `revokeRefreshTokens`, the guards | |
| `Interactions` | `comments`, `reactions`, `analytics` and `ads` services over one pool of connections | |
| `ArticleParts` | `replaceTags` and `attachMedia` of `articles.service.ts` | |
| `Catalogues` | `categories.service.ts`, `tags.service.ts`, their cached lists and the public list of articles | extends `RedisKeys` |
| `RateLimit` | `rate-limit.middleware.ts` and `increment` | |
| `WriteBatches` | the functions and the trigger of migration 0700 | |
| `Backup` | `scripts/backup-to-neon.ts` | extends `WriteBatches`: every row of the script is a write of the primary |
| `Support` | the disjoint sum of `ArticleParts`, `Catalogues`, `RateLimit` and `Backup`, so that one run checks them | |
| `MC...` | constants of the instances TLC checks | each extends its module |
| `...Proofs` | theorems with TLAPS proofs | each extends its module; `ArticleCacheProofs` also `ArticlePublishingProofs`; `SupportProofs` is about the parts and the rate limits of `Support`, `BackupProofs` about its batches and backups |

### EventOutbox

A dispatcher runs `dispatchPending`. The members of `Workers` go through
`runWorkerBatch` (the CLI worker and `POST /admin/events/worker/run-once`) and
take a Redis lock first; the others are `POST /admin/events/dispatch-pending`.
The lock is one per name: its key is made of the `workerName` that the request's
body or `WORKER_NAME` gives (`events.service.ts:51`, `events.schemas.ts:16`), so that
`redisLock` is a function of `LockKeys` and `LockKey` says which key a worker takes.
Workers of different names, and the endpoint, do not exclude each other at all.
`LockExpires` is the TTL, at any time: nobody renews the key and nothing bounds a
batch; `outlived` remembers the workers it surprised.
`pc` follows the awaited statements: `StartRun`, `SelectBatch`, `LockEvent` (the
`FOR UPDATE`), `StartNotifications`, `InsertNotification`, `FinishNotifications`,
`ConsumeWithSearchWorker`, `ConsumeWithCacheWorker`, `Publish`. What the open
transaction has written is in the `tx...` variables and is applied by `Commit`.
`InboxKeyFree` and `DocFree` are the waits for unique keys that other open
transactions hold. Faults: `SqlError` (a statement fails and the transaction is
aborted), `Catch` (the UPDATE to 'failed' in that transaction fails too),
`PublishUnacknowledged`, `ReleaseFails`, `Crash` at any statement. They share the
bound `MaxDisturbances` with `Retry`. `Catch` also has the branch in which no
statement failed; between the `try` and the UPDATE the code throws only when a
statement does, so that it is there for faithfulness and never taken.
`next_retry_at` is left out (null on every pending row, because nothing ever
commits 'failed') and so is `worker_runs`, a log whose write errors are ignored.

`ChangeStanding` stands for everything that changes who the recipients are
between two statements: `PATCH /users/:id/status`, subscriptions that begin or end.

### ArticlePublishing

One slot of `Requests` is one transaction. `BeginMutation` is the SELECT of
`getCurrentArticleForMutation` with the checks that follow it; `Write` is the
UPDATE, which waits for the row lock, keeps it, and makes a new version of the whole
row (`tuple`): the columns the request gives and copies of the others (`Updated`).
`Invalidate` is the call about the Redis keys; `Commit` puts that version in the place
of the row, with the date, the revision and the outbox rows. What the
request computed from its SELECT (`seenAccess`, `seenTitle`, `seenBody`) is kept
apart from the row: `publish` chooses its event and `createRevision` fills the
texts that are not given from it. `requestChanges`, `schedule`, `publish` and
`transition` have the same order of statements and differ in `StatusAfter`,
`DateAfter` and `Emitted`. A date of publication is "null", "past" or "future";
`PublicationTimeReached` lets it pass. Texts are versions: the number of the
request that wrote them.

No transition in the code looks at the status the article has, and `BeginMutation`
has no such guard either.

### RedisKeys, ArticleCache

`RedisKeys` has how keys and the patterns for SCAN are made. The services make both
with `key`, which passes each part through `normalizePart` and joins them with `:`.
`normalizePart` keeps letters, digits, `.`, `_` and `-` and writes `_` for everything
else. The `*` of a pattern is no exception, so that the pattern given to SCAN matches
one literal key which nobody writes. `DeleteAll` of
`ArticleCache` and `InvalidateLists` of `Catalogues` are the code's invalidations,
computed with `Deleted`: they delete nothing.

`entry[a]` is the key `articles:detail:anonymous:<slug>`. A read that misses it is
`BeginRead`, `Query`, `Deny` (the event `PremiumArticleAccessDenied`, written
outside of any transaction), `Store`. Reads go on for ever; only the events they
add to the outbox are bounded (`MaxRefusals`). `Edit` is an action of `ArticlePublishing`,
with the invalidation where that request has it; `Dispatch` is the cache consumer
of the pipeline for one committed event, in any order, which is what `EventOutbox`
shows the pipeline to do; `InvalidateArticle` is the administrator's request that
deletes the same patterns. `Expire` is the TTL, at any time.

### Subscriptions

Rows of subscriptions and payments are one index `Subs`, because a checkout
inserts one of each. A webhook is inserted under its unique key (`InsertEvent`,
which waits for another transaction with the same key), then the payment and the
subscription are updated under their row locks, then it commits; `UpdateSub`
has the CHECK on the dates. Webhooks can be delivered again, at the same time and
in any order. `CancelOthers` sees the subscriptions committed when it runs.
An UPDATE is taken to see what is committed when it gets its locks; PostgreSQL
re-evaluates the condition on the locked rows and does not see rows that another
transaction inserted meanwhile, which is what the model does too.

### Accounts

A slot of `Requests` is one request; its `pc` is the next statement. The reads before
a transaction are part of the action that begins the request, and what they found
travels with it (`seen` is the counter of failures, `admin` the roles that go into
the access token). `UpdateToken` of a refresh asks nothing of the row it revokes, so
that two refreshes of one token, or a refresh and a logout, both succeed.
`SnapshotTokens` and `LockTokens` are the one UPDATE that revokes all sessions of a
user: it sees the tokens committed when it begins, then waits for those that another
transaction holds. `InsertUser` waits for an open INSERT of the same email, which is
the unique index. `access` are the access tokens clients hold, each with the answer
to "is it an administrator's"; nothing revokes them, they lapse. `Lapse` is time:
the lock of an account, a reset token, a refresh token or an access token ends.
History variables count what happened (`wrong`, `used`) or remember tokens revoked
while no refresh of them was being served (`spent`) and administrators who lost the
role while granting it to nobody (`demoted`).

### Interactions

The requests of four services share the pool of connections. A transaction keeps one
(`InTx`), a statement outside of a transaction needs one for its own duration, which
is a state of its own where it may wait for a row (the DELETE of a reaction takes its
connection in `DeleteReaction` and the row in `DeleteRow`), and `summary()`, which
`upsert` calls inside of its transaction without handing the transaction on, needs a
second. `AcquireTimeout` is the pool's: the statement throws.
`CheckArticle` and `CheckSubscription` are the checks before a request writes; they
are old when it does. `InsertImpression` is one autocommitted INSERT with the trigger
that reads the article again. `leaked` counts the impressions of a request that
committed after the article became premium; `overlapped` and `broken` are comments
whose moderations overlapped, and whose log is no chain.

### ArticleParts, Catalogues, RateLimit

`ArticleParts`: DELETE and UPDATE of several rows are two steps, what the statement
sees and what it does when the rows it waits for are free. `BlockedBy` says who waits
for whom; `DeadlockVictim` ends a transaction of a circle, as PostgreSQL does.
An update with columns takes the lock of the article first and so keeps other updates
away from the tags; one with tags only takes none. A tag that another request has
deleted and inserted again is a new row, which a DELETE that began before does not
see and leaves (`LosesSight`). `loose` and `fresh` remember that
two requests met without that protection.

`Catalogues`: a change of a category or tag commits and then deletes two patterns,
a list is filled by `rememberJson` in three steps. A list is the versions of the
tables it shows.

`RateLimit`: `Incr` and `SetExpire` are the two commands; when one of them fails,
executed or not, the process counts in its own memory (`FallBack`).

### WriteBatches, Backup

The first row a transaction writes gives it a txid and a batch; each row appends an
item. Batches commit and roll back with the rows they tell of. A job of `Backup` runs
the statements of the script in order, each of which may fail; errors about its row
of `database_backup_runs` are swallowed. Two jobs may overlap (the workflow has a
cron and a manual trigger, and no concurrency group); what the target holds after two
restores beside each other may be whole or not. `Failover` is what the copy is for:
it takes the primary's place, in a cluster with its own counter of transactions.

## 3. What TLC checks

Every run is exhaustive within its bounds.

| run | bounds | shows |
|---|---|---|
| `EventOutbox_safety` | 2 workers of one name, 2 events of one article (premium publication, update), 2 users, a lock that may expire at any time, 2 disturbances | consumers take effect once (`EffectOncePerConsumer`) and together (`AllConsumersTogether`); batches are complete (`NotificationsMatchBatch`); no inbox row is stranded (`NoStrandedInbox`); row locks (`RowLockOwner`); workers of one name overlap only after the key of one expired while it ran (`OverlapOnlyAfterExpiry`), and a late worker leaves the lock of its successor alone (`StaleHolderKeepsOff`); refinement of `EventDelivery` (`DeliversEachEventOnce`) |
| `EventOutbox_liveness` | 1 worker whose lock may expire at any time, the endpoint without lock, 2 events, batches of 1, 1 user, 2 disturbances | `PendingIsPublished`; `RunsEnd` |
| `EventOutbox_failed` | as above, one event | violated: an event whose dispatch failed is not recorded as failed |
| `ArticlePublishing_safety` | 1 article, 2 requests at a time, 4 in all, 1 failure | `LastEventTellsStatus`, `PublishedInThePast`, `TextsAreInRevisions`, `EditsAreNotLost`, `RequestsEnd` |
| `ArticleCache_safety` | 1 article, 3 requests one after the other, 1 visitor, 1 subscriber, 1 user without subscription, any number of reads, 2 refusals recorded, 1 Redis error | `CachedPremiumIsPreview`, `PreviewsAreReported`, `PagesCatchUp` |
| `ArticleCache_invalidation` | 1 visitor | violated: an invalidation leaves the page it is there to delete |
| `Subscriptions_safety` | 1 user, 2 subscriptions, 2 webhooks (paid, refunded), 2 requests at a time, 2 instants, 1 failure | `ActiveIsPaid`, `WebhookTakesEffectOnce`, `RequestsEnd` |
| `Subscriptions_manual` | 2 requests | violated: two activations at the same time both stay active |
| `Accounts_safety` | 3 users of whom two would share an email, 3 refresh tokens, 1 reset token, lock after 2 failures, 2 requests at a time, 5 in all, 1 failure, 1 lapse | `OneAccountPerEmail`, `ResetTakesEffectOnce`, `NoLockWithoutCause`, `SpentTokenIsNotRefreshed`, `CalmRevocationLeavesNoSession`, `DemotedCannotPromote` |
| `Interactions_safety` | 1 reader, 1 comment, 2 advertisements, a pool of 2, 2 requests at a time, 3 in all, 1 change of the article or subscription | `OneLateImpression`, `LogBreaksOnlyByOverlap`, `TargetsOfOneUpdate`, `RequestsEnd` |
| `Interactions_internal` | as above | violated: an internal article gets impressions |
| `Support_safety` | tags and media: 2 editors, 3 edits, 2 tags, 3 media; lists: 2 callers, 2 changes, 1 Redis error, any number of reads; rate limit: 2 servers, 1 fault; backup: 2 jobs, 1 failover | `TagsOfLastUpdate`, `OneCover`; `ListsCatchUp`; `WindowHoldsLimit`, `WindowsEndUnlessFault`; `BatchTellsItsItems`, `BatchIsOneTransaction`, `SucceededRunHoldsItsPast` |

Some properties say exactly how far the code goes. `OneLateImpression` is not "none",
`TagsOfLastUpdate` and `OneCover` exempt two requests that met without the row lock,
`LogBreaksOnlyByOverlap` exempts overlapping moderations, and
`CalmRevocationLeavesNoSession` speaks of revocations during which nobody logs in:
in each case TLC finds the race when the exemption is dropped, and the code does
nothing against it.

The runs that are violated are disagreements between the code and what its
documents say; `PROJECT.json` ("findings") quotes both.

### Divergences without a run

Seen while modelling, in the modules' actions, and known to contradict a document:

* `publish` chooses its event by an `access_type` it read without a lock
  (`articles.service.ts:280`), so that it can announce the wrong kind of publication
  (`docs/REGLAS_NEGOCIO_CRITICAS.md:42-43`).
* No transition looks at the status the article has (`articles.service.ts:385`); the
  state diagram `diagrams/08_state_article.puml` has few of these arrows.
* Nothing publishes a scheduled article when its time comes
  (`articles.service.ts:265`, `diagrams/08_state_article.puml:27`).
* A payment that arrives after `ends_at` fails on `subscriptions_dates_check` at every
  delivery (`payments.service.ts:50`, `diagrams/09_state_user_subscription.puml:27`).
* Two refreshes of one token at the same time both open a session
  (`auth.service.ts:148`), against the rotation of `docs/endpoints/endpoints.md:237`.
* The worker's lock is there so that two workers do not process the same batch in
  parallel (`docs/workers/event-worker.md:39`), but it is taken once for
  `WORKER_LOCK_TTL_SECONDS` and never renewed, and its key carries a name the caller
  chooses. `OverlapOnlyAfterExpiry` says what it does exclude: two workers of one name
  that are both within their TTL. Overlaps are harmless for what is delivered: the
  other properties of `EventOutbox_safety` hold while they happen, and the theorems
  about them are for workers of any names. Two workers of different names take the
  same steps as two whose key has expired, so that the run need not have a second name.
* `update` refuses a journalist's change of a published article by a status read
  without a lock, so that the change can land on an article published in between.
* A copy holds the row of its own run as 'started'; a job that fails after DROP SCHEMA
  leaves no copy; an error of `fs.rm` turns a run that has 'succeeded' into 'failed';
  and after a failover new transactions can be recorded in batches of old ones, which
  is the exemption of `BatchIsOneTransaction`.

### Bounds

Each hazard is a race of two actors about one row (event, article, subscription, key,
token, advertisement), with at most one more actor or one fault in between. Two
events of one article show the order of the batch and the shared search document;
four editorial requests are create, and three that race; five of `Accounts` are what
it takes to log in, to have a session revoked and to race a refresh with something;
a pool of two is the smallest in which requests that want a second connection hold
all of it. The second disturbance of `EventOutbox_safety` and of `EventOutbox_liveness`
lets a retry follow a crash. For liveness a worker and the endpoint are enough: they
overlap on every row, and the key of a dead or late worker keeps off its next run.
The theorems of section 5 have no bounds.

Deadlock is checked for the event pipeline, where a retry or a change of standing
is always possible; the other configurations say `CHECK_DEADLOCK FALSE` because
they stop when the bounded requests, changes or identifiers are used up.
`Accounts_safety` uses the symmetry of its requests and tokens, and has no liveness
property.

## 4. Fairness

* `EventOutbox`: weak fairness of each dispatcher's `Step` (a statement that is
  sent returns), of `StartRun` of each worker (the loop of `events-worker.ts`
  starts a run every `intervalMs`, after an error too) and of `LockExpires` (the
  TTL). No fairness for the endpoint, for faults or for retries.
* `ArticlePublishing`: weak fairness of the steps of each request, and of time.
  Weak is enough because the requests are bounded.
* `ArticleCache`: weak fairness of `Expire` only. `PagesCatchUp` is not that the TTL
  passes: it says that, in spite of readers who never stop, of reads that began before
  the last change and of invalidations that delete nothing, old pages do not come back
  for ever. It would fail if a hit wrote the entry back to renew it. The edits are
  bounded; nobody needs to read or to dispatch.
* `Subscriptions`: strong fairness of the steps of each request, because webhooks
  may come again and again and each waiter of a row competes with the next ones:
  PostgreSQL queues waiters for a lock in order, so that nobody is overtaken for
  ever. Strong fairness of a webhook's delivery: the provider sends it until it is
  processed.
* `Interactions`: strong fairness of each request's statements, because a connection
  or a row can be free and taken again while a request waits, and both queues are
  served in order; weak fairness of the pool's timeout: Sequelize rejects a client
  that has waited for `acquire` milliseconds (60 s by default).
* `Support`: weak fairness of the TTL of cached lists only, for `ListsCatchUp`.
* `Accounts`: none; its properties are about what may never happen.

## 5. What is proved

Constants are arbitrary: any sets of events, users, dispatchers, articles, tokens,
subscriptions, servers and requests, any bounds. Every invariant and every action
property of a passing run is a theorem; `PROJECT.json` ("theorems") lists which. In
each module an inductive invariant is preserved by one lemma per action, and the
theorems follow from it.

`EventOutboxProofs`. The invariants are not inductive: that the committed effect
of a consumer is counted once depends on what open transactions have written. The
strengthening says where a transaction can be and what it has written there
(`TxOpenAtPc`, `TxOK`, `TxBatch`), that the row of an event is held by the one
dispatcher whose transaction is about it (`RowLockOwner`), and that without an
inbox row there is no batch (`NoBatchWithoutInbox`). The key step is `Commit`, where
the row lock makes the committing dispatcher the only one that has written for that
event. `OverlapsNeedExpiry` and `StaleHoldersKeepOff` are about the Redis locks: a
worker that runs and has not outlived its TTL holds the key of its name, because only
expiry and its own release take it away, whatever a late owner of that key does.
`ImplementsDelivery` maps `Publish` to `Deliver`, `Retry` of a published event to
`Reopen`, `Emit` to `Write`, and everything else to stuttering.

`ArticlePublishingProofs`. The invariant `IInv` is `TypeOK`, `RequestOK`, `TupleOK` and
the three invariants it proves. `RequestOK` says what a request in flight still knows
of its article: a creation carries both texts, and the article of any other
request has a row, so that the text the request does not change is one the row
has. `AppendEvents` says what appending a request's events to the outbox does to
`LastEventTellsStatus`; it rests on `EmittedAnnounces`, the list of events of each
kind of request. The key step is `Commit`, which replaces the row by a version made
when the row was locked, while other requests began, wrote elsewhere and committed.
`TupleOK` says that this version is still the row as it is with the columns of the
request, because its request holds the lock; `CommitsUndoNothing` (`EditsAreNotLost`)
follows, and fails without it.

`ArticleCacheProofs` rests on the invariant of the articles, which the steps of the
editorial requests keep by the lemma proved there, and which `RefusalsKeepStatus`
shows to survive the events that readers add. `ReadersOK` says that what a reader has
read is a full article exactly when it was public, and that it comes to the store of a
preview only after the refusal is in the outbox; `EntriesOK` says the same of what is
stored. `OnlyTheTtlRemoves` is the proof of a divergence: of all that calls
`deleteManyByPattern`, nothing deletes an entry, because no pattern, once `key()` has
normalised it, matches the key of one.

`SubscriptionsProofs`. `WebhookTakesEffectOnce` counts processed webhooks, so the
invariant also says that a transaction which has inserted the key of its webhook
is the only one that has it and that the key is not processed (`KeysOK`), that a
webhook's payment exists (`HookOK`), that a row being inserted is known to no other
request (`NewRowOK`), that a subscription without a status has no payment (`RowsOK`),
and that `processed` is finite. `GoOnInv` treats the statements that go on inside a
transaction, `AbortInv` the transactions that end without writing, and
`CommitRequests` what all commits share; `CommitWebhook` is the key step.

`AccountsProofs`. What protects a promise of `auth.service.ts` is what the other
requests in flight know, so each part of `IInv` is about pairs of requests or about a
request and a row: nobody else is inserting the email a registration inserts, nor is
it that of a user who exists (`EmailsOK`); who has found its reset token holds the
row's lock, and it is live until then (`ResetsOK`); the counter a failed login has
read is not ahead of the failures there have been (`FailuresOK`); nobody is refreshing
a spent token (`SpentOK`); a calm revocation has found every session and nobody opens
one (`CalmOK`); who is demoted has not the role and no grant in flight (`RolesOK`).
`RequestsOK` ties the fields of a request to its kind and place.

`InteractionsProofs`. `OneLateImpression` needs to know where the one late impression
leaves its request: after it, the trigger ends the loop (`LeakOK`).
`LogBreaksOnlyByOverlap` needs that, of the moderations of a comment that have not
overlapped, one at most has its transaction open and knows the present status
(`CommentsOK`). For advertisements, an update that has read its row holds it, so that
it knows all the targets to delete and checks the window it will leave (`AdsOK`);
`WindowsStayOpen` says so of the advertisements: no two updates, each of one end of
the window, leave it empty.

`SupportProofs`. The variables of the components of `Support` are disjoint, and a step
of one leaves the invariants of the others alone. For rate limits, INCR numbers the
requests, so that no more are admitted than the counter says, and fewer as long as the
call that made the key has not set its TTL; one call at most has made it, and until
then nothing ends the window, so that there is still room for that call (`WindowOK`).
For the parts of an article, of several
requests for tags all but the holder of the row's lock wait, and the holder sees the
tags there are (`TagsOK`); requests for a cover know each other's media, and who has
cleared the covers knows every cover (`CoversOK`).

`BackupProofs`. Batches are only as good as the txids: those that have not been given
yet hold batches from before a failover only, nobody shares the txid of an open
transaction, and such a transaction has seen all that is committed under it
(`BatchesInv`). `RecordedBatch` says what the trigger appends; it rests on
`NextOrdinalIsNext`, that the highest ordinal is the number of items. For the backup
itself `JobOK` says what a job knows at each of its statements: after the dump, that
it holds what was committed when the run began; at the check, that the copy, if it is
still this run's and no other job overlapped, is the dump.

Assumptions on the constants are those of the modules: identifiers that stand for
"none" are no members of the set (`NoBatch` is not a batch, `NoRequest` not a
request), bounds are natural numbers, `Users` and `Media` are finite, and the rows a
model starts with are rows of their table.

Only model-checked: the liveness properties (`PendingIsPublished`, `RunsEnd`,
`RequestsEnd`, `PagesCatchUp`, `ListsCatchUp`), because TLAPS has no ENABLED and
no fairness. Conversely the type invariants, except that of `Accounts`, are proved and
not checked again. The violated properties are refuted by TLC. `Catalogues` has one
property, and it is a liveness property.

## 6. Not modelled

Amounts and currencies, prices, texts, listings and pagination, audit rows, login
attempts, `worker_runs`, correlation identifiers: no property depends on them.

Left out as components: notification preferences, permissions and search documents
rewritten by `rebuildArticle` are rows that single requests write and that nothing
but a listing reads; media and audit are an INSERT and listings; health, pipes,
filters, configuration, seeders and the smoke and validation scripts keep no state
that outlives a call.

## 7. Plan

Done: every module of section 2, and proofs of every safety and action property of the
passing runs.

Next:

1. Abstract specifications beside `EventDelivery`: what `WriteBatches` promises to the
   reader of a batch, and what `RateLimit` promises to a client, with the refinements
   proved from `BatchesInv` and `LimitInv`.
2. That the exemptions of section 3 are exact: theorems that name the pair of requests
   a broken log, a second cover or a mixture of tags comes from.
3. One module of facts about requests and locks that several proofs repeat.

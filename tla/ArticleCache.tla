----------------------------- MODULE ArticleCache -----------------------------
(***************************************************************************)
(* GET /articles/:slug (getPublishedArticleBySlug) and the Redis entry it  *)
(* keeps for anonymous readers, composed with the requests of              *)
(* ArticlePublishing, which call deleteManyByPattern before they commit,   *)
(* and with the cache consumer of the event pipeline (module EventOutbox), *)
(* which calls it again once the event is dispatched.  Which keys those    *)
(* calls delete is what module RedisKeys says: none.                       *)
(*                                                                         *)
(* Entries expire (60 or 120 s) at any time.  The lists that rememberJson  *)
(* keeps are in module Catalogues.                                         *)
(***************************************************************************)
EXTENDS ArticlePublishing, RedisKeys

CONSTANTS
  Visitors,      \* readers who are not logged in
  Subscribers,   \* logged-in readers with an active subscription
  Registered,    \* logged-in readers without
  NoEntry,
  MaxRefusals,   \* bound on the refusals that are recorded
  MaxRedisErrors \* bound on the commands that Redis fails to execute

Readers == Visitors \cup Subscribers \cup Registered

ASSUME ReadersAssumption ==
  /\ Visitors \cap (Subscribers \cup Registered) = {}
  /\ Subscribers \cap Registered = {}
  /\ MaxRefusals \in Nat
  /\ MaxRedisErrors \in Nat

VARIABLES
  entry,         \* what the key articles:detail:anonymous:<slug> holds
  delivered,     \* positions in outbox of the events dispatched
  rpc, reading,  \* a read that missed the cache, and its article
  payload,       \* the payload it builds
  refusals, redisErrors

readers == <<rpc, reading, payload>>
cacheVars == <<entry, delivered, readers, refusals, redisErrors>>

-----------------------------------------------------------------------------
\* The columns of article a that an answer shows, with the body or a preview.
Payload(a, full) ==
  [access |-> access[a], title |-> title[a], body |-> body[a], full |-> full]

NeedsInvalidation(e) ==
  e \in {"PublicArticlePublished", "PremiumArticlePublished",
         "ArticleUpdatedAfterPublication", "ArticleUnpublished"}

CacheInit ==
  /\ Init
  /\ entry = [a \in Articles |-> NoEntry]
  /\ delivered = [a \in Articles |-> {}]
  /\ rpc = [u \in Readers |-> "idle"]
  /\ reading = [u \in Readers |-> NoArticle]
  /\ payload = [u \in Readers |-> NoEntry]
  /\ refusals = 0
  /\ redisErrors = 0

RedisError ==
  /\ redisErrors < MaxRedisErrors
  /\ redisErrors' = redisErrors + 1

DetailKey(a) == Key(<<"articles", "detail", "anonymous", a>>)

\* The parts of the patterns that the editorial requests and the consumer pass.
Patterns == {<<"articles", "*">>, <<"ads", "*">>, <<"analytics", "*">>}

\* deleteManyByPattern: an error of Redis is swallowed and nothing is deleted.
DeleteAll ==
  \/ /\ entry' = [a \in Articles |->
                   IF Deleted(DetailKey(a), Patterns) THEN NoEntry ELSE entry[a]]
     /\ UNCHANGED redisErrors
  \/ /\ RedisError
     /\ UNCHANGED entry

-----------------------------------------------------------------------------
\* An editorial request; invalidateArticleCaches deletes the entries.
Edit ==
  \/ /\ \E r \in Requests :
          \/ BeginCreate(r) \/ BeginMutation(r) \/ Write(r) \/ Commit(r)
          \/ Rollback(r)
     /\ UNCHANGED cacheVars
  \/ /\ \E r \in Requests : Invalidate(r)
     /\ DeleteAll
     /\ UNCHANGED <<delivered, readers, refusals>>

\* The event pipeline dispatches an event, in whatever order; the consumer
\* cache-invalidation-worker deletes the entries.
Dispatch(a) ==
  /\ \E i \in DOMAIN outbox[a] \ delivered[a] :
       /\ delivered' = [delivered EXCEPT ![a] = @ \cup {i}]
       /\ IF NeedsInvalidation(outbox[a][i])
            THEN DeleteAll
            ELSE UNCHANGED <<entry, redisErrors>>
  /\ UNCHANGED <<vars, readers, refusals>>

Expire(a) ==
  /\ entry[a] # NoEntry
  /\ entry' = [entry EXCEPT ![a] = NoEntry]
  /\ UNCHANGED <<vars, delivered, readers, refusals, redisErrors>>

-----------------------------------------------------------------------------
(* Reads.                                                                  *)

\* Mutant: a visitor who finds an entry writes it back, to renew its TTL.
BeginReadRenewing(u, a) ==
  /\ rpc[u] = "idle"
  /\ IF u \in Visitors /\ entry[a] # NoEntry
       THEN /\ rpc' = [rpc EXCEPT ![u] = "store"]
            /\ payload' = [payload EXCEPT ![u] = entry[a]]
       ELSE /\ rpc' = [rpc EXCEPT ![u] = "query"]
            /\ UNCHANGED payload
  /\ reading' = [reading EXCEPT ![u] = a]
  /\ UNCHANGED <<vars, entry, delivered, refusals, redisErrors>>

\* A visitor who finds an entry gets it, and nothing changes.  Otherwise, or if
\* Redis fails, the article is read from the database.
BeginRead(u, a) ==
  /\ rpc[u] = "idle"
  /\ IF u \in Visitors /\ entry[a] # NoEntry
       THEN RedisError
       ELSE UNCHANGED redisErrors
  /\ rpc' = [rpc EXCEPT ![u] = "query"]
  /\ reading' = [reading EXCEPT ![u] = a]
  /\ UNCHANGED <<vars, entry, delivered, payload, refusals>>

EndRead(u) ==
  /\ rpc' = [rpc EXCEPT ![u] = "idle"]
  /\ reading' = [reading EXCEPT ![u] = NoArticle]
  /\ payload' = [payload EXCEPT ![u] = NoEntry]

\* Mutant: a refusal is not recorded.
QueryUnreported(u) ==
  LET a == reading[u]
      full == access[a] = "public" \/ u \in Subscribers
  IN /\ rpc[u] = "query"
     /\ IF status[a] = "published" /\ access[a] \in {"public", "premium"}
          THEN /\ payload' = [payload EXCEPT ![u] = Payload(a, full)]
               /\ rpc' = [rpc EXCEPT ![u] = "store"]
               /\ UNCHANGED reading
          ELSE EndRead(u)
     /\ UNCHANGED <<vars, entry, delivered, refusals, redisErrors>>

\* findArticleDetailBySlug and hasActiveSubscription: 404, a preview or all.
Query(u) ==
  LET a == reading[u]
      full == access[a] = "public" \/ u \in Subscribers
  IN /\ rpc[u] = "query"
     /\ IF status[a] = "published" /\ access[a] \in {"public", "premium"}
          THEN /\ payload' = [payload EXCEPT ![u] = Payload(a, full)]
               /\ rpc' = [rpc EXCEPT ![u] = IF full THEN "store" ELSE "deny"]
               /\ UNCHANGED reading
          ELSE EndRead(u)
     /\ UNCHANGED <<vars, entry, delivered, refusals, redisErrors>>

\* writeOutbox outside of any transaction.
Deny(u) ==
  /\ rpc[u] = "deny"
  /\ refusals < MaxRefusals
  /\ refusals' = refusals + 1
  /\ outbox' = [outbox EXCEPT ![reading[u]] =
                  Append(@, "PremiumArticleAccessDenied")]
  /\ rpc' = [rpc EXCEPT ![u] = "store"]
  /\ UNCHANGED <<row, revisions, rowLock, pc, request, requests, failures,
                 entry, delivered, reading, payload, redisErrors>>

\* Mutant: the payload of a logged-in user is cached too.
StoreForEveryone(u) ==
  /\ rpc[u] = "store"
  /\ \/ /\ entry' = [entry EXCEPT ![reading[u]] = payload[u]]
        /\ UNCHANGED redisErrors
     \/ /\ RedisError
        /\ UNCHANGED entry
  /\ EndRead(u)
  /\ UNCHANGED <<vars, delivered, refusals>>

\* setJson for a visitor, whose errors are swallowed; then the answer.
Store(u) ==
  /\ rpc[u] = "store"
  /\ \/ /\ entry' = IF u \in Visitors
                      THEN [entry EXCEPT ![reading[u]] = payload[u]]
                      ELSE entry
        /\ UNCHANGED redisErrors
     \/ /\ u \in Visitors
        /\ RedisError
        /\ UNCHANGED entry
  /\ EndRead(u)
  /\ UNCHANGED <<vars, delivered, refusals>>

Read(u) == Query(u) \/ Deny(u) \/ Store(u)

\* POST /admin/cache-invalidation/articles/:id: the same patterns, by hand.
InvalidateArticle(a) ==
  /\ status[a] # "none"
  /\ DeleteAll
  /\ UNCHANGED <<vars, delivered, readers, refusals>>

CacheNext ==
  \/ Edit
  \/ \E a \in Articles : Dispatch(a) \/ InvalidateArticle(a) \/ Expire(a)
  \/ \E u \in Readers, a \in Articles : BeginRead(u, a)
  \/ \E u \in Readers : Read(u)

CacheSpec == CacheInit /\ [][CacheNext]_<<vars, cacheVars>>

\* TTLs pass; nobody has to read, edit or dispatch.
FairCacheSpec ==
  CacheSpec /\ \A a \in Articles : WF_<<vars, cacheVars>>(Expire(a))

-----------------------------------------------------------------------------
(* Properties.                                                             *)

\* The entry for anonymous readers holds the body of an article only if it was
\* public when it was read, whoever reads at the same time (rule 7 of
\* REGLAS_NEGOCIO_CRITICAS.md, the anonymous key of getPublishedArticleBySlug).
CachedPremiumIsPreview ==
  \A a \in Articles : entry[a] # NoEntry =>
    entry[a].full = (entry[a].access = "public")

\* Once the article changes no more, its entry is gone or shows it as it is, for good:
\* a read that began before the last change may put the old page back, but only once,
\* since what is stored comes from the database and never from the entry
\* (getPublishedArticleBySlug; nothing but the TTL of setJson removes an entry).
PagesCatchUp ==
  \A a \in Articles : <>[](\/ entry[a] = NoEntry
                           \/ /\ status[a] = "published"
                              /\ entry[a] = Payload(a, access[a] = "public"))

\* A preview of a premium article is cached only after the refusal has been
\* recorded for the outbox's consumers (getPublishedArticleBySlug, whose writeOutbox
\* is a statement of its own and can be followed by any edit).
PreviewsAreReported ==
  \A a \in Articles :
    entry[a] # NoEntry /\ ~ entry[a].full =>
      \E i \in DOMAIN outbox[a] : outbox[a][i] = "PremiumArticleAccessDenied"

\* An editorial request drops the cached pages of the articles, unless Redis fails
\* (docs/cache/redis.md:29-36).
InvalidationDropsPages ==
  [][(\E r \in Requests : Invalidate(r)) /\ redisErrors' = redisErrors
     => entry' = [a \in Articles |-> NoEntry]]_<<vars, cacheVars>>
=============================================================================

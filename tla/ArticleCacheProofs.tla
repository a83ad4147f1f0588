-------------------------- MODULE ArticleCacheProofs --------------------------
(***************************************************************************)
(* Proofs about ArticleCache, for any readers, articles, requests and      *)
(* bounds.  The requests of ArticlePublishing keep their invariant when    *)
(* readers and the cache are added, whose only write to the tables is the  *)
(* event of a refusal.                                                     *)
(***************************************************************************)
EXTENDS ArticleCache, ArticlePublishingProofs

-----------------------------------------------------------------------------
(* The inductive invariant.                                                *)

Page == [access : AccessTypes, title : Nat, body : Nat, full : BOOLEAN]

\* A refusal to show article a has been recorded.
Reported(a) ==
  \E i \in DOMAIN outbox[a] : outbox[a][i] = "PremiumArticleAccessDenied"

\* What a read that missed the cache is about to store.
ReadersOK ==
  /\ rpc \in [Readers -> {"idle", "query", "deny", "store"}]
  /\ reading \in [Readers -> Articles \cup {NoArticle}]
  /\ payload \in [Readers -> Page \cup {NoEntry}]
  /\ \A u \in Readers : rpc[u] # "idle" => reading[u] \in Articles
  /\ \A u \in Readers : rpc[u] \in {"deny", "store"} =>
       /\ payload[u] \in Page
       /\ u \in Visitors => payload[u].full = (payload[u].access = "public")
  /\ \A u \in Readers : rpc[u] = "store" /\ ~ payload[u].full => Reported(reading[u])

EntriesOK ==
  /\ entry \in [Articles -> Page \cup {NoEntry}]
  /\ CachedPremiumIsPreview
  /\ PreviewsAreReported

CacheInv == IInv /\ ReadersOK /\ EntriesOK

-----------------------------------------------------------------------------
(* Lemmas.                                                                 *)

\* No pattern matches a key: key() has replaced its star.
LEMMA NoKeyIsDeleted ==
  ASSUME NEW a
  PROVE  ~ Deleted(DetailKey(a), Patterns)
<1>1. 3 \in DOMAIN DetailKey(a)
  BY DEF DetailKey, Key
<1>2. ASSUME NEW x
      PROVE  ~ Matches(DetailKey(a), Key(<<x, "*">>))
  <2>1. 3 \notin DOMAIN Key(<<x, "*">>)
    BY DEF Key
  <2>2. Len(Key(<<x, "*">>)) = 2 /\ Key(<<x, "*">>)[2] = "_"
    BY DEF Key, NormalizePart
  <2>3. DetailKey(a) # Key(<<x, "*">>)
    BY <1>1, <2>1
  <2> QED BY <2>2, <2>3 DEF Matches
<1> QED BY <1>2 DEF Deleted, Patterns

\* So an invalidation changes no entry, whether Redis fails or not.
LEMMA DeleteAllKeeps ==
  ASSUME EntriesOK, DeleteAll
  PROVE  UNCHANGED entry
<1>1. CASE entry' = [a \in Articles |->
                 IF Deleted(DetailKey(a), Patterns) THEN NoEntry ELSE entry[a]]
  BY <1>1, NoKeyIsDeleted DEF EntriesOK
<1> QED BY <1>1 DEF DeleteAll

\* What has been recorded stays: a transaction only adds to the outbox.
LEMMA OutboxGrows ==
  ASSUME IInv, [Next]_vars, NEW a \in Articles, Reported(a)
  PROVE  Reported(a)'
<1>1. CASE UNCHANGED outbox
  BY <1>1 DEF Reported
<1>2. ASSUME NEW r \in Requests, Commit(r)
      PROVE  Reported(a)'
  <2>1. outbox' = [outbox EXCEPT ![art[r]] = outbox[art[r]] \o Emitted(r)]
    BY <1>2 DEF Commit
  <2>2. outbox \in [Articles -> Seq(EventTypes)] /\ Emitted(r) \in Seq(EventTypes)
    BY EmittedType DEF IInv, TypeOK
  <2>3. CASE art[r] # a
    BY <2>1, <2>2, <2>3 DEF Reported
  <2>4. CASE art[r] = a
    <3>1. outbox'[a] = outbox[a] \o Emitted(r)
      BY <2>1, <2>2, <2>4
    <3>2. PICK i \in DOMAIN outbox[a] : outbox[a][i] = "PremiumArticleAccessDenied"
      BY DEF Reported
    <3>3. i \in DOMAIN outbox'[a] /\ outbox'[a][i] = outbox[a][i]
      BY <2>2, <3>1, <3>2
    <3> QED BY <3>2, <3>3 DEF Reported
  <2> QED BY <2>3, <2>4
<1>3. UNCHANGED outbox \/ \E r \in Requests : Commit(r)
  BY DEF Next, Serve, BeginCreate, BeginMutation, Write, Invalidate, Rollback,
         PublicationTimeReached, tables, vars
<1> QED BY <1>1, <1>2, <1>3

\* The readers and the entries do not mind what is published meanwhile.
LEMMA PublishingKeeps ==
  ASSUME CacheInv, \A a \in Articles : Reported(a) => Reported(a)'
  PROVE  /\ UNCHANGED readers => ReadersOK'
         /\ UNCHANGED entry => EntriesOK'
<1>1. UNCHANGED readers => ReadersOK'
  BY DEF CacheInv, ReadersOK, readers
<1>2. UNCHANGED entry => EntriesOK'
  BY DEF CacheInv, EntriesOK, CachedPremiumIsPreview, PreviewsAreReported, Reported
<1> QED BY <1>1, <1>2

\* A step that leaves the tables and the requests alone.
LEMMA TablesStay ==
  ASSUME CacheInv, UNCHANGED vars
  PROVE  IInv' /\ \A a \in Articles : Reported(a) => Reported(a)'
<1>1. IInv'
  BY StutterInv DEF CacheInv
<1>2. UNCHANGED outbox
  BY DEF vars, tables
<1> QED BY <1>1, <1>2 DEF Reported

-----------------------------------------------------------------------------
(* Every step preserves the invariant.                                     *)

LEMMA EditInv ==
  ASSUME CacheInv, Edit
  PROVE  CacheInv'
<1>1. Next /\ (UNCHANGED cacheVars \/ (DeleteAll /\ UNCHANGED readers))
  BY DEF Edit, Next, Serve
<1>2. UNCHANGED <<entry, readers>>
  BY <1>1, DeleteAllKeeps DEF CacheInv, cacheVars
<1>3. IInv'
  BY <1>1, NextInv, ArticlesAssumption DEF CacheInv
<1>4. ReadersOK' /\ EntriesOK'
  BY <1>1, <1>2, OutboxGrows, PublishingKeeps DEF CacheInv
<1> QED BY <1>3, <1>4 DEF CacheInv

LEMMA RemovalInv ==
  ASSUME CacheInv, NEW a \in Articles, Dispatch(a) \/ InvalidateArticle(a) \/ Expire(a)
  PROVE  CacheInv'
<1>1. UNCHANGED <<vars, readers>>
  BY DEF Dispatch, InvalidateArticle, Expire
<1>2. IInv' /\ ReadersOK'
  BY <1>1, TablesStay, PublishingKeeps
<1>3. UNCHANGED entry \/ entry' = [entry EXCEPT ![a] = NoEntry]
  BY DeleteAllKeeps DEF CacheInv, Dispatch, InvalidateArticle, Expire
<1>4. EntriesOK'
  <2>1. CASE UNCHANGED entry
    BY <1>1, <2>1, TablesStay, PublishingKeeps
  <2>2. CASE entry' = [entry EXCEPT ![a] = NoEntry]
    <3>1. UNCHANGED outbox
      BY <1>1 DEF vars, tables
    <3> QED BY <2>2, <3>1 DEF CacheInv, EntriesOK, CachedPremiumIsPreview,
               PreviewsAreReported
  <2> QED BY <1>3, <2>1, <2>2
<1> QED BY <1>2, <1>4 DEF CacheInv

LEMMA BeginReadInv ==
  ASSUME CacheInv, NEW u \in Readers, NEW a \in Articles, BeginRead(u, a)
  PROVE  CacheInv'
<1>1. /\ UNCHANGED <<vars, entry, payload>>
      /\ rpc' = [rpc EXCEPT ![u] = "query"]
      /\ reading' = [reading EXCEPT ![u] = a]
  BY DEF BeginRead
<1>2. IInv' /\ EntriesOK'
  BY <1>1, TablesStay, PublishingKeeps
<1>3. ReadersOK'
  BY <1>1, TablesStay DEF CacheInv, ReadersOK
<1> QED BY <1>2, <1>3 DEF CacheInv

LEMMA QueryInv ==
  ASSUME CacheInv, NEW u \in Readers, Query(u)
  PROVE  CacheInv'
<1> DEFINE a == reading[u]
           full == access[a] = "public" \/ u \in Subscribers
<1>1. /\ UNCHANGED <<vars, entry>> /\ rpc[u] = "query"
      /\ a \in Articles /\ access[a] \in AccessTypes /\ title[a] \in Nat /\ body[a] \in Nat
  BY DEF Query, CacheInv, IInv, TypeOK, ReadersOK
<1>2. IInv' /\ EntriesOK' /\ \A b \in Articles : Reported(b) => Reported(b)'
  BY <1>1, TablesStay, PublishingKeeps
<1>3. CASE EndRead(u)
  BY <1>2, <1>3 DEF EndRead, CacheInv, ReadersOK
<1>4. CASE /\ payload' = [payload EXCEPT ![u] = Payload(a, full)]
           /\ rpc' = [rpc EXCEPT ![u] = IF full THEN "store" ELSE "deny"]
           /\ UNCHANGED reading
  <2>1. full \in BOOLEAN /\ (u \in Visitors => full = (access[a] = "public"))
    BY ReadersAssumption DEF ReadersAssumption
  <2>2. /\ Payload(a, full) \in Page
        /\ Payload(a, full).full = full /\ Payload(a, full).access = access[a]
    BY <1>1, <2>1 DEF Payload, Page
  <2> HIDE DEF a, full
  <2>3. ReadersOK'
    BY <1>1, <1>2, <1>4, <2>1, <2>2 DEF CacheInv, ReadersOK, a
  <2> QED BY <1>2, <2>3 DEF CacheInv
<1> QED BY <1>2, <1>3, <1>4 DEF Query, CacheInv

LEMMA DenyInv ==
  ASSUME CacheInv, NEW u \in Readers, Deny(u)
  PROVE  CacheInv'
<1>0. PICK a \in Articles : reading[u] = a
  BY DEF Deny, CacheInv, ReadersOK
<1> DEFINE refusal == <<"PremiumArticleAccessDenied">>
<1>1. /\ TypeOK /\ ReadersOK /\ rpc[u] = "deny"
      /\ outbox' = [outbox EXCEPT ![a] = Append(outbox[a], "PremiumArticleAccessDenied")]
      /\ rpc' = [rpc EXCEPT ![u] = "store"]
      /\ UNCHANGED <<row, revisions, rowLock, pc, request, requests, failures, entry,
                     reading, payload>>
  BY <1>0 DEF Deny, CacheInv, IInv
<1>2. /\ outbox[a] \in Seq(EventTypes) /\ refusal \in Seq(EventTypes) /\ Silent(refusal)
      /\ outbox'[a] = outbox[a] \o refusal
      /\ \A b \in Articles \ {a} : outbox'[b] = outbox[b]
  <2>1. outbox \in [Articles -> Seq(EventTypes)]
    BY <1>1 DEF TypeOK
  <2>2. "PremiumArticleAccessDenied" \in EventTypes
    BY DEF EventTypes
  <2>3. Announced("PremiumArticleAccessDenied") = "none"
    BY DEF Announced
  <2>4. refusal \in Seq(EventTypes) /\ Silent(refusal)
    BY <2>2, <2>3 DEF Silent
  <2>5. outbox'[a] = Append(outbox[a], "PremiumArticleAccessDenied")
    BY <1>1, <2>1
  <2>6. Append(outbox[a], "PremiumArticleAccessDenied") = outbox[a] \o refusal
    BY <2>1, <2>2
  <2> QED BY <1>1, <2>1, <2>4, <2>5, <2>6
<1>3. outbox' \in [Articles -> Seq(EventTypes)]
  BY <1>1, <1>2 DEF TypeOK, EventTypes
<1>4. LastEventTellsStatus'
  <2> SUFFICES ASSUME NEW b \in Articles, status[b] # "none"
               PROVE  Tells(outbox'[b], status[b])
    BY <1>1 DEF LastEventTellsStatus, Tells, row
  <2>1. Tells(outbox[b], status[b])
    BY DEF CacheInv, IInv, LastEventTellsStatus, Tells
  <2> QED BY <1>2, <2>1, AppendEvents
<1>5. IInv'
  <2>1. TypeOK'
    BY <1>1, <1>3 DEF TypeOK, row, request, seen, asked
  <2>2. RequestOK' /\ PublishedInThePast' /\ TextsAreInRevisions'
    BY <1>1 DEF CacheInv, IInv, RequestOK, PublishedInThePast, TextsAreInRevisions, row,
       request, asked
  <2>3. TupleOK'
    BY <1>1, TupleFrame DEF CacheInv, row, request, asked
  <2> QED BY <1>4, <2>1, <2>2, <2>3 DEF IInv
<1>6. Reported(a)' /\ \A b \in Articles : Reported(b) => Reported(b)'
  <2>1. Len(outbox[a]) + 1 \in DOMAIN outbox'[a]
        /\ outbox'[a][Len(outbox[a]) + 1] = "PremiumArticleAccessDenied"
    BY <1>2
  <2>2. Reported(a)'
    BY <2>1 DEF Reported
  <2> QED BY <1>2, <2>2 DEF Reported
<1>7. EntriesOK'
  BY <1>1, <1>6, PublishingKeeps
<1>8. ReadersOK'
  BY <1>0, <1>1, <1>6 DEF ReadersOK
<1> QED BY <1>5, <1>7, <1>8 DEF CacheInv

LEMMA StoreInv ==
  ASSUME CacheInv, NEW u \in Readers, Store(u)
  PROVE  CacheInv'
<1>1. /\ UNCHANGED vars /\ rpc[u] = "store" /\ EndRead(u)
      /\ reading[u] \in Articles /\ payload[u] \in Page
  BY DEF Store, CacheInv, ReadersOK
<1>2. /\ IInv' /\ UNCHANGED outbox
      /\ \A b \in Articles : Reported(b) => Reported(b)'
  BY <1>1, TablesStay DEF vars, tables
<1>3. ReadersOK'
  BY <1>1, <1>2 DEF EndRead, CacheInv, ReadersOK
<1>4. EntriesOK'
  <2>1. CASE UNCHANGED entry
    BY <1>2, <2>1, PublishingKeeps
  <2>2. CASE u \in Visitors /\ entry' = [entry EXCEPT ![reading[u]] = payload[u]]
    <3>1. /\ payload[u].full = (payload[u].access = "public")
          /\ ~ payload[u].full => Reported(reading[u])
      BY <1>1, <2>2 DEF CacheInv, ReadersOK
    <3> QED BY <1>1, <1>2, <2>2, <3>1 DEF CacheInv, EntriesOK, CachedPremiumIsPreview,
               PreviewsAreReported, Reported
  <2> QED BY <2>1, <2>2 DEF Store
<1> QED BY <1>2, <1>3, <1>4 DEF CacheInv

LEMMA CacheStutterInv ==
  ASSUME CacheInv, UNCHANGED <<vars, cacheVars>>
  PROVE  CacheInv'
BY TablesStay, PublishingKeeps DEF CacheInv, cacheVars

LEMMA CacheInitInv ==
  ASSUME CacheInit
  PROVE  CacheInv
<1>1. IInv
  BY InitInv, ArticlesAssumption DEF CacheInit
<1> QED BY <1>1 DEF CacheInit, CacheInv, ReadersOK, EntriesOK, CachedPremiumIsPreview,
           PreviewsAreReported

LEMMA CacheNextInv ==
  ASSUME CacheInv, [CacheNext]_<<vars, cacheVars>>
  PROVE  CacheInv'
BY EditInv, RemovalInv, BeginReadInv, QueryInv, DenyInv, StoreInv, CacheStutterInv
   DEF CacheNext, Read

LEMMA CacheInvariant == CacheSpec => []CacheInv
BY CacheInitInv, CacheNextInv, PTL DEF CacheSpec

-----------------------------------------------------------------------------
(* The theorems.                                                           *)

\* The body of an article is in the entry for anonymous readers only if it was public
\* when it was read, whoever reads and edits at the same time.
THEOREM CachedPagesArePublic == CacheSpec => []CachedPremiumIsPreview
<1>1. CacheInv => CachedPremiumIsPreview
  BY DEF CacheInv, EntriesOK
<1> QED BY <1>1, CacheInvariant, PTL

\* A cached preview has been reported to the outbox, from which no edit removes it.
THEOREM CachedPreviewsAreReported == CacheSpec => []PreviewsAreReported
<1>1. CacheInv => PreviewsAreReported
  BY DEF CacheInv, EntriesOK
<1> QED BY <1>1, CacheInvariant, PTL

\* With readers, whose refusals go to the outbox between the events of the requests,
\* the last event that announces a status still announces the one there is.
THEOREM RefusalsKeepStatus == CacheSpec => []LastEventTellsStatus
<1>1. CacheInv => LastEventTellsStatus
  BY DEF CacheInv, IInv
<1> QED BY <1>1, CacheInvariant, PTL

\* An entry changes because its TTL is over or because a read is stored: no editorial
\* request, no event and no call of the administrator ever deletes one, although all
\* of them try (deleteManyByPattern, whose patterns key() has normalised).
THEOREM OnlyTheTtlRemoves ==
  CacheSpec => [][\A a \in Articles : entry'[a] # entry[a] =>
                    Expire(a) \/ \E u \in Readers : Store(u) /\ reading[u] = a
                 ]_<<vars, cacheVars>>
<1> DEFINE Step == \A a \in Articles : entry'[a] # entry[a] =>
                     Expire(a) \/ \E u \in Readers : Store(u) /\ reading[u] = a
<1>1. CacheInv /\ [CacheNext]_<<vars, cacheVars>> => [Step]_<<vars, cacheVars>>
  <2> SUFFICES ASSUME CacheInv, CacheNext, NEW a \in Articles, entry'[a] # entry[a]
               PROVE  Expire(a) \/ \E u \in Readers : Store(u) /\ reading[u] = a
    OBVIOUS
  <2>1. EntriesOK /\ entry \in [Articles -> Page \cup {NoEntry}]
    BY DEF CacheInv, EntriesOK
  <2>2. ~ Edit
    BY <2>1, DeleteAllKeeps DEF Edit, cacheVars
  <2>3. \A b \in Articles : ~ Dispatch(b) /\ ~ InvalidateArticle(b)
    BY <2>1, DeleteAllKeeps DEF Dispatch, InvalidateArticle
  <2>4. \A u \in Readers : ~ Query(u) /\ ~ Deny(u) /\ \A b \in Articles : ~ BeginRead(u, b)
    BY DEF Query, Deny, BeginRead
  <2>5. CASE \E b \in Articles : Expire(b)
    BY <2>1, <2>5 DEF Expire
  <2>6. CASE \E u \in Readers : Store(u)
    BY <2>1, <2>6 DEF Store
  <2> QED BY <2>2, <2>3, <2>4, <2>5, <2>6 DEF CacheNext, Read
<1> QED BY <1>1, CacheInvariant, PTL DEF CacheSpec
=============================================================================

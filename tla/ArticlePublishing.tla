-------------------------- MODULE ArticlePublishing --------------------------
(***************************************************************************)
(* The editorial requests of src/src/articles/articles.service.ts.  Each   *)
(* is one PostgreSQL transaction (READ COMMITTED) of several awaited       *)
(* statements: SELECT the article, which locks nothing; UPDATE it, which   *)
(* waits for and keeps the row's lock; INSERT the outbox, revision and     *)
(* audit rows; delete keys in Redis, at once; COMMIT.  Requests interleave *)
(* between any two of them, so what a request has read may be old when it  *)
(* writes.                                                                 *)
(*                                                                         *)
(* A request is abstracted to the columns the code branches on or that     *)
(* must agree with another table: status, access_type, published_at, and   *)
(* the versions of title and body.  The rows of article_media and          *)
(* article_tags are left out: attachMedia only invalidates here.           *)
(***************************************************************************)
EXTENDS Integers, Sequences

CONSTANTS
  Articles,
  NoArticle,
  Requests,      \* slots for requests being served, one connection each
  NoRequest,
  Updates,       \* bodies of PATCH: <<the text fields, the accessType>> given
  MaxRequests,   \* bound on the requests that are made
  MaxFailures    \* bound on the requests that fail between two statements

Fields == {"title", "body"}
AccessTypes == {"public", "premium", "internal_only"}
Statuses == {"draft", "in_review", "changes_requested", "approved",
             "scheduled", "published", "unpublished", "archived"}

ASSUME ArticlesAssumption ==
  /\ NoRequest \notin Requests
  /\ NoArticle \notin Articles
  /\ Updates \subseteq (SUBSET Fields) \X (AccessTypes \cup {"unchanged"})
  /\ MaxRequests \in Nat
  /\ MaxFailures \in Nat

VARIABLES
  \* --- committed rows
  status,        \* articles.status, "none" while there is no such row
  access,        \* articles.access_type
  publishedAt,   \* articles.published_at: "null", "past" or "future"
  title, body,   \* versions of the two texts
  revisions,     \* article_revisions: pairs of snapshots
  outbox,        \* event_type of an article's rows of event_outbox, in the
                 \* order in which they were committed
  rowLock,       \* the request that updated the row and has not committed
  \* --- requests being served
  pc, kind, art,
  edits,         \* fields of text the PATCH gives
  newAccess,     \* accessType the POST or PATCH gives, or "unchanged"
  stamp,         \* the version of the texts it gives
  seenAccess, seenTitle, seenBody,
                 \* what getCurrentArticleForMutation returned
  tuple,         \* the version of the row its INSERT or UPDATE has made
  requests, failures

row     == <<status, access, publishedAt, title, body>>
tables  == <<row, revisions, outbox>>
seen    == <<seenAccess, seenTitle, seenBody>>
asked   == <<kind, art, edits, newAccess, stamp>>
request == <<asked, seen, tuple>>
vars    == <<tables, rowLock, pc, request, requests, failures>>

-----------------------------------------------------------------------------
Transitions == {"submitReview", "requestChanges", "approve", "schedule",
                "publish", "unpublish", "archive"}
Kinds == Transitions \cup {"create", "update", "attachMedia"}

\* The decorators of ArticlesAdminController.
MayCall(r, k) ==
  r = "editor" \/ k \in {"create", "update", "submitReview", "attachMedia"}

StatusAfter(k) ==
  CASE k = "create" -> "draft"
    [] k = "submitReview" -> "in_review"
    [] k = "requestChanges" -> "changes_requested"
    [] k = "approve" -> "approved"
    [] k = "schedule" -> "scheduled"
    [] k = "publish" -> "published"
    [] k = "unpublish" -> "unpublished"
    [] k = "archive" -> "archived"

\* Mutant: published_at is only set when it is null.
DateAfterFirstOnly(k, date) ==
  CASE k = "publish" -> IF date = "null" THEN "past" ELSE date
    [] k = "schedule" -> "future"
    [] OTHER -> date

DateAfter(k, date) ==
  CASE k = "publish" -> "past"
    [] k = "schedule" -> "future"
    [] OTHER -> date

\* The rows the transaction of r adds to the outbox.
Emitted(r) ==
  CASE kind[r] = "create" -> <<"ArticleDraftCreated">>
    [] kind[r] = "update" -> <<"ArticleUpdatedAfterPublication">>
    [] kind[r] = "submitReview" -> <<"ArticleSubmittedForReview">>
    [] kind[r] = "requestChanges" -> <<"ArticleChangesRequested">>
    [] kind[r] = "approve" -> <<"ArticleApproved">>
    [] kind[r] = "schedule" -> <<"ArticleScheduled">>
    [] kind[r] = "publish" ->
         IF seenAccess[r] = "premium"
           THEN <<"PremiumArticlePublished", "PremiumAdSlotsDisabled">>
           ELSE <<"PublicArticlePublished", "PublicAdSlotsEnabled">>
    [] kind[r] = "unpublish" -> <<"ArticleUnpublished">>
    [] kind[r] = "archive" -> <<"ArticleArchived">>
    [] kind[r] = "attachMedia" -> <<>>

EventTypes == {"ArticleDraftCreated", "ArticleUpdatedAfterPublication",
  "ArticleSubmittedForReview", "ArticleChangesRequested", "ArticleApproved",
  "ArticleScheduled", "PremiumArticlePublished", "PremiumAdSlotsDisabled",
  "PublicArticlePublished", "PublicAdSlotsEnabled", "ArticleUnpublished",
  "ArticleArchived", "PremiumArticleAccessDenied"}

\* The status an event announces to its consumers, "none" if it does not.
Announced(e) ==
  CASE e = "ArticleDraftCreated" -> "draft"
    [] e = "ArticleSubmittedForReview" -> "in_review"
    [] e = "ArticleChangesRequested" -> "changes_requested"
    [] e = "ArticleApproved" -> "approved"
    [] e = "ArticleScheduled" -> "scheduled"
    [] e \in {"PremiumArticlePublished", "PublicArticlePublished"} -> "published"
    [] e = "ArticleUnpublished" -> "unpublished"
    [] e = "ArticleArchived" -> "archived"
    [] OTHER -> "none"

\* The request has an UPDATE of articles, so that it takes the row's lock.
WritesRow(r) ==
  \/ kind[r] \in Transitions
  \/ kind[r] = "update" /\ (edits[r] # {} \/ newAccess[r] # "unchanged")

\* A version of the row of articles, without published_at.
Tuples == [status : Statuses \cup {"none"}, access : AccessTypes, title : Nat, body : Nat]

NoTuple == [status |-> "none", access |-> "public", title |-> 0, body |-> 0]

TypeOK ==
  /\ status \in [Articles -> Statuses \cup {"none"}]
  /\ access \in [Articles -> AccessTypes]
  /\ publishedAt \in [Articles -> {"null", "past", "future"}]
  /\ title \in [Articles -> Nat]
  /\ body \in [Articles -> Nat]
  /\ revisions \in [Articles -> SUBSET (Nat \X Nat)]
  /\ outbox \in [Articles -> Seq(EventTypes)]
  /\ rowLock \in [Articles -> Requests \cup {NoRequest}]
  /\ pc \in [Requests -> {"idle", "write", "invalidate", "commit"}]
  /\ kind \in [Requests -> Kinds]
  /\ art \in [Requests -> Articles \cup {NoArticle}]
  /\ edits \in [Requests -> SUBSET Fields]
  /\ newAccess \in [Requests -> AccessTypes \cup {"unchanged"}]
  /\ stamp \in [Requests -> Nat]
  /\ seenAccess \in [Requests -> AccessTypes]
  /\ seenTitle \in [Requests -> Nat]
  /\ seenBody \in [Requests -> Nat]
  /\ tuple \in [Requests -> Tuples]
  /\ requests \in 0..MaxRequests
  /\ failures \in 0..MaxFailures

Init ==
  /\ status = [a \in Articles |-> "none"]
  /\ access = [a \in Articles |-> "public"]
  /\ publishedAt = [a \in Articles |-> "null"]
  /\ title = [a \in Articles |-> 0]
  /\ body = [a \in Articles |-> 0]
  /\ revisions = [a \in Articles |-> {}]
  /\ outbox = [a \in Articles |-> <<>>]
  /\ rowLock = [a \in Articles |-> NoRequest]
  /\ pc = [r \in Requests |-> "idle"]
  /\ kind = [r \in Requests |-> "update"]
  /\ art = [r \in Requests |-> NoArticle]
  /\ edits = [r \in Requests |-> {}]
  /\ newAccess = [r \in Requests |-> "unchanged"]
  /\ stamp = [r \in Requests |-> 0]
  /\ seenAccess = [r \in Requests |-> "public"]
  /\ seenTitle = [r \in Requests |-> 0]
  /\ seenBody = [r \in Requests |-> 0]
  /\ tuple = [r \in Requests |-> NoTuple]
  /\ requests = 0
  /\ failures = 0

-----------------------------------------------------------------------------
(* Serving a request.                                                      *)

Goto(r, where) == pc' = [pc EXCEPT ![r] = where]

\* POST /admin/articles and the INSERT: nobody sees the new row before it is
\* committed.
BeginCreate(r) ==
  /\ pc[r] = "idle"
  /\ requests < MaxRequests
  /\ requests' = requests + 1
  /\ \E a \in Articles, t \in AccessTypes :
       /\ status[a] = "none"
       /\ \A o \in Requests : art[o] # a
       /\ art' = [art EXCEPT ![r] = a]
       /\ newAccess' = [newAccess EXCEPT ![r] = t]
       /\ tuple' = [tuple EXCEPT ![r] = [status |-> StatusAfter("create"), access |-> t,
                      title |-> requests + 1, body |-> requests + 1]]
  /\ kind' = [kind EXCEPT ![r] = "create"]
  /\ edits' = [edits EXCEPT ![r] = Fields]
  /\ stamp' = [stamp EXCEPT ![r] = requests + 1]
  /\ Goto(r, "invalidate")
  /\ UNCHANGED <<tables, rowLock, seen, failures>>

\* The SELECT of getCurrentArticleForMutation and the checks that follow it:
\* publish refuses internal_only articles, update refuses a journalist's change
\* of a published or archived one.
BeginMutation(r) ==
  /\ pc[r] = "idle"
  /\ requests < MaxRequests
  /\ requests' = requests + 1
  /\ \E a \in Articles, k \in Kinds \ {"create"}, by \in {"editor", "journalist"} :
       /\ status[a] # "none"
       /\ MayCall(by, k)
       /\ k = "publish" => access[a] # "internal_only"
       /\ k = "update" /\ by = "journalist"
            => status[a] \notin {"published", "archived"}
       /\ art' = [art EXCEPT ![r] = a]
       /\ kind' = [kind EXCEPT ![r] = k]
       /\ seenAccess' = [seenAccess EXCEPT ![r] = access[a]]
       /\ seenTitle' = [seenTitle EXCEPT ![r] = title[a]]
       /\ seenBody' = [seenBody EXCEPT ![r] = body[a]]
       /\ IF k = "update"
            THEN \E u \in Updates :
                   /\ edits' = [edits EXCEPT ![r] = u[1]]
                   /\ newAccess' = [newAccess EXCEPT ![r] = u[2]]
            ELSE UNCHANGED <<edits, newAccess>>
  /\ stamp' = [stamp EXCEPT ![r] = requests + 1]
  /\ Goto(r, "write")
  /\ UNCHANGED <<tables, rowLock, tuple, failures>>

\* Mutant: the UPDATE sets every column, to what was read where none is given.
UpdatedAllColumns(r) ==
  [status |-> IF kind[r] \in Transitions THEN StatusAfter(kind[r]) ELSE status[art[r]],
   access |-> IF newAccess[r] = "unchanged" THEN seenAccess[r] ELSE newAccess[r],
   title  |-> IF "title" \in edits[r] THEN stamp[r] ELSE seenTitle[r],
   body   |-> IF "body" \in edits[r] THEN stamp[r] ELSE seenBody[r]]

\* The version that the UPDATE makes of the row as it is: the columns the request
\* gives are new, the others are copied.
Updated(r) ==
  LET a == art[r] IN
  [status |-> IF kind[r] \in Transitions THEN StatusAfter(kind[r]) ELSE status[a],
   access |-> IF newAccess[r] = "unchanged" THEN access[a] ELSE newAccess[r],
   title  |-> IF "title" \in edits[r] THEN stamp[r] ELSE title[a],
   body   |-> IF "body" \in edits[r] THEN stamp[r] ELSE body[a]]

\* Mutant: writeOutbox is called without the transaction.
WriteAutocommittingOutbox(r) ==
  /\ pc[r] = "write"
  /\ IF WritesRow(r)
       THEN /\ rowLock[art[r]] = NoRequest
            /\ rowLock' = [rowLock EXCEPT ![art[r]] = r]
            /\ tuple' = [tuple EXCEPT ![r] = Updated(r)]
       ELSE UNCHANGED <<rowLock, tuple>>
  /\ outbox' = [outbox EXCEPT ![art[r]] = @ \o Emitted(r)]
  /\ Goto(r, "invalidate")
  /\ UNCHANGED <<row, revisions, asked, seen, requests, failures>>

\* The UPDATE, which waits for the row's lock and keeps it, and the INSERTs; nobody
\* sees them before COMMIT.
Write(r) ==
  /\ pc[r] = "write"
  /\ IF WritesRow(r)
       THEN /\ rowLock[art[r]] = NoRequest
            /\ rowLock' = [rowLock EXCEPT ![art[r]] = r]
            /\ tuple' = [tuple EXCEPT ![r] = Updated(r)]
       ELSE UNCHANGED <<rowLock, tuple>>
  /\ Goto(r, "invalidate")
  /\ UNCHANGED <<tables, asked, seen, requests, failures>>

\* invalidateArticleCaches deletes the keys before the transaction commits; they
\* are the state of module ArticleCache.
Invalidate(r) ==
  /\ pc[r] = "invalidate"
  /\ Goto(r, "commit")
  /\ UNCHANGED <<tables, rowLock, request, requests, failures>>

\* Mutant: a change of the body alone makes no revision.
SnapshotsOfTitle(r) ==
  IF "title" \in edits[r]
    THEN {<<stamp[r], IF "body" \in edits[r] THEN stamp[r] ELSE seenBody[r]>>}
    ELSE {}

\* createRevision: what is not given comes from what was read.
Snapshots(r) ==
  IF edits[r] = {}
    THEN {}
    ELSE {<<IF "title" \in edits[r] THEN stamp[r] ELSE seenTitle[r],
            IF "body" \in edits[r] THEN stamp[r] ELSE seenBody[r]>>}

\* Mutant: the lock outlives its transaction.
EndRequestKeepingLock(r) ==
  /\ UNCHANGED rowLock
  /\ art' = [art EXCEPT ![r] = NoArticle]
  /\ kind' = [kind EXCEPT ![r] = "update"]
  /\ edits' = [edits EXCEPT ![r] = {}]
  /\ newAccess' = [newAccess EXCEPT ![r] = "unchanged"]
  /\ stamp' = [stamp EXCEPT ![r] = 0]
  /\ seenAccess' = [seenAccess EXCEPT ![r] = "public"]
  /\ seenTitle' = [seenTitle EXCEPT ![r] = 0]
  /\ seenBody' = [seenBody EXCEPT ![r] = 0]
  /\ tuple' = [tuple EXCEPT ![r] = NoTuple]
  /\ Goto(r, "idle")

\* The transaction is over: its lock is free and the request is forgotten.
EndRequest(r) ==
  /\ rowLock' = [a \in Articles |-> IF rowLock[a] = r THEN NoRequest ELSE rowLock[a]]
  /\ art' = [art EXCEPT ![r] = NoArticle]
  /\ kind' = [kind EXCEPT ![r] = "update"]
  /\ edits' = [edits EXCEPT ![r] = {}]
  /\ newAccess' = [newAccess EXCEPT ![r] = "unchanged"]
  /\ stamp' = [stamp EXCEPT ![r] = 0]
  /\ seenAccess' = [seenAccess EXCEPT ![r] = "public"]
  /\ seenTitle' = [seenTitle EXCEPT ![r] = 0]
  /\ seenBody' = [seenBody EXCEPT ![r] = 0]
  /\ tuple' = [tuple EXCEPT ![r] = NoTuple]
  /\ Goto(r, "idle")

\* The version of the row the request has made, if any, replaces the committed one;
\* published_at, which time may have reached meanwhile, is told from its value now.
Commit(r) ==
  LET a == art[r] IN
  /\ pc[r] = "commit"
  /\ IF kind[r] = "create" \/ WritesRow(r)
       THEN /\ status' = [status EXCEPT ![a] = tuple[r].status]
            /\ access' = [access EXCEPT ![a] = tuple[r].access]
            /\ title' = [title EXCEPT ![a] = tuple[r].title]
            /\ body' = [body EXCEPT ![a] = tuple[r].body]
       ELSE UNCHANGED <<status, access, title, body>>
  /\ publishedAt' = [publishedAt EXCEPT ![a] = DateAfter(kind[r], @)]
  /\ revisions' = [revisions EXCEPT ![a] = @ \cup Snapshots(r)]
  /\ outbox' = [outbox EXCEPT ![a] = @ \o Emitted(r)]
  /\ EndRequest(r)
  /\ UNCHANGED <<requests, failures>>

\* A statement fails or the process dies: the transaction is rolled back.
Rollback(r) ==
  /\ pc[r] # "idle"
  /\ failures < MaxFailures
  /\ failures' = failures + 1
  /\ EndRequest(r)
  /\ UNCHANGED <<tables, requests>>

\* A date that was in the future is in the past.
PublicationTimeReached(a) ==
  /\ publishedAt[a] = "future"
  /\ publishedAt' = [publishedAt EXCEPT ![a] = "past"]
  /\ UNCHANGED <<status, access, title, body, revisions, outbox, rowLock, pc,
                 request, requests, failures>>

Serve(r) == Write(r) \/ Invalidate(r) \/ Commit(r)

Next ==
  \/ \E r \in Requests :
       BeginCreate(r) \/ BeginMutation(r) \/ Serve(r) \/ Rollback(r)
  \/ \E a \in Articles : PublicationTimeReached(a)

Spec == Init /\ [][Next]_vars

\* A statement that is sent returns, and time passes; nobody has to make a
\* request.
Fairness ==
  /\ \A r \in Requests : WF_vars(Serve(r))
  /\ \A a \in Articles : WF_vars(PublicationTimeReached(a))

FairSpec == Spec /\ Fairness

-----------------------------------------------------------------------------
(* Properties.                                                             *)

\* However requests interleave and fail, the last event committed for an article
\* that announces a status announces the one it has: consumers that read the
\* outbox in commit order end up knowing the article (rule 1 of
\* REGLAS_NEGOCIO_CRITICAS.md, Event-driven; writeOutbox in the transaction).
LastEventTellsStatus ==
  \A a \in Articles : status[a] # "none" =>
    \E i \in DOMAIN outbox[a] :
      /\ Announced(outbox[a][i]) = status[a]
      /\ \A j \in DOMAIN outbox[a] : j > i => Announced(outbox[a][j]) = "none"

\* A published article has a date and it is not in the future, whatever was
\* scheduled and unpublished before (articles_published_at_check, ORDER BY
\* published_at of the public list).
PublishedInThePast ==
  \A a \in Articles : status[a] = "published" => publishedAt[a] = "past"

\* The texts an article shows are each kept in some revision, although a request
\* takes the one it does not change from a read that may be old.
TextsAreInRevisions ==
  \A a \in Articles : status[a] # "none" =>
    /\ \E v \in revisions[a] : v[1] = title[a]
    /\ \E v \in revisions[a] : v[2] = body[a]

\* A commit changes only the columns its request sets, although it replaces the
\* whole row by a version made earlier: no edit that was committed between its
\* read, its UPDATE and its COMMIT is undone (update's list of fields, and the row's
\* lock from the UPDATE on).
EditsAreNotLost ==
  [][\A r \in Requests : pc[r] = "commit" /\ pc'[r] = "idle" =>
       \A a \in Articles :
         /\ status'[a] # status[a] => art[r] = a /\ kind[r] \in Transitions \cup {"create"}
         /\ access'[a] # access[a] => art[r] = a /\ newAccess[r] # "unchanged"
         /\ title'[a] # title[a] => art[r] = a /\ "title" \in edits[r]
         /\ body'[a] # body[a] => art[r] = a /\ "body" \in edits[r]]_vars

\* No request waits for ever for the lock of an article.
RequestsEnd == \A r \in Requests : pc[r] # "idle" ~> pc[r] = "idle"
=============================================================================

---------------------------- MODULE Interactions ----------------------------
(***************************************************************************)
(* What readers do with one article, and the advertising around it:        *)
(* src/src/comments/comments.service.ts, src/src/reactions/                *)
(* reactions.service.ts, src/src/analytics/analytics.service.ts and        *)
(* src/src/ads/ads.service.ts.  Each statement outside of a transaction    *)
(* takes a connection of the Sequelize pool while it runs; a transaction   *)
(* keeps one until it ends, and upsert of reactions asks for a second one, *)
(* because summary() is not given its transaction.                         *)
(*                                                                         *)
(* The article and the subscriptions are changed by other components.      *)
(* Placements (which no request changes), texts, the order of              *)
(* advertisements, audit rows, events, listings and article_views are left *)
(* out.  An optional field of a request is a set of at most one value.     *)
(***************************************************************************)
EXTENDS Integers, FiniteSets

CONSTANTS
  Users, NoUser,
  Comments, Ads, NoRow,
  Categories, Category,     \* categories.id, and the article's
  Articles, FirstArticle,   \* rows the article can have
  ReactionTypes,
  Moderations,              \* statuses a moderator gives
  FirstAd,                  \* rows of advertisements earlier requests have left
  AdCreations, AdUpdates,   \* bodies of the requests about advertisements
  Now,
  PoolSize,
  Requests, NoRequest,
  MaxRequests, MaxChanges

\* A row of advertisements and its rows of
\* advertisement_category_targets; status is "none" while there
\* is no such row.
Advertisement ==
  [status : {"none", "draft", "active", "paused", "ended", "rejected"},
   from : Int, to : Int, targets : SUBSET Categories]

ASSUME InteractionsAssumption ==
  /\ Articles \subseteq [access : {"public", "premium", "internal_only"},
                         published : BOOLEAN, enabled : SUBSET {"comment", "react"}]
  /\ FirstArticle \in Articles
  /\ Category \in Categories
  /\ Moderations \subseteq {"pending_moderation", "approved", "rejected", "hidden"}
  /\ Now \in Int
  /\ AdCreations \subseteq [from : Int, to : Int, targets : SUBSET Categories]
  /\ \A b \in AdUpdates : /\ b.from \subseteq Int /\ Cardinality(b.from) <= 1
                         /\ b.to \subseteq Int /\ Cardinality(b.to) <= 1
                         /\ b.targets \subseteq SUBSET Categories
                         /\ Cardinality(b.targets) <= 1
  /\ FirstAd \in [Ads -> Advertisement]
  /\ \A a \in Ads : FirstAd[a].status = "none" \/ FirstAd[a].from < FirstAd[a].to
  /\ PoolSize \in Nat \ {0}
  /\ NoRequest \notin Requests

VARIABLES
  article, subscribed,
  comment,       \* comments.status, "none" while there is no such row
  reaction,      \* {} or the user's reaction to the article
  ad,            \* advertisements, with their targets: [status, from, to, targets]
  impressions,   \* advertisement_impressions of each advertisement
  rowLock,       \* row of comments, advertisements or reactions -> transaction
  req,
  served, changes,
  \* --- history
  overlapped,    \* comments moderated by two transactions at the same time
  broken,        \* comments with a log whose previous_status was not the status
  leaked         \* impressions of each slot since the article became premium

world == <<article, subscribed>>
tables == <<comment, reaction, ad, impressions>>
vars == <<world, tables, rowLock, req, served, changes, overlapped, broken, leaked>>

-----------------------------------------------------------------------------
Rows == Comments \cup Ads \cup Users

NoAd == [status |-> "none", from |-> 0, to |-> 0, targets |-> {}]

Idle == [pc |-> "idle", kind |-> "none", user |-> NoUser, row |-> NoRow,
         value |-> "none", seen |-> "none", from |-> {}, to |-> {},
         targets |-> {}, deleting |-> {}, left |-> {}]

Init ==
  /\ article = FirstArticle /\ subscribed = {}
  /\ comment = [c \in Comments |-> "none"]
  /\ reaction = [u \in Users |-> {}]
  /\ ad = FirstAd
  /\ impressions = [a \in Ads |-> 0]
  /\ rowLock = [x \in Rows |-> NoRequest]
  /\ req = [r \in Requests |-> Idle]
  /\ served = 0 /\ changes = 0
  /\ overlapped = {} /\ broken = {}
  /\ leaked = [r \in Requests |-> 0]

-----------------------------------------------------------------------------
(* The pool of connections.                                                *)

\* The request has a transaction open, or a statement that may wait for a row: it
\* keeps a connection.
InTx(r) ==
  \/ req[r].pc \in {"upsert", "deleting", "update", "lockAd", "updateAd", "recorded",
                    "commit"}
  \/ req[r].kind = "react" /\ req[r].pc \in {"again", "subAgain", "mine"}

Free == PoolSize - Cardinality({r \in Requests : InTx(r)})

\* Its next statement needs a connection that it does not have.
Acquires(r) ==
  req[r].pc \in {"article", "sub", "open", "delete", "again", "subAgain", "mine",
                 "ads", "impression"}

Goto(r, where) == req' = [req EXCEPT ![r].pc = where]

\* A request ends, and so does its transaction.
EndRequest(r) ==
  /\ req' = [req EXCEPT ![r] = Idle]
  /\ rowLock' = [x \in Rows |-> IF rowLock[x] = r THEN NoRequest ELSE rowLock[x]]

\* Mutant: the pool lets its clients wait for ever.
NeverTimesOut(r) ==
  /\ Free < 0
  /\ EndRequest(r)
  /\ UNCHANGED <<world, tables, served, changes, overlapped, broken, leaked>>

\* Nobody gave a connection back in the time the pool waits for one (60 s): the
\* statement throws, and a transaction around it is rolled back.
AcquireTimeout(r) ==
  /\ Acquires(r) /\ Free = 0
  /\ EndRequest(r)
  /\ UNCHANGED <<world, tables, served, changes, overlapped, broken, leaked>>

-----------------------------------------------------------------------------
(* Requests begin, and check what the reader may do.                       *)

Begin(r, request) ==
  /\ req[r].pc = "idle"
  /\ served < MaxRequests
  /\ served' = served + 1
  /\ req' = [req EXCEPT ![r] = request]
  /\ UNCHANGED <<world, tables, rowLock, changes, overlapped, broken, leaked>>

New(x) == \A r \in Requests : req[r].row # x

\* POST comments, views and reactions, DELETE reactions, GET ads/slots.
BeginByReader(r, u) ==
  \/ \E c \in Comments :
       /\ comment[c] = "none" /\ New(c)
       /\ Begin(r, [Idle EXCEPT !.pc = "article", !.kind = "comment", !.user = u,
                                !.row = c])
  \/ \E x \in ReactionTypes :
       Begin(r, [Idle EXCEPT !.pc = "article", !.kind = "react", !.user = u,
                             !.value = x])
  \/ \E k \in {"view", "unreact", "slots"} :
       Begin(r, [Idle EXCEPT !.pc = "article", !.kind = k, !.user = u])

BeginModerate(r, c, s) ==
  /\ comment[c] # "none"
  /\ Begin(r, [Idle EXCEPT !.pc = "open", !.kind = "moderate", !.row = c, !.value = s])

\* create of an advertisement refuses a window that ends before it starts.
BeginCreateAd(r, a, body) ==
  /\ ad[a].status = "none" /\ New(a)
  /\ body.from < body.to
  /\ Begin(r, [Idle EXCEPT !.pc = "open", !.kind = "createAd", !.row = a,
                           !.from = {body.from}, !.to = {body.to},
                           !.targets = {body.targets}])

BeginUpdateAd(r, a, body) ==
  /\ ad[a].status # "none"
  /\ Begin(r, [Idle EXCEPT !.pc = "open", !.kind = "updateAd", !.row = a,
                           !.from = body.from, !.to = body.to,
                           !.targets = body.targets])

\* activate and pause.
BeginAdStatus(r, a, s) ==
  /\ ad[a].status # "none"
  /\ Begin(r, [Idle EXCEPT !.pc = "open", !.kind = "adStatus", !.row = a, !.value = s])

\* Where a request goes when the article may be read.
AfterCheck(r) ==
  CASE req[r].pc \in {"again", "subAgain"} -> "mine"
    [] req[r].kind = "slots" -> "ads"
    [] req[r].kind = "unreact" -> "delete"
    [] OTHER -> "open"

CommentsClosed(r) ==
  req[r].kind = "comment" /\ "comment" \notin article.enabled

\* summary() checks that the article may be read, and no more.
ReactionsClosed(r) ==
  req[r].kind = "react" /\ req[r].pc = "article" /\ "react" \notin article.enabled

\* getSlotsForArticle answers no advertisements on a premium article.
WithoutAds(r) == req[r].kind = "slots" /\ article.access = "premium"

Refused(r) ==
  ~ article.published \/ CommentsClosed(r) \/ ReactionsClosed(r) \/ WithoutAds(r)

\* assertArticleCanComment, assertArticleCanReact, assertArticleCanBeViewed and
\* assertArticleCanBeRead: the article is read, then the subscription.  summary()
\* checks once more.
CheckArticle(r) ==
  /\ req[r].pc \in {"article", "again"} /\ Free > 0
  /\ IF Refused(r) THEN EndRequest(r)
       ELSE /\ Goto(r, IF article.access # "premium" THEN AfterCheck(r)
                       ELSE IF req[r].pc = "article" THEN "sub" ELSE "subAgain")
            /\ UNCHANGED rowLock
  /\ UNCHANGED <<world, tables, served, changes, overlapped, broken, leaked>>

CheckSubscription(r) ==
  /\ req[r].pc \in {"sub", "subAgain"} /\ Free > 0
  /\ IF req[r].user \in subscribed
       THEN Goto(r, AfterCheck(r)) /\ UNCHANGED rowLock
       ELSE EndRequest(r)
  /\ UNCHANGED <<world, tables, served, changes, overlapped, broken, leaked>>

-----------------------------------------------------------------------------
(* Transactions.                                                           *)

\* Mutant: moderate logs pending_moderation as the previous status.
OpenAsPending(r) ==
  LET k == req[r].kind
      c == req[r].row
      others == {o \in Requests \ {r} :
                   req[o].kind = "moderate" /\ req[o].row = c /\ InTx(o)}
  IN /\ req[r].pc = "open" /\ Free > 0
     /\ req' = [req EXCEPT
          ![r].pc = CASE k \in {"comment", "view", "createAd"} -> "commit"
                      [] k = "react" -> "upsert"
                      [] k = "moderate" -> "update"
                      [] OTHER -> "lockAd",
          ![r].seen = IF k = "moderate" THEN "pending_moderation" ELSE @]
     /\ overlapped' = IF k = "moderate" /\ others # {} THEN overlapped \cup {c}
                      ELSE overlapped
     /\ UNCHANGED <<world, tables, rowLock, served, changes, broken, leaked>>

\* BEGIN and the first statement: an INSERT that waits for nobody, or the SELECT
\* of the comment's status in moderate.
Open(r) ==
  LET k == req[r].kind
      c == req[r].row
      others == {o \in Requests \ {r} :
                   req[o].kind = "moderate" /\ req[o].row = c /\ InTx(o)}
  IN /\ req[r].pc = "open" /\ Free > 0
     /\ req' = [req EXCEPT
          ![r].pc = CASE k \in {"comment", "view", "createAd"} -> "commit"
                      [] k = "react" -> "upsert"
                      [] k = "moderate" -> "update"
                      [] OTHER -> "lockAd",
          ![r].seen = IF k = "moderate" THEN comment[c] ELSE @]
     /\ overlapped' = IF k = "moderate" /\ others # {} THEN overlapped \cup {c}
                      ELSE overlapped
     /\ UNCHANGED <<world, tables, rowLock, served, changes, broken, leaked>>

\* A statement takes the lock of the row.
Lock(r, x, next) ==
  /\ rowLock[x] = NoRequest
  /\ rowLock' = [rowLock EXCEPT ![x] = r]
  /\ Goto(r, next)
  /\ UNCHANGED <<world, tables, served, changes, overlapped, broken, leaked>>

\* INSERT INTO reactions ... ON CONFLICT DO UPDATE.
UpsertReaction(r) == req[r].pc = "upsert" /\ Lock(r, req[r].user, "again")

UpdateComment(r) == req[r].pc = "update" /\ Lock(r, req[r].row, "commit")

\* remove: its DELETE is a transaction of its own.  It is about the row it sees: one
\* that another transaction is inserting is none.
DeleteReaction(r) ==
  /\ req[r].pc = "delete" /\ Free > 0
  /\ Goto(r, IF reaction[req[r].user] = {} THEN "again" ELSE "deleting")
  /\ UNCHANGED <<world, tables, rowLock, served, changes, overlapped, broken, leaked>>

\* The DELETE has the row, on the connection it has waited with; the others that
\* were waiting for that row delete nothing.
DeleteRow(r) ==
  LET u == req[r].user IN
  /\ req[r].pc = "deleting" /\ rowLock[u] = NoRequest
  /\ reaction' = [reaction EXCEPT ![u] = {}]
  /\ req' = [o \in Requests |->
               IF req[o].pc = "deleting" /\ req[o].user = u
               THEN [req[o] EXCEPT !.pc = "again"] ELSE req[o]]
  /\ UNCHANGED <<world, comment, ad, impressions, rowLock, served, changes,
                 overlapped, broken, leaked>>

\* summary(): the counts and the reader's own reaction, on another connection
\* than the transaction of upsert.
ReadMine(r) ==
  /\ req[r].pc = "mine" /\ Free > 0
  /\ IF req[r].kind = "react"
       THEN Goto(r, "commit") /\ UNCHANGED rowLock
       ELSE EndRequest(r)
  /\ UNCHANGED <<world, tables, served, changes, overlapped, broken, leaked>>

Given(option, default) == IF option = {} THEN default ELSE CHOOSE x \in option : TRUE

\* The window an update of the advertisement leaves, as the row is now.
From(r) == Given(req[r].from, ad[req[r].row].from)
To(r)   == Given(req[r].to, ad[req[r].row].to)

\* Mutant: getWindowForMutation has no FOR UPDATE.
ReadWindow(r) ==
  /\ req[r].pc = "lockAd"
  /\ IF req[r].kind = "updateAd" /\ To(r) <= From(r)
       THEN EndRequest(r)
       ELSE /\ req' = [req EXCEPT ![r].pc = "updateAd",
                                  ![r].deleting = ad[req[r].row].targets]
            /\ UNCHANGED rowLock
  /\ UNCHANGED <<world, tables, served, changes, overlapped, broken, leaked>>

\* getWindowForMutation: SELECT ... FOR UPDATE, and the check of the dates; or
\* the UPDATE of setStatus.
LockAd(r) ==
  LET a == req[r].row IN
  /\ req[r].pc = "lockAd"
  /\ rowLock[a] = NoRequest
  /\ IF req[r].kind = "updateAd" /\ To(r) <= From(r)
       THEN EndRequest(r)
       ELSE /\ rowLock' = [rowLock EXCEPT ![a] = r]
            /\ req' = [req EXCEPT
                 ![r].pc = IF req[r].kind = "updateAd" THEN "updateAd" ELSE "commit",
                 ![r].deleting = ad[a].targets]
  /\ UNCHANGED <<world, tables, served, changes, overlapped, broken, leaked>>

\* The UPDATE of an advertisement and replaceTargets, which deletes the targets
\* it sees.  advertisements_dates_check would refuse a window that is empty.
UpdateAd(r) ==
  /\ req[r].pc = "updateAd"
  /\ IF To(r) <= From(r)
       THEN EndRequest(r)
       ELSE Goto(r, "commit") /\ UNCHANGED rowLock
  /\ UNCHANGED <<world, tables, served, changes, overlapped, broken, leaked>>

Upserted(u, x) == [reaction EXCEPT ![u] = {x}]

\* analytics: the INSERT into article_views, which nothing here reads.
CommitView(r) ==
  /\ req[r].kind = "view"
  /\ UNCHANGED <<tables, broken>>

CommitComment(r) ==
  /\ req[r].kind = "comment"
  /\ comment' = [comment EXCEPT ![req[r].row] = "pending_moderation"]
  /\ UNCHANGED <<reaction, ad, impressions, broken>>

CommitReaction(r) ==
  /\ req[r].kind = "react"
  /\ reaction' = Upserted(req[r].user, req[r].value)
  /\ UNCHANGED <<comment, ad, impressions, broken>>

\* The UPDATE of the comment, and the log with the status that was read.
CommitModeration(r) ==
  LET c == req[r].row IN
  /\ req[r].kind = "moderate"
  /\ comment' = [comment EXCEPT ![c] = req[r].value]
  /\ broken' = IF req[r].seen # comment[c] THEN broken \cup {c} ELSE broken
  /\ UNCHANGED <<reaction, ad, impressions>>

CommitAdStatus(r) ==
  /\ req[r].kind = "adStatus"
  /\ ad' = [ad EXCEPT ![req[r].row].status = req[r].value]
  /\ UNCHANGED <<comment, reaction, impressions, broken>>

\* replaceTargets, when the request names targets at all.
ReplacedTargets(r, targets) ==
  IF req[r].targets = {} THEN targets
  ELSE (targets \ req[r].deleting) \cup UNION req[r].targets

CommitAd(r) ==
  /\ req[r].kind \in {"createAd", "updateAd"}
  /\ ad' = [ad EXCEPT ![req[r].row] =
       [status |-> IF req[r].kind = "createAd" THEN "draft" ELSE @.status,
        from |-> From(r), to |-> To(r), targets |-> ReplacedTargets(r, @.targets)]]
  /\ UNCHANGED <<comment, reaction, impressions, broken>>

Commit(r) ==
  /\ req[r].pc = "commit"
  /\ \/ CommitView(r) \/ CommitComment(r) \/ CommitReaction(r)
     \/ CommitModeration(r) \/ CommitAdStatus(r) \/ CommitAd(r)
  /\ EndRequest(r)
  /\ UNCHANGED <<world, served, changes, overlapped, leaked>>

-----------------------------------------------------------------------------
(* Advertisements of an article.                                           *)

Shown(a) ==
  /\ ad[a].status = "active"
  /\ ad[a].from <= Now /\ Now < ad[a].to
  /\ ad[a].targets = {} \/ Category \in ad[a].targets

SelectAds(r) ==
  LET shown == {a \in Ads : Shown(a)} IN
  /\ req[r].pc = "ads" /\ Free > 0
  /\ IF shown = {} THEN EndRequest(r)
     ELSE /\ req' = [req EXCEPT ![r].pc = "impression", ![r].left = shown]
          /\ UNCHANGED rowLock
  /\ UNCHANGED <<world, tables, served, changes, overlapped, broken, leaked>>

\* Mutant: there is no trigger on advertisement_impressions.
InsertImpressionUnchecked(r, a) ==
  /\ req[r].pc = "impression" /\ Free > 0
  /\ a \in req[r].left
  /\ req' = [req EXCEPT ![r].pc = "recorded", ![r].row = a]
  /\ UNCHANGED <<world, tables, rowLock, served, changes, overlapped, broken, leaked>>

\* One INSERT, a transaction of its own.  The trigger
\* prevent_premium_ad_impressions reads the article again; its exception ends the
\* request, and the impressions before it stay.
InsertImpression(r, a) ==
  /\ req[r].pc = "impression" /\ Free > 0
  /\ a \in req[r].left
  /\ IF article.access = "premium"
       THEN EndRequest(r)
       ELSE /\ req' = [req EXCEPT ![r].pc = "recorded", ![r].row = a]
            /\ UNCHANGED rowLock
  /\ UNCHANGED <<world, tables, served, changes, overlapped, broken, leaked>>

\* The INSERT commits; then the next one, or the answer.
CommitImpression(r) ==
  LET a == req[r].row IN
  /\ req[r].pc = "recorded"
  /\ impressions' = [impressions EXCEPT ![a] = @ + 1]
  /\ leaked' = IF article.access = "premium" THEN [leaked EXCEPT ![r] = @ + 1]
               ELSE leaked
  /\ IF req[r].left = {a} THEN EndRequest(r)
     ELSE /\ req' = [req EXCEPT ![r].pc = "impression", ![r].row = NoRow,
                                ![r].left = @ \ {a}]
          /\ UNCHANGED rowLock
  /\ UNCHANGED <<world, comment, reaction, ad, served, changes, overlapped, broken>>

-----------------------------------------------------------------------------
\* Editors change the article; subscriptions begin and end.
ChangeWorld ==
  /\ changes < MaxChanges
  /\ changes' = changes + 1
  /\ \/ /\ article' \in Articles \ {article}
        /\ leaked' = [r \in Requests |-> 0]
        /\ UNCHANGED subscribed
     \/ /\ \E u \in Users : subscribed' = IF u \in subscribed THEN subscribed \ {u}
                                          ELSE subscribed \cup {u}
        /\ UNCHANGED <<article, leaked>>
  /\ UNCHANGED <<tables, rowLock, req, served, overlapped, broken>>

Serve(r) ==
  \/ CheckArticle(r) \/ CheckSubscription(r) \/ Open(r)
  \/ UpsertReaction(r) \/ UpdateComment(r)
  \/ DeleteReaction(r) \/ DeleteRow(r) \/ ReadMine(r)
  \/ LockAd(r) \/ UpdateAd(r) \/ Commit(r)
  \/ SelectAds(r) \/ (\E a \in Ads : InsertImpression(r, a)) \/ CommitImpression(r)

Next ==
  \/ \E r \in Requests :
       \/ \E u \in Users : BeginByReader(r, u)
       \/ \E c \in Comments, s \in Moderations : BeginModerate(r, c, s)
       \/ \E a \in Ads, body \in AdCreations : BeginCreateAd(r, a, body)
       \/ \E a \in Ads, body \in AdUpdates : BeginUpdateAd(r, a, body)
       \/ \E a \in Ads, s \in {"active", "paused"} : BeginAdStatus(r, a, s)
       \/ Serve(r) \/ AcquireTimeout(r)
  \/ ChangeWorld

Spec == Init /\ [][Next]_vars

\* A statement that is sent returns; the pool and PostgreSQL serve who waits in
\* order, and the pool gives up a wait that does not end.
Fairness ==
  \A r \in Requests : SF_vars(Serve(r)) /\ WF_vars(AcquireTimeout(r))

FairSpec == Spec /\ Fairness

-----------------------------------------------------------------------------
(* Properties.                                                             *)

\* Once the article is premium, a request that was already serving its slots
\* records at most one more impression, the one whose trigger had run: the check
\* that getSlotsForArticle made is old, the trigger stops the rest of its loop
\* (docs/REGLAS_NEGOCIO_CRITICAS.md:18 allows none).
OneLateImpression == \A r \in Requests : leaked[r] <= 1

\* Two updates of an advertisement at the same time leave the targets one of them
\* asked for, never a mixture (replaceTargets under the lock of the row).
TargetsOfOneUpdate ==
  [][\A r \in Requests, a \in Ads :
       req[r].kind = "updateAd" /\ req[r].row = a /\ req[r].targets # {}
         /\ req[r].pc = "commit" /\ req'[r].pc = "idle"
       => ad'[a].targets = UNION req[r].targets]_vars

\* The log of a comment is a chain of its statuses, and only moderations that
\* overlap can break it (moderate reads the status without a lock).
LogBreaksOnlyByOverlap == broken \subseteq overlapped

\* Requests that hold a connection and wait for another one, all of the pool,
\* are let go: every request ends.
RequestsEnd == \A r \in Requests : req[r].pc # "idle" ~> req[r].pc = "idle"

\* Impressions are recorded for public articles only
\* (docs/BACKEND_DEVELOPMENT_CONTEXT.md:92).
ImpressionsArePublic ==
  [][impressions' # impressions => article.access = "public"]_vars
=============================================================================

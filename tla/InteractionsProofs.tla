-------------------------- MODULE InteractionsProofs --------------------------
(***************************************************************************)
(* Proofs about Interactions, for any users, comments, advertisements,     *)
(* requests in flight, bodies of requests, size of the pool and bounds.    *)
(***************************************************************************)
EXTENDS Interactions, TLAPS

-----------------------------------------------------------------------------
(* The inductive invariant.                                                *)

CommentStatuses == Moderations \cup {"none", "pending_moderation"}

Request ==
  [pc : {"idle", "article", "sub", "open", "upsert", "again", "subAgain", "mine",
         "delete", "deleting", "update", "lockAd", "updateAd", "commit", "ads",
         "impression", "recorded"},
   kind : {"none", "comment", "react", "view", "unreact", "slots", "moderate",
           "createAd", "updateAd", "adStatus"},
   user : Users \cup {NoUser}, row : Comments \cup Ads \cup {NoRow},
   value : ReactionTypes \cup Moderations \cup {"active", "paused", "none"},
   seen : CommentStatuses, from : SUBSET Int, to : SUBSET Int,
   targets : SUBSET SUBSET Categories, deleting : SUBSET Categories,
   left : SUBSET Ads]

Types ==
  /\ article \in Articles
  /\ comment \in [Comments -> CommentStatuses]
  /\ reaction \in [Users -> SUBSET ReactionTypes]
  /\ ad \in [Ads -> Advertisement]
  /\ impressions \in [Ads -> Nat]
  /\ rowLock \in [Rows -> Requests \cup {NoRequest}]
  /\ req \in [Requests -> Request]
  /\ leaked \in [Requests -> Nat]

\* What a request that has come to q.pc is about.
WellFormed(q) ==
  /\ q.pc = "idle" <=> q.kind = "none"
  /\ q.pc \in {"article", "sub"} =>
       q.kind \in {"comment", "react", "view", "unreact", "slots"}
  /\ q.pc \in {"again", "subAgain", "mine"} => q.kind \in {"react", "unreact"}
  /\ q.pc \in {"open", "commit"} => q.kind \notin {"unreact", "slots"}
  /\ q.pc = "upsert" => q.kind = "react"
  /\ q.pc = "update" => q.kind = "moderate"
  /\ q.pc \in {"delete", "deleting"} => q.kind = "unreact"
  /\ q.pc = "lockAd" => q.kind \in {"updateAd", "adStatus"}
  /\ q.pc = "updateAd" => q.kind = "updateAd"
  /\ q.pc \in {"ads", "impression", "recorded"} => q.kind = "slots"
  /\ q.pc = "recorded" => q.row \in Ads
  /\ q.kind \in {"react", "unreact"} => q.user \in Users
  /\ q.kind = "react" => q.value \in ReactionTypes
  /\ q.kind \in {"comment", "moderate"} => q.row \in Comments
  /\ q.kind = "moderate" => q.value \in Moderations
  /\ q.kind \in {"createAd", "updateAd", "adStatus"} => q.row \in Ads
  /\ q.kind = "adStatus" => q.value \in {"active", "paused"}
  /\ q.kind = "createAd" => q.from # {} /\ q.to # {}

\* The transaction of q has read the status of its comment, or holds the row of its
\* advertisement.
Moderating(q) == q.kind = "moderate" /\ q.pc \in {"update", "commit"}
Updating(q)   == q.kind = "updateAd" /\ q.pc \in {"updateAd", "commit"}

\* The window that q leaves in row x is not empty.
Opens(q, x) == Given(q.from, x.from) < Given(q.to, x.to)

RequestsOK == \A r \in Requests : WellFormed(req[r])

\* Nobody else has the identifier of a comment that is being inserted; of the
\* moderations of a comment that never overlapped, one at most has its transaction
\* open, and the status it has read is the status.
CommentsOK ==
  /\ \A r \in Requests : req[r].kind = "comment" => comment[req[r].row] = "none"
  /\ \A r \in Requests : req[r].kind = "moderate" => comment[req[r].row] # "none"
  /\ \A r, o \in Requests :
       req[r].kind = "comment" /\ req[o].kind = "comment" /\ req[r].row = req[o].row
         => r = o
  /\ \A r \in Requests : Moderating(req[r]) /\ req[r].row \notin overlapped =>
       req[r].seen = comment[req[r].row]
  /\ \A r, o \in Requests :
       Moderating(req[r]) /\ Moderating(req[o]) /\ req[r].row = req[o].row
         => r = o \/ req[r].row \in overlapped
  /\ LogBreaksOnlyByOverlap

\* Nobody else has the identifier of an advertisement that is being inserted; an
\* update that has read its advertisement holds the row, so that it still knows the
\* targets there are and leaves a window that is not empty.
AdsOK ==
  /\ \A r \in Requests : req[r].kind = "createAd" => ad[req[r].row].status = "none"
  /\ \A r \in Requests : req[r].kind \in {"updateAd", "adStatus"} =>
       ad[req[r].row].status # "none"
  /\ \A r, o \in Requests :
       req[r].kind = "createAd" /\ req[o].kind = "createAd" /\ req[r].row = req[o].row
         => r = o
  /\ \A r \in Requests : Updating(req[r]) =>
       rowLock[req[r].row] = r /\ ad[req[r].row].targets \subseteq req[r].deleting
  /\ \A r \in Requests : Updating(req[r]) \/ req[r].kind = "createAd" =>
       Opens(req[r], ad[req[r].row])
  /\ \A a \in Ads : ad[a].status # "none" => ad[a].from < ad[a].to

\* Who has recorded an impression since the article is premium records no other one.
LeakOK ==
  \A r \in Requests :
    leaked[r] = 0 \/ (leaked[r] = 1 /\ article.access = "premium" /\ req[r].pc # "recorded")

IInv == Types /\ RequestsOK /\ CommentsOK /\ AdsOK /\ LeakOK

-----------------------------------------------------------------------------
(* Steps that leave comments and advertisements alone.                     *)

\* q is p, elsewhere in its code, and knows nothing more of its rows.
GoesOn(q, p) ==
  /\ q.kind = p.kind /\ q.user = p.user /\ (q.kind # "slots" => q.row = p.row)
  /\ q.value = p.value /\ q.from = p.from /\ q.to = p.to /\ q.targets = p.targets
  /\ q.seen = p.seen /\ q.deleting = p.deleting
  /\ Moderating(q) => Moderating(p)
  /\ Updating(q) => Updating(p)

\* Slot r becomes q, which is over or goes on with its locks.
Becomes(r, q) ==
  /\ q \in Request /\ WellFormed(q)
  /\ req' = [req EXCEPT ![r] = q]
  /\ q.kind = "none" \/ GoesOn(q, req[r])
  /\ rowLock' \in [Rows -> Requests \cup {NoRequest}]
  /\ \A x \in Rows : rowLock[x] \in Requests /\ (rowLock[x] # r \/ q.kind # "none") =>
       rowLock'[x] = rowLock[x]

LEMMA StepInv ==
  ASSUME IInv, NEW r \in Requests, NEW q, Becomes(r, q),
         UNCHANGED <<comment, ad, overlapped, broken>>
  PROVE  RequestsOK' /\ CommentsOK' /\ AdsOK'
<1>1. /\ Types /\ RequestsOK /\ CommentsOK /\ AdsOK
      /\ req'[r] = q /\ \A o \in Requests \ {r} : req'[o] = req[o]
      /\ q.kind = "none" \/ GoesOn(q, req[r])
  BY DEF IInv, Types, Becomes
<1>2. RequestsOK'
  BY <1>1 DEF RequestsOK, Becomes
<1>3. CommentsOK'
  BY <1>1 DEF CommentsOK, LogBreaksOnlyByOverlap, GoesOn, Moderating
<1>4. AdsOK'
  <2>1. \A o \in Requests : Updating(req'[o]) =>
          /\ Updating(req[o]) /\ req'[o].row = req[o].row
          /\ req'[o].deleting = req[o].deleting
          /\ rowLock'[req[o].row] = o
    <3> SUFFICES ASSUME NEW o \in Requests, Updating(req'[o])
                 PROVE  /\ Updating(req[o]) /\ req'[o].row = req[o].row
                        /\ req'[o].deleting = req[o].deleting
                        /\ rowLock'[req[o].row] = o
      OBVIOUS
    <3>1. /\ Updating(req[o]) /\ req'[o].row = req[o].row
          /\ req'[o].deleting = req[o].deleting
      BY <1>1 DEF GoesOn, Updating
    <3>2. req[o].row \in Rows /\ rowLock[req[o].row] = o
      BY <1>1, <3>1 DEF AdsOK, Updating, RequestsOK, WellFormed, Rows
    <3>3. o # r \/ q.kind # "none"
      BY <1>1 DEF Updating
    <3> QED BY <3>1, <3>2, <3>3 DEF Becomes
  <2>2. \A o \in Requests : Updating(req'[o]) \/ req'[o].kind = "createAd" =>
          /\ Updating(req[o]) \/ req[o].kind = "createAd"
          /\ Opens(req'[o], ad[req'[o].row]) <=> Opens(req[o], ad[req[o].row])
    BY <1>1 DEF GoesOn, Opens, Updating
  <2>3. \A o \in Requests : req'[o].kind \in {"createAd", "updateAd", "adStatus"} =>
          req'[o].kind = req[o].kind /\ req'[o].row = req[o].row
    BY <1>1 DEF GoesOn
  <2> QED BY <1>1, <2>1, <2>2, <2>3 DEF AdsOK
<1> QED BY <1>2, <1>3, <1>4

\* A request that ends.
LEMMA EndBecomes ==
  ASSUME IInv, NEW r \in Requests, EndRequest(r)
  PROVE  Becomes(r, Idle) /\ req' \in [Requests -> Request] /\ req'[r] = Idle
         /\ (\A o \in Requests \ {r} : req'[o] = req[o])
<1>1. Idle \in Request /\ WellFormed(Idle) /\ Idle.kind = "none"
  BY DEF Idle, Request, CommentStatuses, WellFormed
<1>2. req \in [Requests -> Request] /\ rowLock \in [Rows -> Requests \cup {NoRequest}]
  BY DEF IInv, Types
<1> HIDE DEF Idle
<1>3. Becomes(r, Idle)
  BY <1>1, <1>2 DEF Becomes, EndRequest
<1> QED BY <1>1, <1>2, <1>3 DEF EndRequest

\* A request that is moved to another statement.
LEMMA GotoBecomes ==
  ASSUME IInv, NEW r \in Requests,
         NEW where \in {"sub", "open", "again", "subAgain", "mine", "delete", "deleting",
                        "commit", "ads"},
         Goto(r, where), UNCHANGED rowLock \/ \E x \in Rows :
           rowLock[x] = NoRequest /\ rowLock' = [rowLock EXCEPT ![x] = r],
         InteractionsAssumption,
         WellFormed([req[r] EXCEPT !.pc = where]),
         where = "commit" => req[r].kind = "react" \/ Moderating(req[r]) \/ Updating(req[r])
  PROVE  /\ Becomes(r, [req[r] EXCEPT !.pc = where]) /\ req' \in [Requests -> Request]
         /\ req'[r].pc = where
<1> DEFINE q == [req[r] EXCEPT !.pc = where]
<1>1. req \in [Requests -> Request] /\ rowLock \in [Rows -> Requests \cup {NoRequest}]
      /\ req[r] \in Request
  BY DEF IInv, Types
<1>2. /\ q \in Request /\ q.pc = where
      /\ q.kind = req[r].kind /\ q.user = req[r].user /\ q.row = req[r].row
      /\ q.value = req[r].value /\ q.from = req[r].from /\ q.to = req[r].to
      /\ q.targets = req[r].targets /\ q.seen = req[r].seen
      /\ q.deleting = req[r].deleting
  BY <1>1 DEF Request
<1>3. req' = [req EXCEPT ![r] = q] /\ WellFormed(q)
  BY <1>1 DEF Goto, Request
<1> HIDE DEF q
<1>4. GoesOn(q, req[r])
  BY <1>2 DEF GoesOn, Moderating, Updating
<1>5. /\ rowLock' \in [Rows -> Requests \cup {NoRequest}]
      /\ \A x \in Rows : rowLock[x] \in Requests => rowLock'[x] = rowLock[x]
  BY <1>1 DEF InteractionsAssumption
<1> QED BY <1>1, <1>2, <1>3, <1>4, <1>5 DEF Becomes, q

\* No impression is recorded by a step that does not come to one.
LEMMA LeakFrame ==
  ASSUME IInv, NEW r \in Requests, NEW q, Becomes(r, q), q.pc # "recorded",
         UNCHANGED <<article, leaked>>
  PROVE  LeakOK'
BY DEF IInv, Types, Becomes, LeakOK

\* A step of this kind that writes no other table.
LEMMA PlainInv ==
  ASSUME IInv, NEW r \in Requests, NEW q, Becomes(r, q), q.pc # "recorded",
         UNCHANGED <<article, comment, ad, impressions, overlapped, broken, leaked>>,
         reaction' \in [Users -> SUBSET ReactionTypes]
  PROVE  IInv'
<1>1. Types'
  BY DEF IInv, Types, Becomes
<1> QED BY <1>1, StepInv, LeakFrame DEF IInv

LEMMA EndInv ==
  ASSUME IInv, NEW r \in Requests, EndRequest(r),
         UNCHANGED <<article, comment, ad, impressions, overlapped, broken, leaked>>,
         reaction' \in [Users -> SUBSET ReactionTypes]
  PROVE  IInv'
<1>1. Idle.pc # "recorded"
  BY DEF Idle
<1> QED BY <1>1, EndBecomes, PlainInv

LEMMA GotoInv ==
  ASSUME InteractionsAssumption, IInv, NEW r \in Requests,
         NEW where \in {"sub", "open", "again", "subAgain", "mine", "delete", "deleting",
                        "commit", "ads"},
         Goto(r, where), UNCHANGED rowLock \/ \E x \in Rows :
           rowLock[x] = NoRequest /\ rowLock' = [rowLock EXCEPT ![x] = r],
         WellFormed([req[r] EXCEPT !.pc = where]),
         where = "commit" => req[r].kind = "react" \/ Moderating(req[r]) \/ Updating(req[r]),
         UNCHANGED <<article, comment, ad, impressions, overlapped, broken, leaked>>,
         reaction' \in [Users -> SUBSET ReactionTypes]
  PROVE  IInv'
<1> DEFINE q == [req[r] EXCEPT !.pc = where]
<1>1. Becomes(r, q)
  BY GotoBecomes
<1>2. q.pc # "recorded"
  BY DEF IInv, Types, Request
<1> HIDE DEF q
<1> QED BY <1>1, <1>2, PlainInv

\* Where Goto leads, the request is well formed.
LEMMA PlacedWell ==
  ASSUME IInv, NEW r \in Requests,
         NEW where \in {"sub", "open", "again", "subAgain", "mine", "delete", "deleting",
                        "commit", "ads"},
         CASE where = "sub" -> req[r].kind \in {"comment", "react", "view", "unreact", "slots"}
           [] where \in {"again", "subAgain", "mine"} -> req[r].kind \in {"react", "unreact"}
           [] where \in {"open", "commit"} -> req[r].kind \notin {"none", "unreact", "slots"}
           [] where \in {"delete", "deleting"} -> req[r].kind = "unreact"
           [] OTHER -> req[r].kind = "slots"
  PROVE  WellFormed([req[r] EXCEPT !.pc = where])
<1> DEFINE q == [req[r] EXCEPT !.pc = where]
<1>1. /\ q.pc = where
      /\ q.kind = req[r].kind /\ q.user = req[r].user /\ q.row = req[r].row
      /\ q.value = req[r].value /\ q.from = req[r].from /\ q.to = req[r].to
      /\ WellFormed(req[r])
  BY DEF IInv, Types, Request, RequestsOK
<1> HIDE DEF q
<1>2. WellFormed(q)
  BY <1>1 DEF WellFormed
<1> QED BY <1>2 DEF q

LEMMA CheckInv ==
  ASSUME InteractionsAssumption, IInv, NEW r \in Requests,
         CheckArticle(r) \/ CheckSubscription(r)
  PROVE  IInv'
<1>1. /\ WellFormed(req[r]) /\ req[r].pc \in {"article", "again", "sub", "subAgain"}
      /\ UNCHANGED <<article, comment, ad, impressions, overlapped, broken, leaked, reaction>>
      /\ reaction \in [Users -> SUBSET ReactionTypes]
  BY DEF IInv, RequestsOK, Types, CheckArticle, CheckSubscription, world, tables
<1>2. CASE EndRequest(r)
  BY <1>1, <1>2, EndInv
<1>3. ASSUME NEW where \in {AfterCheck(r), "sub", "subAgain"}, Goto(r, where),
             UNCHANGED rowLock,
             where = "sub" => req[r].pc = "article",
             where = "subAgain" => req[r].pc = "again"
      PROVE  IInv'
  <2>1. /\ where \in {"sub", "open", "mine", "delete", "ads", "subAgain"}
        /\ where = "sub" => req[r].kind \in {"comment", "react", "view", "unreact", "slots"}
        /\ where \in {"subAgain", "mine"} => req[r].kind \in {"react", "unreact"}
        /\ where = "open" => req[r].kind \notin {"none", "unreact", "slots"}
        /\ where = "delete" => req[r].kind = "unreact"
        /\ where = "ads" => req[r].kind = "slots"
    BY <1>1, <1>3 DEF AfterCheck, WellFormed
  <2>2. WellFormed([req[r] EXCEPT !.pc = where])
    BY <2>1, PlacedWell
  <2> QED BY <1>1, <1>3, <2>1, <2>2, GotoInv
<1>4. AfterCheck(r) \notin {"sub", "subAgain"}
  BY DEF AfterCheck
<1>5. CASE CheckSubscription(r)
  BY <1>2, <1>3, <1>4, <1>5 DEF CheckSubscription
<1>6. CASE CheckArticle(r)
  <2>1. CASE Refused(r)
    BY <1>2, <1>6, <2>1 DEF CheckArticle
  <2>2. CASE ~ Refused(r) /\ article.access # "premium"
    BY <1>3, <1>4, <1>6, <2>2 DEF CheckArticle
  <2>3. CASE ~ Refused(r) /\ article.access = "premium" /\ req[r].pc = "article"
    BY <1>3, <1>6, <2>3 DEF CheckArticle
  <2>4. CASE ~ Refused(r) /\ article.access = "premium" /\ req[r].pc # "article"
    <3>1. req[r].pc = "again" /\ Goto(r, "subAgain") /\ UNCHANGED rowLock
      BY <1>6, <2>4 DEF CheckArticle
    <3> QED BY <1>3, <3>1
  <2> QED BY <2>1, <2>2, <2>3, <2>4
<1> QED BY <1>5, <1>6

LEMMA ReactionStatementsInv ==
  ASSUME InteractionsAssumption, IInv, NEW r \in Requests,
         UpsertReaction(r) \/ DeleteReaction(r) \/ ReadMine(r)
  PROVE  IInv'
<1>1. /\ WellFormed(req[r]) /\ reaction \in [Users -> SUBSET ReactionTypes]
      /\ UNCHANGED <<article, comment, ad, impressions, overlapped, broken, leaked>>
      /\ req[r].kind \in {"react", "unreact"} /\ req[r].user \in Users
  BY DEF IInv, RequestsOK, Types, WellFormed, UpsertReaction, DeleteReaction, ReadMine, Lock,
         world, tables
<1>2. reaction' \in [Users -> SUBSET ReactionTypes]
  BY <1>1 DEF UpsertReaction, DeleteReaction, ReadMine, Lock, tables
<1>3. CASE EndRequest(r)
  BY <1>1, <1>2, <1>3, EndInv
<1>4. CASE Goto(r, "again") /\ (UNCHANGED rowLock \/ \E x \in Rows :
             rowLock[x] = NoRequest /\ rowLock' = [rowLock EXCEPT ![x] = r])
  BY <1>1, <1>2, <1>4, PlacedWell, GotoInv
<1>5. CASE Goto(r, "commit") /\ UNCHANGED rowLock /\ req[r].kind = "react"
  BY <1>1, <1>2, <1>5, PlacedWell, GotoInv
<1>6. CASE Goto(r, "deleting") /\ UNCHANGED rowLock /\ req[r].kind = "unreact"
  BY <1>1, <1>2, <1>6, PlacedWell, GotoInv
<1>7. req[r].user \in Rows /\ (req[r].pc = "delete" => req[r].kind = "unreact")
  BY <1>1 DEF Rows, WellFormed
<1> QED BY <1>3, <1>4, <1>5, <1>6, <1>7 DEF UpsertReaction, DeleteReaction, ReadMine, Lock

\* The slots after a DELETE, and what the other requests know of their rows.
LEMMA DeleteRowSlots ==
  ASSUME IInv, NEW r \in Requests, DeleteRow(r), NEW o \in Requests
  PROVE  /\ req'[o] \in Request /\ WellFormed(req'[o])
         /\ req'[o] = req[o]
            \/ /\ req[o].kind = "unreact" /\ req'[o].kind = "unreact"
               /\ req'[o].pc = "again"
<1>1. req[o] \in Request /\ WellFormed(req[o])
  BY DEF IInv, Types, RequestsOK
<1>2. CASE req'[o] = req[o]
  BY <1>1, <1>2
<1>3. CASE req[o].pc = "deleting" /\ req'[o] = [req[o] EXCEPT !.pc = "again"]
  <2> DEFINE q == [req[o] EXCEPT !.pc = "again"]
  <2>1. /\ q \in Request /\ q.pc = "again" /\ q.kind = req[o].kind
        /\ q.user = req[o].user /\ q.kind = "unreact"
    BY <1>1, <1>3 DEF Request, WellFormed
  <2>2. req'[o] = q
    BY <1>3
  <2> HIDE DEF q
  <2>3. WellFormed(q)
    BY <1>1, <1>3, <2>1 DEF WellFormed
  <2> QED BY <2>1, <2>2, <2>3
<1> QED BY <1>2, <1>3 DEF DeleteRow

LEMMA DeleteRowInv ==
  ASSUME IInv, NEW r \in Requests, DeleteRow(r)
  PROVE  IInv'
<1>1. /\ Types /\ RequestsOK /\ CommentsOK /\ AdsOK /\ LeakOK
      /\ UNCHANGED <<article, comment, ad, impressions, rowLock, overlapped, broken, leaked>>
      /\ reaction' = [reaction EXCEPT ![req[r].user] = {}]
  BY DEF IInv, DeleteRow, world
<1>2. \A o \in Requests : req'[o] = req[o] \/
        (req[o].kind = "unreact" /\ req'[o].kind = "unreact" /\ req'[o].pc = "again")
  BY DeleteRowSlots
<1>3. Types'
  <2>1. req' \in [Requests -> Request]
    BY DeleteRowSlots DEF DeleteRow
  <2> QED BY <1>1, <2>1 DEF Types
<1>4. RequestsOK'
  BY DeleteRowSlots DEF RequestsOK
<1>5. CommentsOK'
  BY <1>1, <1>2 DEF CommentsOK, LogBreaksOnlyByOverlap, Moderating
<1>6. AdsOK'
  BY <1>1, <1>2 DEF AdsOK, Updating
<1>7. LeakOK'
  BY <1>1, <1>2 DEF LeakOK
<1> QED BY <1>3, <1>4, <1>5, <1>6, <1>7 DEF IInv

LEMMA UpdateCommentInv ==
  ASSUME InteractionsAssumption, IInv, NEW r \in Requests, UpdateComment(r)
  PROVE  IInv'
<1>1. /\ req[r].pc = "update" /\ req[r].kind = "moderate" /\ req[r].row \in Rows
      /\ Moderating(req[r]) /\ reaction \in [Users -> SUBSET ReactionTypes]
  BY DEF IInv, RequestsOK, Types, WellFormed, UpdateComment, Rows, Moderating
<1>2. /\ Goto(r, "commit")
      /\ \E x \in Rows : rowLock[x] = NoRequest /\ rowLock' = [rowLock EXCEPT ![x] = r]
      /\ UNCHANGED <<article, comment, ad, impressions, overlapped, broken, leaked, reaction>>
  BY <1>1 DEF UpdateComment, Lock, world, tables
<1>3. WellFormed([req[r] EXCEPT !.pc = "commit"])
  BY <1>1, PlacedWell
<1> QED BY <1>1, <1>2, <1>3, GotoInv

LEMMA UpdateAdInv ==
  ASSUME InteractionsAssumption, IInv, NEW r \in Requests, UpdateAd(r)
  PROVE  IInv'
<1>1. /\ req[r].kind = "updateAd" /\ Updating(req[r])
      /\ reaction \in [Users -> SUBSET ReactionTypes]
      /\ UNCHANGED <<article, comment, ad, impressions, overlapped, broken, leaked, reaction>>
  BY DEF IInv, RequestsOK, Types, WellFormed, UpdateAd, Updating, world, tables
<1>2. CASE EndRequest(r)
  BY <1>1, <1>2, EndInv
<1>3. CASE Goto(r, "commit") /\ UNCHANGED rowLock
  BY <1>1, <1>3, PlacedWell, GotoInv
<1> QED BY <1>2, <1>3 DEF UpdateAd

-----------------------------------------------------------------------------
(* Impressions.                                                            *)

LEMMA SelectAdsInv ==
  ASSUME InteractionsAssumption, IInv, NEW r \in Requests, SelectAds(r)
  PROVE  IInv'
<1> DEFINE shown == {a \in Ads : Shown(a)}
           q == [req[r] EXCEPT !.pc = "impression", !.left = shown]
<1>1. /\ WellFormed(req[r]) /\ req[r].kind = "slots" /\ req[r] \in Request
      /\ req \in [Requests -> Request] /\ rowLock \in [Rows -> Requests \cup {NoRequest}]
      /\ reaction \in [Users -> SUBSET ReactionTypes]
      /\ UNCHANGED <<article, comment, ad, impressions, overlapped, broken, leaked, reaction>>
  BY DEF IInv, RequestsOK, Types, WellFormed, SelectAds, world, tables
<1>2. CASE EndRequest(r)
  BY <1>1, <1>2, EndInv
<1>3. CASE /\ UNCHANGED rowLock
           /\ req' = [req EXCEPT ![r].pc = "impression", ![r].left = shown]
  <2>1. req' = [req EXCEPT ![r] = q]
    BY <1>1, <1>3
  <2>2. shown \subseteq Ads
    OBVIOUS
  <2> HIDE DEF shown
  <2>3. /\ q \in Request /\ q.pc = "impression"
        /\ q.kind = req[r].kind /\ q.user = req[r].user /\ q.row = req[r].row
        /\ q.value = req[r].value /\ q.from = req[r].from /\ q.to = req[r].to
        /\ q.targets = req[r].targets /\ q.seen = req[r].seen
        /\ q.deleting = req[r].deleting
    BY <1>1, <2>2 DEF Request
  <2> HIDE DEF q
  <2>4. WellFormed(q) /\ GoesOn(q, req[r])
    BY <1>1, <2>3 DEF WellFormed, GoesOn, Moderating, Updating
  <2>5. Becomes(r, q)
    BY <1>1, <1>3, <2>1, <2>3, <2>4 DEF Becomes
  <2> QED BY <1>1, <2>3, <2>5, PlainInv
<1> QED BY <1>2, <1>3 DEF SelectAds

LEMMA InsertImpressionInv ==
  ASSUME InteractionsAssumption, IInv, NEW r \in Requests, NEW a \in Ads,
         InsertImpression(r, a)
  PROVE  IInv'
<1> DEFINE q == [req[r] EXCEPT !.pc = "recorded", !.row = a]
<1>1. /\ WellFormed(req[r]) /\ req[r].kind = "slots" /\ req[r] \in Request
      /\ req \in [Requests -> Request] /\ rowLock \in [Rows -> Requests \cup {NoRequest}]
      /\ reaction \in [Users -> SUBSET ReactionTypes]
      /\ UNCHANGED <<article, comment, ad, impressions, overlapped, broken, leaked, reaction>>
  BY DEF IInv, RequestsOK, Types, WellFormed, InsertImpression, world, tables
<1>2. CASE EndRequest(r)
  BY <1>1, <1>2, EndInv
<1>3. CASE /\ article.access # "premium" /\ UNCHANGED rowLock
           /\ req' = [req EXCEPT ![r].pc = "recorded", ![r].row = a]
  <2>1. req' = [req EXCEPT ![r] = q]
    BY <1>1, <1>3
  <2>3. /\ q \in Request /\ q.pc = "recorded" /\ q.row = a
        /\ q.kind = req[r].kind /\ q.user = req[r].user
        /\ q.value = req[r].value /\ q.from = req[r].from /\ q.to = req[r].to
        /\ q.targets = req[r].targets /\ q.seen = req[r].seen
        /\ q.deleting = req[r].deleting
    BY <1>1 DEF Request
  <2> HIDE DEF q
  <2>4. WellFormed(q) /\ GoesOn(q, req[r])
    BY <1>1, <2>3 DEF WellFormed, GoesOn, Moderating, Updating
  <2>5. Becomes(r, q)
    BY <1>1, <1>3, <2>1, <2>3, <2>4 DEF Becomes
  <2>6. Types'
    BY <1>1, <2>5 DEF IInv, Types, Becomes
  <2>7. LeakOK'
    BY <1>1, <1>3, <2>1 DEF IInv, LeakOK
  <2> QED BY <1>1, <2>5, <2>6, <2>7, StepInv DEF IInv
<1> QED BY <1>2, <1>3 DEF InsertImpression

LEMMA CommitImpressionInv ==
  ASSUME InteractionsAssumption, IInv, NEW r \in Requests, CommitImpression(r)
  PROVE  IInv'
<1> DEFINE a == req[r].row
           p == [req[r] EXCEPT !.pc = "impression", !.row = NoRow,
                               !.left = req[r].left \ {a}]
<1>1. /\ WellFormed(req[r]) /\ req[r].kind = "slots" /\ req[r].pc = "recorded"
      /\ req[r] \in Request /\ a \in Ads /\ Types
      /\ UNCHANGED <<article, comment, ad, overlapped, broken, reaction>>
      /\ impressions' = [impressions EXCEPT ![a] = impressions[a] + 1]
      /\ leaked' = IF article.access = "premium" THEN [leaked EXCEPT ![r] = leaked[r] + 1]
                   ELSE leaked
  BY DEF IInv, RequestsOK, Types, WellFormed, CommitImpression, world
<1>2. PICK q : Becomes(r, q) /\ q.pc # "recorded"
  <2>1. CASE EndRequest(r)
    <3>1. Idle.pc # "recorded"
      BY DEF Idle
    <3> QED BY <2>1, <3>1, EndBecomes
  <2>2. CASE /\ UNCHANGED rowLock
             /\ req' = [req EXCEPT ![r].pc = "impression", ![r].row = NoRow,
                                   ![r].left = req[r].left \ {a}]
    <3>1. req' = [req EXCEPT ![r] = p]
      BY <1>1, <2>2 DEF Types
    <3>2. /\ p \in Request /\ p.pc = "impression"
          /\ p.kind = req[r].kind /\ p.user = req[r].user
          /\ p.value = req[r].value /\ p.from = req[r].from /\ p.to = req[r].to
          /\ p.targets = req[r].targets /\ p.seen = req[r].seen
          /\ p.deleting = req[r].deleting
      BY <1>1 DEF Request
    <3> HIDE DEF p
    <3>3. WellFormed(p) /\ GoesOn(p, req[r])
      BY <1>1, <3>2 DEF WellFormed, GoesOn, Moderating, Updating
    <3>4. Becomes(r, p)
      BY <1>1, <2>2, <3>1, <3>2, <3>3 DEF Becomes, Types
    <3> QED BY <3>2, <3>4
  <2> QED BY <2>1, <2>2 DEF CommitImpression
<1>3. Types'
  <2>1. impressions' \in [Ads -> Nat] /\ leaked' \in [Requests -> Nat]
    BY <1>1 DEF Types
  <2> QED BY <1>1, <1>2, <2>1 DEF Types, Becomes
<1>4. LeakOK'
  <2>1. leaked[r] = 0
    BY <1>1 DEF IInv, LeakOK
  <2>2. req'[r].pc # "recorded" /\ \A o \in Requests \ {r} : req'[o] = req[o]
    BY <1>1, <1>2 DEF Becomes, Types
  <2> QED BY <1>1, <2>1, <2>2 DEF IInv, LeakOK, Types
<1> QED BY <1>1, <1>2, <1>3, <1>4, StepInv DEF IInv

-----------------------------------------------------------------------------
(* Requests begin.                                                         *)

\* What an optional field stands for.
LEMMA GivenType ==
  ASSUME NEW S, NEW option \in SUBSET S, NEW default \in S
  PROVE  Given(option, default) \in S
BY DEF Given

LEMMA GivenOne ==
  ASSUME NEW x, NEW default
  PROVE  Given({x}, default) = x
BY DEF Given

\* What is true of a request that begins.
Fresh(q) ==
  /\ q.pc \in {"article", "open"} /\ q \in Request /\ WellFormed(q)
  /\ q.kind = "comment" => comment[q.row] = "none"
  /\ q.kind = "moderate" => comment[q.row] # "none"
  /\ q.kind = "createAd" => ad[q.row].status = "none" /\ Opens(q, ad[q.row])
  /\ q.kind \in {"updateAd", "adStatus"} => ad[q.row].status # "none"
  /\ q.kind \in {"comment", "createAd"} => New(q.row)

LEMMA BeginInv ==
  ASSUME IInv, NEW r \in Requests, NEW q, Fresh(q), Begin(r, q)
  PROVE  IInv'
<1>1. /\ Types /\ RequestsOK /\ CommentsOK /\ AdsOK
      /\ req[r].pc = "idle"
      /\ req' = [req EXCEPT ![r] = q]
      /\ UNCHANGED <<article, comment, reaction, ad, impressions, rowLock, overlapped,
                     broken, leaked>>
  BY DEF IInv, Begin, world, tables
<1>2. /\ q \in Request /\ WellFormed(q) /\ q.pc \in {"article", "open"}
      /\ ~ Moderating(q) /\ ~ Updating(q)
  BY DEF Fresh, Moderating, Updating
<1>3. req'[r] = q /\ \A o \in Requests \ {r} : req'[o] = req[o]
  BY <1>1 DEF Types
<1>4. Types'
  BY <1>1, <1>2 DEF Types
<1>5. RequestsOK'
  BY <1>1, <1>2, <1>3 DEF RequestsOK
<1>6. LeakOK'
  BY <1>1, <1>2, <1>3 DEF IInv, LeakOK
<1>7. CommentsOK'
  BY <1>1, <1>2, <1>3 DEF CommentsOK, LogBreaksOnlyByOverlap, Fresh, New
<1>8. AdsOK'
  BY <1>1, <1>2, <1>3 DEF AdsOK, Fresh, New
<1> QED BY <1>4, <1>5, <1>6, <1>7, <1>8 DEF IInv

\* A request that one of the actions begins.
Beginning(r) ==
  \/ \E u \in Users : BeginByReader(r, u)
  \/ \E c \in Comments, s \in Moderations : BeginModerate(r, c, s)
  \/ \E a \in Ads, body \in AdCreations : BeginCreateAd(r, a, body)
  \/ \E a \in Ads, body \in AdUpdates : BeginUpdateAd(r, a, body)
  \/ \E a \in Ads, s \in {"active", "paused"} : BeginAdStatus(r, a, s)

LEMMA BeginForm ==
  ASSUME InteractionsAssumption, IInv, NEW r \in Requests, Beginning(r)
  PROVE  \E q : Fresh(q) /\ Begin(r, q)
<1> USE DEF Idle, Request, WellFormed, Fresh, CommentStatuses
<1>1. ASSUME NEW u \in Users, NEW c \in Comments, comment[c] = "none", New(c),
             Begin(r, [Idle EXCEPT !.pc = "article", !.kind = "comment", !.user = u,
                                   !.row = c])
      PROVE  \E q : Fresh(q) /\ Begin(r, q)
  <2>1. Fresh([Idle EXCEPT !.pc = "article", !.kind = "comment", !.user = u, !.row = c])
    BY <1>1
  <2> QED BY <1>1, <2>1
<1>2. ASSUME NEW u \in Users, NEW x \in ReactionTypes,
             Begin(r, [Idle EXCEPT !.pc = "article", !.kind = "react", !.user = u,
                                   !.value = x])
      PROVE  \E q : Fresh(q) /\ Begin(r, q)
  <2>1. Fresh([Idle EXCEPT !.pc = "article", !.kind = "react", !.user = u, !.value = x])
    OBVIOUS
  <2> QED BY <1>2, <2>1
<1>3. ASSUME NEW u \in Users, NEW k \in {"view", "unreact", "slots"},
             Begin(r, [Idle EXCEPT !.pc = "article", !.kind = k, !.user = u])
      PROVE  \E q : Fresh(q) /\ Begin(r, q)
  <2>1. Fresh([Idle EXCEPT !.pc = "article", !.kind = k, !.user = u])
    OBVIOUS
  <2> QED BY <1>3, <2>1
<1>4. ASSUME NEW c \in Comments, NEW s \in Moderations, BeginModerate(r, c, s)
      PROVE  \E q : Fresh(q) /\ Begin(r, q)
  <2>1. Fresh([Idle EXCEPT !.pc = "open", !.kind = "moderate", !.row = c, !.value = s])
    BY <1>4 DEF BeginModerate
  <2> QED BY <1>4, <2>1 DEF BeginModerate
<1>5. ASSUME NEW a \in Ads, NEW body \in AdCreations, BeginCreateAd(r, a, body)
      PROVE  \E q : Fresh(q) /\ Begin(r, q)
  <2> DEFINE q == [Idle EXCEPT !.pc = "open", !.kind = "createAd", !.row = a,
                     !.from = {body.from}, !.to = {body.to}, !.targets = {body.targets}]
  <2>1. /\ body.from \in Int /\ body.to \in Int /\ body.targets \in SUBSET Categories
        /\ body.from < body.to /\ ad[a].status = "none" /\ New(a)
    BY <1>5 DEF BeginCreateAd, InteractionsAssumption
  <2>2. /\ q \in Request /\ WellFormed(q) /\ q.pc = "open" /\ q.kind = "createAd"
        /\ q.row = a /\ q.from = {body.from} /\ q.to = {body.to}
    BY <2>1
  <2> HIDE DEF q
  <2>3. Opens(q, ad[a])
    <3>1. Given({body.from}, ad[a].from) = body.from /\ Given({body.to}, ad[a].to) = body.to
      BY GivenOne
    <3> QED BY <2>1, <2>2, <3>1 DEF Opens
  <2>4. Fresh(q)
    BY <2>1, <2>2, <2>3
  <2> QED BY <1>5, <2>4 DEF BeginCreateAd, q
<1>6. ASSUME NEW a \in Ads, NEW body \in AdUpdates, BeginUpdateAd(r, a, body)
      PROVE  \E q : Fresh(q) /\ Begin(r, q)
  <2> DEFINE q == [Idle EXCEPT !.pc = "open", !.kind = "updateAd", !.row = a,
                     !.from = body.from, !.to = body.to, !.targets = body.targets]
  <2>1. /\ body.from \in SUBSET Int /\ body.to \in SUBSET Int
        /\ body.targets \in SUBSET SUBSET Categories
    BY DEF InteractionsAssumption
  <2>2. Fresh(q)
    BY <1>6, <2>1 DEF BeginUpdateAd
  <2> QED BY <1>6, <2>2 DEF BeginUpdateAd
<1>7. ASSUME NEW a \in Ads, NEW s \in {"active", "paused"}, BeginAdStatus(r, a, s)
      PROVE  \E q : Fresh(q) /\ Begin(r, q)
  <2>1. Fresh([Idle EXCEPT !.pc = "open", !.kind = "adStatus", !.row = a, !.value = s])
    BY <1>7 DEF BeginAdStatus
  <2> QED BY <1>7, <2>1 DEF BeginAdStatus
<1>8. ASSUME NEW u \in Users, BeginByReader(r, u)
      PROVE  \E q : Fresh(q) /\ Begin(r, q)
  <2> HIDE DEF Idle, Request, WellFormed, Fresh, CommentStatuses
  <2> QED BY <1>1, <1>2, <1>3, <1>8 DEF BeginByReader
<1> HIDE DEF Idle, Request, WellFormed, Fresh, CommentStatuses
<1> QED BY <1>4, <1>5, <1>6, <1>7, <1>8 DEF Beginning

-----------------------------------------------------------------------------
(* A transaction reads its comment or takes its advertisement.             *)

LEMMA OpenInv ==
  ASSUME InteractionsAssumption, IInv, NEW r \in Requests, Open(r)
  PROVE  IInv'
<1> DEFINE k == req[r].kind
           c == req[r].row
           where == CASE k \in {"comment", "view", "createAd"} -> "commit"
                      [] k = "react" -> "upsert"
                      [] k = "moderate" -> "update"
                      [] OTHER -> "lockAd"
           seen == IF k = "moderate" THEN comment[c] ELSE req[r].seen
           others == {o \in Requests \ {r} :
                        req[o].kind = "moderate" /\ req[o].row = c /\ InTx(o)}
           q == [req[r] EXCEPT !.pc = where, !.seen = seen]
<1>1. /\ Types /\ RequestsOK /\ CommentsOK /\ AdsOK
      /\ WellFormed(req[r]) /\ req[r].pc = "open" /\ req[r] \in Request
      /\ UNCHANGED <<article, comment, reaction, ad, impressions, rowLock, broken, leaked>>
      /\ overlapped' = IF k = "moderate" /\ others # {} THEN overlapped \cup {c}
                       ELSE overlapped
  BY DEF IInv, RequestsOK, Types, Open, world, tables
<1>2. req' = [req EXCEPT ![r] = q]
  BY <1>1 DEF Open, Types
<1>3. /\ k \in {"comment", "view", "createAd", "react", "moderate", "updateAd", "adStatus"}
      /\ where = "commit" => k \in {"comment", "view", "createAd"}
      /\ where = "upsert" => k = "react"
      /\ where = "update" <=> k = "moderate"
      /\ where = "lockAd" => k \in {"updateAd", "adStatus"}
      /\ where \in {"commit", "upsert", "update", "lockAd"}
  BY <1>1 DEF WellFormed, Request
<1>4. /\ seen \in CommentStatuses
      /\ k = "moderate" => seen = comment[c]
  BY <1>1 DEF Types, Request, WellFormed
<1> HIDE DEF where, seen
<1>5. /\ q \in Request /\ q.pc = where /\ q.kind = k /\ q.user = req[r].user /\ q.row = c
      /\ q.value = req[r].value /\ q.from = req[r].from /\ q.to = req[r].to
      /\ q.targets = req[r].targets /\ q.seen = seen /\ q.deleting = req[r].deleting
  BY <1>1, <1>3, <1>4 DEF Request
<1> HIDE DEF q
<1>6. /\ WellFormed(q) /\ ~ Updating(q)
      /\ Moderating(q) <=> k = "moderate"
  BY <1>1, <1>3, <1>5 DEF WellFormed, Updating, Moderating
<1>7. req'[r] = q /\ \A o \in Requests \ {r} : req'[o] = req[o]
  BY <1>1, <1>2 DEF Types
<1>8. Types'
  BY <1>1, <1>2, <1>5 DEF Types
<1>9. RequestsOK'
  BY <1>1, <1>6, <1>7 DEF RequestsOK
<1>10. LeakOK'
  BY <1>1, <1>3, <1>5, <1>7 DEF IInv, LeakOK
<1>11. AdsOK'
  BY <1>1, <1>5, <1>6, <1>7 DEF AdsOK, Opens
<1>12. CommentsOK'
  <2>1. overlapped \subseteq overlapped'
    BY <1>1
  <2>2. \A o \in Requests : req'[o].kind = req[o].kind /\ req'[o].row = req[o].row
    BY <1>5, <1>7
  <2>3. ASSUME NEW o \in Requests, Moderating(req'[o]), req'[o].row \notin overlapped'
        PROVE  req'[o].seen = comment[req'[o].row]
    BY <1>1, <1>4, <1>5, <1>6, <1>7, <2>1, <2>3 DEF CommentsOK
  <2>4. ASSUME NEW o \in Requests \ {r}, Moderating(req[o]), req[o].row = c, k = "moderate"
        PROVE  c \in overlapped'
    <3>1. o \in others
      BY <2>4 DEF Moderating, InTx
    <3> QED BY <1>1, <2>4, <3>1
  <2>5. \A p, o \in Requests :
          Moderating(req'[p]) /\ Moderating(req'[o]) /\ req'[p].row = req'[o].row
            => p = o \/ req'[p].row \in overlapped'
    BY <1>1, <1>5, <1>6, <1>7, <2>1, <2>4 DEF CommentsOK
  <2>6. LogBreaksOnlyByOverlap'
    BY <1>1, <2>1 DEF CommentsOK, LogBreaksOnlyByOverlap
  <2> QED BY <1>1, <2>2, <2>3, <2>5, <2>6 DEF CommentsOK
<1> QED BY <1>8, <1>9, <1>10, <1>11, <1>12 DEF IInv

LEMMA LockAdInv ==
  ASSUME InteractionsAssumption, IInv, NEW r \in Requests, LockAd(r)
  PROVE  IInv'
<1> DEFINE a == req[r].row
           where == IF req[r].kind = "updateAd" THEN "updateAd" ELSE "commit"
           q == [req[r] EXCEPT !.pc = where, !.deleting = ad[a].targets]
<1>1. /\ Types /\ RequestsOK /\ CommentsOK /\ AdsOK
      /\ WellFormed(req[r]) /\ req[r].kind \in {"updateAd", "adStatus"}
      /\ req[r] \in Request /\ a \in Ads /\ a \in Rows /\ rowLock[a] = NoRequest
      /\ UNCHANGED <<article, comment, reaction, ad, impressions, overlapped, broken, leaked>>
  BY DEF IInv, RequestsOK, Types, WellFormed, LockAd, world, tables, Rows
<1>2. CASE EndRequest(r)
  BY <1>1, <1>2, EndInv DEF Types
<1>3. CASE /\ ~ (req[r].kind = "updateAd" /\ To(r) <= From(r))
           /\ rowLock' = [rowLock EXCEPT ![a] = r]
           /\ req' = [req EXCEPT ![r].pc = where, ![r].deleting = ad[a].targets]
  <2>1. req' = [req EXCEPT ![r] = q]
    BY <1>1, <1>3 DEF Types
  <2>2. ad[a].targets \in SUBSET Categories /\ ad[a].from \in Int /\ ad[a].to \in Int
    BY <1>1 DEF Types, Advertisement
  <2>0. where \in {"updateAd", "commit"} /\ (where = "updateAd" <=> req[r].kind = "updateAd")
    OBVIOUS
  <2> HIDE DEF where
  <2>3. /\ q \in Request /\ q.pc = where /\ q.kind = req[r].kind /\ q.user = req[r].user
        /\ q.row = a /\ q.value = req[r].value /\ q.from = req[r].from /\ q.to = req[r].to
        /\ q.targets = req[r].targets /\ q.seen = req[r].seen
        /\ q.deleting = ad[a].targets
    BY <1>1, <2>0, <2>2 DEF Request
  <2>4. Given(req[r].from, ad[a].from) \in Int /\ Given(req[r].to, ad[a].to) \in Int
    BY <1>1, <2>2, GivenType DEF Request
  <2> HIDE DEF q
  <2>5. WellFormed(q) /\ ~ Moderating(q)
    BY <1>1, <2>0, <2>3 DEF WellFormed, Moderating
  <2>6. Updating(q) => Opens(q, ad[a])
    BY <1>1, <1>3, <2>3, <2>4 DEF Updating, Opens, From, To
  <2>7. /\ req'[r] = q /\ \A o \in Requests \ {r} : req'[o] = req[o]
        /\ rowLock'[a] = r
        /\ \A x \in Rows \ {a} : rowLock'[x] = rowLock[x]
    BY <1>1, <1>3, <2>1 DEF Types
  <2>8. Types'
    <3>1. rowLock' \in [Rows -> Requests \cup {NoRequest}]
      BY <1>1, <1>3 DEF Types
    <3>2. req' \in [Requests -> Request]
      BY <1>1, <2>1, <2>3 DEF Types
    <3> QED BY <1>1, <3>1, <3>2 DEF Types
  <2>9. RequestsOK'
    BY <1>1, <2>5, <2>7 DEF RequestsOK
  <2>10. LeakOK'
    BY <1>1, <2>0, <2>3, <2>7 DEF IInv, LeakOK
  <2>11. CommentsOK'
    BY <1>1, <2>3, <2>5, <2>7 DEF CommentsOK, LogBreaksOnlyByOverlap
  <2>12. AdsOK'
    <3>1. \A o \in Requests : req'[o].kind = req[o].kind /\ req'[o].row = req[o].row
      BY <2>3, <2>7
    <3>2. ASSUME NEW o \in Requests \ {r}, Updating(req[o])
          PROVE  rowLock'[req[o].row] = o
      <4>1. req[o].row \in Rows /\ rowLock[req[o].row] = o
        BY <1>1, <3>2 DEF AdsOK, Updating, RequestsOK, WellFormed, Rows
      <4>2. req[o].row # a
        BY <1>1, <4>1 DEF InteractionsAssumption
      <4> QED BY <2>7, <4>1, <4>2
    <3>3. \A o \in Requests : Updating(req'[o]) =>
            rowLock'[req'[o].row] = o /\ ad[req'[o].row].targets \subseteq req'[o].deleting
      BY <1>1, <2>3, <2>7, <3>2 DEF AdsOK
    <3>4. \A o \in Requests : Updating(req'[o]) \/ req'[o].kind = "createAd" =>
            Opens(req'[o], ad[req'[o].row])
      BY <1>1, <2>3, <2>6, <2>7 DEF AdsOK
    <3> QED BY <1>1, <3>1, <3>3, <3>4 DEF AdsOK
  <2> QED BY <2>8, <2>9, <2>10, <2>11, <2>12 DEF IInv
<1> QED BY <1>2, <1>3 DEF LockAd

-----------------------------------------------------------------------------
(* COMMIT.                                                                 *)

\* The slots once a transaction is over.
LEMMA EndSlots ==
  ASSUME IInv, NEW r \in Requests, EndRequest(r)
  PROVE  /\ req' \in [Requests -> Request] /\ req'[r].kind = "none"
         /\ req'[r].pc = "idle" /\ ~ Moderating(req'[r]) /\ ~ Updating(req'[r])
         /\ \A o \in Requests \ {r} : req'[o] = req[o]
         /\ rowLock' \in [Rows -> Requests \cup {NoRequest}]
         /\ \A x \in Rows : rowLock[x] \in Requests \ {r} => rowLock'[x] = rowLock[x]
         /\ RequestsOK'
         /\ UNCHANGED <<article, leaked>> => LeakOK'
<1>1. /\ Becomes(r, Idle) /\ req' \in [Requests -> Request] /\ req'[r] = Idle
      /\ \A o \in Requests \ {r} : req'[o] = req[o]
  BY EndBecomes
<1>2. Idle.kind = "none" /\ Idle.pc = "idle" /\ ~ Moderating(Idle) /\ ~ Updating(Idle)
  BY DEF Idle, Moderating, Updating
<1>3. RequestsOK'
  BY <1>1 DEF IInv, RequestsOK, Becomes
<1>4. UNCHANGED <<article, leaked>> => LeakOK'
  BY <1>1, <1>2, LeakFrame
<1> QED BY <1>1, <1>2, <1>3, <1>4 DEF Becomes

\* A commit that leaves the advertisements alone.
LEMMA EndKeepsAds ==
  ASSUME IInv, NEW r \in Requests, EndRequest(r), UNCHANGED ad
  PROVE  AdsOK'
<1>1. ASSUME NEW o \in Requests, Updating(req'[o])
      PROVE  rowLock'[req'[o].row] = o
  <2>1. o # r /\ req'[o] = req[o] /\ req[o].row \in Rows /\ rowLock[req[o].row] = o
    BY <1>1, EndSlots DEF IInv, AdsOK, Updating, RequestsOK, WellFormed, Rows
  <2> QED BY <2>1, EndSlots
<1> QED BY <1>1, EndSlots DEF IInv, AdsOK

LEMMA CommitCommentInv ==
  ASSUME InteractionsAssumption, IInv, NEW r \in Requests,
         CommitComment(r) \/ CommitModeration(r), req[r].pc = "commit", EndRequest(r),
         UNCHANGED <<world, overlapped, leaked>>
  PROVE  IInv'
<1> DEFINE c == req[r].row
<1>1. /\ Types /\ RequestsOK /\ CommentsOK /\ WellFormed(req[r]) /\ c \in Comments
      /\ UNCHANGED <<article, reaction, ad, impressions, overlapped, leaked>>
  BY DEF IInv, RequestsOK, WellFormed, CommitComment, CommitModeration, world
<1>2. PICK s \in CommentStatuses \ {"none"} : comment' = [comment EXCEPT ![c] = s]
  BY <1>1 DEF CommitComment, CommitModeration, WellFormed, CommentStatuses,
     InteractionsAssumption
<1>3. comment' \in [Comments -> CommentStatuses] /\ comment'[c] # "none"
      /\ \A x \in Comments \ {c} : comment'[x] = comment[x]
  BY <1>1, <1>2 DEF Types
<1>4. \A o \in Requests : req'[o].kind # "none" => o # r /\ req'[o] = req[o]
  BY EndSlots
<1>5. CommentsOK'
  <2>1. ASSUME NEW o \in Requests \ {r}, req[o].kind = "comment"
        PROVE  comment'[req[o].row] = "none"
    <3>1. req[o].row \in Comments /\ comment[req[o].row] = "none"
      BY <1>1, <2>1 DEF CommentsOK, RequestsOK, WellFormed
    <3>2. req[o].row # c
      BY <1>1, <2>1, <3>1 DEF CommentsOK, CommitComment, CommitModeration
    <3> QED BY <1>3, <3>1, <3>2
  <2>2. ASSUME NEW o \in Requests \ {r}, req[o].kind = "moderate"
        PROVE  comment'[req[o].row] # "none"
    <3>1. req[o].row \in Comments /\ comment[req[o].row] # "none"
      BY <1>1, <2>2 DEF CommentsOK, RequestsOK, WellFormed
    <3> QED BY <1>3, <3>1
  <2>3. ASSUME NEW o \in Requests \ {r}, Moderating(req[o]), req[o].row \notin overlapped
        PROVE  req[o].seen = comment'[req[o].row]
    <3>1. req[o].row \in Comments /\ comment[req[o].row] # "none"
      BY <1>1, <2>3 DEF CommentsOK, RequestsOK, WellFormed, Moderating
    <3>2. req[o].row # c
      <4>1. CASE CommitComment(r)
        BY <1>1, <3>1, <4>1 DEF CommentsOK, CommitComment
      <4>2. CASE CommitModeration(r)
        <5>1. Moderating(req[r])
          BY <4>2 DEF CommitModeration, Moderating
        <5> QED BY <1>1, <2>3, <5>1 DEF CommentsOK
      <4> QED BY <4>1, <4>2
    <3> QED BY <1>1, <1>3, <2>3, <3>1, <3>2 DEF CommentsOK
  <2>4. LogBreaksOnlyByOverlap'
    <3>1. CASE CommitComment(r)
      BY <1>1, <3>1 DEF CommitComment, CommentsOK, LogBreaksOnlyByOverlap
    <3>2. CASE CommitModeration(r)
      <4>1. Moderating(req[r])
        BY <3>2 DEF CommitModeration, Moderating
      <4>2. c \notin overlapped => req[r].seen = comment[c]
        BY <1>1, <4>1 DEF CommentsOK
      <4> QED BY <1>1, <3>2, <4>2 DEF CommitModeration, CommentsOK, LogBreaksOnlyByOverlap
    <3> QED BY <3>1, <3>2
  <2> QED BY <1>1, <1>4, <2>1, <2>2, <2>3, <2>4 DEF CommentsOK, Moderating
<1>6. Types'
  BY <1>1, <1>3, EndSlots DEF Types
<1> QED BY <1>1, <1>5, <1>6, EndSlots, EndKeepsAds DEF IInv

\* A commit that leaves the comments alone.
LEMMA EndKeepsComments ==
  ASSUME IInv, NEW r \in Requests, EndRequest(r), UNCHANGED <<comment, overlapped, broken>>
  PROVE  CommentsOK'
BY EndSlots DEF IInv, CommentsOK, LogBreaksOnlyByOverlap, Moderating

LEMMA CommitAdStatusInv ==
  ASSUME InteractionsAssumption, IInv, NEW r \in Requests, CommitAdStatus(r),
         req[r].pc = "commit", EndRequest(r), UNCHANGED <<world, overlapped, leaked>>
  PROVE  IInv'
<1> DEFINE a == req[r].row
<1>1. /\ Types /\ RequestsOK /\ AdsOK /\ a \in Ads /\ ad[a].status # "none"
      /\ req[r].value \in {"active", "paused"}
      /\ UNCHANGED <<article, comment, reaction, impressions, overlapped, broken, leaked>>
      /\ ad' = [ad EXCEPT ![a].status = req[r].value]
  BY DEF IInv, RequestsOK, WellFormed, AdsOK, CommitAdStatus, world
<1>2. ad' \in [Ads -> Advertisement]
  BY <1>1 DEF Types, Advertisement
<1>3. /\ ad'[a].status # "none"
      /\ \A x \in Ads : /\ x # a => ad'[x] = ad[x]
                        /\ ad'[x].from = ad[x].from /\ ad'[x].to = ad[x].to
                        /\ ad'[x].targets = ad[x].targets
  BY <1>1 DEF Types, Advertisement
<1>4. Types'
  BY <1>1, <1>2, EndSlots DEF Types
<1>5. AdsOK'
  <2>1. ASSUME NEW o \in Requests, Updating(req'[o])
        PROVE  /\ rowLock'[req'[o].row] = o
               /\ ad'[req'[o].row].targets \subseteq req'[o].deleting
    <3>1. o # r /\ req'[o] = req[o]
      BY <2>1, EndSlots
    <3>2. /\ req[o].row \in Ads /\ req[o].row \in Rows /\ rowLock[req[o].row] = o
          /\ ad[req[o].row].targets \subseteq req[o].deleting
      BY <1>1, <2>1, <3>1 DEF AdsOK, Updating, RequestsOK, WellFormed, Rows
    <3> QED BY <1>3, <3>1, <3>2, EndSlots
  <2>2. ASSUME NEW o \in Requests, Updating(req'[o]) \/ req'[o].kind = "createAd"
        PROVE  Opens(req'[o], ad'[req'[o].row])
    <3>1. o # r /\ req'[o] = req[o]
      BY <2>2, EndSlots
    <3>2. req[o].row \in Ads /\ Opens(req[o], ad[req[o].row])
      BY <1>1, <2>2, <3>1 DEF AdsOK, Updating, RequestsOK, WellFormed
    <3> QED BY <1>3, <3>1, <3>2 DEF Opens
  <2>3. ASSUME NEW o \in Requests, req'[o].kind \in {"createAd", "updateAd", "adStatus"}
        PROVE  /\ req'[o] = req[o] /\ o # r
               /\ req[o].kind = "createAd" => ad'[req[o].row].status = "none"
               /\ req[o].kind # "createAd" => ad'[req[o].row].status # "none"
    <3>1. o # r /\ req'[o] = req[o] /\ req[o].row \in Ads
      BY <1>1, <2>3, EndSlots DEF RequestsOK, WellFormed
    <3> QED BY <1>1, <1>3, <2>3, <3>1 DEF AdsOK
  <2>4. \A x \in Ads : ad'[x].status # "none" => ad'[x].from < ad'[x].to
    BY <1>1, <1>3 DEF AdsOK
  <2> QED BY <1>1, <2>1, <2>2, <2>3, <2>4 DEF AdsOK
<1> QED BY <1>1, <1>4, <1>5, EndSlots, EndKeepsComments DEF IInv

LEMMA CommitAdInv ==
  ASSUME InteractionsAssumption, IInv, NEW r \in Requests, CommitAd(r),
         req[r].pc = "commit", EndRequest(r), UNCHANGED <<world, overlapped, leaked>>
  PROVE  IInv'
<1> DEFINE a == req[r].row
           x == [status |-> IF req[r].kind = "createAd" THEN "draft" ELSE ad[a].status,
                 from |-> From(r), to |-> To(r),
                 targets |-> ReplacedTargets(r, ad[a].targets)]
<1>1. /\ Types /\ RequestsOK /\ AdsOK /\ a \in Ads /\ req[r] \in Request
      /\ ad[a] \in Advertisement
      /\ req[r].kind = "createAd" \/ (Updating(req[r]) /\ ad[a].status # "none")
      /\ UNCHANGED <<article, comment, reaction, impressions, overlapped, broken, leaked>>
      /\ ad' = [ad EXCEPT ![a] = x]
  BY DEF IInv, RequestsOK, WellFormed, AdsOK, CommitAd, world, Types, Updating
<1>2. From(r) \in Int /\ To(r) \in Int /\ From(r) < To(r)
  <2>1. From(r) \in Int /\ To(r) \in Int
    BY <1>1, GivenType DEF From, To, Request, Advertisement
  <2>2. Opens(req[r], ad[a])
    BY <1>1 DEF AdsOK
  <2> QED BY <2>1, <2>2 DEF Opens, From, To
<1>3. ReplacedTargets(r, ad[a].targets) \in SUBSET Categories
  BY <1>1 DEF ReplacedTargets, Request, Advertisement
<1>4. x \in Advertisement /\ x.status # "none" /\ x.from < x.to
  BY <1>1, <1>2, <1>3 DEF Advertisement
<1> HIDE DEF x
<1>5. /\ ad' \in [Ads -> Advertisement] /\ ad'[a] = x
      /\ \A b \in Ads \ {a} : ad'[b] = ad[b]
  BY <1>1, <1>4 DEF Types
<1>6. Types'
  BY <1>1, <1>5, EndSlots DEF Types
<1>7. AdsOK'
  <2>1. ASSUME NEW o \in Requests, Updating(req'[o])
        PROVE  /\ o # r /\ req'[o] = req[o] /\ rowLock'[req[o].row] = o
               /\ ad'[req[o].row] = ad[req[o].row]
               /\ ad[req[o].row].targets \subseteq req[o].deleting
    <3>1. o # r /\ req'[o] = req[o]
      BY <2>1, EndSlots
    <3>2. /\ req[o].row \in Ads /\ req[o].row \in Rows /\ rowLock[req[o].row] = o
          /\ ad[req[o].row].targets \subseteq req[o].deleting
          /\ ad[req[o].row].status # "none"
      BY <1>1, <2>1, <3>1 DEF AdsOK, Updating, RequestsOK, WellFormed, Rows
    <3>3. req[o].row # a
      BY <1>1, <3>1, <3>2 DEF AdsOK
    <3> QED BY <1>5, <3>1, <3>2, <3>3, EndSlots
  <2>2. ASSUME NEW o \in Requests, req'[o].kind = "createAd"
        PROVE  o # r /\ req'[o] = req[o] /\ ad'[req[o].row] = ad[req[o].row]
    <3>1. o # r /\ req'[o] = req[o] /\ req[o].row \in Ads
      BY <1>1, <2>2, EndSlots DEF RequestsOK, WellFormed
    <3>2. req[o].row # a
      BY <1>1, <2>2, <3>1 DEF AdsOK
    <3> QED BY <1>5, <3>1, <3>2
  <2>3. ASSUME NEW o \in Requests, req'[o].kind \in {"updateAd", "adStatus"}
        PROVE  o # r /\ req'[o] = req[o] /\ ad'[req[o].row].status # "none"
    <3>1. o # r /\ req'[o] = req[o] /\ req[o].row \in Ads /\ ad[req[o].row].status # "none"
      BY <1>1, <2>3, EndSlots DEF RequestsOK, WellFormed, AdsOK
    <3> QED BY <1>4, <1>5, <3>1
  <2>4. \A b \in Ads : ad'[b].status # "none" => ad'[b].from < ad'[b].to
    BY <1>1, <1>4, <1>5 DEF AdsOK
  <2> QED BY <1>1, <2>1, <2>2, <2>3, <2>4 DEF AdsOK
<1> QED BY <1>1, <1>6, <1>7, EndSlots, EndKeepsComments DEF IInv

LEMMA CommitInv ==
  ASSUME InteractionsAssumption, IInv, NEW r \in Requests, Commit(r)
  PROVE  IInv'
<1>1. /\ req[r].pc = "commit" /\ EndRequest(r) /\ UNCHANGED <<world, overlapped, leaked>>
      /\ WellFormed(req[r]) /\ reaction \in [Users -> SUBSET ReactionTypes]
  BY DEF Commit, IInv, RequestsOK, Types
<1>2. CASE CommitView(r)
  BY <1>1, <1>2, EndInv DEF CommitView, tables, world
<1>3. CASE CommitReaction(r)
  <2>1. reaction' \in [Users -> SUBSET ReactionTypes]
    BY <1>1, <1>3 DEF CommitReaction, Upserted, WellFormed
  <2> QED BY <1>1, <1>3, <2>1, EndInv DEF CommitReaction, world
<1> QED BY <1>1, <1>2, <1>3, CommitCommentInv, CommitAdStatusInv, CommitAdInv DEF Commit

-----------------------------------------------------------------------------
(* All steps.                                                              *)

LEMMA ChangeWorldInv ==
  ASSUME IInv, ChangeWorld
  PROVE  IInv'
<1>1. UNCHANGED <<comment, reaction, ad, impressions, rowLock, req, overlapped, broken>>
  BY DEF ChangeWorld, tables
<1>2. Types'
  BY <1>1 DEF IInv, Types, ChangeWorld
<1>3. RequestsOK' /\ CommentsOK' /\ AdsOK'
  BY <1>1 DEF IInv, RequestsOK, CommentsOK, LogBreaksOnlyByOverlap, AdsOK
<1>4. LeakOK'
  BY <1>1 DEF IInv, LeakOK, ChangeWorld
<1> QED BY <1>2, <1>3, <1>4 DEF IInv

LEMMA StutterInv ==
  ASSUME IInv, UNCHANGED vars
  PROVE  IInv'
BY DEF IInv, Types, RequestsOK, CommentsOK, LogBreaksOnlyByOverlap, AdsOK, LeakOK, vars,
   world, tables

LEMMA InitInv ==
  ASSUME InteractionsAssumption, Init
  PROVE  IInv
<1>1. /\ Idle \in Request /\ WellFormed(Idle) /\ Idle.kind = "none"
      /\ ~ Moderating(Idle) /\ ~ Updating(Idle)
  BY DEF Idle, Request, CommentStatuses, WellFormed, Moderating, Updating
<1> QED BY <1>1 DEF Init, IInv, Types, CommentStatuses, RequestsOK, CommentsOK,
           LogBreaksOnlyByOverlap, AdsOK, LeakOK, InteractionsAssumption

LEMMA AcquireTimeoutInv ==
  ASSUME IInv, NEW r \in Requests, AcquireTimeout(r)
  PROVE  IInv'
BY EndInv DEF AcquireTimeout, IInv, Types, world, tables

LEMMA NextInv ==
  ASSUME InteractionsAssumption, IInv, [Next]_vars
  PROVE  IInv'
<1>1. ASSUME NEW r \in Requests, Serve(r)
      PROVE  IInv'
  BY <1>1, CheckInv, OpenInv, ReactionStatementsInv, DeleteRowInv, UpdateCommentInv,
     LockAdInv, UpdateAdInv, CommitInv, SelectAdsInv, InsertImpressionInv, CommitImpressionInv
     DEF Serve
<1>2. ASSUME NEW r \in Requests, Beginning(r)
      PROVE  IInv'
  BY <1>2, BeginForm, BeginInv
<1> QED BY <1>1, <1>2, AcquireTimeoutInv, ChangeWorldInv, StutterInv DEF Next, Beginning

LEMMA Invariant == Spec => []IInv
<1>1. InteractionsAssumption
  BY InteractionsAssumption
<1> QED BY <1>1, InitInv, NextInv, PTL DEF Spec

-----------------------------------------------------------------------------
(* The theorems.                                                           *)

\* A slot records at most one impression of an article that has become premium,
\* however many it was about to: the trigger ends the loop of getSlotsForArticle.
THEOREM LateImpressionsAreBounded == Spec => []OneLateImpression
<1>1. IInv => OneLateImpression
  BY DEF IInv, Types, LeakOK, OneLateImpression
<1> QED BY <1>1, Invariant, PTL

\* The log of a comment that no two transactions have moderated at the same time is
\* the chain of its statuses (moderate).
THEOREM LogsAreChains == Spec => []LogBreaksOnlyByOverlap
<1>1. IInv => LogBreaksOnlyByOverlap
  BY DEF IInv, CommentsOK
<1> QED BY <1>1, Invariant, PTL

\* Two updates that each change one end of the window cannot leave an advertisement
\* whose window is empty: the second one checks the row under the lock
\* (getWindowForMutation, advertisements_dates_check).
THEOREM WindowsStayOpen ==
  Spec => [](\A a \in Ads : ad[a].status # "none" => ad[a].from < ad[a].to)
<1>1. IInv => \A a \in Ads : ad[a].status # "none" => ad[a].from < ad[a].to
  BY DEF IInv, AdsOK
<1> QED BY <1>1, Invariant, PTL

\* Who ends at its COMMIT has committed.
LEMMA EndsByCommit ==
  ASSUME InteractionsAssumption, IInv, Next, NEW r \in Requests,
         req[r].pc = "commit", req'[r].pc = "idle"
  PROVE  Commit(r)
<1>1. Types /\ RequestsOK
  BY DEF IInv
<1>2. ASSUME NEW o \in Requests, Beginning(o)
      PROVE  FALSE
  <2>1. PICK q : Fresh(q) /\ Begin(o, q)
    BY <1>2, BeginForm
  <2>2. req'[r].pc # "idle"
    BY <1>1, <2>1 DEF Fresh, Begin, Types
  <2> QED BY <2>2
<1>3. ASSUME NEW o \in Requests, AcquireTimeout(o)
      PROVE  FALSE
  <2>1. o # r
    BY <1>3 DEF AcquireTimeout, Acquires
  <2> QED BY <1>1, <1>3, <2>1, EndSlots DEF AcquireTimeout
<1>4. ~ ChangeWorld
  BY DEF ChangeWorld
<1>5. PICK o \in Requests : Serve(o)
  BY <1>2, <1>3, <1>4 DEF Next, Beginning
<1>6. ~ DeleteRow(o)
  BY DeleteRowSlots
<1>7. o = r
  BY <1>1, <1>5, <1>6 DEF Serve, CheckArticle, CheckSubscription, Open, UpsertReaction,
     UpdateComment, DeleteReaction, ReadMine, LockAd, UpdateAd, Commit, SelectAds,
     InsertImpression, CommitImpression, Lock, Goto, EndRequest, Types
<1> QED BY <1>5, <1>6, <1>7 DEF Serve, CheckArticle, CheckSubscription, Open, UpsertReaction,
           UpdateComment, DeleteReaction, ReadMine, LockAd, UpdateAd, SelectAds,
           InsertImpression, CommitImpression

\* An update that names targets leaves exactly these: under the lock of the row, it
\* has deleted every target there is (replaceTargets).
THEOREM UpdatesReplaceTargets == Spec => TargetsOfOneUpdate
<1> DEFINE Step == \A r \in Requests, a \in Ads :
             req[r].kind = "updateAd" /\ req[r].row = a /\ req[r].targets # {}
               /\ req[r].pc = "commit" /\ req'[r].pc = "idle"
             => ad'[a].targets = UNION req[r].targets
<1>1. IInv /\ [Next]_vars => [Step]_vars
  <2> SUFFICES ASSUME IInv, Next, NEW r \in Requests, NEW a \in Ads,
                      req[r].kind = "updateAd", req[r].row = a, req[r].targets # {},
                      req[r].pc = "commit", req'[r].pc = "idle"
               PROVE  ad'[a].targets = UNION req[r].targets
    OBVIOUS
  <2>1. CommitAd(r)
    BY EndsByCommit, InteractionsAssumption DEF Commit, CommitView, CommitComment,
       CommitReaction, CommitModeration, CommitAdStatus
  <2>2. Updating(req[r]) /\ ad[a].targets \subseteq req[r].deleting
    BY DEF IInv, AdsOK, Updating
  <2>3. ad'[a].targets = ReplacedTargets(r, ad[a].targets)
    BY <2>1 DEF CommitAd, IInv, Types
  <2> QED BY <2>2, <2>3 DEF ReplacedTargets
<1> QED BY <1>1, Invariant, PTL DEF Spec, TargetsOfOneUpdate
=============================================================================

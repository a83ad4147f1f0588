----------------------- MODULE ArticlePublishingProofs -----------------------
(***************************************************************************)
(* Proofs about ArticlePublishing, for any articles, requests in flight,   *)
(* bodies of PATCH and bounds.                                             *)
(***************************************************************************)
EXTENDS ArticlePublishing, TLAPS

-----------------------------------------------------------------------------
(* The inductive invariant.                                                *)

\* What a request in flight still knows of its article when it commits: a new one
\* has every column and nobody else knows of it, any other one was there and no
\* transition removes it.
RequestOK ==
  \A r \in Requests :
    /\ pc[r] = "idle" \/ kind[r] \notin {"create", "update"} =>
         edits[r] = {} /\ newAccess[r] = "unchanged"
    /\ pc[r] # "idle" =>
         /\ art[r] \in Articles
         /\ kind[r] = "create" =>
              /\ edits[r] = Fields /\ newAccess[r] # "unchanged" /\ pc[r] # "write"
              /\ status[art[r]] = "none"
              /\ \A o \in Requests \ {r} : pc[o] # "idle" => art[o] # art[r]
         /\ kind[r] # "create" => status[art[r]] # "none"

\* A request that has updated the row holds it, so that the version it has made is
\* still the row as it is with the columns of the request.
TupleOK ==
  \A r \in Requests : pc[r] \in {"invalidate", "commit"} =>
    /\ kind[r] = "create" =>
         tuple[r] = [status |-> "draft", access |-> newAccess[r],
                     title |-> stamp[r], body |-> stamp[r]]
    /\ WritesRow(r) => rowLock[art[r]] = r /\ tuple[r] = Updated(r)

IInv == TypeOK /\ RequestOK /\ TupleOK /\ PublishedInThePast /\ TextsAreInRevisions
          /\ LastEventTellsStatus

-----------------------------------------------------------------------------
(* Lemmas on what a request writes.                                        *)

\* The rows a request adds to the outbox are events.
LEMMA EmittedType ==
  ASSUME NEW r \in Requests, TypeOK
  PROVE  Emitted(r) \in Seq(EventTypes)
<1>1. kind[r] \in Kinds
  BY DEF TypeOK
<1>2. CASE kind[r] = "publish" /\ seenAccess[r] = "premium"
  <2>1. Emitted(r) = <<"PremiumArticlePublished", "PremiumAdSlotsDisabled">>
    BY <1>2 DEF Emitted
  <2> QED BY <2>1 DEF EventTypes
<1>3. CASE kind[r] = "publish" /\ seenAccess[r] # "premium"
  <2>1. Emitted(r) = <<"PublicArticlePublished", "PublicAdSlotsEnabled">>
    BY <1>3 DEF Emitted
  <2> QED BY <2>1 DEF EventTypes
<1>4. CASE kind[r] # "publish"
  BY <1>1, <1>4 DEF Emitted, EventTypes, Kinds, Transitions
<1> QED BY <1>2, <1>3, <1>4

\* Of the rows a request adds, the first one announces the status it sets and no
\* other one announces any; a request that sets none announces none.
LEMMA EmittedAnnounces ==
  ASSUME NEW r \in Requests, TypeOK
  PROVE  /\ kind[r] \in Transitions \cup {"create"} =>
              /\ Len(Emitted(r)) >= 1
              /\ Announced(Emitted(r)[1]) = StatusAfter(kind[r])
              /\ \A j \in 2..Len(Emitted(r)) : Announced(Emitted(r)[j]) = "none"
         /\ kind[r] \notin Transitions \cup {"create"} =>
              \A j \in 1..Len(Emitted(r)) : Announced(Emitted(r)[j]) = "none"
<1>1. kind[r] \in Kinds
  BY DEF TypeOK
<1>2. CASE kind[r] = "publish" /\ seenAccess[r] = "premium"
  <2>1. Emitted(r) = <<"PremiumArticlePublished", "PremiumAdSlotsDisabled">>
    BY <1>2 DEF Emitted
  <2> QED BY <1>2, <2>1 DEF Announced, StatusAfter, Transitions
<1>3. CASE kind[r] = "publish" /\ seenAccess[r] # "premium"
  <2>1. Emitted(r) = <<"PublicArticlePublished", "PublicAdSlotsEnabled">>
    BY <1>3 DEF Emitted
  <2> QED BY <1>3, <2>1 DEF Announced, StatusAfter, Transitions
<1>4. CASE kind[r] # "publish"
  <2>1. CASE kind[r] = "attachMedia"
    <3>1. Emitted(r) = <<>>
      BY <2>1 DEF Emitted
    <3> QED BY <2>1, <3>1 DEF Transitions
  <2>2. CASE kind[r] = "update"
    <3>1. Emitted(r) = <<"ArticleUpdatedAfterPublication">>
      BY <2>2 DEF Emitted
    <3> QED BY <2>2, <3>1 DEF Announced, Transitions
  <2>3. CASE kind[r] \in Transitions \cup {"create"}
    <3>1. \E e \in EventTypes : Emitted(r) = <<e>> /\ Announced(e) = StatusAfter(kind[r])
      BY <1>4, <2>3 DEF Emitted, Announced, StatusAfter, Transitions, EventTypes
    <3> QED BY <2>3, <3>1
  <2> QED BY <1>1, <2>1, <2>2, <2>3 DEF Kinds
<1> QED BY <1>2, <1>3, <1>4

\* The last event of s that announces a status announces st.
Tells(s, st) ==
  \E i \in DOMAIN s :
    /\ Announced(s[i]) = st
    /\ \A j \in DOMAIN s : j > i => Announced(s[j]) = "none"

\* No event of s announces a status.
Silent(s) == \A j \in 1..Len(s) : Announced(s[j]) = "none"

\* The first event of s announces st, no other one announces any.
Sets(s, st) ==
  /\ Len(s) >= 1
  /\ Announced(s[1]) = st
  /\ \A j \in 2..Len(s) : Announced(s[j]) = "none"

\* What a sequence of events tells once others are appended to it.
LEMMA AppendEvents ==
  ASSUME NEW s \in Seq(EventTypes), NEW t \in Seq(EventTypes), NEW st,
         Sets(t, st) \/ (Tells(s, st) /\ Silent(t))
  PROVE  Tells(s \o t, st)
<1> DEFINE u == s \o t
<1>1. /\ DOMAIN s = 1..Len(s) /\ Len(s) \in Nat /\ Len(t) \in Nat
      /\ DOMAIN u = 1..(Len(s) + Len(t))
      /\ \A j \in 1..(Len(s) + Len(t)) :
           u[j] = IF j <= Len(s) THEN s[j] ELSE t[j - Len(s)]
  OBVIOUS
<1> HIDE DEF u
<1>2. CASE Sets(t, st)
  <2>1. Len(s) + 1 \in DOMAIN u /\ u[Len(s) + 1] = t[1]
    BY <1>1, <1>2 DEF Sets
  <2>2. ASSUME NEW j \in DOMAIN u, j > Len(s) + 1
        PROVE  Announced(u[j]) = "none"
    <3>1. u[j] = t[j - Len(s)] /\ j - Len(s) \in 2..Len(t)
      BY <1>1, <2>2
    <3> QED BY <1>2, <3>1 DEF Sets
  <2> QED BY <1>2, <2>1, <2>2 DEF u, Tells, Sets
<1>3. CASE Tells(s, st) /\ Silent(t)
  <2>1. PICK i \in DOMAIN s : /\ Announced(s[i]) = st
                              /\ \A j \in DOMAIN s : j > i => Announced(s[j]) = "none"
    BY <1>3 DEF Tells
  <2>2. i \in DOMAIN u /\ u[i] = s[i]
    BY <1>1, <2>1
  <2>3. ASSUME NEW j \in DOMAIN u, j > i
        PROVE  Announced(u[j]) = "none"
    <3>1. CASE j <= Len(s)
      <4>1. u[j] = s[j] /\ j \in DOMAIN s
        BY <1>1, <2>3, <3>1
      <4> QED BY <2>1, <2>3, <4>1
    <3>2. CASE j > Len(s)
      <4>1. u[j] = t[j - Len(s)] /\ j - Len(s) \in 1..Len(t)
        BY <1>1, <2>3, <3>2
      <4> QED BY <1>3, <4>1 DEF Silent
    <3> QED BY <1>1, <3>1, <3>2
  <2> QED BY <2>1, <2>2, <2>3 DEF u, Tells
<1> QED BY <1>2, <1>3

-----------------------------------------------------------------------------
(* Every step preserves the invariant.                                     *)

LEMMA InitInv ==
  ASSUME ArticlesAssumption, Init
  PROVE  IInv
<1>1. TypeOK
  <2>1. outbox \in [Articles -> Seq(EventTypes)]
    BY DEF Init
  <2> QED BY <2>1 DEF Init, TypeOK, ArticlesAssumption, Statuses, AccessTypes,
                     Kinds, Transitions, Tuples, NoTuple
<1>2. RequestOK /\ TupleOK /\ PublishedInThePast /\ TextsAreInRevisions
      /\ LastEventTellsStatus
  BY DEF Init, RequestOK, TupleOK, PublishedInThePast, TextsAreInRevisions,
         LastEventTellsStatus
<1> QED BY <1>1, <1>2 DEF IInv

\* What is said of the tables holds as long as they do not change.
LEMMA TablesFrame ==
  ASSUME IInv, UNCHANGED tables
  PROVE  PublishedInThePast' /\ TextsAreInRevisions' /\ LastEventTellsStatus'
BY DEF IInv, tables, row, PublishedInThePast, TextsAreInRevisions,
       LastEventTellsStatus

\* The versions made so far are still right when the rows, their locks and the
\* requests that have made them are as they were.
LEMMA TupleFrame ==
  ASSUME IInv, UNCHANGED <<status, access, title, body>>,
         \A r \in Requests : pc'[r] \in {"invalidate", "commit"} =>
           /\ pc[r] \in {"invalidate", "commit"}
           /\ kind'[r] = kind[r] /\ art'[r] = art[r] /\ edits'[r] = edits[r]
           /\ newAccess'[r] = newAccess[r] /\ stamp'[r] = stamp[r]
           /\ tuple'[r] = tuple[r]
           /\ rowLock[art[r]] = r => rowLock'[art[r]] = r
  PROVE  TupleOK'
<1> SUFFICES ASSUME NEW r \in Requests, pc'[r] \in {"invalidate", "commit"}
             PROVE  /\ kind'[r] = "create" =>
                         tuple'[r] = [status |-> "draft", access |-> newAccess'[r],
                                      title |-> stamp'[r], body |-> stamp'[r]]
                    /\ WritesRow(r)' => rowLock'[art'[r]] = r /\ tuple'[r] = Updated(r)'
  BY DEF TupleOK
<1>1. (WritesRow(r)' <=> WritesRow(r)) /\ Updated(r)' = Updated(r)
  BY DEF WritesRow, Updated
<1> QED BY <1>1 DEF IInv, TupleOK

LEMMA BeginCreateInv ==
  ASSUME ArticlesAssumption, IInv, NEW r \in Requests, BeginCreate(r)
  PROVE  IInv'
<1>1. PICK a \in Articles, t \in AccessTypes :
        /\ status[a] = "none"
        /\ \A o \in Requests : art[o] # a
        /\ art' = [art EXCEPT ![r] = a]
        /\ newAccess' = [newAccess EXCEPT ![r] = t]
        /\ tuple' = [tuple EXCEPT ![r] = [status |-> StatusAfter("create"), access |-> t,
                       title |-> requests + 1, body |-> requests + 1]]
  BY DEF BeginCreate
<1>2. /\ pc[r] = "idle" /\ pc' = [pc EXCEPT ![r] = "invalidate"]
      /\ kind' = [kind EXCEPT ![r] = "create"]
      /\ edits' = [edits EXCEPT ![r] = Fields]
      /\ stamp' = [stamp EXCEPT ![r] = requests + 1]
      /\ requests < MaxRequests /\ requests' = requests + 1
      /\ UNCHANGED <<tables, rowLock, seen, failures>>
  BY DEF BeginCreate, Goto
<1>3. TypeOK'
  <2>1. requests \in Nat /\ requests + 1 \in Nat
    BY DEF IInv, TypeOK
  <2>2. [status |-> StatusAfter("create"), access |-> t,
         title |-> requests + 1, body |-> requests + 1] \in Tuples
    BY <2>1 DEF Tuples, StatusAfter, Statuses
  <2>3. tuple' \in [Requests -> Tuples]
    BY <1>1, <2>2 DEF IInv, TypeOK
  <2> QED BY <1>1, <1>2, <2>1, <2>3 DEF IInv, TypeOK, tables, row, seen,
             ArticlesAssumption, Kinds, Fields
<1>4. RequestOK'
  BY <1>1, <1>2 DEF IInv, TypeOK, RequestOK, tables, row, AccessTypes, ArticlesAssumption
<1>5. TupleOK'
  <2> SUFFICES ASSUME NEW o \in Requests, pc'[o] \in {"invalidate", "commit"}
               PROVE  /\ kind'[o] = "create" =>
                           tuple'[o] = [status |-> "draft", access |-> newAccess'[o],
                                        title |-> stamp'[o], body |-> stamp'[o]]
                      /\ WritesRow(o)' => rowLock'[art'[o]] = o /\ tuple'[o] = Updated(o)'
    BY DEF TupleOK
  <2>1. CASE o = r
    <3>1. kind'[o] = "create" /\ newAccess'[o] = t /\ stamp'[o] = requests + 1
      BY <1>1, <1>2, <2>1 DEF IInv, TypeOK
    <3>2. tuple'[o] = [status |-> "draft", access |-> t,
                       title |-> requests + 1, body |-> requests + 1]
      BY <1>1, <2>1 DEF IInv, TypeOK, StatusAfter
    <3> QED BY <3>1, <3>2 DEF WritesRow, Transitions
  <2>2. CASE o # r
    <3>1. /\ pc'[o] = pc[o] /\ kind'[o] = kind[o] /\ art'[o] = art[o]
          /\ edits'[o] = edits[o] /\ newAccess'[o] = newAccess[o]
          /\ stamp'[o] = stamp[o] /\ tuple'[o] = tuple[o]
          /\ UNCHANGED <<status, access, title, body, rowLock>>
      BY <1>1, <1>2, <2>2 DEF IInv, TypeOK, tables, row
    <3>2. (WritesRow(o)' <=> WritesRow(o)) /\ Updated(o)' = Updated(o)
      BY <3>1 DEF WritesRow, Updated
    <3> QED BY <3>1, <3>2 DEF IInv, TupleOK
  <2> QED BY <2>1, <2>2
<1> QED BY <1>2, <1>3, <1>4, <1>5, TablesFrame DEF IInv

LEMMA BeginMutationInv ==
  ASSUME ArticlesAssumption, IInv, NEW r \in Requests, BeginMutation(r)
  PROVE  IInv'
<1>1. PICK a \in Articles, k \in Kinds \ {"create"} :
        /\ status[a] # "none"
        /\ art' = [art EXCEPT ![r] = a]
        /\ kind' = [kind EXCEPT ![r] = k]
        /\ seenAccess' = [seenAccess EXCEPT ![r] = access[a]]
        /\ seenTitle' = [seenTitle EXCEPT ![r] = title[a]]
        /\ seenBody' = [seenBody EXCEPT ![r] = body[a]]
        /\ IF k = "update"
             THEN \E u \in Updates :
                    /\ edits' = [edits EXCEPT ![r] = u[1]]
                    /\ newAccess' = [newAccess EXCEPT ![r] = u[2]]
             ELSE UNCHANGED <<edits, newAccess>>
  BY DEF BeginMutation
<1>2. /\ pc[r] = "idle" /\ pc' = [pc EXCEPT ![r] = "write"]
      /\ stamp' = [stamp EXCEPT ![r] = requests + 1]
      /\ requests < MaxRequests /\ requests' = requests + 1
      /\ UNCHANGED <<tables, rowLock, tuple, failures>>
  BY DEF BeginMutation, Goto
<1>3. /\ edits' \in [Requests -> SUBSET Fields]
      /\ newAccess' \in [Requests -> AccessTypes \cup {"unchanged"}]
      /\ \A o \in Requests \ {r} : edits'[o] = edits[o] /\ newAccess'[o] = newAccess[o]
  BY <1>1 DEF IInv, TypeOK, ArticlesAssumption
<1>4. TypeOK'
  <2>1. /\ art' \in [Requests -> Articles \cup {NoArticle}]
        /\ kind' \in [Requests -> Kinds]
        /\ seenAccess' \in [Requests -> AccessTypes]
        /\ seenTitle' \in [Requests -> Nat]
        /\ seenBody' \in [Requests -> Nat]
    BY <1>1 DEF IInv, TypeOK
  <2>2. requests' \in 0..MaxRequests /\ stamp' \in [Requests -> Nat]
    BY <1>2 DEF IInv, TypeOK, ArticlesAssumption
  <2>3. pc' \in [Requests -> {"idle", "write", "invalidate", "commit"}]
    BY <1>2 DEF IInv, TypeOK
  <2> QED BY <1>2, <1>3, <2>1, <2>2, <2>3 DEF IInv, TypeOK, tables, row
<1>5. RequestOK'
  <2>1. /\ art'[r] = a /\ kind'[r] = k /\ pc'[r] = "write" /\ UNCHANGED status
        /\ \A o \in Requests \ {r} :
             pc'[o] = pc[o] /\ art'[o] = art[o] /\ kind'[o] = kind[o]
    BY <1>1, <1>2 DEF IInv, TypeOK, tables, row
  <2>2. RequestOK
    BY DEF IInv
  <2>3. edits[r] = {} /\ newAccess[r] = "unchanged"
    BY <1>2, <2>2 DEF RequestOK
  <2>4. k # "update" => edits'[r] = {} /\ newAccess'[r] = "unchanged"
    BY <1>1, <2>3
  <2> QED BY <1>1, <1>3, <2>1, <2>2, <2>4 DEF RequestOK
<1>6. TupleOK'
  BY <1>1, <1>2, <1>3, TupleFrame DEF IInv, TypeOK, tables, row
<1> QED BY <1>2, <1>4, <1>5, <1>6, TablesFrame DEF IInv

LEMMA WriteInv ==
  ASSUME IInv, NEW r \in Requests, Write(r)
  PROVE  IInv'
<1>0. /\ TypeOK /\ RequestOK /\ TupleOK /\ pc[r] = "write"
      /\ pc' = [pc EXCEPT ![r] = "invalidate"]
      /\ UNCHANGED <<tables, asked, seen, requests, failures>>
      /\ UNCHANGED <<status, access, title, body, kind, art, edits, newAccess, stamp>>
      /\ art[r] \in Articles /\ kind[r] # "create"
  BY DEF IInv, Write, Goto, RequestOK, tables, row, asked
<1>1. Updated(r) \in Tuples
  BY <1>0 DEF TypeOK, Updated, Tuples, StatusAfter, Statuses, Transitions
<1>2. TypeOK'
  <2>1. tuple' \in [Requests -> Tuples]
    BY <1>0, <1>1 DEF Write, TypeOK
  <2>2. rowLock' \in [Articles -> Requests \cup {NoRequest}]
    <3>1. CASE WritesRow(r)
      <4>1. rowLock' = [rowLock EXCEPT ![art[r]] = r]
        BY <3>1 DEF Write
      <4> QED BY <1>0, <4>1 DEF TypeOK
    <3>2. CASE ~ WritesRow(r)
      <4>1. UNCHANGED rowLock
        BY <3>2 DEF Write
      <4> QED BY <1>0, <4>1 DEF TypeOK
    <3> QED BY <3>1, <3>2
  <2> QED BY <1>0, <2>1, <2>2 DEF TypeOK, tables, row, seen, asked
<1>3. RequestOK'
  BY <1>0 DEF TypeOK, RequestOK
<1>4. TupleOK'
  <2> SUFFICES ASSUME NEW o \in Requests, pc'[o] \in {"invalidate", "commit"}
               PROVE  /\ kind'[o] = "create" =>
                           tuple'[o] = [status |-> "draft", access |-> newAccess'[o],
                                        title |-> stamp'[o], body |-> stamp'[o]]
                      /\ WritesRow(o)' => rowLock'[art'[o]] = o /\ tuple'[o] = Updated(o)'
    BY DEF TupleOK
  <2>1. (WritesRow(o)' <=> WritesRow(o)) /\ Updated(o)' = Updated(o)
    BY <1>0 DEF WritesRow, Updated
  <2>2. CASE o = r
    BY <1>0, <2>1, <2>2 DEF Write, TypeOK
  <2>3. CASE o # r
    <3>1. pc[o] \in {"invalidate", "commit"} /\ tuple'[o] = tuple[o]
      BY <1>0, <2>3 DEF Write, TypeOK
    <3>2. WritesRow(o) => rowLock[art[o]] = o
      BY <1>0, <3>1 DEF TupleOK
    <3>3. WritesRow(o) => rowLock'[art[o]] = o
      <4>1. CASE WritesRow(r)
        <5>1. rowLock[art[r]] = NoRequest /\ rowLock' = [rowLock EXCEPT ![art[r]] = r]
          BY <4>1 DEF Write
        <5>2. NoRequest \notin Requests
          BY ArticlesAssumption DEF ArticlesAssumption
        <5>3. art[o] \in Articles
          BY <1>0, <3>1 DEF RequestOK
        <5> QED BY <1>0, <3>2, <5>1, <5>2, <5>3 DEF TypeOK
      <4>2. CASE ~ WritesRow(r)
        BY <1>0, <3>2, <4>2 DEF Write
      <4> QED BY <4>1, <4>2
    <3> QED BY <1>0, <2>1, <3>1, <3>3 DEF TupleOK
  <2> QED BY <2>2, <2>3
<1> QED BY <1>0, <1>2, <1>3, <1>4, TablesFrame DEF IInv

LEMMA InvalidateInv ==
  ASSUME IInv, NEW r \in Requests, Invalidate(r)
  PROVE  IInv'
<1>1. /\ pc[r] = "invalidate" /\ pc' = [pc EXCEPT ![r] = "commit"]
      /\ UNCHANGED <<tables, rowLock, request, requests, failures>>
  BY DEF Invalidate, Goto
<1>2. TypeOK'
  BY <1>1 DEF IInv, TypeOK, tables, row, request, seen, asked
<1>3. RequestOK'
  BY <1>1 DEF IInv, TypeOK, RequestOK, tables, row, request, asked
<1>4. TupleOK'
  BY <1>1, TupleFrame DEF IInv, TypeOK, tables, row, request, asked
<1> QED BY <1>1, <1>2, <1>3, <1>4, TablesFrame DEF IInv

\* The request's own variables after its end.
LEMMA EndRequestType ==
  ASSUME TypeOK, NEW r \in Requests, EndRequest(r)
  PROVE  /\ rowLock' \in [Articles -> Requests \cup {NoRequest}]
         /\ pc' \in [Requests -> {"idle", "write", "invalidate", "commit"}]
         /\ kind' \in [Requests -> Kinds]
         /\ art' \in [Requests -> Articles \cup {NoArticle}]
         /\ edits' \in [Requests -> SUBSET Fields]
         /\ newAccess' \in [Requests -> AccessTypes \cup {"unchanged"}]
         /\ stamp' \in [Requests -> Nat]
         /\ seenAccess' \in [Requests -> AccessTypes]
         /\ seenTitle' \in [Requests -> Nat]
         /\ seenBody' \in [Requests -> Nat]
         /\ tuple' \in [Requests -> Tuples]
<1>1. NoTuple \in Tuples
  BY DEF NoTuple, Tuples, AccessTypes
<1> QED BY <1>1 DEF TypeOK, EndRequest, Goto, Kinds, AccessTypes

\* The other requests are as they were.
LEMMA EndRequestOthers ==
  ASSUME TypeOK, NEW r \in Requests, EndRequest(r)
  PROVE  /\ pc'[r] = "idle" /\ edits'[r] = {} /\ newAccess'[r] = "unchanged"
         /\ \A o \in Requests \ {r} :
              /\ pc'[o] = pc[o] /\ art'[o] = art[o]
              /\ kind'[o] = kind[o] /\ edits'[o] = edits[o]
              /\ newAccess'[o] = newAccess[o] /\ stamp'[o] = stamp[o]
              /\ tuple'[o] = tuple[o]
              /\ \A a \in Articles : rowLock[a] = o => rowLock'[a] = o
BY DEF TypeOK, EndRequest, Goto

LEMMA RollbackInv ==
  ASSUME IInv, NEW r \in Requests, Rollback(r)
  PROVE  IInv'
<1>1. TypeOK /\ RequestOK /\ EndRequest(r) /\ UNCHANGED tables
  BY DEF IInv, Rollback
<1>2. TypeOK'
  <2>1. failures' \in 0..MaxFailures /\ requests' \in 0..MaxRequests
    BY <1>1, ArticlesAssumption DEF TypeOK, Rollback, ArticlesAssumption
  <2> QED BY <1>1, <2>1, EndRequestType DEF TypeOK, tables, row
<1>3. RequestOK'
  BY <1>1, EndRequestOthers DEF RequestOK, tables, row
<1>4. TupleOK'
  BY <1>1, EndRequestOthers, TupleFrame DEF RequestOK, tables, row
<1> QED BY <1>1, <1>2, <1>3, <1>4, TablesFrame DEF IInv

LEMMA PublicationTimeReachedInv ==
  ASSUME IInv, NEW a \in Articles, PublicationTimeReached(a)
  PROVE  IInv'
<1>1. TypeOK'
  BY DEF IInv, TypeOK, PublicationTimeReached, request, seen, asked
<1>2. RequestOK' /\ TextsAreInRevisions' /\ LastEventTellsStatus'
  BY DEF IInv, RequestOK, TextsAreInRevisions, LastEventTellsStatus,
         PublicationTimeReached, request, asked
<1>4. TupleOK'
  BY TupleFrame DEF PublicationTimeReached, request, asked
<1>3. PublishedInThePast'
  BY DEF IInv, TypeOK, PublishedInThePast, PublicationTimeReached
<1> QED BY <1>1, <1>2, <1>3, <1>4 DEF IInv

\* The row after a commit: the version that was made under the lock is the row as it
\* is now with the columns of the request.
LEMMA CommitRow ==
  ASSUME TypeOK, RequestOK, TupleOK, NEW r \in Requests, Commit(r)
  PROVE  LET a == art[r] IN
         /\ status' = IF kind[r] \in Transitions \cup {"create"}
                       THEN [status EXCEPT ![a] = StatusAfter(kind[r])] ELSE status
         /\ access' = [access EXCEPT ![a] =
                         IF newAccess[r] = "unchanged" THEN access[a] ELSE newAccess[r]]
         /\ title' = [title EXCEPT ![a] =
                        IF "title" \in edits[r] THEN stamp[r] ELSE title[a]]
         /\ body' = [body EXCEPT ![a] =
                       IF "body" \in edits[r] THEN stamp[r] ELSE body[a]]
<1> DEFINE a == art[r]
<1>1. /\ a \in Articles /\ pc[r] = "commit" /\ kind[r] \in Kinds
      /\ kind[r] = "create" => edits[r] = Fields /\ newAccess[r] # "unchanged"
  BY DEF TypeOK, RequestOK, Commit
<1>2. CASE kind[r] = "create"
  <2>1. tuple[r] = [status |-> "draft", access |-> newAccess[r],
                    title |-> stamp[r], body |-> stamp[r]]
    BY <1>1, <1>2 DEF TupleOK
  <2>2. /\ tuple[r].status = StatusAfter(kind[r]) /\ tuple[r].access = newAccess[r]
        /\ tuple[r].title = stamp[r] /\ tuple[r].body = stamp[r]
    BY <1>2, <2>1 DEF StatusAfter
  <2> QED BY <1>1, <1>2, <2>2 DEF Commit, Fields
<1>3. CASE WritesRow(r)
  <2>1. kind[r] # "create" /\ tuple[r] = Updated(r)
    BY <1>1, <1>3 DEF TupleOK, WritesRow, Transitions
  <2>2. /\ tuple[r].status = IF kind[r] \in Transitions THEN StatusAfter(kind[r])
                                                        ELSE status[a]
        /\ tuple[r].access = IF newAccess[r] = "unchanged" THEN access[a] ELSE newAccess[r]
        /\ tuple[r].title = IF "title" \in edits[r] THEN stamp[r] ELSE title[a]
        /\ tuple[r].body = IF "body" \in edits[r] THEN stamp[r] ELSE body[a]
    BY <2>1 DEF Updated
  <2>3. status' = IF kind[r] \in Transitions \cup {"create"}
                    THEN [status EXCEPT ![a] = StatusAfter(kind[r])] ELSE status
    <3>1. status' = [status EXCEPT ![a] = tuple[r].status]
      BY <1>3 DEF Commit
    <3>2. status = [status EXCEPT ![a] = status[a]]
      BY DEF TypeOK
    <3>3. CASE kind[r] \in Transitions
      BY <2>2, <3>1, <3>3
    <3>4. CASE kind[r] \notin Transitions
      <4>1. tuple[r].status = status[a]
        BY <2>2, <3>4
      <4> QED BY <2>1, <3>1, <3>2, <3>4, <4>1
    <3> QED BY <3>3, <3>4
  <2> QED BY <1>3, <2>2, <2>3 DEF Commit
<1>4. CASE kind[r] # "create" /\ ~ WritesRow(r)
  <2>1. kind[r] \in {"update", "attachMedia"}
    BY <1>1, <1>4 DEF WritesRow, Kinds
  <2>2. kind[r] = "attachMedia" => newAccess[r] = "unchanged" /\ edits[r] = {}
    BY <1>1 DEF RequestOK
  <2>3. newAccess[r] = "unchanged" /\ edits[r] = {}
    BY <1>4, <2>1, <2>2 DEF WritesRow
  <2> QED BY <1>1, <1>4, <2>1, <2>3 DEF Commit, TypeOK, Transitions
<1> QED BY <1>2, <1>3, <1>4

\* A commit changes no row that another request has updated.
LEMMA CommitKeepsTuples ==
  ASSUME TypeOK, RequestOK, TupleOK, NEW r \in Requests, Commit(r)
  PROVE  TupleOK'
<1> SUFFICES ASSUME NEW o \in Requests, pc'[o] \in {"invalidate", "commit"}
             PROVE  /\ kind'[o] = "create" =>
                         tuple'[o] = [status |-> "draft", access |-> newAccess'[o],
                                      title |-> stamp'[o], body |-> stamp'[o]]
                    /\ WritesRow(o)' => rowLock'[art'[o]] = o /\ tuple'[o] = Updated(o)'
  BY DEF TupleOK
<1>1. EndRequest(r) /\ pc[r] = "commit"
  BY DEF Commit
<1>2. /\ o # r /\ pc[o] \in {"invalidate", "commit"} /\ art[o] \in Articles
      /\ art'[o] = art[o] /\ kind'[o] = kind[o] /\ edits'[o] = edits[o]
      /\ newAccess'[o] = newAccess[o] /\ stamp'[o] = stamp[o] /\ tuple'[o] = tuple[o]
      /\ rowLock[art[o]] = o => rowLock'[art[o]] = o
  BY <1>1, EndRequestOthers DEF RequestOK
<1>3. WritesRow(o)' <=> WritesRow(o)
  BY <1>2 DEF WritesRow
<1>4. ASSUME WritesRow(o)
      PROVE  rowLock'[art'[o]] = o /\ tuple'[o] = Updated(o)'
  <2>1. rowLock[art[o]] = o /\ tuple[o] = Updated(o)
    BY <1>2, <1>4 DEF TupleOK
  <2>2. kind[r] = "create" \/ WritesRow(r) => art[r] # art[o]
    <3>1. CASE kind[r] = "create"
      BY <1>1, <1>2, <3>1 DEF RequestOK
    <3>2. CASE WritesRow(r)
      <4>1. rowLock[art[r]] = r
        BY <1>1, <3>2 DEF TupleOK
      <4> QED BY <1>2, <2>1, <4>1
    <3> QED BY <3>1, <3>2
  <2>3. /\ status'[art[o]] = status[art[o]] /\ access'[art[o]] = access[art[o]]
        /\ title'[art[o]] = title[art[o]] /\ body'[art[o]] = body[art[o]]
    <3>1. CASE kind[r] = "create" \/ WritesRow(r)
      BY <1>2, <2>2, <3>1 DEF Commit, TypeOK
    <3>2. CASE ~ (kind[r] = "create" \/ WritesRow(r))
      BY <3>2 DEF Commit
    <3> QED BY <3>1, <3>2
  <2>4. Updated(o)' = Updated(o)
    BY <1>2, <2>3 DEF Updated
  <2> QED BY <1>2, <2>1, <2>4
<1> QED BY <1>2, <1>3, <1>4 DEF TupleOK

LEMMA CommitInv ==
  ASSUME IInv, NEW r \in Requests, Commit(r)
  PROVE  IInv'
<1> DEFINE a == art[r]
<1>1. /\ TypeOK /\ RequestOK /\ EndRequest(r)
      /\ a \in Articles
      /\ kind[r] \in Kinds
      /\ kind[r] = "create" => edits[r] = Fields
      /\ kind[r] # "create" => status[a] # "none"
      /\ TupleOK
  BY DEF IInv, Commit, RequestOK, TypeOK
<1>2. status' = IF kind[r] \in Transitions \cup {"create"}
                  THEN [status EXCEPT ![a] = StatusAfter(kind[r])] ELSE status
  BY <1>1, CommitRow
<1>3. kind[r] \in Transitions \cup {"create"} => StatusAfter(kind[r]) \in Statuses
  BY DEF StatusAfter, Transitions, Statuses
<1>4. \A b \in Articles : status[b] # "none" => status'[b] # "none"
  BY <1>1, <1>2, <1>3 DEF TypeOK, Statuses
<1>5. /\ publishedAt' = [publishedAt EXCEPT ![a] = DateAfter(kind[r], publishedAt[a])]
      /\ DateAfter(kind[r], publishedAt[a]) \in {"null", "past", "future"}
  BY <1>1 DEF Commit, DateAfter, TypeOK
<1>6. outbox' = [outbox EXCEPT ![a] = outbox[a] \o Emitted(r)]
  BY DEF Commit
<1>7. /\ title' = [title EXCEPT ![a] = IF "title" \in edits[r] THEN stamp[r] ELSE title[a]]
      /\ body' = [body EXCEPT ![a] = IF "body" \in edits[r] THEN stamp[r] ELSE body[a]]
  BY <1>1, CommitRow
<1>8. revisions' = [revisions EXCEPT ![a] = revisions[a] \cup Snapshots(r)]
  BY DEF Commit
<1>9. TypeOK'
  <2>1. status' \in [Articles -> Statuses \cup {"none"}]
    BY <1>1, <1>2, <1>3 DEF TypeOK
  <2>2. access' \in [Articles -> AccessTypes]
    <3>1. access' = [access EXCEPT ![a] =
                       IF newAccess[r] = "unchanged" THEN access[a] ELSE newAccess[r]]
      BY <1>1, CommitRow
    <3> QED BY <1>1, <3>1 DEF TypeOK
  <2>3. /\ publishedAt' \in [Articles -> {"null", "past", "future"}]
        /\ title' \in [Articles -> Nat] /\ body' \in [Articles -> Nat]
    BY <1>1, <1>5, <1>7 DEF TypeOK
  <2>4. revisions' \in [Articles -> SUBSET (Nat \X Nat)]
    <3>1. Snapshots(r) \subseteq Nat \X Nat
      BY <1>1 DEF Snapshots, TypeOK
    <3> QED BY <1>1, <1>8, <3>1 DEF TypeOK
  <2>5. outbox' \in [Articles -> Seq(EventTypes)]
    <3>1. outbox[a] \o Emitted(r) \in Seq(EventTypes)
      <4>1. outbox[a] \in Seq(EventTypes) /\ Emitted(r) \in Seq(EventTypes)
        BY <1>1, EmittedType DEF TypeOK
      <4> QED BY <4>1
    <3> QED BY <1>1, <1>6, <3>1 DEF TypeOK
  <2>6. requests' \in 0..MaxRequests /\ failures' \in 0..MaxFailures
    BY <1>1 DEF Commit, TypeOK
  <2> QED BY <1>1, <2>1, <2>2, <2>3, <2>4, <2>5, <2>6, EndRequestType DEF TypeOK
<1>10. RequestOK'
  <2>1. \A b \in Articles \ {a} : status'[b] = status[b]
    BY <1>1, <1>2 DEF TypeOK
  <2> QED BY <1>1, <1>4, <2>1, EndRequestOthers DEF RequestOK, Commit
<1>14. TupleOK'
  BY <1>1, CommitKeepsTuples
<1>11. PublishedInThePast'
  <2> SUFFICES ASSUME NEW b \in Articles, status'[b] = "published"
               PROVE  publishedAt'[b] = "past"
    BY DEF PublishedInThePast
  <2>1. CASE b # a
    BY <1>1, <1>2, <1>5, <2>1 DEF IInv, TypeOK, PublishedInThePast
  <2>2. CASE b = a /\ kind[r] \in Transitions \cup {"create"}
    <3>1. kind[r] = "publish"
      BY <1>1, <1>2, <2>2 DEF TypeOK, StatusAfter, Transitions
    <3> QED BY <1>1, <1>5, <2>2, <3>1 DEF TypeOK, DateAfter
  <2>3. CASE b = a /\ kind[r] \notin Transitions \cup {"create"}
    <3>1. status[b] = "published" /\ kind[r] \notin {"publish", "schedule"}
      BY <1>2, <2>3 DEF Transitions
    <3> QED BY <1>1, <1>5, <2>3, <3>1 DEF IInv, TypeOK, PublishedInThePast, DateAfter
  <2> QED BY <2>1, <2>2, <2>3
<1>12. TextsAreInRevisions'
  <2> SUFFICES ASSUME NEW b \in Articles, status'[b] # "none"
               PROVE  /\ \E v \in revisions'[b] : v[1] = title'[b]
                      /\ \E v \in revisions'[b] : v[2] = body'[b]
    BY DEF TextsAreInRevisions
  <2>1. CASE b # a
    BY <1>1, <1>2, <1>7, <1>8, <2>1 DEF IInv, TypeOK, TextsAreInRevisions
  <2>2. CASE b = a
    <3>1. revisions'[b] = revisions[b] \cup Snapshots(r)
      BY <1>1, <1>8, <2>2 DEF TypeOK
    <3>2. /\ title'[b] = IF "title" \in edits[r] THEN stamp[r] ELSE title[b]
          /\ body'[b] = IF "body" \in edits[r] THEN stamp[r] ELSE body[b]
      BY <1>1, <1>7, <2>2 DEF TypeOK
    <3>3. kind[r] # "create" =>
            /\ \E v \in revisions[b] : v[1] = title[b]
            /\ \E v \in revisions[b] : v[2] = body[b]
      BY <1>1, <2>2 DEF IInv, TextsAreInRevisions
    <3>4. "title" \in edits[r] => \E v \in Snapshots(r) : v[1] = stamp[r]
      BY DEF Snapshots
    <3>5. "body" \in edits[r] => \E v \in Snapshots(r) : v[2] = stamp[r]
      BY DEF Snapshots
    <3> QED BY <1>1, <3>1, <3>2, <3>3, <3>4, <3>5 DEF Fields
  <2> QED BY <2>1, <2>2
<1>13. LastEventTellsStatus'
  <2> SUFFICES ASSUME NEW b \in Articles, status'[b] # "none"
               PROVE  Tells(outbox'[b], status'[b])
    BY DEF LastEventTellsStatus, Tells
  <2>1. status[b] # "none" => Tells(outbox[b], status[b])
    BY DEF IInv, LastEventTellsStatus, Tells
  <2>2. CASE b # a
    <3>1. status'[b] = status[b] /\ outbox'[b] = outbox[b]
      BY <1>1, <1>2, <1>6, <2>2 DEF TypeOK
    <3> QED BY <2>1, <3>1
  <2>3. CASE b = a
    <3>1. outbox'[b] = outbox[b] \o Emitted(r)
      BY <1>1, <1>6, <2>3 DEF TypeOK
    <3>2. outbox[b] \in Seq(EventTypes) /\ Emitted(r) \in Seq(EventTypes)
      BY <1>1, EmittedType DEF TypeOK
    <3>3. CASE kind[r] \in Transitions \cup {"create"}
      <4>1. status'[b] = StatusAfter(kind[r])
        BY <1>1, <1>2, <2>3, <3>3 DEF TypeOK
      <4>2. Sets(Emitted(r), status'[b])
        BY <1>1, <3>3, <4>1, EmittedAnnounces DEF Sets
      <4> QED BY <3>1, <3>2, <4>2, AppendEvents
    <3>4. CASE kind[r] \notin Transitions \cup {"create"}
      <4>1. status'[b] = status[b]
        BY <1>2, <3>4
      <4>2. Silent(Emitted(r))
        BY <1>1, <3>4, EmittedAnnounces DEF Silent
      <4> QED BY <2>1, <3>1, <3>2, <4>1, <4>2, AppendEvents
    <3> QED BY <3>3, <3>4
  <2> QED BY <2>2, <2>3
<1> QED BY <1>9, <1>10, <1>11, <1>12, <1>13, <1>14 DEF IInv

LEMMA StutterInv ==
  ASSUME IInv, UNCHANGED vars
  PROVE  IInv'
<1>1. UNCHANGED <<tables, rowLock, pc, request, requests, failures>>
  BY DEF vars
<1>2. TypeOK' /\ RequestOK'
  BY <1>1 DEF IInv, TypeOK, RequestOK, tables, row, request, seen, asked
<1>3. TupleOK'
  BY <1>1, TupleFrame DEF tables, row, request, asked
<1> QED BY <1>1, <1>2, <1>3, TablesFrame DEF IInv

LEMMA NextInv ==
  ASSUME ArticlesAssumption, IInv, [Next]_vars
  PROVE  IInv'
<1>1. CASE \E r \in Requests : BeginCreate(r) \/ BeginMutation(r)
  BY <1>1, BeginCreateInv, BeginMutationInv
<1>2. CASE \E r \in Requests : Serve(r) \/ Rollback(r)
  BY <1>2, WriteInv, InvalidateInv, CommitInv, RollbackInv DEF Serve
<1>3. CASE \E a \in Articles : PublicationTimeReached(a)
  BY <1>3, PublicationTimeReachedInv
<1>4. CASE UNCHANGED vars
  BY <1>4, StutterInv
<1> QED BY <1>1, <1>2, <1>3, <1>4 DEF Next

-----------------------------------------------------------------------------
(* The theorems.                                                           *)

LEMMA Invariant == Spec => []IInv
<1>1. ArticlesAssumption
  BY ArticlesAssumption
<1> QED BY <1>1, InitInv, NextInv, PTL DEF Spec

\* Every variable keeps its type.
THEOREM TypeCorrect == Spec => []TypeOK
<1>1. IInv => TypeOK
  BY DEF IInv
<1> QED BY <1>1, Invariant, PTL

\* The last event of an article that announces a status announces the one it has,
\* whatever requests overlap and fail (writeOutbox in the transaction).
THEOREM OutboxTellsStatus == Spec => []LastEventTellsStatus
<1>1. IInv => LastEventTellsStatus
  BY DEF IInv
<1> QED BY <1>1, Invariant, PTL

\* A published article has a date that is not in the future (publish, schedule).
THEOREM DatesOfPublished == Spec => []PublishedInThePast
<1>1. IInv => PublishedInThePast
  BY DEF IInv
<1> QED BY <1>1, Invariant, PTL

\* The texts of an article are kept in its revisions (createRevision).
THEOREM RevisionsKeepTexts == Spec => []TextsAreInRevisions
<1>1. IInv => TextsAreInRevisions
  BY DEF IInv
<1> QED BY <1>1, Invariant, PTL

\* A commit undoes no edit that was committed between its read and itself: the
\* version of the row it has made under the lock differs from the row only in the
\* columns its request sets (update's list of fields).
THEOREM CommitsUndoNothing == Spec => EditsAreNotLost
<1> DEFINE Step ==
      \A r \in Requests : pc[r] = "commit" /\ pc'[r] = "idle" =>
        \A a \in Articles :
          /\ status'[a] # status[a] =>
               art[r] = a /\ kind[r] \in Transitions \cup {"create"}
          /\ access'[a] # access[a] => art[r] = a /\ newAccess[r] # "unchanged"
          /\ title'[a] # title[a] => art[r] = a /\ "title" \in edits[r]
          /\ body'[a] # body[a] => art[r] = a /\ "body" \in edits[r]
<1>1. ASSUME IInv, Next
      PROVE  Step
  <2> SUFFICES ASSUME NEW r \in Requests, pc[r] = "commit", pc'[r] = "idle",
                      NEW a \in Articles
               PROVE  /\ status'[a] # status[a] =>
                           art[r] = a /\ kind[r] \in Transitions \cup {"create"}
                      /\ access'[a] # access[a] => art[r] = a /\ newAccess[r] # "unchanged"
                      /\ title'[a] # title[a] => art[r] = a /\ "title" \in edits[r]
                      /\ body'[a] # body[a] => art[r] = a /\ "body" \in edits[r]
    OBVIOUS
  <2>0. TypeOK /\ RequestOK /\ TupleOK
    BY <1>1 DEF IInv
  <2>1. CASE UNCHANGED <<status, access, title, body>>
    BY <2>1
  <2>2. CASE \E o \in Requests : Commit(o)
    <3>1. PICK o \in Requests : Commit(o)
      BY <2>2
    <3>2. o = r
      BY <2>0, <3>1, EndRequestOthers DEF Commit
    <3>3. Commit(r) /\ art[r] \in Articles
      BY <2>0, <3>1, <3>2 DEF RequestOK
    <3>4. CASE a = art[r]
      <4>1. status'[a] # status[a] => kind[r] \in Transitions \cup {"create"}
        BY <2>0, <3>3, CommitRow
      <4>5. /\ access' = [access EXCEPT ![art[r]] =
                  IF newAccess[r] = "unchanged" THEN access[art[r]] ELSE newAccess[r]]
            /\ title' = [title EXCEPT ![art[r]] =
                  IF "title" \in edits[r] THEN stamp[r] ELSE title[art[r]]]
            /\ body' = [body EXCEPT ![art[r]] =
                  IF "body" \in edits[r] THEN stamp[r] ELSE body[art[r]]]
        BY <2>0, <3>3, CommitRow
      <4>2. access'[a] = IF newAccess[r] = "unchanged" THEN access[a] ELSE newAccess[r]
        BY <2>0, <3>4, <4>5 DEF TypeOK
      <4>3. title'[a] = IF "title" \in edits[r] THEN stamp[r] ELSE title[a]
        BY <2>0, <3>4, <4>5 DEF TypeOK
      <4>4. body'[a] = IF "body" \in edits[r] THEN stamp[r] ELSE body[a]
        BY <2>0, <3>4, <4>5 DEF TypeOK
      <4> QED BY <3>4, <4>1, <4>2, <4>3, <4>4
    <3>5. CASE a # art[r]
      <4>1. CASE kind[r] = "create" \/ WritesRow(r)
        BY <2>0, <3>3, <3>5, <4>1 DEF Commit, TypeOK
      <4>2. CASE ~ (kind[r] = "create" \/ WritesRow(r))
        BY <3>3, <4>2 DEF Commit
      <4> QED BY <3>3, <3>5, <4>1, <4>2
    <3> QED BY <3>4, <3>5
  <2>3. UNCHANGED <<status, access, title, body>> \/ \E o \in Requests : Commit(o)
    BY <1>1 DEF Next, Serve, BeginCreate, BeginMutation, Write, Invalidate,
                Rollback, PublicationTimeReached, tables, row
  <2> QED BY <2>1, <2>2, <2>3
<1>2. ASSUME IInv, [Next]_vars
      PROVE  [Step]_vars
  BY <1>1, <1>2
<1> QED BY <1>2, Invariant, PTL DEF Spec, EditsAreNotLost
=============================================================================

------------------------- MODULE SubscriptionsProofs -------------------------
(***************************************************************************)
(* Proofs about Subscriptions, for any users, subscriptions, webhooks and  *)
(* requests in flight, and any bounds.                                     *)
(***************************************************************************)
EXTENDS Subscriptions, FiniteSetTheorems, TLAPS

-----------------------------------------------------------------------------
(* The inductive invariant.                                                *)

\* A request that inserts a subscription: nobody else knows the row.
NewRowOK(r) ==
  pc[r] # "idle" /\ kind[r] \in {"checkout", "activate"} =>
    /\ status[sub[r]] = "none" /\ payment[sub[r]] = "none"
    /\ \A o \in Requests \ {r} : sub[o] # sub[r]

\* A webhook between its SELECT and its COMMIT is about a payment that is there.
HookOK(r) ==
  /\ pc[r] \in {"insertEvent", "updatePayment"} => kind[r] = "webhook"
  /\ pc[r] = "cancelOthers" => kind[r] = "activate"
  /\ kind[r] = "webhook" =>
       /\ hook[r] \in Webhooks
       /\ sub[r] = Reference[hook[r]]
       /\ payment[sub[r]] # "none"
  /\ kind[r] # "webhook" => hook[r] = NoWebhook

RequestOK ==
  \A r \in Requests :
    /\ pc[r] = "idle" => sub[r] = NoSub /\ kind[r] = "checkout"
    /\ pc[r] # "idle" => sub[r] \in Subs
    /\ \A s \in cancelling[r] : status[s] # "none"
    /\ NewRowOK(r)
    /\ HookOK(r)

\* The transaction of r holds the key of its webhook in the unique index.
HoldsKey(r) ==
  kind[r] = "webhook" /\ pc[r] \in {"updatePayment", "updateSub", "commit"}

\* Its webhook has not been processed, and no other transaction holds the key.
KeysOK ==
  \A r \in Requests : HoldsKey(r) =>
    /\ hook[r] \notin processed
    /\ \A o \in Requests \ {r} : HoldsKey(o) => hook[o] # hook[r]

RowsOK == \A s \in Subs : status[s] = "none" => payment[s] = "none"

IInv ==
  /\ TypeOK /\ RequestOK /\ KeysOK /\ RowsOK /\ IsFiniteSet(processed)
  /\ ActiveIsPaid /\ WebhookTakesEffectOnce

-----------------------------------------------------------------------------
(* Frame lemmas.                                                           *)

LEMMA InitInv ==
  ASSUME SubscriptionsAssumption, Init
  PROVE  IInv
<1>1. TypeOK
  BY DEF SubscriptionsAssumption, Init, TypeOK, Time, Dates
<1>2. RequestOK /\ KeysOK /\ RowsOK
  BY DEF SubscriptionsAssumption, Init, RequestOK, NewRowOK, HookOK, KeysOK,
         HoldsKey, RowsOK
<1>3. ActiveIsPaid
  BY DEF Init, ActiveIsPaid
<1>4. IsFiniteSet(processed) /\ WebhookTakesEffectOnce
  <2>1. processed = {} /\ \A s \in Subs : activated[s] = 0
    BY DEF Init
  <2>2. \A s \in Subs :
          {w \in processed : Reference[w] = s /\ Outcome[w] = "succeeded"} = {}
    BY <2>1
  <2> QED BY <2>1, <2>2, FS_EmptySet DEF WebhookTakesEffectOnce
<1> QED BY <1>1, <1>2, <1>3, <1>4 DEF IInv

\* What is said of the tables alone holds as long as they do not change.
LEMMA TablesFrame ==
  ASSUME IInv, UNCHANGED tables
  PROVE  /\ RowsOK' /\ IsFiniteSet(processed)'
         /\ ActiveIsPaid' /\ WebhookTakesEffectOnce'
BY DEF IInv, tables, RowsOK, ActiveIsPaid, WebhookTakesEffectOnce

LEMMA EndRequestType ==
  ASSUME SubscriptionsAssumption, TypeOK, NEW r \in Requests, EndRequest(r)
  PROVE  /\ subLock' \in [Subs -> Requests \cup {NoRequest}]
         /\ payLock' \in [Subs -> Requests \cup {NoRequest}]
         /\ pc' \in [Requests -> {"idle", "cancelOthers", "insertEvent",
                                  "updatePayment", "updateSub", "commit"}]
         /\ kind' \in [Requests -> {"checkout", "activate", "cancel", "webhook"}]
         /\ sub' \in [Requests -> Subs \cup {NoSub}]
         /\ user' \in [Requests -> Users \cup {NoUser}]
         /\ hook' \in [Requests -> Webhooks \cup {NoWebhook}]
         /\ txNow' \in [Requests -> Time]
         /\ from' \in [Requests -> Dates]
         /\ to' \in [Requests -> Dates]
         /\ cancelling' \in [Requests -> SUBSET Subs]
BY DEF SubscriptionsAssumption, TypeOK, EndRequest, Goto, Time, Dates

\* The request of r is forgotten, the other ones are as they were.
LEMMA EndRequestOthers ==
  ASSUME TypeOK, NEW r \in Requests, EndRequest(r)
  PROVE  /\ pc'[r] = "idle" /\ kind'[r] = "checkout" /\ sub'[r] = NoSub
         /\ hook'[r] = NoWebhook /\ cancelling'[r] = {}
         /\ \A o \in Requests \ {r} :
              /\ pc'[o] = pc[o] /\ kind'[o] = kind[o] /\ sub'[o] = sub[o]
              /\ hook'[o] = hook[o] /\ cancelling'[o] = cancelling[o]
BY DEF TypeOK, EndRequest, Goto

\* A transaction that ends without writing anything.
LEMMA AbortInv ==
  ASSUME SubscriptionsAssumption, IInv, NEW r \in Requests, EndRequest(r),
         UNCHANGED <<now, tables>>, failures' \in 0..MaxFailures
  PROVE  IInv'
<1>1. TypeOK /\ RequestOK /\ KeysOK
  BY DEF IInv
<1>2. TypeOK'
  BY <1>1, EndRequestType DEF TypeOK, tables
<1>3. RequestOK'
  <2> SUFFICES ASSUME NEW o \in Requests
               PROVE  /\ pc'[o] = "idle" => sub'[o] = NoSub /\ kind'[o] = "checkout"
                      /\ pc'[o] # "idle" => sub'[o] \in Subs
                      /\ \A s \in cancelling'[o] : status'[s] # "none"
                      /\ NewRowOK(o)' /\ HookOK(o)'
    BY DEF RequestOK
  <2>1. CASE o = r
    BY <1>1, <2>1, EndRequestOthers DEF NewRowOK, HookOK
  <2>2. CASE o # r
    BY <1>1, <2>2, EndRequestOthers
       DEF RequestOK, NewRowOK, HookOK, tables, SubscriptionsAssumption
  <2> QED BY <2>1, <2>2
<1>4. KeysOK'
  BY <1>1, EndRequestOthers DEF KeysOK, HoldsKey, tables
<1> QED BY <1>2, <1>3, <1>4, TablesFrame DEF IInv

-----------------------------------------------------------------------------
(* Requests that begin.                                                    *)

\* A request that will insert a row.
LEMMA BeginInsertInv ==
  ASSUME SubscriptionsAssumption, IInv, NEW r \in Requests, NEW k, NEW first,
         NEW u \in Users, NEW start \in Time,
         k \in {"checkout", "activate"}, first \in {"commit", "cancelOthers"},
         first = "cancelOthers" => k = "activate",
         Begin(r, k, first), Inserts(r, u, start, start + Duration),
         UNCHANGED <<now, tables, locks, hook, cancelling, failures>>
  PROVE  IInv'
<1>1. TypeOK /\ RequestOK /\ KeysOK
  BY DEF IInv
<1>2. PICK n \in Subs : /\ status[n] = "none"
                        /\ \A o \in Requests : sub[o] # n
                        /\ sub' = [sub EXCEPT ![r] = n]
  BY DEF Inserts
<1>3. /\ pc[r] = "idle" /\ pc' = [pc EXCEPT ![r] = first]
      /\ kind' = [kind EXCEPT ![r] = k] /\ txNow' = [txNow EXCEPT ![r] = now]
      /\ user' = [user EXCEPT ![r] = u]
      /\ from' = [from EXCEPT ![r] = start]
      /\ to' = [to EXCEPT ![r] = start + Duration]
  BY DEF Begin, Inserts
<1>4. TypeOK'
  <2>1. start \in Dates /\ start + Duration \in Dates
    BY DEF Dates, Time, SubscriptionsAssumption
  <2> QED BY <1>1, <1>2, <1>3, <2>1 DEF TypeOK, tables, locks
<1>5. RequestOK'
  <2> SUFFICES ASSUME NEW o \in Requests
               PROVE  /\ pc'[o] = "idle" => sub'[o] = NoSub /\ kind'[o] = "checkout"
                      /\ pc'[o] # "idle" => sub'[o] \in Subs
                      /\ \A s \in cancelling'[o] : status'[s] # "none"
                      /\ NewRowOK(o)' /\ HookOK(o)'
    BY DEF RequestOK
  <2>1. CASE o = r
    BY <1>1, <1>2, <1>3, <2>1
       DEF IInv, TypeOK, RequestOK, NewRowOK, HookOK, RowsOK, tables
  <2>2. CASE o # r
    BY <1>1, <1>2, <1>3, <2>2 DEF TypeOK, RequestOK, NewRowOK, HookOK, tables
  <2> QED BY <2>1, <2>2
<1>6. KeysOK'
  BY <1>1, <1>3 DEF TypeOK, KeysOK, HoldsKey, tables
<1> QED BY <1>4, <1>5, <1>6, TablesFrame DEF IInv

LEMMA BeginCheckoutInv ==
  ASSUME SubscriptionsAssumption, IInv, NEW r \in Requests, NEW u \in Users,
         BeginCheckout(r, u)
  PROVE  IInv'
<1>1. now \in Time
  BY DEF IInv, TypeOK
<1> QED BY <1>1, BeginInsertInv DEF BeginCheckout

LEMMA BeginActivateInv ==
  ASSUME SubscriptionsAssumption, IInv, NEW r \in Requests, NEW u \in Users,
         BeginActivate(r, u)
  PROVE  IInv'
<1>1. PICK start \in Time : Inserts(r, u, start, start + Duration)
  BY DEF BeginActivate
<1> QED BY <1>1, BeginInsertInv DEF BeginActivate

LEMMA BeginCancelInv ==
  ASSUME SubscriptionsAssumption, IInv, NEW r \in Requests, NEW s \in Subs,
         BeginCancel(r, s)
  PROVE  IInv'
<1>1. TypeOK /\ RequestOK /\ KeysOK
  BY DEF IInv
<1>2. TypeOK'
  BY <1>1 DEF BeginCancel, Begin, TypeOK, tables, locks
<1>3. RequestOK'
  <2> SUFFICES ASSUME NEW o \in Requests
               PROVE  /\ pc'[o] = "idle" => sub'[o] = NoSub /\ kind'[o] = "checkout"
                      /\ pc'[o] # "idle" => sub'[o] \in Subs
                      /\ \A t \in cancelling'[o] : status'[t] # "none"
                      /\ NewRowOK(o)' /\ HookOK(o)'
    BY DEF RequestOK
  <2>1. CASE o = r
    BY <1>1, <2>1 DEF BeginCancel, Begin, TypeOK, RequestOK, NewRowOK, HookOK, tables
  <2>2. CASE o # r
    BY <1>1, <2>2 DEF BeginCancel, Begin, TypeOK, RequestOK, NewRowOK, HookOK, tables
  <2> QED BY <2>1, <2>2
<1>4. KeysOK'
  BY <1>1 DEF BeginCancel, Begin, TypeOK, KeysOK, HoldsKey, tables
<1>5. UNCHANGED tables
  BY DEF BeginCancel
<1> QED BY <1>2, <1>3, <1>4, <1>5, TablesFrame DEF IInv

LEMMA BeginWebhookInv ==
  ASSUME SubscriptionsAssumption, IInv, NEW r \in Requests, NEW w \in Webhooks,
         BeginWebhook(r, w)
  PROVE  IInv'
<1>1. TypeOK /\ RequestOK /\ KeysOK
  BY DEF IInv
<1>2. Reference[w] \in Subs
  BY DEF SubscriptionsAssumption
<1>3. TypeOK'
  BY <1>1, <1>2 DEF BeginWebhook, Begin, TypeOK, tables, locks
<1>4. RequestOK'
  <2> SUFFICES ASSUME NEW o \in Requests
               PROVE  /\ pc'[o] = "idle" => sub'[o] = NoSub /\ kind'[o] = "checkout"
                      /\ pc'[o] # "idle" => sub'[o] \in Subs
                      /\ \A t \in cancelling'[o] : status'[t] # "none"
                      /\ NewRowOK(o)' /\ HookOK(o)'
    BY DEF RequestOK
  <2>1. CASE o = r
    BY <1>1, <1>2, <2>1
       DEF BeginWebhook, Begin, TypeOK, RequestOK, NewRowOK, HookOK, tables
  <2>2. CASE o # r
    BY <1>1, <1>2, <2>2
       DEF BeginWebhook, Begin, TypeOK, RequestOK, NewRowOK, HookOK, tables
  <2> QED BY <2>1, <2>2
<1>5. KeysOK'
  BY <1>1 DEF BeginWebhook, Begin, TypeOK, KeysOK, HoldsKey, tables
<1>6. UNCHANGED tables
  BY DEF BeginWebhook
<1> QED BY <1>3, <1>4, <1>5, <1>6, TablesFrame DEF IInv

-----------------------------------------------------------------------------
(* Statements.                                                             *)

\* A statement that goes on: only the position, the locks and the rows to cancel
\* change, and the key of a webhook is taken by InsertEvent alone.
LEMMA GoOnInv ==
  ASSUME SubscriptionsAssumption, IInv, NEW r \in Requests, NEW where,
         pc[r] # "idle", Goto(r, where), UNCHANGED <<now, tables, failures>>,
         where \in {"updatePayment", "updateSub", "commit"},
         where = "updatePayment" => kind[r] = "webhook",
         kind[r] = "webhook" => HoldsKey(r) \/ (hook[r] \notin processed /\ ~ KeyHeld(r)),
         UNCHANGED <<kind, sub, user, hook, txNow, from, to>>,
         cancelling' \in [Requests -> SUBSET Subs],
         \A o \in Requests : \A s \in cancelling'[o] : status[s] # "none",
         subLock' \in [Subs -> Requests \cup {NoRequest}],
         payLock' \in [Subs -> Requests \cup {NoRequest}]
  PROVE  IInv'
<1>1. TypeOK /\ RequestOK /\ KeysOK
  BY DEF IInv
<1>2. TypeOK'
  BY <1>1 DEF Goto, TypeOK, tables
<1>3. RequestOK'
  BY <1>1 DEF Goto, TypeOK, RequestOK, NewRowOK, HookOK, tables
<1>4. KeysOK'
  <2>1. \A o \in Requests \ {r} : HoldsKey(o)' <=> HoldsKey(o)
    BY <1>1 DEF Goto, TypeOK, HoldsKey
  <2>2. HoldsKey(r)' => /\ hook[r] \notin processed
                        /\ \A o \in Requests \ {r} : HoldsKey(o) => hook[o] # hook[r]
    BY <1>1 DEF KeysOK, HoldsKey, KeyHeld
  <2> QED BY <1>1, <2>1, <2>2 DEF KeysOK, tables
<1> QED BY <1>2, <1>3, <1>4, TablesFrame DEF IInv

LEMMA CancelOthersInv ==
  ASSUME SubscriptionsAssumption, IInv, NEW r \in Requests, CancelOthers(r)
  PROVE  IInv'
<1> DEFINE active == {s \in Subs : owner[s] = user[r] /\ ActiveAt(s, txNow[r])}
<1>1. TypeOK /\ RequestOK
  BY DEF IInv
<1>2. /\ cancelling' = [cancelling EXCEPT ![r] = active]
      /\ subLock' = [s \in Subs |-> IF s \in active THEN r ELSE subLock[s]]
      /\ pc[r] = "cancelOthers" /\ Goto(r, "commit")
      /\ UNCHANGED <<now, tables, payLock, kind, sub, user, hook, txNow, from, to,
                     failures>>
  BY DEF CancelOthers
<1>3. \A s \in active : status[s] # "none"
  BY DEF ActiveAt
<1>4. \A o \in Requests : \A s \in cancelling'[o] : status[s] # "none"
  BY <1>1, <1>2, <1>3 DEF TypeOK, RequestOK
<1>5. /\ cancelling' \in [Requests -> SUBSET Subs]
      /\ subLock' \in [Subs -> Requests \cup {NoRequest}]
      /\ payLock' \in [Subs -> Requests \cup {NoRequest}]
  BY <1>1, <1>2 DEF TypeOK
<1>6. kind[r] # "webhook"
  BY <1>1, <1>2 DEF RequestOK, HookOK
<1> QED BY <1>2, <1>4, <1>5, <1>6, GoOnInv

LEMMA InsertEventInv ==
  ASSUME SubscriptionsAssumption, IInv, NEW r \in Requests, InsertEvent(r)
  PROVE  IInv'
<1>1. TypeOK /\ RequestOK
  BY DEF IInv
<1>2. CASE hook[r] \in processed
  <2>1. EndRequest(r) /\ UNCHANGED <<now, tables, failures>>
    BY <1>2 DEF InsertEvent
  <2>2. failures' \in 0..MaxFailures
    BY <1>1, <2>1 DEF TypeOK
  <2> QED BY <2>1, <2>2, AbortInv
<1>3. CASE hook[r] \notin processed
  <2>1. /\ pc[r] = "insertEvent" /\ ~ KeyHeld(r) /\ Goto(r, "updatePayment")
        /\ UNCHANGED <<now, tables, failures>> /\ UNCHANGED <<locks, request>>
    BY <1>3 DEF InsertEvent
  <2>2. kind[r] = "webhook"
    BY <1>1, <2>1 DEF RequestOK, HookOK
  <2>3. /\ UNCHANGED <<kind, sub, user, hook, txNow, from, to>>
        /\ cancelling' \in [Requests -> SUBSET Subs]
        /\ \A o \in Requests : \A s \in cancelling'[o] : status[s] # "none"
        /\ subLock' \in [Subs -> Requests \cup {NoRequest}]
        /\ payLock' \in [Subs -> Requests \cup {NoRequest}]
    BY <1>1, <2>1 DEF TypeOK, RequestOK, locks, request
  <2> QED BY <1>3, <2>1, <2>2, <2>3, GoOnInv
<1> QED BY <1>2, <1>3

LEMMA UpdatePaymentInv ==
  ASSUME SubscriptionsAssumption, IInv, NEW r \in Requests, UpdatePayment(r)
  PROVE  IInv'
<1>1. TypeOK /\ RequestOK
  BY DEF IInv
<1>2. /\ pc[r] = "updatePayment" /\ Goto(r, "updateSub")
      /\ payLock' = [payLock EXCEPT ![sub[r]] = r]
      /\ UNCHANGED <<now, tables, failures>> /\ UNCHANGED <<subLock, request>>
  BY DEF UpdatePayment
<1>3. kind[r] = "webhook" => HoldsKey(r)
  BY <1>2 DEF HoldsKey
<1>4. /\ UNCHANGED <<kind, sub, user, hook, txNow, from, to>>
      /\ cancelling' \in [Requests -> SUBSET Subs]
      /\ \A o \in Requests : \A s \in cancelling'[o] : status[s] # "none"
      /\ subLock' \in [Subs -> Requests \cup {NoRequest}]
      /\ payLock' \in [Subs -> Requests \cup {NoRequest}]
  BY <1>1, <1>2 DEF TypeOK, RequestOK, request
<1> QED BY <1>2, <1>3, <1>4, GoOnInv

LEMMA UpdateSubInv ==
  ASSUME SubscriptionsAssumption, IInv, NEW r \in Requests, UpdateSub(r)
  PROVE  IInv'
<1> DEFINE refused == kind[r] = "webhook" /\ Outcome[hook[r]] = "succeeded"
                        /\ endsAt[sub[r]] <= txNow[r]
<1>1. TypeOK /\ RequestOK
  BY DEF IInv
<1>2. CASE refused
  <2>1. EndRequest(r) /\ UNCHANGED <<now, tables, failures>>
    BY <1>2 DEF UpdateSub
  <2>2. failures' \in 0..MaxFailures
    BY <1>1, <2>1 DEF TypeOK
  <2> QED BY <2>1, <2>2, AbortInv
<1>3. CASE ~ refused
  <2>1. /\ pc[r] = "updateSub" /\ Goto(r, "commit")
        /\ subLock' = [subLock EXCEPT ![sub[r]] = r]
        /\ UNCHANGED <<now, tables, failures>> /\ UNCHANGED <<payLock, request>>
    BY <1>3 DEF UpdateSub
  <2>2. kind[r] = "webhook" => HoldsKey(r)
    BY <2>1 DEF HoldsKey
  <2>3. /\ UNCHANGED <<kind, sub, user, hook, txNow, from, to>>
        /\ cancelling' \in [Requests -> SUBSET Subs]
        /\ \A o \in Requests : \A s \in cancelling'[o] : status[s] # "none"
        /\ subLock' \in [Subs -> Requests \cup {NoRequest}]
        /\ payLock' \in [Subs -> Requests \cup {NoRequest}]
    BY <1>1, <2>1 DEF TypeOK, RequestOK, request
  <2> QED BY <2>1, <2>2, <2>3, GoOnInv
<1> QED BY <1>2, <1>3

LEMMA RollbackInv ==
  ASSUME SubscriptionsAssumption, IInv, NEW r \in Requests, Rollback(r)
  PROVE  IInv'
<1>1. failures' \in 0..MaxFailures
  BY DEF Rollback, IInv, TypeOK, SubscriptionsAssumption
<1> QED BY <1>1, AbortInv DEF Rollback

LEMMA TickInv ==
  ASSUME SubscriptionsAssumption, IInv, Tick
  PROVE  IInv'
<1>1. TypeOK'
  BY DEF Tick, IInv, TypeOK, tables, locks, request, Time, SubscriptionsAssumption
<1>2. RequestOK' /\ KeysOK'
  BY DEF Tick, IInv, RequestOK, NewRowOK, HookOK, KeysOK, HoldsKey, tables, request
<1> QED BY <1>1, <1>2, TablesFrame DEF IInv, Tick

-----------------------------------------------------------------------------
(* COMMIT.                                                                 *)

\* What the four kinds of commit have in common: the row is there afterwards,
\* others that insert a row are about another one, only a webhook is processed.
LEMMA CommitRequests ==
  ASSUME SubscriptionsAssumption, IInv, NEW r \in Requests, EndRequest(r),
         pc[r] = "commit",
         \A s \in Subs : status[s] # "none" => status'[s] # "none",
         \A s \in Subs : payment[s] # "none" => payment'[s] # "none",
         \A s \in Subs : s # sub[r] /\ status[s] = "none" =>
              status'[s] = "none" /\ payment'[s] = payment[s],
         processed' \subseteq processed \cup (IF kind[r] = "webhook" THEN {hook[r]} ELSE {})
  PROVE  RequestOK' /\ KeysOK'
<1>1. TypeOK /\ RequestOK /\ KeysOK
  BY DEF IInv
<1>2. RequestOK'
  <2> SUFFICES ASSUME NEW o \in Requests
               PROVE  /\ pc'[o] = "idle" => sub'[o] = NoSub /\ kind'[o] = "checkout"
                      /\ pc'[o] # "idle" => sub'[o] \in Subs
                      /\ \A s \in cancelling'[o] : status'[s] # "none"
                      /\ NewRowOK(o)' /\ HookOK(o)'
    BY DEF RequestOK
  <2>1. CASE o = r
    BY <1>1, <2>1, EndRequestOthers DEF NewRowOK, HookOK
  <2>2. CASE o # r
    <3>1. /\ pc'[o] = pc[o] /\ kind'[o] = kind[o] /\ sub'[o] = sub[o]
          /\ hook'[o] = hook[o] /\ cancelling'[o] = cancelling[o]
      BY <1>1, <2>2, EndRequestOthers
    <3>2. \A s \in cancelling'[o] : status'[s] # "none"
      BY <1>1, <3>1 DEF RequestOK, TypeOK
    <3>3. NewRowOK(o)'
      BY <1>1, <2>2, <3>1, EndRequestOthers
         DEF RequestOK, NewRowOK, SubscriptionsAssumption
    <3>4. HookOK(o)'
      BY <1>1, <3>1 DEF RequestOK, HookOK, SubscriptionsAssumption
    <3> QED BY <1>1, <3>1, <3>2, <3>3, <3>4 DEF RequestOK
  <2> QED BY <2>1, <2>2
<1>3. KeysOK'
  <2>1. \A o \in Requests : HoldsKey(o)' =>
          o # r /\ HoldsKey(o) /\ hook'[o] = hook[o]
    BY <1>1, EndRequestOthers DEF HoldsKey
  <2>2. kind[r] = "webhook" => HoldsKey(r)
    BY DEF HoldsKey
  <2> QED BY <1>1, <2>1, <2>2 DEF KeysOK
<1> QED BY <1>2, <1>3

LEMMA CommitCheckoutInv ==
  ASSUME SubscriptionsAssumption, IInv, NEW r \in Requests, Commit(r),
         CommitCheckout(r)
  PROVE  IInv'
<1>1. TypeOK /\ RequestOK /\ KeysOK /\ RowsOK
  BY DEF IInv
<1>2. /\ EndRequest(r) /\ pc[r] = "commit" /\ UNCHANGED <<now, failures>>
      /\ sub[r] \in Subs
  BY <1>1 DEF Commit, RequestOK
<1>3. TypeOK'
  BY <1>1, <1>2, EndRequestType DEF CommitCheckout, TypeOK, Statuses
<1>4. RequestOK' /\ KeysOK'
  BY <1>1, <1>2, CommitRequests DEF CommitCheckout, TypeOK
<1>5. RowsOK' /\ ActiveIsPaid'
  BY <1>1, <1>2 DEF IInv, CommitCheckout, TypeOK, RowsOK, ActiveIsPaid
<1>6. IsFiniteSet(processed)' /\ WebhookTakesEffectOnce'
  BY DEF IInv, CommitCheckout, WebhookTakesEffectOnce
<1> QED BY <1>3, <1>4, <1>5, <1>6 DEF IInv

LEMMA CommitActivateInv ==
  ASSUME SubscriptionsAssumption, IInv, NEW r \in Requests, Commit(r),
         CommitActivate(r)
  PROVE  IInv'
<1>1. TypeOK /\ RequestOK /\ KeysOK /\ RowsOK
  BY DEF IInv
<1>2. /\ EndRequest(r) /\ pc[r] = "commit" /\ UNCHANGED <<now, failures>>
      /\ sub[r] \in Subs
      /\ payment[sub[r]] = "none"
      /\ \A s \in cancelling[r] : status[s] # "none"
  BY <1>1 DEF Commit, CommitActivate, RequestOK, NewRowOK
<1>3. TypeOK'
  BY <1>1, <1>2, EndRequestType DEF CommitActivate, TypeOK, Statuses
<1>4. RequestOK' /\ KeysOK'
  BY <1>1, <1>2, CommitRequests DEF CommitActivate, TypeOK
<1>5. RowsOK' /\ ActiveIsPaid'
  BY <1>1, <1>2 DEF IInv, CommitActivate, TypeOK, RowsOK, ActiveIsPaid
<1>6. IsFiniteSet(processed)' /\ WebhookTakesEffectOnce'
  BY DEF IInv, CommitActivate, WebhookTakesEffectOnce
<1> QED BY <1>3, <1>4, <1>5, <1>6 DEF IInv

LEMMA CommitCancelInv ==
  ASSUME SubscriptionsAssumption, IInv, NEW r \in Requests, Commit(r),
         CommitCancel(r)
  PROVE  IInv'
<1>1. TypeOK /\ RequestOK /\ KeysOK /\ RowsOK
  BY DEF IInv
<1>2. /\ EndRequest(r) /\ pc[r] = "commit" /\ UNCHANGED <<now, failures>>
      /\ sub[r] \in Subs
  BY <1>1 DEF Commit, RequestOK
<1>3. TypeOK'
  BY <1>1, <1>2, EndRequestType DEF CommitCancel, TypeOK, Statuses
<1>4. RequestOK' /\ KeysOK'
  BY <1>1, <1>2, CommitRequests DEF CommitCancel, TypeOK
<1>5. RowsOK' /\ ActiveIsPaid'
  BY <1>1, <1>2 DEF IInv, CommitCancel, TypeOK, RowsOK, ActiveIsPaid
<1>6. IsFiniteSet(processed)' /\ WebhookTakesEffectOnce'
  BY DEF IInv, CommitCancel, WebhookTakesEffectOnce
<1> QED BY <1>3, <1>4, <1>5, <1>6 DEF IInv

LEMMA CommitWebhookInv ==
  ASSUME SubscriptionsAssumption, IInv, NEW r \in Requests, Commit(r),
         CommitWebhook(r)
  PROVE  IInv'
<1> DEFINE s == sub[r]
           o == Outcome[hook[r]]
           paid(p, t) == {w \in p : Reference[w] = t /\ Outcome[w] = "succeeded"}
<1>1. TypeOK /\ RequestOK /\ KeysOK /\ RowsOK
  BY DEF IInv
<1>2. /\ EndRequest(r) /\ pc[r] = "commit" /\ UNCHANGED <<now, failures>>
      /\ kind[r] = "webhook"
      /\ s \in Subs /\ hook[r] \in Webhooks /\ s = Reference[hook[r]]
      /\ o \in Outcomes
      /\ payment[s] # "none"
      /\ hook[r] \notin processed
  BY <1>1 DEF Commit, CommitWebhook, RequestOK, HookOK, KeysOK, HoldsKey,
              SubscriptionsAssumption
<1>3. /\ payment' = [payment EXCEPT ![s] = o]
      /\ status' = [status EXCEPT ![s] = StatusAfter(o)]
      /\ IF o = "succeeded"
           THEN /\ startsAt' = [startsAt EXCEPT ![s] = txNow[r]]
                /\ activated' = [activated EXCEPT ![s] = activated[s] + 1]
           ELSE UNCHANGED <<startsAt, activated>>
      /\ processed' = processed \cup {hook[r]}
      /\ UNCHANGED <<owner, endsAt>>
  BY DEF CommitWebhook
<1>4. /\ StatusAfter(o) \in Statuses /\ StatusAfter(o) # "none" /\ o # "none"
      /\ StatusAfter(o) = "active" => o = "succeeded"
  BY <1>2 DEF StatusAfter, Statuses, Outcomes
<1>5. TypeOK'
  <2>1. txNow[r] \in Dates
    BY <1>1 DEF TypeOK, Time, Dates, SubscriptionsAssumption
  <2>2. activated' \in [Subs -> Nat] /\ startsAt' \in [Subs -> Dates]
    BY <1>1, <1>2, <1>3, <2>1 DEF TypeOK
  <2> QED BY <1>1, <1>2, <1>3, <1>4, <2>2, EndRequestType DEF TypeOK
<1>6. RequestOK' /\ KeysOK'
  BY <1>1, <1>2, <1>3, <1>4, CommitRequests DEF TypeOK
<1>7. RowsOK' /\ ActiveIsPaid'
  BY <1>1, <1>2, <1>3, <1>4 DEF IInv, TypeOK, RowsOK, ActiveIsPaid
<1>8. IsFiniteSet(processed')
  BY <1>3, FS_AddElement DEF IInv
<1>9. WebhookTakesEffectOnce'
  <2> SUFFICES ASSUME NEW t \in Subs
               PROVE  activated'[t] = Cardinality(paid(processed', t))
    BY DEF WebhookTakesEffectOnce
  <2>1. activated[t] = Cardinality(paid(processed, t)) /\ activated[t] \in Nat
    BY <1>1 DEF IInv, WebhookTakesEffectOnce, TypeOK
  <2>2. CASE t = s /\ o = "succeeded"
    <3>1. paid(processed', t) = paid(processed, t) \cup {hook[r]}
      BY <1>2, <1>3, <2>2
    <3>2. hook[r] \notin paid(processed, t)
      BY <1>2
    <3>3. IsFiniteSet(paid(processed, t))
      BY FS_Subset DEF IInv
    <3>4. Cardinality(paid(processed', t)) = Cardinality(paid(processed, t)) + 1
      BY <3>1, <3>2, <3>3, FS_AddElement
    <3>5. activated'[t] = activated[t] + 1
      BY <1>1, <1>3, <2>2 DEF TypeOK
    <3> QED BY <2>1, <3>4, <3>5
  <2>3. CASE t # s \/ o # "succeeded"
    <3>1. paid(processed', t) = paid(processed, t)
      BY <1>2, <1>3, <2>3
    <3>2. activated'[t] = activated[t]
      BY <1>1, <1>3, <2>3 DEF TypeOK
    <3> QED BY <2>1, <3>1, <3>2
  <2> QED BY <2>2, <2>3
<1> QED BY <1>5, <1>6, <1>7, <1>8, <1>9 DEF IInv

-----------------------------------------------------------------------------
(* The theorems.                                                           *)

LEMMA NextInv ==
  ASSUME SubscriptionsAssumption, IInv, [Next]_vars
  PROVE  IInv'
<1>1. ASSUME NEW r \in Requests, Serve(r)
      PROVE  IInv'
  BY <1>1, CancelOthersInv, InsertEventInv, UpdatePaymentInv, UpdateSubInv,
     CommitCheckoutInv, CommitActivateInv, CommitCancelInv, CommitWebhookInv
     DEF Serve, Commit
<1>2. ASSUME NEW r \in Requests, Rollback(r)
      PROVE  IInv'
  BY <1>2, RollbackInv
<1>3. ASSUME NEW r \in Requests, NEW u \in Users,
             BeginCheckout(r, u) \/ BeginActivate(r, u)
      PROVE  IInv'
  BY <1>3, BeginCheckoutInv, BeginActivateInv
<1>4. ASSUME NEW r \in Requests, NEW s \in Subs, BeginCancel(r, s)
      PROVE  IInv'
  BY <1>4, BeginCancelInv
<1>5. ASSUME NEW r \in Requests, NEW w \in Webhooks, BeginWebhook(r, w)
      PROVE  IInv'
  BY <1>5, BeginWebhookInv
<1>6. CASE Tick
  BY <1>6, TickInv
<1>7. CASE UNCHANGED vars
  <2>1. UNCHANGED tables
    BY <1>7 DEF vars
  <2>2. TypeOK' /\ RequestOK' /\ KeysOK'
    BY <1>7 DEF vars, tables, locks, request, IInv, TypeOK, RequestOK, NewRowOK,
                HookOK, KeysOK, HoldsKey
  <2> QED BY <2>1, <2>2, TablesFrame DEF IInv
<1> QED BY <1>1, <1>2, <1>3, <1>4, <1>5, <1>6, <1>7 DEF Next

LEMMA Invariant == Spec => []IInv
<1>1. SubscriptionsAssumption
  BY SubscriptionsAssumption
<1> QED BY <1>1, InitInv, NextInv, PTL DEF Spec

\* Every variable keeps its type.
THEOREM TypeCorrect == Spec => []TypeOK
<1>1. IInv => TypeOK
  BY DEF IInv
<1> QED BY <1>1, Invariant, PTL

\* A subscription that came from a checkout is active only while its payment is
\* succeeded (webhook's two UPDATEs), whatever overlaps and fails.
THEOREM ActivityIsPaid == Spec => []ActiveIsPaid
<1>1. IInv => ActiveIsPaid
  BY DEF IInv
<1> QED BY <1>1, Invariant, PTL

\* A webhook takes effect once, however often it is delivered and however many
\* deliveries are processed at the same time (payment_webhook_events).
THEOREM WebhooksOnce == Spec => []WebhookTakesEffectOnce
<1>1. IInv => WebhookTakesEffectOnce
  BY DEF IInv
<1> QED BY <1>1, Invariant, PTL
=============================================================================

-------------------------- MODULE EventOutboxProofs --------------------------
(***************************************************************************)
(* Proofs about EventOutbox, for every set of events, users, dispatchers   *)
(* and workers and every bound.                                            *)
(***************************************************************************)
EXTENDS EventOutbox, FiniteSetTheorems, TLAPS

-----------------------------------------------------------------------------
(* The inductive invariant.                                                *)

\* A transaction is open exactly between LockEvent and its end, and without one
\* there is nothing written.
TxOpenAtPc ==
  \A d \in Dispatchers :
    /\ cur[d] # NoEvent <=> pc[d] \in InTx
    /\ cur[d] = NoEvent => /\ txInbox[d] = NoRows
                           /\ txDone[d] = {} /\ txSent[d] = {}
                           /\ txTotal[d] = 0

\* What d has written in its transaction adds to what is committed, and only
\* for consumers of its event.
TxAdds(d) ==
  /\ \A c \in Consumers : txInbox[d][c] # "none" =>
       inbox[cur[d]][c] = "none" /\ c \in ConsumersOf(cur[d])
  /\ txDone[d] = {c \in Consumers : txInbox[d][c] # "none"}

\* What the position of d in dispatchOne says of its event and its transaction.
TxProgress(d) ==
  /\ pc[d] \in {"notification", "insert"} => NeedsNotification(cur[d])
  /\ pc[d] \in {"search", "cache"} => NeedsIndexing(cur[d])
  /\ pc[d] \in {"search", "cache", "publish"} =>
       /\ txInbox[d]["notification-worker"] # "processing"
       /\ NeedsNotification(cur[d]) =>
            SeesInbox(d, "notification-worker") # "none"
  /\ pc[d] = "notification" => txInbox[d]["notification-worker"] = "none"
  /\ pc[d] = "insert" => txInbox[d]["notification-worker"] = "processing"
  /\ \A c \in Consumers \ {"notification-worker"} : txInbox[d][c] # "processing"
  /\ pc[d] \in {"cache", "publish"} /\ NeedsIndexing(cur[d]) =>
       SeesInbox(d, "search-index-worker") # "none"
  /\ pc[d] = "publish" /\ NeedsIndexing(cur[d]) =>
       SeesInbox(d, "cache-invalidation-worker") # "none"
  /\ pc[d] = "catch" => txAborted[d]

TxOK == \A d \in Dispatchers : pc[d] \in InTx => TxAdds(d) /\ TxProgress(d)

\* The rows of notifications a transaction has written, against its batch.
TxBatch ==
  \A d \in Dispatchers :
    /\ txInbox[d]["notification-worker"] = "none" =>
         txSent[d] = {} /\ txTotal[d] = 0
    /\ pc[d] = "insert" =>
         /\ txSent[d] \cap todo[d] = {}
         /\ txTotal[d] = Cardinality(txSent[d] \cup todo[d])
    /\ pc[d] \in {"search", "cache", "publish"} =>
         txTotal[d] = Cardinality(txSent[d])

\* Without its inbox row an event has no batch and no notification.
NoBatchWithoutInbox ==
  \A e \in Events : inbox[e]["notification-worker"] = "none" =>
    total[e] = 0 /\ \A u \in Users : notified[e][u] = 0

Committed ==
  /\ EffectOncePerConsumer
  /\ NoStrandedInbox
  /\ AllConsumersTogether

LockInv == TypeOK /\ RowLockOwner /\ TxOpenAtPc

IInv == LockInv /\ TxOK /\ Committed

-----------------------------------------------------------------------------
(* Type correctness.                                                       *)

LEMMA NoRowsType == NoRows \in [Consumers -> InboxStatus]
  BY DEF NoRows, InboxStatus

LEMMA InitTypeOK == Init => TypeOK
  BY ParametersAssumption, NoRowsType DEF Init, TypeOK, InTx

LEMMA AudienceType ==
  ASSUME NEW e \in Events
  PROVE  /\ Audience(e) \subseteq Users
         /\ IsFiniteSet(Audience(e))
         /\ Cardinality(Audience(e)) \in Nat
<1>1. Audience(e) \subseteq Users
  BY DEF Audience
<1>2. IsFiniteSet(Audience(e))
  BY <1>1, FS_Subset, ParametersAssumption
<1> QED
  BY <1>1, <1>2, FS_CardinalityType

\* The part of TypeOK about open transactions.
TxTypeOK ==
  /\ txInbox \in [Dispatchers -> [Consumers -> InboxStatus]]
  /\ txDone \in [Dispatchers -> SUBSET Consumers]
  /\ txSent \in [Dispatchers -> SUBSET Users]
  /\ txTotal \in [Dispatchers -> Nat]
  /\ txAborted \in [Dispatchers -> BOOLEAN]

LEMMA ConsumeType ==
  ASSUME TypeOK, NEW d \in Dispatchers, NEW c \in Consumers, Consume(d, c)
  PROVE  TxTypeOK'
<1>1. CASE UNCHANGED tx
  BY <1>1 DEF tx, TypeOK, TxTypeOK
<1>2. CASE /\ txInbox' = [txInbox EXCEPT ![d] = [@ EXCEPT ![c] = "consumed"]]
           /\ txDone' = [txDone EXCEPT ![d] = @ \cup {c}]
           /\ UNCHANGED <<txSent, txTotal, txAborted>>
  <2>1. [txInbox[d] EXCEPT ![c] = "consumed"] \in [Consumers -> InboxStatus]
    BY DEF TypeOK, InboxStatus
  <2> QED
    BY <1>2, <2>1 DEF TypeOK, TxTypeOK
<1> QED
  BY <1>1, <1>2 DEF Consume

LEMMA DropTxType ==
  ASSUME TypeOK, NEW d \in Dispatchers, DropTx(d)
  PROVE  TxTypeOK'
  BY NoRowsType DEF DropTx, TypeOK, TxTypeOK

LEMMA EndTxType ==
  ASSUME TypeOK, NEW d \in Dispatchers, EndTx(d)
  PROVE  /\ rowLock' \in [Events -> Dispatchers \cup {NoOne}]
         /\ cur' \in [Dispatchers -> Events \cup {NoEvent}]
         /\ todo' \in [Dispatchers -> SUBSET Users]
         /\ TxTypeOK'
  BY DropTxType DEF TypeOK, EndTx

LEMMA CommitType ==
  ASSUME TypeOK, NEW d \in Dispatchers, cur[d] \in Events,
         NEW s \in {"published", "failed"}, Commit(d, s)
  PROVE  /\ status' \in [Events -> {"none", "pending", "published", "failed"}]
         /\ inbox' \in [Events -> [Consumers -> InboxStatus]]
         /\ effects' \in [Events -> [Consumers -> Nat]]
         /\ notified' \in [Events -> [Users -> Nat]]
         /\ total' \in [Events -> Nat]
         /\ doc' \in [Articles -> Events \cup {NoEvent}]
<1> USE DEF TypeOK
<1>1. status' \in [Events -> {"none", "pending", "published", "failed"}]
  BY DEF Commit
<1>2. inbox' \in [Events -> [Consumers -> InboxStatus]]
  BY DEF Commit, SeesInbox
<1>3. effects' \in [Events -> [Consumers -> Nat]]
  BY DEF Commit
<1>4. notified' \in [Events -> [Users -> Nat]]
  BY DEF Commit
<1>5. total' \in [Events -> Nat]
  <2>1. total[cur[d]] + txTotal[d] \in Nat
    OBVIOUS
  <2> QED
    BY <2>1 DEF Commit
<1>6. doc' \in [Articles -> Events \cup {NoEvent}]
  BY EventsAssumption DEF Commit
<1> QED
  BY <1>1, <1>2, <1>3, <1>4, <1>5, <1>6

\* An open transaction has an event; its type is what a commit needs.
LEMMA CurIsEvent ==
  ASSUME TypeOK, TxOpenAtPc, NEW d \in Dispatchers, pc[d] \in InTx
  PROVE  cur[d] \in Events
  BY DEF TypeOK, TxOpenAtPc

LEMMA StepTypeOK ==
  ASSUME TypeOK, TxOpenAtPc, [Next]_vars
  PROVE  TypeOK'
<1> USE DEF redis
<1>1. CASE UNCHANGED vars
  BY <1>1 DEF vars, committed, local, tx, TypeOK
<1>2. ASSUME NEW e \in Events, Emit(e) PROVE TypeOK'
  BY <1>2 DEF Emit, TypeOK, local, tx
<1>3. ASSUME NEW e \in Events, Retry(e) PROVE TypeOK'
  BY <1>3, ParametersAssumption DEF Retry, Disturb, TypeOK, local, tx
<1>4. ASSUME NEW u \in Users, ChangeStanding(u) PROVE TypeOK'
  BY <1>4 DEF ChangeStanding, TypeOK, committed, local, tx
<1>5. ASSUME NEW k \in LockKeys, LockExpires(k) PROVE TypeOK'
  BY <1>5 DEF LockExpires, TypeOK, committed, local, tx
<1>6. ASSUME NEW d \in Dispatchers, StartRun(d) PROVE TypeOK'
  BY <1>6 DEF StartRun, Leave, Goto, TypeOK, committed, tx
<1>7. ASSUME NEW d \in Dispatchers, Step(d) PROVE TypeOK'
  <2> USE DEF Goto, committed
  <2>1. CASE SelectBatch(d)
    BY <2>1 DEF SelectBatch, Selections, Pending, TypeOK, tx
  <2>2. CASE LockEvent(d)
    BY <2>2 DEF LockEvent, FirstStep, TypeOK, InTx, tx
  <2>3. CASE EndBatch(d)
    BY <2>3 DEF EndBatch, Leave, TypeOK, tx
  <2>4. CASE StartNotifications(d)
    <3>1. cur[d] \in Events
      BY <2>4, CurIsEvent DEF StartNotifications, InTx
    <3>2. /\ Audience(cur[d]) \subseteq Users
          /\ Cardinality(Audience(cur[d])) \in Nat
      BY <3>1, AudienceType
    <3>3. "notification-worker" \in Consumers
      BY DEF Consumers
    <3>4. todo' \in [Dispatchers -> SUBSET Users] /\ TxTypeOK'
      <4>1. CASE UNCHANGED <<tx, todo>>
        BY <4>1 DEF tx, TypeOK, TxTypeOK
      <4>2. CASE ~ UNCHANGED <<tx, todo>>
        <5> DEFINE rows == [txInbox[d] EXCEPT !["notification-worker"] = "processing"]
                   n == Cardinality(Audience(cur[d]))
        <5>1. rows \in [Consumers -> InboxStatus]
          BY DEF TypeOK, InboxStatus
        <5>2. /\ txInbox' = [txInbox EXCEPT ![d] = rows]
              /\ txDone' = [txDone EXCEPT ![d] = @ \cup {"notification-worker"}]
              /\ txTotal' = [txTotal EXCEPT ![d] = n]
              /\ UNCHANGED <<txSent, txAborted>>
              /\ todo' = [todo EXCEPT ![d] = Audience(cur[d])]
          BY <2>4, <4>2 DEF StartNotifications
        <5>3. n \in Nat
          BY <3>2
        <5> HIDE DEF rows, n
        <5> QED
          BY <3>2, <3>3, <5>1, <5>2, <5>3 DEF TypeOK, TxTypeOK
      <4> QED
        BY <4>1, <4>2
    <3>5. pc' \in [Dispatchers -> InTx \cup {"idle", "select", "loop", "release"}]
      BY <2>4 DEF StartNotifications, TypeOK, InTx
    <3>6. UNCHANGED <<committed, standing, rowLock, redis, batch, cur,
                      disturbances>>
      BY <2>4 DEF StartNotifications
    <3> QED
      BY <3>1, <3>4, <3>5, <3>6 DEF TypeOK, TxTypeOK, committed
  <2>5. CASE InsertNotification(d)
    BY <2>5 DEF InsertNotification, TypeOK
  <2>6. CASE FinishNotifications(d)
    BY <2>6 DEF FinishNotifications, TypeOK, InTx, InboxStatus, Consumers
  <2>7. CASE ConsumeWithSearchWorker(d)
    <3>1. TxTypeOK'
      BY <2>7, ConsumeType DEF ConsumeWithSearchWorker, Consumers
    <3> QED
      BY <2>7, <3>1 DEF ConsumeWithSearchWorker, TypeOK, TxTypeOK, InTx
  <2>8. CASE ConsumeWithCacheWorker(d)
    <3>1. TxTypeOK'
      BY <2>8, ConsumeType DEF ConsumeWithCacheWorker, Consumers
    <3> QED
      BY <2>8, <3>1 DEF ConsumeWithCacheWorker, TypeOK, TxTypeOK, InTx
  <2>9. CASE Publish(d)
    <3>1. cur[d] \in Events
      BY <2>9, CurIsEvent DEF Publish, InTx
    <3> QED
      BY <2>9, <3>1, CommitType, EndTxType DEF Publish, TypeOK, TxTypeOK
  <2>10. CASE Catch(d)
    <3>1. cur[d] \in Events
      BY <2>10, CurIsEvent DEF Catch, InTx
    <3> QED
      BY <2>10, <3>1, CommitType, EndTxType DEF Catch, Leave, TypeOK, TxTypeOK
  <2>11. CASE Release(d)
    BY <2>11 DEF Release, TypeOK, tx
  <2> QED
    BY <1>7, <2>1, <2>2, <2>3, <2>4, <2>5, <2>6, <2>7, <2>8, <2>9, <2>10, <2>11
    DEF Step
<1>8. ASSUME NEW d \in Dispatchers, Fault(d) PROVE TypeOK'
  <2>0. Disturb => disturbances' \in 0..MaxDisturbances
    BY ParametersAssumption DEF Disturb, TypeOK
  <2> USE <2>0 DEF Goto, committed
  <2>1. CASE PublishUnacknowledged(d)
    <3>1. cur[d] \in Events
      BY <2>1, CurIsEvent DEF PublishUnacknowledged, InTx
    <3> QED
      BY <2>1, <3>1, CommitType, EndTxType
      DEF PublishUnacknowledged, Leave, TypeOK, TxTypeOK
  <2>2. CASE SqlError(d)
    BY <2>2 DEF SqlError, TypeOK, InTx
  <2>3. CASE ReleaseFails(d)
    BY <2>3 DEF ReleaseFails, TypeOK, tx
  <2>4. CASE Crash(d)
    BY <2>4, DropTxType DEF Crash, TypeOK, TxTypeOK
  <2> QED
    BY <1>8, <2>1, <2>2, <2>3, <2>4 DEF Fault
<1> QED
  BY <1>1, <1>2, <1>3, <1>4, <1>5, <1>6, <1>7, <1>8 DEF Next

-----------------------------------------------------------------------------
(* Row locks and open transactions.                                        *)

LEMMA StepRowLockOwner ==
  ASSUME TypeOK, RowLockOwner, TxOpenAtPc, [Next]_vars
  PROVE  RowLockOwner' /\ TxOpenAtPc'
<1> USE DEF RowLockOwner, TxOpenAtPc
<1>1. CASE UNCHANGED <<rowLock, cur, pc, tx>>
  BY <1>1 DEF tx
<1>2. ASSUME NEW d \in Dispatchers, UNCHANGED <<rowLock, cur, tx>>,
             NEW where, pc' = [pc EXCEPT ![d] = where],
             pc[d] \in InTx <=> where \in InTx
      PROVE  RowLockOwner' /\ TxOpenAtPc'
  BY <1>2 DEF tx, TypeOK
<1>3. ASSUME NEW d \in Dispatchers, LockEvent(d)
      PROVE  RowLockOwner' /\ TxOpenAtPc'
  <2>1. PICK e \in batch[d] : /\ rowLock[e] = NoOne
                              /\ rowLock' = [rowLock EXCEPT ![e] = d]
                              /\ cur' = [cur EXCEPT ![d] = e]
                              /\ pc' = [pc EXCEPT ![d] = FirstStep(e)]
    BY <1>3 DEF LockEvent, Goto
  <2>2. e \in Events /\ e # NoEvent /\ FirstStep(e) \in InTx
    BY <1>3, EventsAssumption DEF TypeOK, FirstStep, InTx
  <2>3. cur[d] = NoEvent
    BY <1>3 DEF LockEvent, InTx
  <2>4. RowLockOwner'
    <3> SUFFICES ASSUME NEW o \in Dispatchers, NEW f \in Events
                 PROVE  rowLock'[f] = o <=> cur'[o] = f
      OBVIOUS
    <3>1. CASE o = d
      BY <3>1, <2>1, <2>2, <2>3, EventsAssumption DEF TypeOK
    <3>2. CASE o # d
      BY <3>2, <2>1, <2>2, DispatchersAssumption DEF TypeOK
    <3> QED
      BY <3>1, <3>2
  <2>5. TxOpenAtPc'
    BY <1>3, <2>1, <2>2 DEF LockEvent, TypeOK, tx
  <2> QED
    BY <2>4, <2>5
<1>4. ASSUME NEW d \in Dispatchers, cur[d] \in Events, EndTx(d),
             NEW where, pc' = [pc EXCEPT ![d] = where], where \notin InTx
      PROVE  RowLockOwner' /\ TxOpenAtPc'
  <2>1. RowLockOwner'
    BY <1>4, DispatchersAssumption, EventsAssumption DEF EndTx, TypeOK
  <2>2. TxOpenAtPc'
    BY <1>4 DEF EndTx, DropTx, TypeOK
  <2> QED
    BY <2>1, <2>2
<1>5. ASSUME NEW d \in Dispatchers, Crash(d)
      PROVE  RowLockOwner' /\ TxOpenAtPc'
  <2>1. RowLockOwner'
    BY <1>5, DispatchersAssumption, EventsAssumption DEF Crash, TypeOK
  <2>2. TxOpenAtPc'
    BY <1>5 DEF Crash, DropTx, Goto, TypeOK, InTx
  <2> QED
    BY <2>1, <2>2
<1>6. ASSUME NEW d \in Dispatchers, UNCHANGED <<rowLock, cur, pc>>,
             pc[d] \in InTx,
             \A o \in Dispatchers \ {d} :
               /\ txInbox'[o] = txInbox[o] /\ txDone'[o] = txDone[o]
               /\ txSent'[o] = txSent[o] /\ txTotal'[o] = txTotal[o]
      PROVE  RowLockOwner' /\ TxOpenAtPc'
  BY <1>6
<1>7. ASSUME NEW d \in Dispatchers, UNCHANGED <<rowLock, cur>>,
             NEW where \in InTx, pc' = [pc EXCEPT ![d] = where],
             pc[d] \in InTx,
             \A o \in Dispatchers \ {d} :
               /\ txInbox'[o] = txInbox[o] /\ txDone'[o] = txDone[o]
               /\ txSent'[o] = txSent[o] /\ txTotal'[o] = txTotal[o]
      PROVE  RowLockOwner' /\ TxOpenAtPc'
  BY <1>7 DEF TypeOK
<1> QED
  <2> SUFFICES ASSUME Next PROVE RowLockOwner' /\ TxOpenAtPc'
    BY <1>1 DEF vars, local
  <2>1. ASSUME NEW e \in Events, Emit(e) \/ Retry(e)
        PROVE  RowLockOwner' /\ TxOpenAtPc'
    BY <2>1, <1>1 DEF Emit, Retry, local
  <2>2. ASSUME (\E u \in Users : ChangeStanding(u)) \/ \E k \in LockKeys : LockExpires(k)
        PROVE  RowLockOwner' /\ TxOpenAtPc'
    BY <2>2, <1>1 DEF ChangeStanding, LockExpires, local
  <2>3. ASSUME NEW d \in Dispatchers, StartRun(d) \/ Step(d) \/ Fault(d)
        PROVE  RowLockOwner' /\ TxOpenAtPc'
    <3> USE DEF Goto
    <3>1. CASE StartRun(d)
      BY <3>1, <1>2 DEF StartRun, InTx
    <3>2. CASE SelectBatch(d)
      BY <3>2, <1>2 DEF SelectBatch, InTx
    <3>3. CASE EndBatch(d)
      BY <3>3, <1>2 DEF EndBatch, Leave, InTx
    <3>4. CASE Release(d) \/ ReleaseFails(d)
      BY <3>4, <1>2 DEF Release, ReleaseFails, InTx
    <3>5. CASE StartNotifications(d)
      <4>1. CASE UNCHANGED tx
        BY <3>5, <4>1, <1>2 DEF StartNotifications, InTx
      <4>2. CASE ~ UNCHANGED tx
        BY <3>5, <4>2, <1>7 DEF StartNotifications, InTx, TypeOK
      <4> QED
        BY <4>1, <4>2
    <3>6. CASE InsertNotification(d)
      BY <3>6, <1>6 DEF InsertNotification, InTx, TypeOK
    <3>7. CASE FinishNotifications(d)
      BY <3>7, <1>7 DEF FinishNotifications, InTx, TypeOK
    <3>8. CASE ConsumeWithSearchWorker(d) \/ ConsumeWithCacheWorker(d)
      <4>1. PICK c \in Consumers : Consume(d, c)
        BY <3>8 DEF ConsumeWithSearchWorker, ConsumeWithCacheWorker, Consumers
      <4>2. PICK where \in {"cache", "publish"} : pc' = [pc EXCEPT ![d] = where]
        BY <3>8 DEF ConsumeWithSearchWorker, ConsumeWithCacheWorker
      <4>3. pc[d] \in InTx /\ UNCHANGED <<rowLock, cur>>
        BY <3>8 DEF ConsumeWithSearchWorker, ConsumeWithCacheWorker, InTx
      <4>4. where \in InTx
        BY <4>2 DEF InTx
      <4>5. CASE UNCHANGED tx
        BY <4>2, <4>3, <4>4, <4>5, <1>2
      <4>6. CASE ~ UNCHANGED tx
        BY <4>1, <4>2, <4>3, <4>4, <4>6, <1>7 DEF Consume, TypeOK
      <4> QED
        BY <4>5, <4>6
    <3>9. CASE Publish(d)
      <4>1. cur[d] \in Events
        BY <3>9, CurIsEvent DEF Publish, InTx
      <4> QED
        BY <3>9, <4>1, <1>4 DEF Publish, InTx
    <3>10. CASE Catch(d)
      <4>1. cur[d] \in Events
        BY <3>10, CurIsEvent DEF Catch, InTx
      <4> QED
        BY <3>10, <4>1, <1>4 DEF Catch, Leave, InTx
    <3>11. CASE PublishUnacknowledged(d)
      <4>1. cur[d] \in Events
        BY <3>11, CurIsEvent DEF PublishUnacknowledged, InTx
      <4>2. Leave(d) \notin InTx
        BY DEF Leave, InTx
      <4> QED
        BY <3>11, <4>1, <4>2, <1>4 DEF PublishUnacknowledged
    <3>12. CASE SqlError(d)
      BY <3>12, <1>7 DEF SqlError, InTx
    <3> QED
      BY <2>3, <1>3, <1>5, <3>1, <3>2, <3>3, <3>4, <3>5, <3>6, <3>7, <3>8, <3>9,
         <3>10, <3>11, <3>12 DEF Step, Fault
  <2> QED
    BY <2>1, <2>2, <2>3 DEF Next

LEMMA InitLockInv == Init => LockInv
  BY InitTypeOK, DispatchersAssumption, EventsAssumption
  DEF Init, LockInv, RowLockOwner, TxOpenAtPc, InTx

\* The owner of a row of event_outbox is the dispatcher whose open transaction
\* is about that event: dispatchOne's SELECT ... FOR UPDATE excludes the others.
THEOREM RowLocksExclude == Spec => [](TypeOK /\ RowLockOwner)
<1>1. LockInv /\ [Next]_vars => LockInv'
  BY StepTypeOK, StepRowLockOwner DEF LockInv
<1>2. LockInv => TypeOK /\ RowLockOwner
  BY DEF LockInv
<1> QED
  BY InitLockInv, <1>1, <1>2, PTL DEF Spec

-----------------------------------------------------------------------------
(* Each effect once, together with the others of its event.                *)

\* A step that leaves the transaction of d and the committed inbox rows of its
\* event alone leaves what holds of it alone.
LEMMA TxFrame ==
  ASSUME NEW d \in Dispatchers, TxAdds(d), TxProgress(d),
         pc'[d] = pc[d], cur'[d] = cur[d], txInbox'[d] = txInbox[d],
         txDone'[d] = txDone[d], txAborted'[d] = txAborted[d],
         inbox'[cur[d]] = inbox[cur[d]]
  PROVE  TxAdds(d)' /\ TxProgress(d)'
  BY DEF TxAdds, TxProgress, SeesInbox

\* A step of d alone: only its own transaction is to be looked at.
LEMMA OneTx ==
  ASSUME TxOK, NEW d \in Dispatchers,
         \A o \in Dispatchers \ {d} :
           /\ pc'[o] = pc[o] /\ cur'[o] = cur[o] /\ txInbox'[o] = txInbox[o]
           /\ txDone'[o] = txDone[o] /\ txAborted'[o] = txAborted[o]
           /\ pc[o] \in InTx => inbox'[cur[o]] = inbox[cur[o]],
         pc'[d] \in InTx => TxAdds(d)' /\ TxProgress(d)'
  PROVE  TxOK'
<1> SUFFICES ASSUME NEW o \in Dispatchers, pc'[o] \in InTx
             PROVE  TxAdds(o)' /\ TxProgress(o)'
  BY DEF TxOK, InTx
<1>1. CASE o = d
  BY <1>1
<1>2. CASE o # d
  BY <1>2, TxFrame DEF TxOK
<1> QED
  BY <1>1, <1>2

\* The commit of dispatchOne's transaction.
LEMMA CommitOK ==
  ASSUME IInv, NEW d \in Dispatchers, pc[d] = "publish",
         Commit(d, "published"), EndTx(d),
         NEW where, where \notin InTx, pc' = [pc EXCEPT ![d] = where]
  PROVE  TxOK' /\ Committed'
<1> DEFINE e == cur[d]
<1>1. /\ TypeOK /\ RowLockOwner /\ TxOpenAtPc /\ TxOK
      /\ EffectOncePerConsumer /\ NoStrandedInbox /\ AllConsumersTogether
  BY DEF IInv, LockInv, Committed
<1>2. e \in Events /\ TxAdds(d) /\ TxProgress(d)
  BY <1>1, CurIsEvent DEF TxOK, InTx
<1>3. \A f \in Events \ {e} : /\ inbox'[f] = inbox[f] /\ effects'[f] = effects[f]
                              /\ status'[f] = status[f]
  BY <1>1, <1>2 DEF Commit, TypeOK
<1>4. \A c \in Consumers :
        /\ inbox'[e][c] = SeesInbox(d, c)
        /\ effects'[e][c] = effects[e][c] + (IF c \in txDone[d] THEN 1 ELSE 0)
  BY <1>1, <1>2 DEF Commit, TypeOK
<1>5. TxOK'
  <2>1. \A o \in Dispatchers \ {d} : pc[o] \in InTx =>
          cur[o] \in Events /\ cur[o] # e
    BY <1>1, <1>2, CurIsEvent DEF RowLockOwner
  <2>2. \A o \in Dispatchers \ {d} :
          /\ pc'[o] = pc[o] /\ cur'[o] = cur[o] /\ txInbox'[o] = txInbox[o]
          /\ txDone'[o] = txDone[o] /\ txAborted'[o] = txAborted[o]
    BY <1>1 DEF EndTx, DropTx, TypeOK
  <2>3. pc'[d] \notin InTx
    BY <1>1 DEF TypeOK
  <2> QED
    BY <1>1, <1>3, <2>1, <2>2, <2>3, OneTx
<1>6. \A c \in Consumers : txInbox[d][c] # "processing"
  BY <1>2 DEF TxProgress
<1>7. NoStrandedInbox'
  <2> SUFFICES ASSUME NEW f \in Events, NEW c \in Consumers
               PROVE  inbox'[f][c] # "processing"
    BY DEF NoStrandedInbox
  <2>1. CASE f = e
    BY <2>1, <1>1, <1>2, <1>4, <1>6 DEF SeesInbox, NoStrandedInbox
  <2>2. CASE f # e
    BY <2>2, <1>1, <1>3 DEF NoStrandedInbox
  <2> QED
    BY <2>1, <2>2
<1>8. EffectOncePerConsumer'
  <2> SUFFICES ASSUME NEW f \in Events, NEW c \in Consumers
               PROVE  effects'[f][c] = IF inbox'[f][c] = "consumed" THEN 1 ELSE 0
    BY DEF EffectOncePerConsumer
  <2>1. CASE f = e /\ txInbox[d][c] # "none"
    <3>1. inbox[e][c] = "none" /\ c \in txDone[d] /\ effects[e][c] = 0
      BY <2>1, <1>1, <1>2 DEF TxAdds, EffectOncePerConsumer
    <3>2. txInbox[d][c] = "consumed"
      BY <2>1, <1>1, <1>6 DEF TypeOK, InboxStatus
    <3> QED
      BY <2>1, <3>1, <3>2, <1>4 DEF SeesInbox
  <2>2. CASE f = e /\ txInbox[d][c] = "none"
    <3>1. c \notin txDone[d] /\ effects[e][c] \in Nat
      BY <2>2, <1>1, <1>2 DEF TxAdds, TypeOK
    <3> QED
      BY <2>2, <3>1, <1>1, <1>2, <1>4 DEF SeesInbox, EffectOncePerConsumer
  <2>3. CASE f # e
    BY <2>3, <1>1, <1>3 DEF EffectOncePerConsumer
  <2> QED
    BY <2>1, <2>2, <2>3
<1>9. {c \in Consumers : inbox'[e][c] # "none"} = ConsumersOf(e)
  <2>1. {c \in Consumers : inbox[e][c] # "none"} \subseteq ConsumersOf(e)
    BY <1>1, <1>2 DEF AllConsumersTogether
  <2>2. \A c \in Consumers : txInbox[d][c] # "none" => c \in ConsumersOf(e)
    BY <1>2 DEF TxAdds
  <2>3. ASSUME NEW c \in ConsumersOf(e) PROVE SeesInbox(d, c) # "none"
    BY <1>2 DEF TxProgress, ConsumersOf, Consumers
  <2> QED
    BY <2>1, <2>2, <2>3, <1>4 DEF SeesInbox, ConsumersOf
<1>10. AllConsumersTogether'
  <2> SUFFICES ASSUME NEW f \in Events
               PROVE  /\ {c \in Consumers : inbox'[f][c] # "none"}
                           \in {{}, ConsumersOf(f)}
                      /\ status'[f] = "published" =>
                           \A c \in ConsumersOf(f) : inbox'[f][c] # "none"
    BY DEF AllConsumersTogether, ConsumersOf, NeedsNotification, NeedsIndexing
  <2>1. CASE f = e
    BY <2>1, <1>9
  <2>2. CASE f # e
    BY <2>2, <1>1, <1>3 DEF AllConsumersTogether
  <2> QED
    BY <2>1, <2>2
<1> QED
  BY <1>5, <1>7, <1>8, <1>10 DEF Committed

\* The inbox row of one consumer, in the middle of dispatchOne.
LEMMA ConsumeOK ==
  ASSUME TypeOK, NEW d \in Dispatchers, TxAdds(d),
         NEW c \in ConsumersOf(cur[d]), Consume(d, c),
         UNCHANGED <<inbox, cur>>
  PROVE  /\ TxAdds(d)'
         /\ SeesInbox(d, c)' # "none"
         /\ \A b \in Consumers \ {c} : txInbox'[d][b] = txInbox[d][b]
         /\ txInbox'[d][c] \in {txInbox[d][c], "consumed"}
<1>1. c \in Consumers
  BY DEF ConsumersOf
<1>2. CASE SeesInbox(d, c) = "none"
  <2>1. /\ txInbox' = [txInbox EXCEPT ![d] = [@ EXCEPT ![c] = "consumed"]]
        /\ txDone' = [txDone EXCEPT ![d] = @ \cup {c}]
    BY <1>2 DEF Consume
  <2>2. txInbox[d][c] = "none" /\ inbox[cur[d]][c] = "none"
    BY <1>2 DEF SeesInbox
  <2> QED
    BY <1>1, <2>1, <2>2 DEF TxAdds, SeesInbox, TypeOK, ConsumersOf
<1>3. CASE SeesInbox(d, c) # "none"
  BY <1>3 DEF Consume, tx, TxAdds, SeesInbox
<1> QED
  BY <1>2, <1>3

LEMMA StepIInv ==
  ASSUME IInv, [Next]_vars
  PROVE  TxOK' /\ Committed'
<1>0. TypeOK /\ RowLockOwner /\ TxOpenAtPc /\ TxOK /\ Committed
  BY DEF IInv, LockInv
<1> USE <1>0
<1>1. ASSUME UNCHANGED <<inbox, effects>>,
             \A e \in Events : status'[e] = "published" => status[e] = "published"
      PROVE  Committed'
  BY <1>1 DEF Committed, EffectOncePerConsumer, NoStrandedInbox,
              AllConsumersTogether, ConsumersOf, NeedsNotification, NeedsIndexing
<1>2. ASSUME UNCHANGED <<inbox, cur, pc, tx>> PROVE TxOK'
  BY <1>2, TxFrame DEF TxOK, tx, InTx
<1>3. ASSUME NEW d \in Dispatchers, UNCHANGED <<inbox, cur, tx>>,
             NEW where, pc' = [pc EXCEPT ![d] = where],
             where \in InTx => TxAdds(d)' /\ TxProgress(d)'
      PROVE  TxOK'
  BY <1>3, OneTx DEF tx, TypeOK
<1>4. ASSUME NEW e \in Events, Emit(e) \/ Retry(e) PROVE TxOK' /\ Committed'
  BY <1>4, <1>1, <1>2 DEF Emit, Retry, local, TypeOK
<1>5. ASSUME (\E u \in Users : ChangeStanding(u)) \/ \E k \in LockKeys : LockExpires(k)
      PROVE  TxOK' /\ Committed'
  BY <1>5, <1>1, <1>2 DEF ChangeStanding, LockExpires, local, committed
<1>6. ASSUME NEW d \in Dispatchers, StartRun(d) \/ Step(d) \/ Fault(d)
      PROVE  TxOK' /\ Committed'
  <2> USE DEF Goto, committed
  <2>1. CASE StartRun(d) \/ SelectBatch(d) \/ EndBatch(d) \/ Release(d)
             \/ ReleaseFails(d)
    BY <2>1, <1>1, <1>3
    DEF StartRun, SelectBatch, EndBatch, Release, ReleaseFails, Leave, InTx
  <2>2. CASE LockEvent(d)
    <3>1. PICK e \in batch[d] : /\ cur' = [cur EXCEPT ![d] = e]
                                /\ pc' = [pc EXCEPT ![d] = FirstStep(e)]
      BY <2>2 DEF LockEvent
    <3>2. /\ UNCHANGED <<inbox, effects, status, tx>> /\ pc[d] = "loop"
          /\ e \in Events
      BY <2>2 DEF LockEvent, TypeOK
    <3>3. txInbox[d] = NoRows /\ txDone[d] = {}
      BY <3>2 DEF TxOpenAtPc, InTx
    <3>4. TxAdds(d)'
      BY <3>2, <3>3 DEF TxAdds, NoRows, tx
    <3>5. TxProgress(d)'
      <4>1. /\ pc'[d] = FirstStep(e) /\ cur'[d] = e
            /\ \A c \in Consumers : txInbox'[d][c] = "none"
        BY <3>1, <3>2, <3>3 DEF NoRows, tx, TypeOK
      <4>2. NeedsNotification(e) => NeedsIndexing(e)
        BY DEF NeedsNotification, NeedsIndexing
      <4> QED
        BY <4>1, <4>2 DEF TxProgress, FirstStep, Consumers,
                          NeedsNotification, NeedsIndexing
    <3> QED
      BY <3>1, <3>2, <3>4, <3>5, <1>1, OneTx DEF tx, TypeOK
  <2>3. CASE StartNotifications(d)
    <3>1. /\ pc[d] = "notification" /\ TxAdds(d) /\ TxProgress(d)
          /\ UNCHANGED <<inbox, effects, status, cur>>
      BY <2>3 DEF StartNotifications, TxOK, InTx
    <3>2. "notification-worker" \in ConsumersOf(cur[d]) /\ NeedsIndexing(cur[d])
      BY <3>1 DEF TxProgress, ConsumersOf, Consumers, NeedsNotification,
                  NeedsIndexing
    <3>3. CASE SeesInbox(d, "notification-worker") # "none"
      <4>1. pc' = [pc EXCEPT ![d] = "search"] /\ UNCHANGED tx
        BY <2>3, <3>3 DEF StartNotifications
      <4>2. TxAdds(d)' /\ TxProgress(d)'
        BY <3>1, <3>2, <3>3, <4>1
        DEF TxAdds, TxProgress, SeesInbox, tx, TypeOK
      <4> QED
        BY <3>1, <4>1, <4>2, <1>1, <1>3
    <3>4. CASE SeesInbox(d, "notification-worker") = "none"
      <4>1. /\ txInbox' = [txInbox EXCEPT ![d] =
                             [@ EXCEPT !["notification-worker"] = "processing"]]
            /\ txDone' = [txDone EXCEPT ![d] = @ \cup {"notification-worker"}]
            /\ UNCHANGED txAborted
            /\ pc' = [pc EXCEPT ![d] = "insert"]
        BY <2>3, <3>4 DEF StartNotifications
      <4>2. TxAdds(d)'
        BY <3>1, <3>2, <3>4, <4>1 DEF TxAdds, SeesInbox, TypeOK, ConsumersOf
      <4>3. TxProgress(d)'
        BY <3>1, <3>2, <3>4, <4>1 DEF TxProgress, SeesInbox, TypeOK, Consumers
      <4> QED
        BY <3>1, <4>1, <4>2, <4>3, <1>1, OneTx DEF TypeOK
    <3> QED
      BY <3>3, <3>4
  <2>4. CASE InsertNotification(d)
    <3>1. UNCHANGED <<inbox, effects, status, cur, pc, txInbox, txDone, txAborted>>
      BY <2>4 DEF InsertNotification
    <3>2. TxOK'
      BY <3>1, TxFrame DEF TxOK, InTx
    <3> QED
      BY <3>1, <3>2, <1>1
  <2>5. CASE FinishNotifications(d)
    <3>1. /\ pc[d] = "insert" /\ TxAdds(d) /\ TxProgress(d)
          /\ UNCHANGED <<inbox, effects, status, cur, txDone, txAborted>>
          /\ txInbox' = [txInbox EXCEPT ![d] =
                           [@ EXCEPT !["notification-worker"] = "consumed"]]
          /\ pc' = [pc EXCEPT ![d] = "search"]
      BY <2>5 DEF FinishNotifications, TxOK, InTx
    <3>2. TxAdds(d)'
      BY <3>1 DEF TxAdds, TxProgress, TypeOK, Consumers, ConsumersOf
    <3>3. TxProgress(d)'
      BY <3>1 DEF TxProgress, SeesInbox, TypeOK, Consumers, NeedsIndexing,
                  NeedsNotification
    <3> QED
      BY <3>1, <3>2, <3>3, <1>1, OneTx DEF TypeOK
  <2>6. CASE ConsumeWithSearchWorker(d)
    <3>1. /\ pc[d] = "search" /\ TxAdds(d) /\ TxProgress(d)
          /\ UNCHANGED <<inbox, effects, status, cur>>
          /\ Consume(d, "search-index-worker")
          /\ pc' = [pc EXCEPT ![d] = "cache"]
      BY <2>6 DEF ConsumeWithSearchWorker, TxOK, InTx
    <3>2. "search-index-worker" \in ConsumersOf(cur[d])
      BY <3>1 DEF TxProgress, ConsumersOf, Consumers
    <3>3. /\ TxAdds(d)'
          /\ SeesInbox(d, "search-index-worker")' # "none"
          /\ \A b \in Consumers \ {"search-index-worker"} :
               txInbox'[d][b] = txInbox[d][b]
          /\ txInbox'[d]["search-index-worker"]
               \in {txInbox[d]["search-index-worker"], "consumed"}
      BY <3>1, <3>2, ConsumeOK
    <3>4. TxProgress(d)'
      BY <3>1, <3>3 DEF TxProgress, SeesInbox, TypeOK, Consumers
    <3>5. \A o \in Dispatchers \ {d} :
            /\ pc'[o] = pc[o] /\ txInbox'[o] = txInbox[o]
            /\ txDone'[o] = txDone[o] /\ txAborted'[o] = txAborted[o]
      BY <3>1 DEF Consume, tx, TypeOK
    <3> QED
      BY <3>1, <3>3, <3>4, <3>5, <1>1, OneTx DEF TypeOK
  <2>7. CASE ConsumeWithCacheWorker(d)
    <3>1. /\ pc[d] = "cache" /\ TxAdds(d) /\ TxProgress(d)
          /\ UNCHANGED <<inbox, effects, status, cur>>
          /\ Consume(d, "cache-invalidation-worker")
          /\ pc' = [pc EXCEPT ![d] = "publish"]
      BY <2>7 DEF ConsumeWithCacheWorker, TxOK, InTx
    <3>2. "cache-invalidation-worker" \in ConsumersOf(cur[d])
      BY <3>1 DEF TxProgress, ConsumersOf, Consumers
    <3>3. /\ TxAdds(d)'
          /\ SeesInbox(d, "cache-invalidation-worker")' # "none"
          /\ \A b \in Consumers \ {"cache-invalidation-worker"} :
               txInbox'[d][b] = txInbox[d][b]
          /\ txInbox'[d]["cache-invalidation-worker"]
               \in {txInbox[d]["cache-invalidation-worker"], "consumed"}
      BY <3>1, <3>2, ConsumeOK
    <3>4. TxProgress(d)'
      BY <3>1, <3>3 DEF TxProgress, SeesInbox, TypeOK, Consumers
    <3>5. \A o \in Dispatchers \ {d} :
            /\ pc'[o] = pc[o] /\ txInbox'[o] = txInbox[o]
            /\ txDone'[o] = txDone[o] /\ txAborted'[o] = txAborted[o]
      BY <3>1 DEF Consume, tx, TypeOK
    <3> QED
      BY <3>1, <3>3, <3>4, <3>5, <1>1, OneTx DEF TypeOK
  <2>8. CASE Publish(d)
    BY <2>8, CommitOK DEF Publish, InTx
  <2>9. CASE PublishUnacknowledged(d)
    <3>1. Leave(d) \notin InTx
      BY DEF Leave, InTx
    <3> QED
      BY <2>9, <3>1, CommitOK DEF PublishUnacknowledged
  <2>10. CASE SqlError(d)
    <3>1. /\ pc[d] \in InTx /\ TxAdds(d) /\ TxProgress(d)
          /\ UNCHANGED <<inbox, effects, status, cur, txInbox, txDone>>
          /\ txAborted' = [txAborted EXCEPT ![d] = TRUE]
          /\ pc' = [pc EXCEPT ![d] = "catch"]
      BY <2>10 DEF SqlError, TxOK
    <3>2. TxAdds(d)' /\ TxProgress(d)'
      BY <3>1 DEF TxAdds, TxProgress, TypeOK
    <3> QED
      BY <3>1, <3>2, <1>1, OneTx DEF TypeOK
  <2>11. CASE Catch(d)
    <3>1. txAborted[d]
      BY <2>11 DEF Catch, TxOK, TxProgress, InTx
    <3>2. /\ UNCHANGED <<inbox, effects, status>>
          /\ EndTx(d) /\ pc' = [pc EXCEPT ![d] = Leave(d)]
      BY <2>11, <3>1 DEF Catch
    <3>3. Leave(d) \notin InTx
      BY DEF Leave, InTx
    <3> QED
      BY <3>2, <3>3, <1>1, OneTx DEF EndTx, DropTx, TypeOK
  <2>12. CASE Crash(d)
    BY <2>12, <1>1, OneTx DEF Crash, DropTx, TypeOK, InTx
  <2> QED
    BY <1>6, <2>1, <2>2, <2>3, <2>4, <2>5, <2>6, <2>7, <2>8, <2>9, <2>10,
       <2>11, <2>12 DEF Step, Fault
<1>7. CASE UNCHANGED vars
  BY <1>7, <1>1, <1>2 DEF vars, committed, local
<1> QED
  BY <1>4, <1>5, <1>6, <1>7 DEF Next

LEMMA InvariantIInv == Spec => []IInv
<1>1. Init => IInv
  <2>1. Init => TxOK
    BY DEF Init, TxOK, InTx
  <2>2. Init => Committed
    BY DEF Init, Committed, EffectOncePerConsumer, NoStrandedInbox,
           AllConsumersTogether, NoRows
  <2> QED
    BY <2>1, <2>2, InitLockInv DEF IInv
<1>2. IInv /\ [Next]_vars => IInv'
  BY StepTypeOK, StepRowLockOwner, StepIInv DEF IInv, LockInv
<1> QED
  BY <1>1, <1>2, PTL DEF Spec

\* However many dispatchers overlap, fail, crash and repeat, and whatever the
\* Redis lock does, the effect of a consumer for an event is committed at most
\* once, exactly when its inbox row is (markInboxProcessing).
THEOREM EffectsOnce == Spec => []EffectOncePerConsumer
<1>1. IInv => EffectOncePerConsumer
  BY DEF IInv, Committed
<1> QED
  BY <1>1, InvariantIInv, PTL

\* A consumer never leaves an inbox row that says 'processing' behind.
THEOREM InboxNotStranded == Spec => []NoStrandedInbox
<1>1. IInv => NoStrandedInbox
  BY DEF IInv, Committed
<1> QED
  BY <1>1, InvariantIInv, PTL

\* The consumers of an event are applied together, and before it is published
\* (dispatchOne's transaction).
THEOREM ConsumersTogether == Spec => []AllConsumersTogether
<1>1. IInv => AllConsumersTogether
  BY DEF IInv, Committed
<1> QED
  BY <1>1, InvariantIInv, PTL

-----------------------------------------------------------------------------
(* Notifications and their batch.                                          *)

BatchInv == TxBatch /\ NoBatchWithoutInbox /\ NotificationsMatchBatch

LEMMA CommitBatch ==
  ASSUME IInv, BatchInv, NEW d \in Dispatchers, pc[d] = "publish",
         Commit(d, "published"), EndTx(d),
         NEW where, where \notin InTx, pc' = [pc EXCEPT ![d] = where]
  PROVE  BatchInv'
<1> DEFINE e == cur[d]
           w == "notification-worker"
<1>1. TypeOK /\ RowLockOwner /\ TxOpenAtPc /\ TxOK
  BY DEF IInv, LockInv
<1>2. e \in Events /\ TxAdds(d) /\ TxProgress(d) /\ w \in Consumers
  BY <1>1, CurIsEvent DEF TxOK, InTx, Consumers
<1>3. TxBatch /\ NoBatchWithoutInbox /\ NotificationsMatchBatch
  BY DEF BatchInv
<1>4. \A f \in Events \ {e} : /\ inbox'[f] = inbox[f] /\ total'[f] = total[f]
                              /\ notified'[f] = notified[f]
  BY <1>1, <1>2 DEF Commit, TypeOK
<1>5. /\ inbox'[e][w] = SeesInbox(d, w)
      /\ total'[e] = total[e] + txTotal[d]
      /\ \A u \in Users : notified'[e][u] =
           notified[e][u] + (IF u \in txSent[d] THEN 1 ELSE 0)
  BY <1>1, <1>2 DEF Commit, TypeOK
<1>6. TxBatch'
  <2>1. \A o \in Dispatchers \ {d} :
          /\ pc'[o] = pc[o] /\ txInbox'[o] = txInbox[o] /\ todo'[o] = todo[o]
          /\ txSent'[o] = txSent[o] /\ txTotal'[o] = txTotal[o]
    BY <1>1 DEF EndTx, DropTx, TypeOK
  <2>2. pc'[d] \notin InTx /\ txSent'[d] = {} /\ txTotal'[d] = 0
    BY <1>1 DEF EndTx, DropTx, TypeOK
  <2> QED
    BY <1>3, <2>1, <2>2 DEF TxBatch, InTx
<1>7. CASE txInbox[d][w] = "none"
  <2>1. txSent[d] = {} /\ txTotal[d] = 0
    BY <1>3, <1>7 DEF TxBatch
  <2>2. /\ inbox'[e][w] = inbox[e][w] /\ total'[e] = total[e]
        /\ \A u \in Users : notified'[e][u] = notified[e][u]
    BY <1>1, <1>2, <1>5, <1>7, <2>1 DEF SeesInbox, TypeOK
  <2>3. NoBatchWithoutInbox'
    BY <1>3, <1>4, <2>2 DEF NoBatchWithoutInbox
  <2>4. NotificationsMatchBatch'
    <3> SUFFICES ASSUME NEW f \in Events
                 PROVE  /\ \A u \in Users : notified'[f][u] <= 1
                        /\ Cardinality({u \in Users : notified'[f][u] > 0})
                             = total'[f]
      BY DEF NotificationsMatchBatch
    <3>1. /\ \A u \in Users : notified'[f][u] = notified[f][u]
          /\ total'[f] = total[f]
      BY <1>4, <2>2
    <3>2. {u \in Users : notified'[f][u] > 0} = {u \in Users : notified[f][u] > 0}
      BY <3>1
    <3> QED
      BY <1>3, <3>1, <3>2 DEF NotificationsMatchBatch
  <2> QED
    BY <1>6, <2>3, <2>4 DEF BatchInv
<1>8. CASE txInbox[d][w] # "none"
  <2>1. total[e] = 0 /\ \A u \in Users : notified[e][u] = 0
    BY <1>2, <1>3, <1>8 DEF TxAdds, NoBatchWithoutInbox
  <2>2. /\ inbox'[e][w] # "none"
        /\ \A u \in Users : notified'[e][u] = IF u \in txSent[d] THEN 1 ELSE 0
    BY <1>5, <1>8, <2>1 DEF SeesInbox
  <2>3. NoBatchWithoutInbox'
    BY <1>3, <1>4, <2>2 DEF NoBatchWithoutInbox
  <2>4. {u \in Users : notified'[e][u] > 0} = txSent[d]
    BY <1>1, <2>2 DEF TypeOK
  <2>5. total'[e] = Cardinality(txSent[d])
    <3>1. txTotal[d] = Cardinality(txSent[d])
      BY <1>3 DEF TxBatch
    <3>2. txTotal[d] \in Nat
      BY <1>1 DEF TypeOK
    <3> QED
      BY <1>5, <2>1, <3>1, <3>2
  <2>6. NotificationsMatchBatch'
    <3> SUFFICES ASSUME NEW f \in Events
                 PROVE  /\ \A u \in Users : notified'[f][u] <= 1
                        /\ Cardinality({u \in Users : notified'[f][u] > 0})
                             = total'[f]
      BY DEF NotificationsMatchBatch
    <3>1. CASE f = e
      BY <3>1, <2>2, <2>4, <2>5
    <3>2. CASE f # e
      BY <3>2, <1>3, <1>4 DEF NotificationsMatchBatch
    <3> QED
      BY <3>1, <3>2
  <2> QED
    BY <1>6, <2>3, <2>6 DEF BatchInv
<1> QED
  BY <1>7, <1>8

LEMMA StepBatch ==
  ASSUME IInv, BatchInv, [Next]_vars
  PROVE  BatchInv'
<1>0. /\ TypeOK /\ TxOpenAtPc /\ TxOK
      /\ TxBatch /\ NoBatchWithoutInbox /\ NotificationsMatchBatch
  BY DEF IInv, LockInv, BatchInv
<1> USE <1>0
<1>1. ASSUME UNCHANGED <<inbox, total, notified>>
      PROVE  NoBatchWithoutInbox' /\ NotificationsMatchBatch'
  BY <1>1 DEF NoBatchWithoutInbox, NotificationsMatchBatch
<1>2. ASSUME UNCHANGED <<pc, tx, todo>> PROVE TxBatch'
  BY <1>2 DEF TxBatch, tx
<1>3. ASSUME NEW d \in Dispatchers,
             \A o \in Dispatchers \ {d} :
               /\ pc'[o] = pc[o] /\ txInbox'[o] = txInbox[o]
               /\ todo'[o] = todo[o] /\ txSent'[o] = txSent[o]
               /\ txTotal'[o] = txTotal[o],
             txInbox'[d]["notification-worker"] = "none" =>
               txSent'[d] = {} /\ txTotal'[d] = 0,
             pc'[d] = "insert" =>
               /\ txSent'[d] \cap todo'[d] = {}
               /\ txTotal'[d] = Cardinality(txSent'[d] \cup todo'[d]),
             pc'[d] \in {"search", "cache", "publish"} =>
               txTotal'[d] = Cardinality(txSent'[d])
      PROVE  TxBatch'
  BY <1>3 DEF TxBatch
<1>4. ASSUME NEW d \in Dispatchers, StartRun(d) \/ Step(d) \/ Fault(d)
      PROVE  BatchInv'
  <2> USE DEF Goto, committed
  <2>1. CASE StartRun(d) \/ SelectBatch(d) \/ EndBatch(d) \/ Release(d)
             \/ ReleaseFails(d)
    <3>1. /\ UNCHANGED <<inbox, total, notified, tx, todo>>
          /\ \A o \in Dispatchers \ {d} : pc'[o] = pc[o]
          /\ pc'[d] \notin InTx
      BY <2>1 DEF StartRun, SelectBatch, EndBatch, Release, ReleaseFails, Leave,
                  InTx, TypeOK
    <3> QED
      BY <3>1, <1>1, <1>3 DEF BatchInv, TxBatch, tx, InTx
  <2>2. CASE LockEvent(d)
    <3>1. PICK e \in batch[d] : pc' = [pc EXCEPT ![d] = FirstStep(e)]
      BY <2>2 DEF LockEvent
    <3>2. /\ UNCHANGED <<inbox, total, notified, tx, todo>> /\ pc[d] = "loop"
          /\ pc'[d] \in {"notification", "search", "publish"}
          /\ \A o \in Dispatchers \ {d} : pc'[o] = pc[o]
      BY <2>2, <3>1 DEF LockEvent, FirstStep, TypeOK
    <3>3. txSent[d] = {} /\ txTotal[d] = 0
      BY <3>2 DEF TxOpenAtPc, InTx
    <3>4. TxBatch'
      BY <3>2, <3>3, <1>3, FS_EmptySet DEF TxBatch, tx
    <3> QED
      BY <3>2, <3>4, <1>1 DEF BatchInv
  <2>3. CASE StartNotifications(d)
    <3>1. /\ pc[d] = "notification" /\ UNCHANGED <<inbox, total, notified>>
          /\ txInbox[d]["notification-worker"] = "none" /\ cur[d] \in Events
      BY <2>3, CurIsEvent DEF StartNotifications, TxOK, TxProgress, InTx
    <3>2. txSent[d] = {} /\ txTotal[d] = 0
      BY <3>1 DEF TxBatch
    <3>3. CASE SeesInbox(d, "notification-worker") # "none"
      <4>1. UNCHANGED <<tx, todo>> /\ pc' = [pc EXCEPT ![d] = "search"]
        BY <2>3, <3>3 DEF StartNotifications
      <4>2. TxBatch'
        BY <3>2, <4>1, <1>3, FS_EmptySet DEF TxBatch, tx, TypeOK
      <4> QED
        BY <3>1, <4>2, <1>1 DEF BatchInv
    <3>4. CASE SeesInbox(d, "notification-worker") = "none"
      <4> DEFINE n == Cardinality(Audience(cur[d]))
      <4>1. /\ txInbox' = [txInbox EXCEPT ![d] =
                             [@ EXCEPT !["notification-worker"] = "processing"]]
            /\ txTotal' = [txTotal EXCEPT ![d] = n]
            /\ UNCHANGED txSent
            /\ todo' = [todo EXCEPT ![d] = Audience(cur[d])]
            /\ pc' = [pc EXCEPT ![d] = "insert"]
        BY <2>3, <3>4 DEF StartNotifications
      <4>2. txInbox'[d]["notification-worker"] = "processing"
        BY <4>1 DEF TypeOK, Consumers
      <4>3. txTotal'[d] = Cardinality(txSent'[d] \cup todo'[d])
        <5>1. txTotal'[d] = n /\ todo'[d] = Audience(cur[d]) /\ txSent'[d] = {}
          BY <3>2, <4>1 DEF TypeOK
        <5>2. txSent'[d] \cup todo'[d] = Audience(cur[d])
          BY <5>1
        <5> QED
          BY <5>1, <5>2
      <4>4. txSent'[d] \cap todo'[d] = {} /\ pc'[d] = "insert"
        BY <3>2, <4>1 DEF TypeOK
      <4>5. \A o \in Dispatchers \ {d} :
              /\ pc'[o] = pc[o] /\ txInbox'[o] = txInbox[o]
              /\ todo'[o] = todo[o] /\ txSent'[o] = txSent[o]
              /\ txTotal'[o] = txTotal[o]
        BY <4>1 DEF TypeOK
      <4>6. TxBatch'
        BY <4>2, <4>3, <4>4, <4>5, <1>3
      <4> QED
        BY <3>1, <4>6, <1>1 DEF BatchInv
    <3> QED
      BY <3>3, <3>4
  <2>4. CASE InsertNotification(d)
    <3>1. PICK u \in todo[d] : /\ txSent' = [txSent EXCEPT ![d] = @ \cup {u}]
                               /\ todo' = [todo EXCEPT ![d] = @ \ {u}]
      BY <2>4 DEF InsertNotification
    <3>2. /\ UNCHANGED <<inbox, total, notified, pc, txInbox, txTotal>>
          /\ pc[d] = "insert"
          /\ txInbox[d]["notification-worker"] = "processing"
      BY <2>4 DEF InsertNotification, TxOK, TxProgress, InTx
    <3>3. /\ txSent'[d] \cup todo'[d] = txSent[d] \cup todo[d]
          /\ txSent'[d] \cap todo'[d] = {}
      BY <3>1, <3>2 DEF TypeOK, TxBatch
    <3>4. \A o \in Dispatchers \ {d} : todo'[o] = todo[o] /\ txSent'[o] = txSent[o]
      BY <3>1 DEF TypeOK
    <3>5. TxBatch'
      BY <3>2, <3>3, <3>4, <1>3 DEF TxBatch
    <3> QED
      BY <3>2, <3>5, <1>1 DEF BatchInv
  <2>5. CASE FinishNotifications(d)
    <3>1. /\ pc[d] = "insert" /\ todo[d] = {}
          /\ UNCHANGED <<inbox, total, notified, todo, txSent, txTotal>>
          /\ txInbox' = [txInbox EXCEPT ![d] =
                           [@ EXCEPT !["notification-worker"] = "consumed"]]
          /\ pc' = [pc EXCEPT ![d] = "search"]
      BY <2>5 DEF FinishNotifications
    <3>2. txSent[d] \cup todo[d] = txSent[d]
      BY <3>1
    <3>3. txTotal[d] = Cardinality(txSent[d])
      BY <3>1, <3>2 DEF TxBatch
    <3>4. txInbox'[d]["notification-worker"] = "consumed" /\ pc'[d] = "search"
      BY <3>1 DEF TypeOK, Consumers
    <3>5. \A o \in Dispatchers \ {d} :
            pc'[o] = pc[o] /\ txInbox'[o] = txInbox[o]
      BY <3>1 DEF TypeOK
    <3>6. TxBatch'
      BY <3>1, <3>3, <3>4, <3>5, <1>3 DEF TxBatch
    <3> QED
      BY <3>1, <3>6, <1>1 DEF BatchInv
  <2>6. CASE ConsumeWithSearchWorker(d) \/ ConsumeWithCacheWorker(d)
    <3>1. PICK c \in Consumers \ {"notification-worker"} : Consume(d, c)
      BY <2>6 DEF ConsumeWithSearchWorker, ConsumeWithCacheWorker, Consumers
    <3>2. /\ UNCHANGED <<inbox, total, notified, todo, txSent, txTotal>>
          /\ pc[d] \in {"search", "cache"}
          /\ pc'[d] \in {"cache", "publish"}
          /\ \A o \in Dispatchers \ {d} : pc'[o] = pc[o]
      BY <2>6 DEF ConsumeWithSearchWorker, ConsumeWithCacheWorker, Consume, tx,
                  TypeOK
    <3>3. /\ txInbox'[d]["notification-worker"] = txInbox[d]["notification-worker"]
          /\ \A o \in Dispatchers \ {d} : txInbox'[o] = txInbox[o]
      <4>1. CASE UNCHANGED tx
        BY <4>1 DEF tx
      <4>2. CASE txInbox' = [txInbox EXCEPT ![d] = [@ EXCEPT ![c] = "consumed"]]
        BY <4>2 DEF TypeOK, Consumers
      <4> QED
        BY <3>1, <4>1, <4>2 DEF Consume
    <3>4. TxBatch'
      BY <3>2, <3>3, <1>3 DEF TxBatch
    <3> QED
      BY <3>2, <3>4, <1>1 DEF BatchInv
  <2>7. CASE Publish(d)
    BY <2>7, CommitBatch DEF Publish, InTx
  <2>8. CASE PublishUnacknowledged(d)
    <3>1. Leave(d) \notin InTx
      BY DEF Leave, InTx
    <3> QED
      BY <2>8, <3>1, CommitBatch DEF PublishUnacknowledged
  <2>9. CASE SqlError(d)
    <3>1. /\ UNCHANGED <<inbox, total, notified, todo, txInbox, txSent, txTotal>>
          /\ pc'[d] = "catch" /\ \A o \in Dispatchers \ {d} : pc'[o] = pc[o]
      BY <2>9 DEF SqlError, TypeOK
    <3>2. TxBatch'
      BY <3>1, <1>3 DEF TxBatch
    <3> QED
      BY <3>1, <3>2, <1>1 DEF BatchInv
  <2>10. CASE Catch(d) \/ Crash(d)
    <3>1. Catch(d) => txAborted[d]
      BY DEF Catch, TxOK, TxProgress, InTx
    <3>2. /\ UNCHANGED <<inbox, total, notified>>
          /\ DropTx(d) /\ todo' = [todo EXCEPT ![d] = {}]
          /\ pc'[d] \notin InTx /\ \A o \in Dispatchers \ {d} : pc'[o] = pc[o]
      BY <2>10, <3>1 DEF Catch, Crash, EndTx, Leave, InTx, TypeOK
    <3>3. /\ txSent'[d] = {} /\ txTotal'[d] = 0
          /\ \A o \in Dispatchers \ {d} :
               /\ txInbox'[o] = txInbox[o] /\ todo'[o] = todo[o]
               /\ txSent'[o] = txSent[o] /\ txTotal'[o] = txTotal[o]
      BY <3>2 DEF DropTx, TypeOK
    <3>4. TxBatch'
      BY <3>2, <3>3, <1>3 DEF InTx
    <3> QED
      BY <3>2, <3>4, <1>1 DEF BatchInv
  <2> QED
    BY <1>4, <2>1, <2>2, <2>3, <2>4, <2>5, <2>6, <2>7, <2>8, <2>9, <2>10
    DEF Step, Fault
<1>5. CASE \/ UNCHANGED vars
           \/ \E e \in Events : Emit(e) \/ Retry(e)
           \/ \E u \in Users : ChangeStanding(u)
           \/ \E k \in LockKeys : LockExpires(k)
  <2>1. UNCHANGED <<inbox, total, notified, pc, tx, todo>>
    BY <1>5 DEF vars, Emit, Retry, ChangeStanding, LockExpires, local, committed
  <2> QED
    BY <2>1, <1>1, <1>2 DEF BatchInv
<1> QED
  BY <1>4, <1>5 DEF Next

\* A sent batch has one notification for each of the total_recipients it
\* recorded, and no user has two for one event (consumeWithNotificationWorker).
THEOREM BatchesComplete == Spec => []NotificationsMatchBatch
<1>1. Init => BatchInv
  <2>1. Init => NotificationsMatchBatch
    <3> SUFFICES ASSUME Init, NEW e \in Events
                 PROVE  /\ \A u \in Users : notified[e][u] <= 1
                        /\ Cardinality({u \in Users : notified[e][u] > 0})
                             = total[e]
      BY DEF NotificationsMatchBatch
    <3> DEFINE S == {u \in Users : notified[e][u] > 0}
    <3>1. S = {} /\ total[e] = 0 /\ \A u \in Users : notified[e][u] <= 1
      BY DEF Init
    <3>2. Cardinality(S) = 0
      <4> HIDE DEF S
      <4> QED
        BY <3>1, FS_EmptySet
    <3> QED
      BY <3>1, <3>2
  <2>2. Init => TxBatch /\ NoBatchWithoutInbox
    BY DEF Init, TxBatch, NoBatchWithoutInbox
  <2> QED
    BY <2>1, <2>2 DEF BatchInv
<1>2. BatchInv /\ IInv /\ [Next]_vars => BatchInv'
  BY StepBatch
<1>3. BatchInv => NotificationsMatchBatch
  BY DEF BatchInv
<1> QED
  BY <1>1, <1>2, <1>3, InvariantIInv, PTL DEF Spec

-----------------------------------------------------------------------------
(* The Redis lock.                                                         *)

\* A worker that runs and has not outlived its TTL holds the lock of its name.
Holds(v) == pc[v] # "idle" /\ v \notin outlived => redisLock[LockKey[v]] = v

\* Two workers of one name run at the same time only if the TTL of one has passed
\* since it took the lock: stale holders, late releases and crashes open no other
\* way (runWorkerBatch).
THEOREM OverlapsNeedExpiry == Spec => []OverlapOnlyAfterExpiry
<1> DEFINE Held == RedisEnabled => \A v \in Workers : Holds(v)
<1> USE DispatchersAssumption
<1>1. Init => Held
  BY DEF Init, Holds
<1>2. ASSUME TypeOK, Held, [Next]_vars PROVE Held'
  <2> SUFFICES ASSUME RedisEnabled, NEW v \in Workers, pc'[v] # "idle",
                      v \notin outlived'
               PROVE  redisLock'[LockKey[v]] = v
    BY DEF Holds
  <2>0. /\ LockKey[v] \in LockKeys /\ v \in Dispatchers
        /\ pc[v] # "idle" /\ v \notin outlived => redisLock[LockKey[v]] = v
    BY <1>2 DEF Holds
  <2> USE <1>2 DEF TypeOK, Goto
  <2>1. CASE UNCHANGED <<pc, redis>>
    BY <2>0, <2>1 DEF redis
  <2>2. ASSUME NEW d \in Dispatchers, StartRun(d)
        PROVE  redisLock'[LockKey[v]] = v
    <3>1. CASE d = v
      BY <2>0, <2>2, <3>1 DEF StartRun, Leave
    <3>2. CASE d # v
      <4>1. pc[v] # "idle" /\ v \notin outlived
        BY <2>0, <2>2, <3>2 DEF StartRun, redis
      <4> QED
        BY <2>0, <2>2, <4>1 DEF StartRun, redis
    <3> QED
      BY <3>1, <3>2
  <2>3. ASSUME NEW d \in Dispatchers, pc[d] # "idle", UNCHANGED redis,
               NEW where, pc' = [pc EXCEPT ![d] = where]
        PROVE  redisLock'[LockKey[v]] = v
    BY <2>0, <2>3 DEF redis
  <2>4. ASSUME NEW d \in Dispatchers, Release(d)
        PROVE  redisLock'[LockKey[v]] = v
    <3>1. d # v /\ pc[v] # "idle" /\ v \notin outlived
      BY <2>0, <2>4 DEF Release
    <3> QED
      BY <2>0, <2>4, <3>1 DEF Release
  <2>5. ASSUME NEW k \in LockKeys, LockExpires(k)
        PROVE  redisLock'[LockKey[v]] = v
    <3>1. pc[v] # "idle" /\ v \notin outlived /\ redisLock[k] # v
      BY <2>0, <2>5 DEF LockExpires, local
    <3> QED
      BY <2>0, <2>5, <3>1 DEF LockExpires
  <2>6. ASSUME NEW d \in Dispatchers, Step(d) \/ Fault(d), ~ Release(d)
        PROVE  redisLock'[LockKey[v]] = v
    <3>1. pc[d] # "idle" /\ UNCHANGED redis
      BY <2>6 DEF Step, Fault, SelectBatch, LockEvent, EndBatch,
         StartNotifications, InsertNotification, FinishNotifications,
         ConsumeWithSearchWorker, ConsumeWithCacheWorker, Publish, Catch,
         PublishUnacknowledged, SqlError, ReleaseFails, Crash, InTx
    <3>2. pc' = pc \/ \E where : pc' = [pc EXCEPT ![d] = where]
      BY <2>6 DEF Step, Fault, SelectBatch, LockEvent, EndBatch,
         StartNotifications, InsertNotification, FinishNotifications,
         ConsumeWithSearchWorker, ConsumeWithCacheWorker, Publish, Catch,
         PublishUnacknowledged, SqlError, ReleaseFails, Crash, InTx
    <3> QED
      BY <3>1, <3>2, <2>1, <2>3
  <2> QED
    BY <2>1, <2>2, <2>4, <2>5, <2>6
    DEF Next, vars, local, Emit, Retry, ChangeStanding
<1>3. Held => OverlapOnlyAfterExpiry
  <2> SUFFICES ASSUME Held, RedisEnabled, NEW v \in Workers \ outlived,
                      NEW w \in Workers \ outlived, LockKey[v] = LockKey[w],
                      pc[v] # "idle", pc[w] # "idle"
               PROVE  v = w
    BY DEF OverlapOnlyAfterExpiry
  <2> QED
    BY DEF Holds
<1> HIDE DEF Held
<1> QED
  BY <1>1, <1>2, <1>3, RowLocksExclude, PTL DEF Spec

\* A dispatcher that has come to the release of its lock leaves that place only by
\* the release, done or failed, or by a crash.
LEMMA OnlyReleaseLeaves ==
  ASSUME TypeOK, Next, NEW d \in Dispatchers, pc[d] = "release",
         pc'[d] # "release"
  PROVE  Release(d) \/ ReleaseFails(d) \/ Crash(d)
<1> USE DEF TypeOK, Goto
<1>1. CASE pc' = pc
  BY <1>1
<1>2. ASSUME NEW o \in Dispatchers, NEW where, pc' = [pc EXCEPT ![o] = where]
      PROVE  o = d
  BY <1>2
<1>3. ASSUME NEW o \in Dispatchers, StartRun(o) PROVE FALSE
  <2>1. pc[o] = "idle" /\ pc' = [pc EXCEPT ![o] = "select"]
    BY <1>3 DEF StartRun
  <2> QED
    BY <2>1, <1>2
<1>4. ASSUME NEW o \in Dispatchers, Step(o) \/ Fault(o)
      PROVE  Release(d) \/ ReleaseFails(d) \/ Crash(d)
  <2>1. \/ pc' = pc
        \/ \E where : pc' = [pc EXCEPT ![o] = where]
    BY <1>4 DEF Step, Fault, SelectBatch, LockEvent, EndBatch,
       StartNotifications, InsertNotification, FinishNotifications,
       ConsumeWithSearchWorker, ConsumeWithCacheWorker, Publish, Catch, Release,
       PublishUnacknowledged, SqlError, ReleaseFails, Crash
  <2>2. o = d
    BY <2>1, <1>1, <1>2
  <2> QED
    BY <2>2, <1>4 DEF Step, Fault, SelectBatch, LockEvent, EndBatch,
       StartNotifications, InsertNotification, FinishNotifications,
       ConsumeWithSearchWorker, ConsumeWithCacheWorker, Publish, Catch,
       PublishUnacknowledged, SqlError, InTx
<1>5. CASE \/ \E e \in Events : Emit(e) \/ Retry(e)
           \/ \E u \in Users : ChangeStanding(u)
           \/ \E k \in LockKeys : LockExpires(k)
  BY <1>5, <1>1 DEF Emit, Retry, ChangeStanding, LockExpires, local
<1> QED
  BY <1>3, <1>4, <1>5 DEF Next

\* However long a batch outlives the TTL, the worker that ends it leaves the lock
\* of the worker that has taken it since (releaseLock's compare-and-delete).
THEOREM StaleHoldersKeepOff == Spec => StaleHolderKeepsOff
<1> DEFINE KeepsOff == \A d \in Workers :
             pc[d] = "release" /\ pc'[d] = "idle" /\ redisLock[LockKey[d]] # d
               => redisLock' = redisLock
<1>1. ASSUME TypeOK, [Next]_vars PROVE KeepsOff
  <2> SUFFICES ASSUME NEW d \in Workers, pc[d] = "release",
                      pc'[d] = "idle", redisLock[LockKey[d]] # d
               PROVE  redisLock' = redisLock
    OBVIOUS
  <2>1. CASE UNCHANGED vars
    BY <2>1 DEF vars, redis
  <2>2. CASE Next
    <3>1. Release(d) \/ ReleaseFails(d) \/ Crash(d)
      BY <1>1, <2>2, OnlyReleaseLeaves, DispatchersAssumption
    <3>2. redisLock \in [LockKeys -> Workers \cup {NoOne}] /\ LockKey[d] \in LockKeys
      BY <1>1, DispatchersAssumption DEF TypeOK
    <3> QED
      BY <3>1, <3>2 DEF Release, ReleaseFails, Crash, redis
  <2> QED
    BY <1>1, <2>1, <2>2
<1> HIDE DEF KeepsOff
<1>2. TypeOK /\ [Next]_vars => [KeepsOff]_vars
  BY <1>1
<1>3. StaleHolderKeepsOff <=> [][KeepsOff]_vars
  BY DEF StaleHolderKeepsOff, KeepsOff
<1> QED
  BY <1>2, <1>3, RowLocksExclude, PTL DEF Spec

-----------------------------------------------------------------------------
(* The promise to the services that write events.                          *)

\* Only rows that exist are dispatched, and rows are not deleted.
Exist == \A d \in Dispatchers, e \in Events :
           e \in batch[d] \/ e = cur[d] => status[e] # "none"

LEMMA StepExist ==
  ASSUME TypeOK, Exist, [Next]_vars
  PROVE  Exist'
<1> USE DEF Exist
<1>1. ASSUME \A e \in Events : status[e] # "none" => status'[e] # "none",
             \A d \in Dispatchers, e \in Events :
               e \in batch'[d] \/ e = cur'[d] => e \in batch[d] \/ e = cur[d]
      PROVE  Exist'
  BY <1>1
<1>2. ASSUME NEW d \in Dispatchers, NEW s \in {"published", "failed"},
             Commit(d, s)
      PROVE  \A e \in Events : status[e] # "none" => status'[e] # "none"
  BY <1>2 DEF Commit, TypeOK
<1>3. ASSUME NEW d \in Dispatchers, StartRun(d) \/ Step(d) \/ Fault(d)
      PROVE  Exist'
  <2> USE DEF committed
  <2>1. CASE SelectBatch(d)
    BY <2>1 DEF SelectBatch, Selections, Pending, TypeOK
  <2>2. CASE LockEvent(d)
    BY <2>2, <1>1 DEF LockEvent, TypeOK
  <2>3. CASE Publish(d)
    <3>1. \A o \in Dispatchers, e \in Events :
            e \in batch'[o] \/ e = cur'[o] => e \in batch[o] \/ e = cur[o]
      BY <2>3, EventsAssumption DEF Publish, EndTx, TypeOK
    <3> QED
      BY <2>3, <3>1, <1>1, <1>2 DEF Publish
  <2>4. CASE PublishUnacknowledged(d)
    <3>1. \A o \in Dispatchers, e \in Events :
            e \in batch'[o] \/ e = cur'[o] => e \in batch[o] \/ e = cur[o]
      BY <2>4, EventsAssumption DEF PublishUnacknowledged, EndTx, TypeOK
    <3> QED
      BY <2>4, <3>1, <1>1, <1>2 DEF PublishUnacknowledged
  <2>5. CASE Catch(d)
    <3>1. \A o \in Dispatchers, e \in Events :
            e \in batch'[o] \/ e = cur'[o] => e \in batch[o] \/ e = cur[o]
      BY <2>5, EventsAssumption DEF Catch, EndTx, TypeOK
    <3>2. \A e \in Events : status[e] # "none" => status'[e] # "none"
      BY <2>5, <1>2 DEF Catch
    <3> QED
      BY <3>1, <3>2, <1>1
  <2>6. CASE Crash(d)
    BY <2>6, <1>1, EventsAssumption DEF Crash, TypeOK
  <2>7. ASSUME UNCHANGED <<status, batch, cur>> PROVE Exist'
    BY <2>7, <1>1
  <2>8. CASE StartRun(d) \/ EndBatch(d) \/ Release(d) \/ ReleaseFails(d)
             \/ SqlError(d)
    BY <2>7, <2>8 DEF StartRun, EndBatch, Release, ReleaseFails, SqlError
  <2>9. CASE StartNotifications(d) \/ InsertNotification(d)
             \/ FinishNotifications(d)
    BY <2>7, <2>9 DEF StartNotifications, InsertNotification, FinishNotifications
  <2>10. CASE ConsumeWithSearchWorker(d) \/ ConsumeWithCacheWorker(d)
    BY <2>7, <2>10 DEF ConsumeWithSearchWorker, ConsumeWithCacheWorker
  <2> QED
    BY <1>3, <2>1, <2>2, <2>3, <2>4, <2>5, <2>6, <2>8, <2>9, <2>10
    DEF Step, Fault
<1>4. ASSUME NEW e \in Events, Emit(e) \/ Retry(e) PROVE Exist'
  <2>1. /\ status' = [status EXCEPT ![e] = "pending"]
        /\ UNCHANGED <<batch, cur>>
    BY <1>4 DEF Emit, Retry, local
  <2> QED
    BY <2>1, <1>1 DEF TypeOK
<1>5. CASE \/ UNCHANGED vars
           \/ \E u \in Users : ChangeStanding(u)
           \/ \E k \in LockKeys : LockExpires(k)
  BY <1>5, <1>1 DEF vars, committed, local, ChangeStanding, LockExpires
<1> QED
  BY <1>3, <1>4, <1>5 DEF Next

\* A committed dispatch delivers its event to all of its consumers.
LEMMA CommitDelivers ==
  ASSUME IInv, IInv', Exist, NEW d \in Dispatchers, pc[d] = "publish",
         Commit(d, "published"), NEW e \in Events, e = cur[d]
  PROVE  Delivery!Deliver(e)
<1>1. /\ TypeOK /\ TypeOK' /\ TxOpenAtPc
      /\ EffectOncePerConsumer' /\ NoStrandedInbox' /\ AllConsumersTogether'
  BY DEF IInv, LockInv, Committed
<1>2. e \in Events
  OBVIOUS
<1>3. status[e] # "none"
  BY DEF Exist
<1>4. status' = [status EXCEPT ![e] = "published"]
  BY DEF Commit
<1>5. \A c \in Consumers :
        effects'[e][c] = IF c \in ConsumersOf(e) THEN 1 ELSE 0
  <2> SUFFICES ASSUME NEW c \in Consumers
               PROVE  effects'[e][c] = IF c \in ConsumersOf(e) THEN 1 ELSE 0
    OBVIOUS
  <2>1. status'[e] = "published"
    BY <1>1, <1>2, <1>4 DEF TypeOK
  <2>2. c \in ConsumersOf(e) <=> inbox'[e][c] # "none"
    <3>1. \A b \in ConsumersOf(e) : inbox'[e][b] # "none"
      BY <1>1, <1>2, <2>1
      DEF AllConsumersTogether, ConsumersOf, NeedsNotification, NeedsIndexing
    <3>2. {b \in Consumers : inbox'[e][b] # "none"} \in {{}, ConsumersOf(e)}
      BY <1>1, <1>2
      DEF AllConsumersTogether, ConsumersOf, NeedsNotification, NeedsIndexing
    <3> QED
      BY <3>1, <3>2
  <2>3. inbox'[e][c] \in {"none", "consumed"}
    BY <1>1, <1>2 DEF NoStrandedInbox, TypeOK, InboxStatus
  <2> QED
    BY <1>1, <1>2, <2>2, <2>3 DEF EffectOncePerConsumer
<1>6. effects'[e] = [c \in Consumers |-> IF c \in ConsumersOf(e) THEN 1 ELSE 0]
  <2>1. effects'[e] \in [Consumers -> Nat]
    BY <1>1, <1>2 DEF TypeOK
  <2> QED
    BY <1>5, <2>1
<1>7. effects' = [effects EXCEPT ![e] =
                    [c \in Consumers |-> IF c \in ConsumersOf(e) THEN 1 ELSE 0]]
  <2>1. effects' = [effects EXCEPT ![e] = effects'[e]]
    BY <1>1, <1>2 DEF Commit, TypeOK
  <2> QED
    BY <1>6, <2>1
<1>8. status \in [Events -> {"none", "pending", "published", "failed"}]
  BY <1>1 DEF TypeOK
<1> QED
  BY <1>2, <1>3, <1>4, <1>7, <1>8
  DEF Delivery!Deliver, ConsumersOf, NeedsNotification, NeedsIndexing

\* Every behaviour of the pipeline is a behaviour of EventDelivery.
THEOREM ImplementsDelivery == Spec => DeliversEachEventOnce
<1> USE DEF Delivery!vars
<1>1. Init => Delivery!Init
  BY DEF Init, Delivery!Init, NoRows
<1>2. ASSUME IInv, IInv', Exist, [Next]_vars
      PROVE  [Delivery!Next]_(Delivery!vars)
  <2>0. status \in [Events -> {"none", "pending", "published", "failed"}]
    BY <1>2 DEF IInv, LockInv, TypeOK
  <2>1. CASE UNCHANGED <<status, effects>>
    BY <2>1
  <2>2. ASSUME NEW e \in Events, Emit(e) PROVE Delivery!Next
    <3>1. Delivery!Write(e)
      BY <2>0, <2>2 DEF Emit, Delivery!Write
    <3> QED
      BY <3>1 DEF Delivery!Next
  <2>3. ASSUME NEW e \in Events, Retry(e) PROVE [Delivery!Next]_(Delivery!vars)
    <3>1. status' = [status EXCEPT ![e] = "pending"] /\ UNCHANGED effects
          /\ status[e] # "none"
      BY <2>3 DEF Retry
    <3>2. CASE status[e] = "published"
      <4>1. Delivery!Reopen(e)
        BY <2>0, <3>1, <3>2 DEF Delivery!Reopen
      <4> QED
        BY <4>1 DEF Delivery!Next
    <3>3. CASE status[e] # "published"
      BY <2>0, <3>1, <3>3
    <3> QED
      BY <3>2, <3>3
  <2>4. ASSUME NEW d \in Dispatchers, Publish(d) \/ PublishUnacknowledged(d)
        PROVE  Delivery!Next
    <3>1. cur[d] \in Events
      BY <1>2, <2>4, CurIsEvent
      DEF IInv, LockInv, InTx, Publish, PublishUnacknowledged
    <3>2. pc[d] = "publish" /\ Commit(d, "published")
      BY <2>4 DEF Publish, PublishUnacknowledged
    <3>3. PICK e \in Events : e = cur[d]
      BY <3>1
    <3>4. Delivery!Deliver(e)
      BY <1>2, <3>2, <3>3, CommitDelivers
    <3> QED
      BY <3>4 DEF Delivery!Next
  <2>5. ASSUME NEW d \in Dispatchers, Catch(d) PROVE UNCHANGED <<status, effects>>
    <3>1. txAborted[d]
      BY <1>2, <2>5 DEF Catch, IInv, TxOK, TxProgress, InTx
    <3> QED
      BY <2>5, <3>1 DEF Catch, committed
  <2>6. ASSUME NEW d \in Dispatchers, StartRun(d) \/ Step(d) \/ Fault(d),
               ~ Publish(d), ~ PublishUnacknowledged(d)
        PROVE  UNCHANGED <<status, effects>>
    BY <2>5, <2>6
    DEF StartRun, Step, Fault, SelectBatch, LockEvent, EndBatch,
        StartNotifications, InsertNotification, FinishNotifications,
        ConsumeWithSearchWorker, ConsumeWithCacheWorker, SqlError, Release,
        ReleaseFails, Crash, committed
  <2>7. CASE \/ UNCHANGED vars
             \/ \E u \in Users : ChangeStanding(u)
             \/ \E k \in LockKeys : LockExpires(k)
    BY <2>1, <2>7 DEF vars, committed, ChangeStanding, LockExpires
  <2> QED
    BY <1>2, <2>1, <2>2, <2>3, <2>4, <2>6, <2>7 DEF Next
<1>3. Init => Exist
  BY EventsAssumption DEF Init, Exist
<1>4. IInv /\ Exist /\ [Next]_vars => Exist'
  BY StepExist DEF IInv, LockInv
<1> QED
  BY <1>1, <1>2, <1>3, <1>4, InvariantIInv, PTL
  DEF Spec, DeliversEachEventOnce, Delivery!Spec

=============================================================================

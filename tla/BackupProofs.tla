----------------------------- MODULE BackupProofs -----------------------------
(***************************************************************************)
(* Proofs about Backup and the write batches under it, for any tables,     *)
(* connections, jobs, failovers and bounds.                                *)
(***************************************************************************)
EXTENDS Support, SequenceTheorems, TLAPS

-----------------------------------------------------------------------------
(* Write batches: the inductive invariant.                                 *)

\* A batch that tells of its items, numbered from one without a gap.
Numbered(b) ==
  /\ b \in Batch
  /\ b.count = Len(b.items)
  /\ b.tables = TablesOf(b.items)
  /\ \A i \in DOMAIN b.items : b.items[i].ordinal = i

\* The transactions whose rows a batch has.
Writing(b) == {b.items[i].by : i \in DOMAIN b.items}

\* The database was moved to a copy between the transactions m and n.
MovedBetween(m, n, moves) == \E last \in moves : m <= last /\ last < n

\* A batch of transactions so far, of one of them as long as there is no failover.
GoodBatch(b, moves, past) ==
  /\ Numbered(b)
  /\ \A m \in Writing(b) : m <= past
  /\ \A m, n \in Writing(b) : m < n => MovedBetween(m, n, moves)

\* The batches of a database, or of a dump of it.
GoodTable(t, moves, past) ==
  /\ t \in [Txids -> Batch \cup {NoBatch}]
  /\ \A tx \in Txids : t[tx] # NoBatch => GoodBatch(t[tx], moves, past)

Writer ==
  [tx : Txids, by : Nat, rows : Nat, batch : Batch]

\* The txids from nextTx on have batches only from before a failover, so that the
\* transaction that gets one of them is separated from what its batch holds; nobody
\* else gets it, so that the batch holds what was committed under that txid.
WritersOK ==
  /\ writer \in [Writers -> Writer \cup {NoWriter}]
  /\ \A w \in Writers : writer[w] # NoWriter =>
       LET x == writer[w] IN
       /\ x.tx < nextTx /\ x.by <= transactions
       /\ GoodBatch(x.batch, failovers, transactions)
       /\ \A m \in Writing(x.batch) : m = x.by \/ MovedBetween(m, x.by, failovers)
       /\ batch[x.tx] # NoBatch => Writing(batch[x.tx]) \subseteq Writing(x.batch)
  /\ \A w, v \in Writers :
       writer[w] # NoWriter /\ writer[v] # NoWriter /\ writer[w].tx = writer[v].tx => w = v

BatchesInv ==
  /\ transactions \in Nat /\ nextTx \in Nat /\ 1 <= nextTx /\ nextTx <= transactions + 1
  /\ failovers \subseteq 0..transactions
  /\ GoodTable(batch, failovers, transactions)
  /\ \A tx \in Txids : tx >= nextTx /\ batch[tx] # NoBatch =>
       \A m \in Writing(batch[tx]) : \E last \in failovers : m <= last
  /\ WritersOK

-----------------------------------------------------------------------------
(* Write batches: facts about the operators.                               *)

\* NextOrdinal is the number of items and one.
LEMMA NextOrdinalIsNext ==
  ASSUME NEW b, Numbered(b)
  PROVE  NextOrdinal(b.items) = Len(b.items) + 1
<1> DEFINE S == {0} \cup {b.items[i].ordinal : i \in DOMAIN b.items}
<1>1. /\ Len(b.items) \in Nat /\ DOMAIN b.items = 1..Len(b.items)
      /\ \A i \in 1..Len(b.items) : b.items[i].ordinal = i
  BY DEF Numbered, Batch
<1>2. S = 0..Len(b.items)
  BY <1>1
<1>3. Max(S) = Len(b.items)
  <2>1. Len(b.items) \in S /\ \A y \in S : Len(b.items) >= y
    BY <1>1, <1>2
  <2>2. \A x \in S : (\A y \in S : x >= y) => x = Len(b.items)
    BY <1>1, <1>2
  <2> HIDE DEF S
  <2>3. QED
    BY <2>1, <2>2 DEF Max
<1>4. QED
  BY <1>3 DEF NextOrdinal

\* record_api_write_batch_item adds one item, of the transaction that writes.
LEMMA RecordedBatch ==
  ASSUME NEW known, known = NoBatch \/ Numbered(known),
         NEW t \in WrittenTables, NEW n \in Nat
  PROVE  LET r == Recorded(known, t, n) IN
         /\ Numbered(r) /\ r # NoBatch
         /\ Writing(r) = (IF known = NoBatch THEN {} ELSE Writing(known)) \cup {n}
<1> DEFINE b == Ensured(known)
           item == [table |-> t, ordinal |-> Len(b.items) + 1, by |-> n]
           items == Append(b.items, item)
           r == Recorded(known, t, n)
<1>1. /\ Numbered(b)
      /\ Writing(b) = IF known = NoBatch THEN {} ELSE Writing(known)
  <2>1. CASE known = NoBatch
    <3>1. b = [items |-> <<>>, count |-> 0, tables |-> {}]
      BY <2>1 DEF Ensured
    <3>2. b.items = <<>> /\ b.count = 0 /\ b.tables = {} /\ b \in Batch
      BY <3>1 DEF Batch
    <3>3. QED
      BY <2>1, <3>2 DEF Numbered, Writing, TablesOf
  <2>2. CASE known # NoBatch
    BY <2>2 DEF Ensured
  <2>3. QED
    BY <2>1, <2>2
<1> HIDE DEF b
<1>2. /\ b.items \in Seq(Item) /\ Len(b.items) \in Nat /\ b.count \in Nat
      /\ b.count = Len(b.items) /\ item \in Item
  BY <1>1 DEF Numbered, Batch, Item
<1>3. /\ items \in Seq(Item) /\ Len(items) = Len(b.items) + 1
      /\ DOMAIN items = 1..(Len(b.items) + 1) /\ DOMAIN b.items = 1..Len(b.items)
      /\ items[Len(b.items) + 1] = item
      /\ \A i \in 1..Len(b.items) : items[i] = b.items[i]
  BY <1>2
<1>4. r = [items |-> items, count |-> b.count + 1, tables |-> TablesOf(items)]
  BY <1>1, NextOrdinalIsNext DEF Recorded, b
<1>5. TablesOf(items) \subseteq WrittenTables
  <2>1. \A i \in DOMAIN items : items[i] \in Item
    BY <1>3
  <2> HIDE DEF items
  <2>2. QED
    BY <2>1 DEF TablesOf, Item
<1>6. item.ordinal = Len(b.items) + 1 /\ item.by = n
  OBVIOUS
<1> HIDE DEF items, item
<1>7. r.items = items /\ r.count = b.count + 1 /\ r.tables = TablesOf(items)
  BY <1>4
<1>8. r \in Batch
  BY <1>2, <1>3, <1>4, <1>5 DEF Batch
<1>9. \A i \in DOMAIN items : items[i].ordinal = i
  BY <1>1, <1>2, <1>3, <1>6 DEF Numbered
<1> HIDE DEF r
<1>10. Numbered(r)
  BY <1>2, <1>3, <1>7, <1>8, <1>9 DEF Numbered
<1>11. Writing(r) = Writing(b) \cup {n}
  <2>1. \A i \in DOMAIN items : i = Len(b.items) + 1 \/ i \in DOMAIN b.items
    BY <1>2, <1>3
  <2>2. Len(b.items) + 1 \in DOMAIN items /\ DOMAIN b.items \subseteq DOMAIN items
    BY <1>2, <1>3
  <2>3. QED
    BY <2>1, <2>2, <1>3, <1>6, <1>7 DEF Writing
<1>12. r # NoBatch
  BY <1>8, WriteBatchesAssumption
<1>13. QED
  BY <1>1, <1>10, <1>11, <1>12 DEF r

LEMMA WritingType ==
  ASSUME NEW b, Numbered(b)
  PROVE  Writing(b) \subseteq Nat
<1>1. b.items \in Seq(Item)
  BY DEF Numbered, Batch
<1>2. \A i \in DOMAIN b.items : b.items[i] \in Item
  BY <1>1
<1>3. QED
  BY <1>2 DEF Writing, Item

\* Later transactions and further failovers leave a batch good.
LEMMA GoodBatchStays ==
  ASSUME NEW b, NEW moves, NEW past \in Nat, NEW moves2, NEW past2 \in Nat,
         GoodBatch(b, moves, past), moves \subseteq moves2, past <= past2
  PROVE  GoodBatch(b, moves2, past2)
<1>1. Numbered(b) /\ \A m \in Writing(b) : m \in Nat
  BY WritingType DEF GoodBatch
<1>2. \A m \in Writing(b) : m <= past2
  BY <1>1 DEF GoodBatch
<1>3. QED
  BY <1>1, <1>2 DEF GoodBatch, MovedBetween

LEMMA GoodTableStays ==
  ASSUME NEW t, NEW moves, NEW past \in Nat, NEW moves2, NEW past2 \in Nat,
         GoodTable(t, moves, past), moves \subseteq moves2, past <= past2
  PROVE  GoodTable(t, moves2, past2)
BY GoodBatchStays DEF GoodTable

\* The transactions committed in a table of batches.
LEMMA Committed ==
  ASSUME NEW t, NEW moves, NEW past, GoodTable(t, moves, past)
  PROVE  CommittedIn(t) = {n \in Nat : \E tx \in Txids : t[tx] # NoBatch /\ n \in Writing(t[tx])}
<1>1. DOMAIN t = Txids
  BY DEF GoodTable
<1>2. \A tx \in Txids : t[tx] # NoBatch => \A n \in Writing(t[tx]) : n \in Nat
  BY WritingType DEF GoodTable, GoodBatch
<1>3. CommittedIn(t) = UNION {Writing(t[tx]) : tx \in {x \in Txids : t[x] # NoBatch}}
  BY <1>1 DEF CommittedIn, Writing
<1>4. QED
  BY <1>2, <1>3

\* A good batch takes the place of one whose rows it has.
LEMMA TableUpdate ==
  ASSUME NEW t, NEW moves, NEW past, GoodTable(t, moves, past),
         NEW tx \in Txids, NEW b, GoodBatch(b, moves, past),
         t[tx] # NoBatch => Writing(t[tx]) \subseteq Writing(b)
  PROVE  /\ GoodTable([t EXCEPT ![tx] = b], moves, past)
         /\ CommittedIn(t) \subseteq CommittedIn([t EXCEPT ![tx] = b])
<1> DEFINE u == [t EXCEPT ![tx] = b]
<1>1. b \in Batch /\ b # NoBatch
  BY WriteBatchesAssumption DEF GoodBatch, Numbered
<1>2. /\ u \in [Txids -> Batch \cup {NoBatch}]
      /\ u[tx] = b /\ \A x \in Txids \ {tx} : u[x] = t[x]
  BY <1>1 DEF GoodTable
<1> HIDE DEF u
<1>3. GoodTable(u, moves, past)
  BY <1>2 DEF GoodTable
<1>4. \A n \in CommittedIn(t) : n \in CommittedIn(u)
  BY <1>1, <1>2, <1>3, Committed
<1>5. QED
  BY <1>3, <1>4 DEF u

-----------------------------------------------------------------------------
(* Write batches: the steps.                                               *)

LEMMA FirstRow ==
  ASSUME BatchesInv, NewTransaction, UNCHANGED failovers, NEW t \in WrittenTables
  PROVE  LET b == Recorded(batch[CurrentTxid], t, transactions') IN
         /\ nextTx \in Txids /\ nextTx' = nextTx + 1
         /\ transactions' = transactions + 1 /\ transactions' \in Nat
         /\ GoodBatch(b, failovers, transactions') /\ b \in Batch
         /\ transactions' \in Writing(b)
         /\ \A m \in Writing(b) : m = transactions' \/ MovedBetween(m, transactions', failovers)
         /\ batch[nextTx] # NoBatch => Writing(batch[nextTx]) \subseteq Writing(b)
         /\ failovers \subseteq 0..transactions
<1> DEFINE known == batch[nextTx]
           b == Recorded(known, t, transactions')
<1>1. /\ transactions < MaxTransactions /\ transactions' = transactions + 1
      /\ nextTx' = nextTx + 1 /\ transactions' \in Nat
      /\ transactions \in Nat /\ nextTx \in Nat
      /\ nextTx \in Txids
  BY WriteBatchesAssumption DEF BatchesInv, NewTransaction, Txids
<1>2. failovers \subseteq 0..transactions
  BY DEF BatchesInv
<1>3. known # NoBatch => GoodBatch(known, failovers, transactions)
  BY <1>1 DEF BatchesInv, GoodTable
<1>4. /\ Numbered(b) /\ b # NoBatch
      /\ Writing(b) = (IF known = NoBatch THEN {} ELSE Writing(known)) \cup {transactions'}
  BY <1>1, <1>3, RecordedBatch DEF GoodBatch
<1> HIDE DEF b
<1>5. ASSUME known # NoBatch, NEW m \in Writing(known)
      PROVE  /\ m \in Nat /\ m <= transactions
             /\ MovedBetween(m, transactions', failovers)
  <2>1. m \in Nat /\ m <= transactions
    BY <1>3, <1>5, WritingType DEF GoodBatch
  <2>2. PICK last \in failovers : m <= last
    BY <1>1, <1>5 DEF BatchesInv
  <2>3. last < transactions'
    BY <1>1, <1>2, <2>2
  <2>4. QED
    BY <2>1, <2>2, <2>3 DEF MovedBetween
<1>6. \A m \in Writing(b) : m \in Nat /\ m <= transactions'
  BY <1>1, <1>4, <1>5
<1>7. \A m, n \in Writing(b) : m < n => MovedBetween(m, n, failovers)
  BY <1>1, <1>3, <1>4, <1>5 DEF GoodBatch
<1>8. GoodBatch(b, failovers, transactions') /\ b \in Batch
  BY <1>4, <1>6, <1>7 DEF GoodBatch, Numbered
<1>9. QED
  BY <1>1, <1>2, <1>4, <1>5, <1>8 DEF b, CurrentTxid

\* The open transactions stay as they are while others begin.
LEMMA WritersStay ==
  ASSUME BatchesInv, NewTransaction, UNCHANGED failovers
  PROVE  \A w \in Writers : writer[w] # NoWriter =>
           LET x == writer[w] IN
           /\ x.tx < nextTx' /\ x.tx < nextTx /\ x.by <= transactions'
           /\ GoodBatch(x.batch, failovers', transactions')
           /\ \A m \in Writing(x.batch) : m = x.by \/ MovedBetween(m, x.by, failovers')
<1> SUFFICES ASSUME NEW w \in Writers, writer[w] # NoWriter
             PROVE  /\ writer[w].tx < nextTx' /\ writer[w].tx < nextTx
                    /\ writer[w].by <= transactions'
                    /\ GoodBatch(writer[w].batch, failovers', transactions')
                    /\ \A m \in Writing(writer[w].batch) :
                         m = writer[w].by \/ MovedBetween(m, writer[w].by, failovers')
  OBVIOUS
<1>1. /\ transactions \in Nat /\ transactions' = transactions + 1
      /\ nextTx \in Nat /\ nextTx' = nextTx + 1 /\ failovers' = failovers
  BY DEF BatchesInv, NewTransaction
<1>2. /\ writer[w].tx < nextTx /\ writer[w].by <= transactions
      /\ GoodBatch(writer[w].batch, failovers, transactions)
      /\ \A m \in Writing(writer[w].batch) :
           m = writer[w].by \/ MovedBetween(m, writer[w].by, failovers)
      /\ writer[w].tx \in Nat /\ writer[w].by \in Nat
  BY DEF BatchesInv, WritersOK, Writer, Txids
<1>3. GoodBatch(writer[w].batch, failovers', transactions')
  BY <1>1, <1>2, GoodBatchStays
<1>4. QED
  BY <1>1, <1>2, <1>3

\* What each step on the batches does to what was committed.
Grows == CommittedIn(batch) \subseteq CommittedIn(batch')

LEMMA BeginWriteInv ==
  ASSUME BatchesInv, NEW w \in Writers, NEW t \in LoggedTables, BeginWrite(w, t),
         UNCHANGED failovers
  PROVE  BatchesInv' /\ Grows
<1> DEFINE b == Recorded(batch[CurrentTxid], t, transactions')
           x == [tx |-> CurrentTxid, by |-> transactions', rows |-> 1, batch |-> b]
<1>1. /\ NewTransaction /\ batch' = batch /\ failovers' = failovers
      /\ writer[w] = NoWriter /\ writer' = [writer EXCEPT ![w] = x]
      /\ t \in WrittenTables
  BY DEF BeginWrite, WrittenTables
<1>2. /\ nextTx \in Txids /\ nextTx' = nextTx + 1
      /\ transactions' = transactions + 1 /\ transactions' \in Nat
      /\ GoodBatch(b, failovers, transactions') /\ b \in Batch
      /\ \A m \in Writing(b) : m = transactions' \/ MovedBetween(m, transactions', failovers)
      /\ batch[nextTx] # NoBatch => Writing(batch[nextTx]) \subseteq Writing(b)
      /\ failovers \subseteq 0..transactions
  BY <1>1, FirstRow
<1>3. \A v \in Writers : writer[v] # NoWriter =>
        /\ writer[v].tx < nextTx' /\ writer[v].tx < nextTx /\ writer[v].by <= transactions'
        /\ GoodBatch(writer[v].batch, failovers', transactions')
        /\ \A m \in Writing(writer[v].batch) :
             m = writer[v].by \/ MovedBetween(m, writer[v].by, failovers')
  BY <1>1, WritersStay
<1> HIDE DEF b
<1>4. /\ x \in Writer /\ x.tx = nextTx /\ x.by = transactions' /\ x.batch = b
  BY <1>2 DEF Writer, CurrentTxid
<1> HIDE DEF x
<1>5. /\ transactions \in Nat /\ nextTx \in Nat /\ 1 <= nextTx /\ nextTx <= transactions + 1
  BY DEF BatchesInv
<1>6. /\ writer' \in [Writers -> Writer \cup {NoWriter}]
      /\ writer'[w] = x /\ \A v \in Writers \ {w} : writer'[v] = writer[v]
  BY <1>1, <1>4 DEF BatchesInv, WritersOK
<1>7. ASSUME NEW v \in Writers, writer'[v] # NoWriter
      PROVE  /\ writer'[v].tx < nextTx' /\ writer'[v].by <= transactions'
             /\ GoodBatch(writer'[v].batch, failovers', transactions')
             /\ \A m \in Writing(writer'[v].batch) :
                  m = writer'[v].by \/ MovedBetween(m, writer'[v].by, failovers')
             /\ batch'[writer'[v].tx] # NoBatch =>
                  Writing(batch'[writer'[v].tx]) \subseteq Writing(writer'[v].batch)
  <2>1. CASE v = w
    BY <2>1, <1>1, <1>2, <1>4, <1>5, <1>6
  <2>2. CASE v # w
    <3>1. writer'[v] = writer[v]
      BY <2>2, <1>6
    <3>2. batch[writer[v].tx] # NoBatch =>
            Writing(batch[writer[v].tx]) \subseteq Writing(writer[v].batch)
      BY <3>1, <1>7 DEF BatchesInv, WritersOK
    <3>3. QED
      BY <3>1, <3>2, <1>1, <1>3, <1>7
  <2>3. QED
    BY <2>1, <2>2
<1>8. \A v \in Writers : v # w /\ writer'[v] # NoWriter => writer'[v].tx # x.tx
  <2>1. \A v \in Writers : writer[v] # NoWriter => writer[v].tx \in Nat
    BY DEF BatchesInv, WritersOK, Writer, Txids
  <2>2. QED
    BY <2>1, <1>3, <1>4, <1>5, <1>6
<1>9. WritersOK'
  <2>1. \A u, v \in Writers :
          writer'[u] # NoWriter /\ writer'[v] # NoWriter /\ writer'[u].tx = writer'[v].tx
            => u = v
    BY <1>6, <1>8 DEF BatchesInv, WritersOK
  <2>2. QED
    BY <1>6, <1>7, <2>1 DEF WritersOK
<1>10. GoodTable(batch, failovers, transactions)' /\ Grows
  BY <1>1, <1>2, <1>5, GoodTableStays DEF BatchesInv, Grows
<1>11. QED
  BY <1>1, <1>2, <1>5, <1>9, <1>10 DEF BatchesInv, Txids

LEMMA WriteRowInv ==
  ASSUME BatchesInv, NEW w \in Writers, NEW t \in LoggedTables, WriteRow(w, t),
         UNCHANGED failovers
  PROVE  BatchesInv' /\ Grows
<1> DEFINE x == writer[w]
           b == Recorded(x.batch, t, x.by)
           rows1 == x.rows + 1
           y == [x EXCEPT !.rows = rows1, !.batch = b]
<1>1. /\ UNCHANGED <<batch, nextTx, transactions, failovers>>
      /\ x # NoWriter /\ t \in WrittenTables
      /\ x \in Writer /\ writer \in [Writers -> Writer \cup {NoWriter}]
      /\ transactions \in Nat
  BY DEF WriteRow, WrittenTables, BatchesInv, WritersOK
<1>2. /\ x.tx < nextTx /\ x.by <= transactions /\ x.by \in Nat /\ x.batch \in Batch
      /\ GoodBatch(x.batch, failovers, transactions)
      /\ \A m \in Writing(x.batch) : m = x.by \/ MovedBetween(m, x.by, failovers)
      /\ batch[x.tx] # NoBatch => Writing(batch[x.tx]) \subseteq Writing(x.batch)
  BY <1>1 DEF BatchesInv, WritersOK, Writer
<1>3. x.batch # NoBatch
  BY <1>2, WriteBatchesAssumption
<1>4. Numbered(b) /\ Writing(b) = Writing(x.batch) \cup {x.by}
  BY <1>1, <1>2, <1>3, RecordedBatch DEF GoodBatch
<1>5. writer' = [writer EXCEPT ![w] = y]
  BY <1>1 DEF WriteRow
<1> HIDE DEF b
<1>6. /\ b \in Batch
      /\ y \in Writer /\ y.tx = x.tx /\ y.by = x.by /\ y.batch = b
  <2>1. b \in Batch /\ x \in Writer
    BY <1>1, <1>4 DEF Numbered
  <2>2. rows1 \in Nat
    BY <2>1 DEF Writer
  <2> HIDE DEF x, rows1
  <2>3. y \in Writer
    BY <2>1, <2>2 DEF Writer
  <2>4. y.tx = x.tx /\ y.by = x.by /\ y.batch = b
    BY <2>1 DEF Writer
  <2>5. QED
    BY <2>1, <2>3, <2>4
<1> HIDE DEF y
<1>7. /\ \A m \in Writing(b) : m = x.by \/ MovedBetween(m, x.by, failovers)
      /\ batch[x.tx] # NoBatch => Writing(batch[x.tx]) \subseteq Writing(b)
  BY <1>2, <1>4
<1>8. GoodBatch(b, failovers, transactions)
  <2>1. \A m \in Writing(b) : m \in Nat /\ m <= transactions
    BY <1>2, <1>4, WritingType DEF GoodBatch
  <2>2. ASSUME NEW m \in Writing(b), NEW n \in Writing(b), m < n
        PROVE  MovedBetween(m, n, failovers)
    <3>1. CASE n \in Writing(x.batch) /\ m \in Writing(x.batch)
      BY <3>1, <2>2, <1>2 DEF GoodBatch
    <3>2. CASE n = x.by
      BY <3>2, <2>1, <2>2, <1>7
    <3>3. CASE n \in Writing(x.batch) /\ n # x.by /\ m = x.by
      <4>1. MovedBetween(n, x.by, failovers)
        BY <3>3, <1>2
      <4>2. PICK last \in failovers : n <= last /\ last < x.by
        BY <4>1 DEF MovedBetween
      <4>3. last \in Nat /\ n \in Nat
        BY <2>1 DEF BatchesInv
      <4>4. QED
        BY <4>2, <4>3, <3>3, <2>2, <1>2
    <3>4. QED
      BY <3>1, <3>2, <3>3, <1>4
  <2>3. QED
    BY <2>1, <2>2, <1>4 DEF GoodBatch
<1>9. /\ writer' \in [Writers -> Writer \cup {NoWriter}]
      /\ writer'[w] = y /\ \A v \in Writers \ {w} : writer'[v] = writer[v]
  BY <1>1, <1>5, <1>6
<1>10. \A u, v \in Writers :
         writer'[u] # NoWriter /\ writer'[v] # NoWriter /\ writer'[u].tx = writer'[v].tx
           => u = v
  BY <1>1, <1>6, <1>9 DEF BatchesInv, WritersOK
<1>11. ASSUME NEW v \in Writers, writer'[v] # NoWriter
       PROVE  /\ writer'[v].tx < nextTx' /\ writer'[v].by <= transactions'
              /\ GoodBatch(writer'[v].batch, failovers', transactions')
              /\ \A m \in Writing(writer'[v].batch) :
                   m = writer'[v].by \/ MovedBetween(m, writer'[v].by, failovers')
              /\ batch'[writer'[v].tx] # NoBatch =>
                   Writing(batch'[writer'[v].tx]) \subseteq Writing(writer'[v].batch)
  <2>1. CASE v = w
    BY <2>1, <1>1, <1>2, <1>6, <1>7, <1>8, <1>9
  <2>2. CASE v # w
    <3>1. writer'[v] = writer[v]
      BY <2>2, <1>9
    <3>2. QED
      BY <3>1, <1>1, <1>11 DEF BatchesInv, WritersOK
  <2>3. QED
    BY <2>1, <2>2
<1>12. WritersOK'
  BY <1>9, <1>10, <1>11 DEF WritersOK
<1>13. QED
  BY <1>1, <1>12 DEF BatchesInv, Grows

\* A transaction that ends leaves the others with the txids they have.
LEMMA WriterEnds ==
  ASSUME BatchesInv, NEW w \in Writers, writer' = [writer EXCEPT ![w] = NoWriter],
         UNCHANGED <<nextTx, transactions, failovers>>,
         \A v \in Writers \ {w} : writer[v] # NoWriter => batch'[writer[v].tx] = batch[writer[v].tx]
  PROVE  WritersOK'
<1>1. /\ writer' \in [Writers -> Writer \cup {NoWriter}]
      /\ writer'[w] = NoWriter /\ \A v \in Writers \ {w} : writer'[v] = writer[v]
  BY DEF BatchesInv, WritersOK
<1>2. \A u, v \in Writers :
        writer'[u] # NoWriter /\ writer'[v] # NoWriter /\ writer'[u].tx = writer'[v].tx
          => u = v
  BY <1>1 DEF BatchesInv, WritersOK
<1>3. ASSUME NEW v \in Writers, writer'[v] # NoWriter
      PROVE  /\ writer'[v].tx < nextTx' /\ writer'[v].by <= transactions'
             /\ GoodBatch(writer'[v].batch, failovers', transactions')
             /\ \A m \in Writing(writer'[v].batch) :
                  m = writer'[v].by \/ MovedBetween(m, writer'[v].by, failovers')
             /\ batch'[writer'[v].tx] # NoBatch =>
                  Writing(batch'[writer'[v].tx]) \subseteq Writing(writer'[v].batch)
  <2>1. v # w /\ writer'[v] = writer[v] /\ writer[v] # NoWriter
    BY <1>1, <1>3
  <2>2. batch'[writer[v].tx] = batch[writer[v].tx]
    BY <2>1
  <2>3. QED
    BY <2>1, <2>2 DEF BatchesInv, WritersOK
<1>4. QED
  BY <1>1, <1>2, <1>3 DEF WritersOK

LEMMA CommitWriteInv ==
  ASSUME BatchesInv, NEW w \in Writers, CommitWrite(w), UNCHANGED failovers
  PROVE  BatchesInv' /\ Grows
<1> DEFINE x == writer[w]
<1>1. /\ x # NoWriter /\ writer' = [writer EXCEPT ![w] = NoWriter]
      /\ batch' = [batch EXCEPT ![x.tx] = x.batch]
      /\ UNCHANGED <<nextTx, transactions, failovers>>
  BY DEF CommitWrite
<1>2. /\ x.tx \in Txids /\ x.tx < nextTx
      /\ GoodBatch(x.batch, failovers, transactions)
      /\ batch[x.tx] # NoBatch => Writing(batch[x.tx]) \subseteq Writing(x.batch)
  BY <1>1 DEF BatchesInv, WritersOK, Writer
<1>3. GoodTable(batch, failovers, transactions)' /\ Grows
  <2>1. GoodTable(batch, failovers, transactions)
    BY DEF BatchesInv
  <2>2. GoodTable(batch', failovers, transactions)
    BY <2>1, <1>1, <1>2, TableUpdate
  <2>3. Grows
    BY <2>1, <1>1, <1>2, TableUpdate DEF Grows
  <2>4. QED
    BY <2>2, <2>3, <1>1
<1>4. \A tx \in Txids \ {x.tx} : batch'[tx] = batch[tx]
  BY <1>1 DEF BatchesInv, GoodTable
<1>5. \A v \in Writers \ {w} : writer[v] # NoWriter =>
        writer[v].tx \in Txids /\ writer[v].tx # x.tx
  BY <1>1 DEF BatchesInv, WritersOK, Writer
<1>6. WritersOK'
  BY <1>1, <1>4, <1>5, WriterEnds
<1>7. \A tx \in Txids : tx >= nextTx => tx # x.tx
  BY <1>2 DEF BatchesInv, Txids
<1>8. QED
  BY <1>1, <1>3, <1>4, <1>6, <1>7 DEF BatchesInv

LEMMA RollbackWriteInv ==
  ASSUME BatchesInv, NEW w \in Writers, RollbackWrite(w), UNCHANGED failovers
  PROVE  BatchesInv' /\ Grows
<1>1. /\ writer' = [writer EXCEPT ![w] = NoWriter]
      /\ UNCHANGED <<batch, nextTx, transactions, failovers>>
  BY DEF RollbackWrite
<1>2. WritersOK'
  BY <1>1, WriterEnds
<1>3. QED
  BY <1>1, <1>2 DEF BatchesInv, Grows

LEMMA AutocommitInv ==
  ASSUME BatchesInv, NEW t \in WrittenTables, Autocommit(t), UNCHANGED failovers
  PROVE  BatchesInv' /\ Grows
<1> DEFINE b == Recorded(batch[nextTx], t, transactions')
<1>1. /\ NewTransaction /\ writer' = writer /\ failovers' = failovers
      /\ batch' = [batch EXCEPT ![nextTx] = b]
  BY DEF Autocommit, CurrentTxid
<1>2. /\ nextTx \in Txids /\ nextTx' = nextTx + 1
      /\ transactions' = transactions + 1 /\ transactions' \in Nat
      /\ GoodBatch(b, failovers, transactions')
      /\ batch[nextTx] # NoBatch => Writing(batch[nextTx]) \subseteq Writing(b)
      /\ failovers \subseteq 0..transactions
  BY <1>1, FirstRow DEF CurrentTxid
<1> HIDE DEF b
<1>3. \A v \in Writers : writer[v] # NoWriter =>
        /\ writer[v].tx < nextTx' /\ writer[v].tx < nextTx /\ writer[v].by <= transactions'
        /\ GoodBatch(writer[v].batch, failovers', transactions')
        /\ \A m \in Writing(writer[v].batch) :
             m = writer[v].by \/ MovedBetween(m, writer[v].by, failovers')
  BY <1>1, WritersStay
<1>4. /\ transactions \in Nat /\ nextTx \in Nat /\ 1 <= nextTx /\ nextTx <= transactions + 1
      /\ GoodTable(batch, failovers, transactions)
  BY DEF BatchesInv
<1>5. GoodTable(batch, failovers, transactions')
  BY <1>2, <1>4, GoodTableStays
<1>6. GoodTable(batch', failovers, transactions')
  BY <1>1, <1>2, <1>5, TableUpdate
<1>7. Grows
  BY <1>1, <1>2, <1>5, TableUpdate DEF Grows
<1>8. \A tx \in Txids \ {nextTx} : batch'[tx] = batch[tx]
  BY <1>1, <1>4 DEF GoodTable
<1>9. \A v \in Writers : writer[v] # NoWriter =>
        writer[v].tx \in Txids /\ writer[v].tx # nextTx
  BY <1>3, <1>4 DEF BatchesInv, WritersOK, Writer, Txids
<1>10. WritersOK'
  <2>1. ASSUME NEW v \in Writers, writer[v] # NoWriter
        PROVE  batch'[writer[v].tx] # NoBatch =>
                 Writing(batch'[writer[v].tx]) \subseteq Writing(writer[v].batch)
    <3>1. batch'[writer[v].tx] = batch[writer[v].tx]
      BY <2>1, <1>8, <1>9
    <3>2. QED
      BY <2>1, <3>1 DEF BatchesInv, WritersOK
  <2>2. \A u, v \in Writers :
          writer[u] # NoWriter /\ writer[v] # NoWriter /\ writer[u].tx = writer[v].tx
            => u = v
    BY DEF BatchesInv, WritersOK
  <2>3. writer \in [Writers -> Writer \cup {NoWriter}]
    BY DEF BatchesInv, WritersOK
  <2>4. QED
    BY <2>1, <2>2, <2>3, <1>1, <1>3 DEF WritersOK
<1>11. \A tx \in Txids : tx >= nextTx' => tx # nextTx /\ tx >= nextTx
  BY <1>2, <1>4 DEF Txids
<1>12. QED
  BY <1>1, <1>2, <1>4, <1>6, <1>7, <1>8, <1>10, <1>11 DEF BatchesInv

LEMMA BatchesStep ==
  ASSUME BatchesInv, BatchesNext, UNCHANGED failovers
  PROVE  BatchesInv' /\ Grows
BY BeginWriteInv, WriteRowInv, CommitWriteInv, RollbackWriteInv DEF BatchesNext

LEMMA BatchesRest ==
  ASSUME BatchesInv, UNCHANGED <<batchVars, failovers>>
  PROVE  BatchesInv' /\ Grows
BY DEF batchVars, BatchesInv, WritersOK, Grows

LEMMA BatchesInitInv == BatchesInit /\ failovers = {} => BatchesInv
<1> SUFFICES ASSUME BatchesInit, failovers = {} PROVE BatchesInv
  OBVIOUS
<1> DEFINE one == [table |-> "api_write_batches", ordinal |-> 1, by |-> 1]
           two == [table |-> "api_write_batch_items", ordinal |-> 2, by |-> 1]
           items == <<one, two>>
<1>1. /\ one \in Item /\ one.ordinal = 1 /\ one.by = 1 /\ one.table = "api_write_batches"
      /\ two \in Item /\ two.ordinal = 2 /\ two.by = 1 /\ two.table = "api_write_batch_items"
  BY DEF Item, WrittenTables
<1> HIDE DEF one, two
<1>2. /\ items \in Seq(Item) /\ Len(items) = 2 /\ DOMAIN items = {1, 2}
      /\ items[1] = one /\ items[2] = two
  BY <1>1
<1>3. Baseline = [items |-> items, count |-> 2,
                  tables |-> {"api_write_batches", "api_write_batch_items"}]
  BY DEF Baseline, one, two
<1> HIDE DEF items
<1>4. /\ Baseline.items = items /\ Baseline.count = 2
      /\ Baseline.tables = {"api_write_batches", "api_write_batch_items"}
      /\ Baseline \in Batch
  BY <1>2, <1>3 DEF Batch, WrittenTables
<1>5. TablesOf(items) = {"api_write_batches", "api_write_batch_items"}
  BY <1>1, <1>2 DEF TablesOf
<1>6. Numbered(Baseline) /\ Writing(Baseline) = {1}
  BY <1>1, <1>2, <1>4, <1>5 DEF Numbered, Writing
<1>7. GoodBatch(Baseline, {}, 1)
  BY <1>6 DEF GoodBatch
<1>8. /\ batch = [tx \in Txids |-> IF tx = 1 THEN Baseline ELSE NoBatch]
      /\ nextTx = 2 /\ transactions = 1 /\ writer = [w \in Writers |-> NoWriter]
  BY DEF BatchesInit
<1>9. GoodTable(batch, {}, 1)
  BY <1>4, <1>7, <1>8 DEF GoodTable
<1>10. \A tx \in Txids : tx >= 2 => batch[tx] = NoBatch
  BY <1>8 DEF Txids
<1>11. WritersOK
  BY <1>8 DEF WritersOK
<1>12. QED
  BY <1>8, <1>9, <1>10, <1>11 DEF BatchesInv

-----------------------------------------------------------------------------
(* Backups: the inductive invariant.                                       *)

BackupRun == [status : {"started", "succeeded", "failed"}, past : SUBSET Nat]

DatabaseDump ==
  [batch : [Txids -> Batch \cup {NoBatch}] \cup {<<>>}, runs : Seq(BackupRun)]

Job ==
  [pc : {"idle", "start", "dump", "drop", "dropped", "restore", "restoring", "check",
         "finish", "remove", "failing"},
   run : Nat, dump : DatabaseDump]

Copy == [state : {"none", "partial", "complete"}, of : Nat, dump : DatabaseDump]

\* A job that has come to pc has its dump; has not written the end of its run.
Dumped(pc) == pc \in {"drop", "dropped", "restore", "restoring", "check", "finish", "remove"}
Running(pc) == pc \in {"dump", "drop", "dropped", "restore", "restoring", "check", "finish"}

\* The dump of a job has what was committed when its run began, and so has the copy
\* once the job has restored it, until another job touches it.
JobOK(q) ==
  /\ q.run \in 0..Len(backupRuns)
  /\ q.pc \in {"idle", "start"} => q.run = 0
  /\ Dumped(q.pc) => GoodTable(q.dump.batch, failovers, transactions)
  /\ q.run # 0 =>
       /\ Running(q.pc) => backupRuns[q.run].status = "started"
       /\ backupRuns[q.run].past \subseteq CommittedIn(batch)
       /\ Dumped(q.pc) => backupRuns[q.run].past \subseteq CommittedIn(q.dump.batch)
       /\ q.pc \in {"check", "finish"} /\ copy.of = q.run /\ q.run \notin overlapped =>
            copy.state = "complete" /\ copy.dump = q.dump

JobsInv ==
  /\ backupRuns \in Seq(BackupRun)
  /\ job \in [Jobs -> Job]
  /\ copy \in Copy
  /\ copy.state # "none" => GoodTable(copy.dump.batch, failovers, transactions)
  /\ \A j \in Jobs : JobOK(job[j])
  /\ \A i, j \in Jobs : job[i].run = job[j].run /\ job[i].run # 0 => i = j
  /\ SucceededRunHoldsItsPast

BackupInv == BatchesInv /\ JobsInv

-----------------------------------------------------------------------------
(* Backups: steps that leave the rows of runs and the copy alone.          *)

\* Time passes for the primary.
Later ==
  /\ BatchesInv' /\ Grows
  /\ transactions <= transactions'
  /\ UNCHANGED failovers

\* What is known of a job stays known.
LEMMA JobStays ==
  ASSUME BackupInv, Later, UNCHANGED <<backupRuns, target>>,
         NEW q \in Job, JobOK(q)
  PROVE  JobOK(q)'
<1>1. /\ failovers' = failovers /\ backupRuns' = backupRuns
      /\ copy' = copy /\ overlapped' = overlapped
      /\ transactions \in Nat /\ transactions' \in Nat /\ transactions <= transactions'
      /\ CommittedIn(batch) \subseteq CommittedIn(batch')
  BY DEF Later, Grows, BackupInv, BatchesInv, target
<1>2. \A t : GoodTable(t, failovers, transactions) => GoodTable(t, failovers', transactions')
  BY <1>1, GoodTableStays
<1>3. QED
  BY <1>1, <1>2 DEF JobOK

LEMMA StepOfJob ==
  ASSUME BackupInv, Later, UNCHANGED <<backupRuns, target>>,
         NEW j \in Jobs, NEW q \in Job, job' = [job EXCEPT ![j] = q],
         q.run \in {0, job[j].run}, JobOK(q)
  PROVE  BackupInv'
<1>1. /\ job' \in [Jobs -> Job]
      /\ job'[j] = q /\ \A o \in Jobs \ {j} : job'[o] = job[o]
  BY DEF BackupInv, JobsInv
<1>2. /\ failovers' = failovers /\ backupRuns' = backupRuns
      /\ copy' = copy /\ overlapped' = overlapped
      /\ transactions \in Nat /\ transactions' \in Nat /\ transactions <= transactions'
  BY DEF Later, BackupInv, BatchesInv, target
<1>3. ASSUME NEW o \in Jobs
      PROVE  JobOK(job[o])'
  <2>1. PICK p \in Job : p = job'[o] /\ JobOK(p)
    BY <1>1 DEF BackupInv, JobsInv
  <2>2. JobOK(p)'
    BY <2>1, JobStays
  <2>3. QED
    BY <2>1, <2>2 DEF JobOK
<1>4. copy'.state # "none" => GoodTable(copy'.dump.batch, failovers', transactions')
  BY <1>2, GoodTableStays DEF BackupInv, JobsInv
<1>5. \A i, o \in Jobs : job'[i].run = job'[o].run /\ job'[i].run # 0 => i = o
  BY <1>1 DEF BackupInv, JobsInv
<1>6. SucceededRunHoldsItsPast'
  BY <1>2 DEF BackupInv, JobsInv, SucceededRunHoldsItsPast
<1>7. JobsInv'
  BY <1>1, <1>2, <1>3, <1>4, <1>5, <1>6 DEF BackupInv, JobsInv
<1>8. QED
  BY <1>7 DEF BackupInv, Later

LEMMA StepOfPrimary ==
  ASSUME BackupInv, Later, UNCHANGED <<backupRuns, target, job>>
  PROVE  BackupInv'
<1>1. /\ failovers' = failovers /\ backupRuns' = backupRuns /\ job' = job
      /\ copy' = copy /\ overlapped' = overlapped
      /\ transactions \in Nat /\ transactions' \in Nat /\ transactions <= transactions'
  BY DEF Later, BackupInv, BatchesInv, target
<1>2. ASSUME NEW o \in Jobs
      PROVE  JobOK(job[o])'
  <2>1. PICK p \in Job : p = job'[o] /\ JobOK(p)
    BY <1>1 DEF BackupInv, JobsInv
  <2>2. JobOK(p)'
    BY <2>1, JobStays
  <2>3. QED
    BY <2>1, <2>2 DEF JobOK
<1>3. copy'.state # "none" => GoodTable(copy'.dump.batch, failovers', transactions')
  BY <1>1, GoodTableStays DEF BackupInv, JobsInv
<1>4. SucceededRunHoldsItsPast'
  BY <1>1 DEF BackupInv, JobsInv, SucceededRunHoldsItsPast
<1>5. JobsInv'
  BY <1>1, <1>2, <1>3, <1>4 DEF BackupInv, JobsInv
<1>6. QED
  BY <1>5 DEF BackupInv, Later

\* The primary rests, or a statement of its own commits.
LEMMA PrimaryRests ==
  ASSUME BackupInv, UNCHANGED <<batchVars, failovers>>
  PROVE  Later /\ batch' = batch
<1>1. transactions' = transactions /\ transactions \in Nat /\ batch' = batch
  BY DEF batchVars, BackupInv, BatchesInv
<1>2. QED
  BY <1>1, BatchesRest DEF BackupInv, Later

LEMMA PrimaryWrites ==
  ASSUME BackupInv, Autocommit("database_backup_runs"), UNCHANGED failovers
  PROVE  Later
<1>1. transactions \in Nat /\ transactions' = transactions + 1
  BY DEF Autocommit, NewTransaction, BackupInv, BatchesInv
<1>2. "database_backup_runs" \in WrittenTables
  BY DEF WrittenTables
<1>3. BatchesInv' /\ Grows
  BY <1>2, AutocommitInv DEF BackupInv
<1>4. QED
  BY <1>1, <1>3 DEF Later

LEMMA GoesTo ==
  ASSUME BackupInv, NEW j \in Jobs, NEW pc, GoTo(j, pc),
         pc \in {"start", "dump", "dropped", "restoring", "check", "finish", "remove", "failing"}
  PROVE  \E q \in Job : /\ job' = [job EXCEPT ![j] = q]
                        /\ q.pc = pc /\ q.run = job[j].run /\ q.dump = job[j].dump
<1> DEFINE q == [job[j] EXCEPT !.pc = pc]
<1>1. job[j] \in Job /\ job' = [job EXCEPT ![j] = q]
  BY DEF BackupInv, JobsInv, GoTo
<1>2. q \in Job /\ q.pc = pc /\ q.run = job[j].run /\ q.dump = job[j].dump
  BY <1>1 DEF Job
<1>3. QED
  BY <1>1, <1>2

LEMMA NoJobOK ==
  ASSUME BackupInv
  PROVE  NoJob \in Job /\ JobOK(NoJob) /\ NoJob.run = 0
<1>1. NoJob \in Job /\ NoJob.run = 0 /\ NoJob.pc = "idle"
  BY DEF NoJob, NoDump, Job, DatabaseDump
<1>2. Len(backupRuns) \in Nat
  BY DEF BackupInv, JobsInv
<1>3. QED
  BY <1>1, <1>2 DEF JobOK, Dumped

LEMMA JobFacts ==
  ASSUME BackupInv, NEW j \in Jobs
  PROVE  /\ job[j] \in Job /\ JobOK(job[j]) /\ job[j].run \in 0..Len(backupRuns)
         /\ Len(backupRuns) \in Nat /\ DOMAIN backupRuns = 1..Len(backupRuns)
         /\ job[j].run \in Nat
BY DEF BackupInv, JobsInv, JobOK

\* A job that goes on where nothing more is asked of it.
LEMMA PlainStep ==
  ASSUME BackupInv, Later, UNCHANGED <<backupRuns, target>>, NEW j \in Jobs, NEW pc,
         GoTo(j, pc),
         \/ pc = "start" /\ job[j].pc = "idle"
         \/ pc = "dump" /\ job[j].pc = "start"
         \/ pc = "finish" /\ job[j].pc = "check"
         \/ pc = "remove" /\ job[j].pc = "finish"
         \/ pc = "failing"
  PROVE  BackupInv'
<1>1. PICK q \in Job : /\ job' = [job EXCEPT ![j] = q]
                       /\ q.pc = pc /\ q.run = job[j].run /\ q.dump = job[j].dump
  BY GoesTo
<1>2. JobOK(job[j])
  BY JobFacts
<1>3. JobOK(q)
  BY <1>1, <1>2, JobFacts DEF JobOK, Dumped, Running
<1>4. q.run \in {0, job[j].run}
  BY <1>1
<1>5. QED
  BY <1>1, <1>3, <1>4, StepOfJob

LEMMA EndOfJob ==
  ASSUME BackupInv, Later, UNCHANGED <<backupRuns, target>>, NEW j \in Jobs,
         job' = [job EXCEPT ![j] = NoJob]
  PROVE  BackupInv'
BY NoJobOK, StepOfJob

LEMMA BeginJobInv ==
  ASSUME BackupInv, NEW j \in Jobs, BeginJob(j)
  PROVE  BackupInv'
<1>1. UNCHANGED <<batchVars, backupRuns, target, failovers>> /\ job[j].pc = "idle"
  BY DEF BeginJob
<1>2. GoTo(j, "start") /\ Later
  BY <1>1, PrimaryRests DEF BeginJob
<1>3. QED
  BY <1>1, <1>2, PlainStep

\* The dump is one snapshot of the primary, after the row of the run.
LEMMA DumpInv ==
  ASSUME BackupInv, NEW j \in Jobs, Dump(j)
  PROVE  BackupInv'
<1>1. PICK pc \in {"drop", "restore"} :
        job' = [job EXCEPT ![j].pc = pc, ![j].dump = [batch |-> batch, runs |-> backupRuns]]
  BY DEF Dump
<1>2. /\ job[j].pc = "dump" /\ UNCHANGED <<batchVars, backupRuns, target, failovers>>
  BY DEF Dump, jobCounters
<1> DEFINE d == [batch |-> batch, runs |-> backupRuns]
           q == [job[j] EXCEPT !.pc = pc, !.dump = d]
<1>3. /\ job[j] \in Job /\ JobOK(job[j])
      /\ GoodTable(batch, failovers, transactions) /\ backupRuns \in Seq(BackupRun)
  BY JobFacts DEF BackupInv, BatchesInv, JobsInv
<1>4. d \in DatabaseDump /\ d.batch = batch
  BY <1>3 DEF GoodTable, DatabaseDump
<1>5. job' = [job EXCEPT ![j] = q]
  BY <1>1, <1>3
<1> HIDE DEF d
<1>6. q \in Job /\ q.pc = pc /\ q.run = job[j].run /\ q.dump = d
  BY <1>1, <1>3, <1>4 DEF Job
<1> HIDE DEF q
<1>7. JobOK(q)
  BY <1>2, <1>3, <1>4, <1>6 DEF JobOK, Dumped, Running
<1>8. Later
  BY <1>2, PrimaryRests
<1>9. QED
  BY <1>2, <1>5, <1>6, <1>7, <1>8, StepOfJob

LEMMA CheckTargetInv ==
  ASSUME BackupInv, NEW j \in Jobs, CheckTarget(j)
  PROVE  BackupInv'
<1>1. UNCHANGED <<batchVars, backupRuns, target, failovers>>
      /\ job[j].pc = "check" /\ GoTo(j, "finish")
  BY DEF CheckTarget, jobCounters
<1>2. QED
  BY <1>1, PrimaryRests, PlainStep

LEMMA CommandFailsInv ==
  ASSUME BackupInv, NEW j \in Jobs, CommandFails(j)
  PROVE  BackupInv'
<1>1. UNCHANGED <<batchVars, backupRuns, target, failovers>> /\ GoTo(j, "failing")
  BY DEF CommandFails
<1>2. QED
  BY <1>1, PrimaryRests, PlainStep

LEMMA RemoveFileInv ==
  ASSUME BackupInv, NEW j \in Jobs, RemoveFile(j)
  PROVE  BackupInv'
<1>1. /\ UNCHANGED <<batchVars, backupRuns, target, failovers>>
      /\ job' = [job EXCEPT ![j] = NoJob] \/ GoTo(j, "failing")
  BY DEF RemoveFile
<1>2. Later
  BY <1>1, PrimaryRests
<1>3. QED
  BY <1>1, <1>2, PlainStep, EndOfJob

LEMMA JobDiesInv ==
  ASSUME BackupInv, NEW j \in Jobs, JobDies(j)
  PROVE  BackupInv'
<1>1. /\ UNCHANGED <<batchVars, backupRuns, target, failovers>>
      /\ job' = [job EXCEPT ![j] = NoJob]
  BY DEF JobDies
<1>2. QED
  BY <1>1, PrimaryRests, EndOfJob

-----------------------------------------------------------------------------
(* Backups: the rows of runs.                                              *)

\* A run begins with a row of its own, which remembers what is committed.
LEMMA RowBegins ==
  ASSUME BackupInv, Later, UNCHANGED target, NEW j \in Jobs, job[j].pc = "start",
         backupRuns' = Append(backupRuns, [status |-> "started", past |-> CommittedIn(batch)]),
         NEW q \in Job, job' = [job EXCEPT ![j] = q],
         q.pc = "dump", q.run \in {0, Len(backupRuns) + 1}
  PROVE  BackupInv'
<1> DEFINE row == [status |-> "started", past |-> CommittedIn(batch)]
           n == Len(backupRuns) + 1
<1>1. /\ failovers' = failovers /\ copy' = copy /\ overlapped' = overlapped
      /\ transactions \in Nat /\ transactions' \in Nat /\ transactions <= transactions'
      /\ CommittedIn(batch) \subseteq CommittedIn(batch')
  BY DEF Later, Grows, BackupInv, BatchesInv, target
<1>2. row \in BackupRun /\ row.status = "started" /\ row.past = CommittedIn(batch)
  BY Committed DEF BackupRun, BackupInv, BatchesInv
<1> HIDE DEF row
<1>3. /\ backupRuns \in Seq(BackupRun) /\ Len(backupRuns) \in Nat
      /\ DOMAIN backupRuns = 1..Len(backupRuns)
  BY DEF BackupInv, JobsInv
<1>4. backupRuns' = Append(backupRuns, row)
  BY DEF row
<1>5. /\ backupRuns' \in Seq(BackupRun) /\ Len(backupRuns') = n
      /\ DOMAIN backupRuns' = 1..n /\ backupRuns'[n] = row
      /\ \A r \in 1..Len(backupRuns) : backupRuns'[r] = backupRuns[r]
  BY <1>2, <1>3, <1>4
<1>6. /\ job' \in [Jobs -> Job]
      /\ job'[j] = q /\ \A o \in Jobs \ {j} : job'[o] = job[o]
  BY DEF BackupInv, JobsInv
<1>7. \A t : GoodTable(t, failovers, transactions) => GoodTable(t, failovers', transactions')
  BY <1>1, GoodTableStays
<1>8. JobOK(q)'
  <2>1. q.run \in 0..n
    BY <1>3
  <2>2. q.run # 0 => backupRuns'[q.run] = row
    BY <1>5
  <2>3. QED
    BY <2>1, <2>2, <1>1, <1>2, <1>5 DEF JobOK, Dumped
<1>9. ASSUME NEW p \in Job, JobOK(p)
      PROVE  JobOK(p)'
  <2>1. p.run \in 0..n /\ (p.run # 0 => backupRuns'[p.run] = backupRuns[p.run])
    BY <1>3, <1>5, <1>9 DEF JobOK
  <2>2. QED
    BY <2>1, <1>1, <1>5, <1>7, <1>9 DEF JobOK
<1>10. ASSUME NEW o \in Jobs
       PROVE  JobOK(job[o])'
  <2>1. PICK p \in Job : p = job'[o] /\ (p = q \/ JobOK(p))
    BY <1>6 DEF BackupInv, JobsInv
  <2>2. JobOK(p)'
    BY <2>1, <1>8, <1>9
  <2>3. QED
    BY <2>1, <2>2 DEF JobOK
<1>11. copy'.state # "none" => GoodTable(copy'.dump.batch, failovers', transactions')
  BY <1>1, <1>7 DEF BackupInv, JobsInv
<1>12. \A o \in Jobs : job[o].run \in 0..Len(backupRuns)
  BY DEF BackupInv, JobsInv, JobOK
<1>13. \A i, o \in Jobs : job'[i].run = job'[o].run /\ job'[i].run # 0 => i = o
  BY <1>3, <1>6, <1>12 DEF BackupInv, JobsInv
<1>14. SucceededRunHoldsItsPast'
  <2>1. ASSUME NEW r \in 1..n, backupRuns'[r].status = "succeeded"
        PROVE  r \in 1..Len(backupRuns) /\ backupRuns'[r] = backupRuns[r]
    BY <2>1, <1>2, <1>3, <1>5
  <2>2. QED
    BY <2>1, <1>1, <1>3, <1>5 DEF BackupInv, JobsInv, SucceededRunHoldsItsPast
<1>15. JobsInv'
  BY <1>1, <1>5, <1>6, <1>10, <1>11, <1>13, <1>14 DEF BackupInv, JobsInv
<1>16. QED
  BY <1>15 DEF BackupInv, Later

LEMMA StartRunInv ==
  ASSUME BackupInv, NEW j \in Jobs, StartRun(j)
  PROVE  BackupInv'
<1> DEFINE row == [status |-> "started", past |-> CommittedIn(batch)]
<1>1. job[j].pc = "start" /\ UNCHANGED <<target, failovers>>
  BY DEF StartRun
<1>2. CASE /\ Autocommit("database_backup_runs")
           /\ backupRuns' = Append(backupRuns, row)
           /\ job' = [job EXCEPT ![j].pc = "dump", ![j].run = Len(backupRuns) + 1]
  <2> DEFINE n == Len(backupRuns) + 1
             q == [job[j] EXCEPT !.pc = "dump", !.run = n]
  <2>1. job[j] \in Job /\ n \in Nat
    BY JobFacts
  <2>2. job' = [job EXCEPT ![j] = q]
    BY <1>2, <2>1
  <2> HIDE DEF n
  <2>3. q \in Job /\ q.pc = "dump" /\ q.run = n
    BY <2>1 DEF Job
  <2> HIDE DEF q
  <2>4. Later
    BY <1>1, <1>2, PrimaryWrites
  <2>5. q.run \in {0, Len(backupRuns) + 1}
    BY <2>3 DEF n
  <2>6. QED
    BY <1>1, <1>2, <2>2, <2>3, <2>4, <2>5, RowBegins
<1>3. CASE /\ Autocommit("database_backup_runs")
           /\ backupRuns' = Append(backupRuns, row) /\ GoTo(j, "dump")
  <2>1. PICK q \in Job : /\ job' = [job EXCEPT ![j] = q]
                         /\ q.pc = "dump" /\ q.run = job[j].run
    BY <1>3, GoesTo
  <2>2. q.run = 0
    BY <2>1, <1>1, JobFacts DEF JobOK
  <2>3. Later
    BY <1>1, <1>3, PrimaryWrites
  <2>4. QED
    BY <1>1, <1>3, <2>1, <2>2, <2>3, RowBegins
<1>4. CASE GoTo(j, "dump") /\ UNCHANGED <<batchVars, backupRuns>>
  BY <1>1, <1>4, PrimaryRests, PlainStep
<1>5. QED
  BY <1>2, <1>3, <1>4 DEF StartRun

\* The row of a run is written once it ends: 'succeeded' by the job that has restored
\* its dump and still has the copy, or has lost it to a job whose run it now is.
LEMMA RowEnds ==
  ASSUME BackupInv, Later, UNCHANGED target, NEW j \in Jobs, job[j].run # 0,
         NEW status \in {"succeeded", "failed"},
         status = "succeeded" => job[j].pc = "finish",
         backupRuns' = [backupRuns EXCEPT ![job[j].run].status = status],
         NEW q \in Job, job' = [job EXCEPT ![j] = q],
         \/ q = NoJob
         \/ /\ q.pc = "remove" /\ q.run = job[j].run /\ q.dump = job[j].dump
            /\ job[j].pc = "finish"
  PROVE  BackupInv'
<1>1. /\ failovers' = failovers /\ copy' = copy /\ overlapped' = overlapped
      /\ transactions \in Nat /\ transactions' \in Nat /\ transactions <= transactions'
      /\ CommittedIn(batch) \subseteq CommittedIn(batch')
  BY DEF Later, Grows, BackupInv, BatchesInv, target
<1>2. PICK r \in 1..Len(backupRuns) : r = job[j].run
  BY JobFacts
<1>3. /\ backupRuns \in Seq(BackupRun) /\ Len(backupRuns) \in Nat
      /\ DOMAIN backupRuns = 1..Len(backupRuns) /\ backupRuns[r] \in BackupRun
  BY DEF BackupInv, JobsInv
<1> DEFINE row == [backupRuns[r] EXCEPT !.status = status]
<1>4. row \in BackupRun /\ row.status = status /\ row.past = backupRuns[r].past
  BY <1>3 DEF BackupRun
<1>5. backupRuns' = [backupRuns EXCEPT ![r] = row]
  BY <1>2
<1> HIDE DEF row
<1>6. /\ backupRuns' \in Seq(BackupRun) /\ Len(backupRuns') = Len(backupRuns)
      /\ DOMAIN backupRuns' = 1..Len(backupRuns) /\ backupRuns'[r] = row
      /\ \A s \in 1..Len(backupRuns) : s # r => backupRuns'[s] = backupRuns[s]
  <2>1. /\ [backupRuns EXCEPT ![r] = row] \in Seq(BackupRun)
        /\ Len([backupRuns EXCEPT ![r] = row]) = Len(backupRuns)
    BY <1>3, <1>4, ExceptSeq
  <2>2. backupRuns' \in Seq(BackupRun) /\ Len(backupRuns') = Len(backupRuns)
    BY <2>1, <1>5
  <2>3. /\ DOMAIN backupRuns' = 1..Len(backupRuns) /\ backupRuns'[r] = row
        /\ \A s \in 1..Len(backupRuns) : s # r => backupRuns'[s] = backupRuns[s]
    BY <1>3, <1>5
  <2>4. QED
    BY <2>2, <2>3
<1>7. /\ job' \in [Jobs -> Job]
      /\ job'[j] = q /\ \A o \in Jobs \ {j} : job'[o] = job[o]
  BY DEF BackupInv, JobsInv
<1>8. \A t : GoodTable(t, failovers, transactions) => GoodTable(t, failovers', transactions')
  BY <1>1, GoodTableStays
<1>9. JobOK(q)'
  <2>1. CASE q = NoJob
    <3>1. q.run = 0 /\ q.pc = "idle"
      BY <2>1 DEF NoJob
    <3>2. QED
      BY <3>1, <1>3, <1>6 DEF JobOK, Dumped
  <2>2. CASE /\ q.pc = "remove" /\ q.run = job[j].run /\ q.dump = job[j].dump
             /\ job[j].pc = "finish"
    <3>1. /\ GoodTable(q.dump.batch, failovers, transactions)
          /\ backupRuns[r].past \subseteq CommittedIn(batch)
          /\ backupRuns[r].past \subseteq CommittedIn(q.dump.batch)
      BY <2>2, <1>2, JobFacts DEF JobOK, Dumped
    <3>2. QED
      BY <2>2, <3>1, <1>1, <1>2, <1>3, <1>4, <1>6, <1>8 DEF JobOK, Dumped, Running
  <2>3. QED
    BY <2>1, <2>2
<1>10. ASSUME NEW p \in Job, JobOK(p), p.run = 0 \/ p.run # r
       PROVE  JobOK(p)'
  <2>1. p.run \in 0..Len(backupRuns) /\ (p.run # 0 => backupRuns'[p.run] = backupRuns[p.run])
    BY <1>3, <1>6, <1>10 DEF JobOK
  <2>2. QED
    BY <2>1, <1>1, <1>6, <1>8, <1>10 DEF JobOK
<1>11. ASSUME NEW o \in Jobs
       PROVE  JobOK(job[o])'
  <2>1. CASE o = j
    BY <2>1, <1>7, <1>9 DEF JobOK
  <2>2. CASE o # j
    <3>1. PICK p \in Job : p = job'[o] /\ p = job[o] /\ JobOK(p)
      BY <2>2, <1>7 DEF BackupInv, JobsInv
    <3>2. p.run = 0 \/ p.run # r
      BY <2>2, <3>1, <1>2 DEF BackupInv, JobsInv
    <3>3. JobOK(p)'
      BY <3>1, <3>2, <1>10
    <3>4. QED
      BY <3>1, <3>3 DEF JobOK
  <2>3. QED
    BY <2>1, <2>2
<1>12. copy'.state # "none" => GoodTable(copy'.dump.batch, failovers', transactions')
  BY <1>1, <1>8 DEF BackupInv, JobsInv
<1>13. \A i, o \in Jobs : job'[i].run = job'[o].run /\ job'[i].run # 0 => i = o
  <2>1. q.run = 0 \/ q.run = job[j].run
    BY DEF NoJob
  <2>2. QED
    BY <2>1, <1>7 DEF BackupInv, JobsInv
<1>14. SucceededRunHoldsItsPast'
  <2>1. ASSUME status = "succeeded", copy.of = r, r \notin overlapped
        PROVE  copy.state = "complete" /\ backupRuns[r].past \subseteq CommittedIn(copy.dump.batch)
    <3>1. job[j].pc = "finish" /\ JobOK(job[j])
      BY <2>1, JobFacts
    <3>2. copy.state = "complete" /\ copy.dump = job[j].dump
      BY <3>1, <2>1, <1>2 DEF JobOK
    <3>3. backupRuns[r].past \subseteq CommittedIn(job[j].dump.batch)
      BY <3>1, <1>2 DEF JobOK, Dumped
    <3>4. QED
      BY <3>2, <3>3
  <2>2. QED
    BY <2>1, <1>1, <1>3, <1>4, <1>6 DEF BackupInv, JobsInv, SucceededRunHoldsItsPast
<1>15. JobsInv'
  BY <1>1, <1>6, <1>7, <1>11, <1>12, <1>13, <1>14 DEF BackupInv, JobsInv
<1>16. QED
  BY <1>15 DEF BackupInv, Later

LEMMA FinishRunInv ==
  ASSUME BackupInv, NEW j \in Jobs, FinishRun(j)
  PROVE  BackupInv'
<1>1. /\ job[j].pc = "finish" /\ GoTo(j, "remove") /\ UNCHANGED <<target, failovers>>
      /\ Finish(j, "succeeded")
  BY DEF FinishRun
<1>2. CASE UNCHANGED <<batchVars, backupRuns>>
  BY <1>1, <1>2, PrimaryRests, PlainStep
<1>3. CASE /\ job[j].run # 0 /\ Autocommit("database_backup_runs")
           /\ backupRuns' = [backupRuns EXCEPT ![job[j].run].status = "succeeded"]
  <2>1. PICK q \in Job : /\ job' = [job EXCEPT ![j] = q] /\ q.pc = "remove"
                         /\ q.run = job[j].run /\ q.dump = job[j].dump
    BY <1>1, GoesTo
  <2>2. Later
    BY <1>1, <1>3, PrimaryWrites
  <2>3. QED
    BY <1>1, <1>3, <2>1, <2>2, RowEnds
<1>4. QED
  BY <1>1, <1>2, <1>3 DEF Finish

LEMMA FailRunInv ==
  ASSUME BackupInv, NEW j \in Jobs, FailRun(j)
  PROVE  BackupInv'
<1>1. /\ job' = [job EXCEPT ![j] = NoJob] /\ UNCHANGED <<target, failovers>>
      /\ Finish(j, "failed")
  BY DEF FailRun
<1>2. CASE UNCHANGED <<batchVars, backupRuns>>
  BY <1>1, <1>2, PrimaryRests, EndOfJob
<1>3. CASE /\ job[j].run # 0 /\ Autocommit("database_backup_runs")
           /\ backupRuns' = [backupRuns EXCEPT ![job[j].run].status = "failed"]
  <2>1. Later
    BY <1>1, <1>3, PrimaryWrites
  <2>2. QED
    BY <1>1, <1>3, <2>1, NoJobOK, RowEnds
<1>4. QED
  BY <1>1, <1>2, <1>3 DEF Finish

-----------------------------------------------------------------------------
(* Backups: the copy, and a failover to it.                                *)

\* A job touches the copy: for the runs of others it is no longer theirs.
LEMMA TouchInv ==
  ASSUME BackupInv, NEW j \in Jobs, NEW pc, NEW state \in {"none", "partial", "complete"},
         Touch(j, state), GoTo(j, pc), UNCHANGED <<batchVars, backupRuns, failovers>>,
         job[j].pc \in {"drop", "dropped", "restore", "restoring"},
         pc \in {"dropped", "restoring", "check"},
         pc = "check" => state = "complete" \/ job[j].run \in overlapped'
  PROVE  BackupInv'
<1>1. PICK q \in Job : /\ job' = [job EXCEPT ![j] = q]
                       /\ q.pc = pc /\ q.run = job[j].run /\ q.dump = job[j].dump
  BY GoesTo
<1>2. PICK p \in Job : p = job[j] /\ JobOK(p)
  BY JobFacts
<1>3. /\ failovers' = failovers /\ batch' = batch /\ transactions' = transactions
      /\ backupRuns' = backupRuns
  BY DEF batchVars
<1>4. /\ copy' = [state |-> state, of |-> p.run, dump |-> p.dump]
      /\ \A n \in overlapped : n \in overlapped'
  BY <1>2 DEF Touch
<1>5. /\ copy'.state = state /\ copy'.of = p.run /\ copy'.dump = p.dump
      /\ copy' \in Copy
  BY <1>4 DEF Copy, Job
<1>6. /\ job' \in [Jobs -> Job]
      /\ job'[j] = q /\ \A o \in Jobs \ {j} : job'[o] = job[o]
  BY <1>1 DEF BackupInv, JobsInv
<1>7. GoodTable(p.dump.batch, failovers, transactions)
  BY <1>2 DEF JobOK, Dumped
<1>8. JobOK(q)'
  BY <1>1, <1>2, <1>3, <1>5 DEF JobOK, Dumped, Running
<1>9. ASSUME NEW x \in Job, JobOK(x), x.run = 0 \/ x.run # p.run
      PROVE  JobOK(x)'
  BY <1>3, <1>5, <1>9 DEF JobOK
<1>10. ASSUME NEW o \in Jobs
       PROVE  JobOK(job[o])'
  <2>1. CASE o = j
    BY <2>1, <1>6, <1>8 DEF JobOK
  <2>2. CASE o # j
    <3>1. PICK x \in Job : x = job'[o] /\ x = job[o] /\ JobOK(x)
      BY <2>2, <1>6 DEF BackupInv, JobsInv
    <3>2. x.run = 0 \/ x.run # p.run
      BY <2>2, <3>1, <1>2 DEF BackupInv, JobsInv
    <3>3. JobOK(x)'
      BY <3>1, <3>2, <1>9
    <3>4. QED
      BY <3>1, <3>3 DEF JobOK
  <2>3. QED
    BY <2>1, <2>2
<1>11. \A i, o \in Jobs : job'[i].run = job'[o].run /\ job'[i].run # 0 => i = o
  BY <1>1, <1>6 DEF BackupInv, JobsInv
<1>12. SucceededRunHoldsItsPast'
  <2>1. p.run # 0 => backupRuns[p.run].status = "started"
    BY <1>2 DEF JobOK, Running
  <2>2. DOMAIN backupRuns = 1..Len(backupRuns) /\ Len(backupRuns) \in Nat
    BY DEF BackupInv, JobsInv
  <2>3. QED
    BY <2>1, <2>2, <1>3, <1>5 DEF SucceededRunHoldsItsPast
<1>13. JobsInv'
  BY <1>3, <1>5, <1>6, <1>7, <1>10, <1>11, <1>12 DEF BackupInv, JobsInv
<1>14. BatchesInv'
  BY BatchesRest DEF BackupInv
<1>15. QED
  BY <1>13, <1>14 DEF BackupInv

LEMMA DropTargetInv ==
  ASSUME BackupInv, NEW j \in Jobs, DropTarget(j)
  PROVE  BackupInv'
BY TouchInv DEF DropTarget, jobCounters

LEMMA BeginRestoreInv ==
  ASSUME BackupInv, NEW j \in Jobs, BeginRestore(j)
  PROVE  BackupInv'
BY TouchInv DEF BeginRestore, jobCounters

\* A restore that is not whole has had another job beside it.
LEMMA EndRestoreInv ==
  ASSUME BackupInv, NEW j \in Jobs, EndRestore(j)
  PROVE  BackupInv'
<1>1. PICK state \in (IF Shared(j) THEN {"partial", "complete"} ELSE {"complete"}) :
        Touch(j, state)
  BY DEF EndRestore
<1>2. state = "complete" \/ job[j].run \in overlapped'
  BY <1>1 DEF Shared, Touch
<1>3. QED
  BY <1>1, <1>2, TouchInv DEF EndRestore, jobCounters

\* The transactions after a failover are separated from all those the copy holds.
LEMMA FailoverInv ==
  ASSUME BackupInv, Failover
  PROVE  BackupInv'
<1>1. /\ copy.state = "complete" /\ \A j \in Jobs : job[j].pc = "idle"
      /\ batch' = copy.dump.batch /\ backupRuns' = copy.dump.runs
      /\ nextTx' \in 1..nextTx /\ writer' = [w \in Writers |-> NoWriter]
      /\ failovers' = failovers \cup {transactions}
      /\ copy' = NoCopy
      /\ transactions' = transactions /\ job' = job
  BY DEF Failover
<1>2. /\ transactions \in Nat /\ nextTx \in Nat /\ nextTx <= transactions + 1
      /\ failovers \subseteq 0..transactions
      /\ GoodTable(copy.dump.batch, failovers, transactions)
      /\ copy.dump \in DatabaseDump
  BY <1>1 DEF BackupInv, BatchesInv, JobsInv, Copy
<1>3. GoodTable(batch', failovers', transactions')
  BY <1>1, <1>2, GoodTableStays
<1>4. \A tx \in Txids : batch'[tx] # NoBatch => \A m \in Writing(batch'[tx]) : m <= transactions
  BY <1>1, <1>2 DEF GoodTable, GoodBatch
<1>5. nextTx' \in Nat /\ 1 <= nextTx' /\ nextTx' <= transactions' + 1
  BY <1>1, <1>2
<1>6. failovers' \subseteq 0..transactions'
  BY <1>1, <1>2
<1>7. WritersOK'
  BY <1>1 DEF WritersOK
<1>8. BatchesInv'
  BY <1>1, <1>2, <1>3, <1>4, <1>5, <1>6, <1>7 DEF BatchesInv
<1>9. backupRuns' \in Seq(BackupRun) /\ Len(backupRuns') \in Nat
      /\ DOMAIN backupRuns' = 1..Len(backupRuns')
  BY <1>1, <1>2 DEF DatabaseDump
<1>10. NoCopy \in Copy /\ NoCopy.state = "none" /\ NoCopy.of = 0
  BY DEF NoCopy, NoDump, Copy, DatabaseDump
<1>11. ASSUME NEW o \in Jobs
       PROVE  JobOK(job[o])'
  <2>1. PICK x \in Job : x = job'[o] /\ x.pc = "idle" /\ x.run = 0
    BY <1>1 DEF BackupInv, JobsInv, JobOK
  <2>2. JobOK(x)'
    BY <2>1, <1>9 DEF JobOK, Dumped
  <2>3. QED
    BY <2>1, <2>2 DEF JobOK
<1>12. SucceededRunHoldsItsPast'
  BY <1>1, <1>9, <1>10 DEF SucceededRunHoldsItsPast
<1>13. JobsInv'
  BY <1>1, <1>9, <1>10, <1>11, <1>12 DEF BackupInv, JobsInv
<1>14. QED
  BY <1>8, <1>13 DEF BackupInv

-----------------------------------------------------------------------------
(* The theorems.                                                           *)

LEMMA BackupInitInv == BackupInit => BackupInv
<1> SUFFICES ASSUME BackupInit PROVE BackupInv
  OBVIOUS
<1>1. /\ backupRuns = <<>> /\ job = [j \in Jobs |-> NoJob] /\ copy = NoCopy
      /\ BatchesInit /\ failovers = {}
  BY DEF BackupInit
<1>2. NoCopy \in Copy /\ NoCopy.state = "none"
  BY DEF NoCopy, NoDump, Copy, DatabaseDump
<1>3. NoJob \in Job /\ NoJob.run = 0 /\ NoJob.pc = "idle"
  BY DEF NoJob, NoDump, Job, DatabaseDump
<1>4. backupRuns \in Seq(BackupRun) /\ Len(backupRuns) = 0 /\ DOMAIN backupRuns = {}
  BY <1>1
<1>5. JobOK(NoJob)
  BY <1>3, <1>4 DEF JobOK, Dumped
<1>6. SucceededRunHoldsItsPast
  BY <1>4 DEF SucceededRunHoldsItsPast
<1>7. JobsInv
  BY <1>1, <1>2, <1>3, <1>4, <1>5, <1>6 DEF JobsInv
<1>8. QED
  BY <1>1, <1>7, BatchesInitInv DEF BackupInv

LEMMA BackupStepInv == BackupInv /\ [BackupNext]_backupVars => BackupInv'
<1> SUFFICES ASSUME BackupInv, [BackupNext]_backupVars PROVE BackupInv'
  OBVIOUS
<1>1. CASE BatchesNext /\ UNCHANGED <<backupRuns, job, target, jobCounters>>
  <2>1. UNCHANGED <<backupRuns, target, job, failovers>>
    BY <1>1 DEF jobCounters
  <2>2. BatchesInv' /\ Grows
    BY <1>1, <2>1, BatchesStep DEF BackupInv
  <2>3. transactions \in Nat /\ transactions' \in {transactions, transactions + 1}
    BY <1>1 DEF BackupInv, BatchesInv, BatchesNext, BeginWrite, WriteRow, CommitWrite,
                RollbackWrite, NewTransaction
  <2>4. Later
    BY <2>1, <2>2, <2>3 DEF Later
  <2>5. QED
    BY <2>1, <2>4, StepOfPrimary
<1>2. CASE \E j \in Jobs :
             \/ BeginJob(j) \/ StartRun(j) \/ Dump(j) \/ DropTarget(j) \/ BeginRestore(j)
             \/ EndRestore(j) \/ CheckTarget(j) \/ CommandFails(j) \/ FinishRun(j)
             \/ RemoveFile(j) \/ FailRun(j) \/ JobDies(j)
  BY <1>2, BeginJobInv, StartRunInv, DumpInv, DropTargetInv, BeginRestoreInv,
     EndRestoreInv, CheckTargetInv, CommandFailsInv, FinishRunInv, RemoveFileInv,
     FailRunInv, JobDiesInv
<1>3. CASE Failover
  BY <1>3, FailoverInv
<1>4. CASE UNCHANGED backupVars
  <2>1. UNCHANGED <<batchVars, backupRuns, target, job, failovers>>
    BY <1>4 DEF backupVars, jobCounters
  <2>2. QED
    BY <2>1, PrimaryRests, StepOfPrimary
<1>5. QED
  BY <1>1, <1>2, <1>3, <1>4 DEF BackupNext

LEMMA BackupInvariant == SupportSpec => []BackupInv
<1>1. SupportInit => BackupInv
  BY BackupInitInv DEF SupportInit
<1>2. BackupInv /\ [SupportNext]_supportVars => BackupInv'
  BY BackupStepInv DEF SupportNext, supportVars, backupVars
<1>3. QED
  BY <1>1, <1>2, PTL DEF SupportSpec

\* A committed batch tells of its items and numbers them without a gap, whatever
\* transactions are open beside it and also when its txid had a batch before
\* (record_api_write_batch_item).
THEOREM BatchesTellTheirItems == SupportSpec => []BatchTellsItsItems
<1>1. BackupInv => BatchTellsItsItems
  BY DEF BackupInv, BatchesInv, GoodTable, GoodBatch, Numbered, BatchTellsItsItems
<1>2. QED
  BY <1>1, BackupInvariant, PTL

\* Only a failover, which starts the txids anew, puts two transactions in one batch
\* (ensure_api_write_batch).
THEOREM BatchesAreTransactions == SupportSpec => []BatchIsOneTransaction
<1>1. BackupInv => BatchIsOneTransaction
  <2> SUFFICES ASSUME BackupInv, NEW tx \in Txids, batch[tx] # NoBatch,
                      NEW i \in DOMAIN batch[tx].items, NEW k \in DOMAIN batch[tx].items,
                      batch[tx].items[i].by < batch[tx].items[k].by
               PROVE  MovedBetween(batch[tx].items[i].by, batch[tx].items[k].by, failovers)
    BY DEF BatchIsOneTransaction, MovedBetween
  <2>1. GoodBatch(batch[tx], failovers, transactions)
    BY DEF BackupInv, BatchesInv, GoodTable
  <2>2. batch[tx].items[i].by \in Writing(batch[tx]) /\ batch[tx].items[k].by \in Writing(batch[tx])
    BY DEF Writing
  <2>3. QED
    BY <2>1, <2>2 DEF GoodBatch
<1>2. QED
  BY <1>1, BackupInvariant, PTL

\* A run that is 'succeeded' has left a whole copy of what was committed before it,
\* whatever failed or was swallowed, until another job touches the target
\* (scripts/backup-to-neon.ts).
THEOREM SucceededRunsAreWhole == SupportSpec => []SucceededRunHoldsItsPast
<1>1. BackupInv => SucceededRunHoldsItsPast
  BY DEF BackupInv, JobsInv
<1>2. QED
  BY <1>1, BackupInvariant, PTL
=============================================================================

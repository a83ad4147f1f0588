----------------------------- MODULE WriteBatches -----------------------------
(***************************************************************************)
(* The tables api_write_batches and api_write_batch_items, which the       *)
(* triggers of                                                             *)
(* database/migrations/20260627000700-create-api-write-batches.js fill for *)
(* every row a transaction inserts, updates or deletes.                    *)
(*                                                                         *)
(* A transaction sees the committed batches and its own; nobody else has   *)
(* its txid, so that none waits for another.  Times, actions, record ids   *)
(* and metadata are left out.                                              *)
(***************************************************************************)
EXTENDS Integers, Sequences, FiniteSetsExt

CONSTANTS
  LoggedTables,      \* tables the requests write that have the trigger
  Writers,           \* connections that have a transaction open
  NoBatch, NoWriter,
  MaxTransactions, MaxRows

\* The tables with the trigger, and the rows it writes.
WrittenTables ==
  LoggedTables \cup {"database_backup_runs", "api_write_batches", "api_write_batch_items"}
Item == [table : WrittenTables, ordinal : Nat, by : Nat]
Batch == [items : Seq(Item), count : Nat, tables : SUBSET WrittenTables]

ASSUME WriteBatchesAssumption ==
  /\ MaxTransactions \in Nat \ {0}
  /\ MaxRows \in Nat
  /\ NoBatch \notin Batch

VARIABLES
  batch,         \* the committed batch of each txid, with its items
  nextTx,        \* the txid the next transaction gets
  writer,        \* open transactions
  transactions   \* --- history: the transactions so far, which number them

batchVars == <<batch, nextTx, writer, transactions>>

-----------------------------------------------------------------------------
Txids == 1..MaxTransactions

\* The last statement of the migration, itself transaction 1.
Baseline ==
  [items |-> <<[table |-> "api_write_batches", ordinal |-> 1, by |-> 1],
               [table |-> "api_write_batch_items", ordinal |-> 2, by |-> 1]>>,
   count |-> 2, tables |-> {"api_write_batches", "api_write_batch_items"}]

BatchesInit ==
  /\ batch = [tx \in Txids |-> IF tx = 1 THEN Baseline ELSE NoBatch]
  /\ nextTx = 2
  /\ writer = [w \in Writers |-> NoWriter]
  /\ transactions = 1

TablesOf(items) == {items[i].table : i \in DOMAIN items}

\* Mutant: MAX(ordinal) of a batch that has no items yet is taken for 1.
OrdinalAfterOne(items) == Max({1} \cup {items[i].ordinal : i \in DOMAIN items}) + 1

NextOrdinal(items) == Max({0} \cup {items[i].ordinal : i \in DOMAIN items}) + 1

\* ensure_api_write_batch: ON CONFLICT takes the batch there is.
Ensured(known) ==
  IF known = NoBatch THEN [items |-> <<>>, count |-> 0, tables |-> {}] ELSE known

\* record_api_write_batch_item, for a row of table t.
Recorded(known, t, n) ==
  LET b == Ensured(known)
      items == Append(b.items, [table |-> t, ordinal |-> NextOrdinal(b.items), by |-> n])
  IN [items |-> items, count |-> b.count + 1, tables |-> TablesOf(items)]

\* Mutant: the oldest open transaction gives the id (txid_snapshot_xmin).
OldestTxid ==
  Min({nextTx} \cup {writer[w].tx : w \in {x \in Writers : writer[x] # NoWriter}})

\* txid_current().
CurrentTxid == nextTx

NewTransaction ==
  /\ transactions < MaxTransactions
  /\ transactions' = transactions + 1
  /\ nextTx' = nextTx + 1

\* The first row a transaction writes gives it its txid.
BeginWrite(w, t) ==
  /\ writer[w] = NoWriter
  /\ NewTransaction
  /\ writer' = [writer EXCEPT ![w] =
       [tx |-> CurrentTxid, by |-> transactions', rows |-> 1,
        batch |-> Recorded(batch[CurrentTxid], t, transactions')]]
  /\ UNCHANGED batch

WriteRow(w, t) ==
  /\ writer[w] # NoWriter
  /\ writer[w].rows < MaxRows
  /\ writer' = [writer EXCEPT ![w].rows = @ + 1,
                              ![w].batch = Recorded(@, t, writer[w].by)]
  /\ UNCHANGED <<batch, nextTx, transactions>>

CommitWrite(w) ==
  /\ writer[w] # NoWriter
  /\ batch' = [batch EXCEPT ![writer[w].tx] = writer[w].batch]
  /\ writer' = [writer EXCEPT ![w] = NoWriter]
  /\ UNCHANGED <<nextTx, transactions>>

\* The batch goes with the rows it tells of.
RollbackWrite(w) ==
  /\ writer[w] # NoWriter
  /\ writer' = [writer EXCEPT ![w] = NoWriter]
  /\ UNCHANGED <<batch, nextTx, transactions>>

\* A statement outside a transaction that writes one row of table t.
Autocommit(t) ==
  /\ NewTransaction
  /\ batch' = [batch EXCEPT ![CurrentTxid] = Recorded(@, t, transactions')]
  /\ UNCHANGED writer

BatchesNext ==
  \E w \in Writers :
    \/ \E t \in LoggedTables : BeginWrite(w, t) \/ WriteRow(w, t)
    \/ CommitWrite(w) \/ RollbackWrite(w)

-----------------------------------------------------------------------------
(* Properties.                                                             *)

\* A committed batch has the number of its items and their tables, and numbers them
\* from one without a gap, also when the txid had a batch before (docs/quality/
\* batch-write-records.md:34-35,47 "ordinal: orden de escritura dentro del lote").
BatchTellsItsItems ==
  \A tx \in Txids : batch[tx] # NoBatch =>
    LET items == batch[tx].items IN
    /\ batch[tx].count = Len(items)
    /\ batch[tx].tables = TablesOf(items)
    /\ \A i \in DOMAIN items : items[i].ordinal = i
=============================================================================

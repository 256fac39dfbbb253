---------------------------- MODULE BlockReader ----------------------------
(***************************************************************************)
(* getBlocksByRangeAndState, src/output/mysqldb/query.go: how the tasks     *)
(* that catch up read blocks with their logs and transactions.  The tables  *)
(* are read one after the other, without a transaction, while base_data     *)
(* saves blocks and marks reverted ones, each in a transaction of its own.  *)
(***************************************************************************)
EXTENDS Transfers, SequencesExt, FiniteSetsExt

CONSTANTS
    Blocks,         \* blocks that may be saved, each with its transactions:
                    \* [num, hash, parent, txs], a transaction being
                    \* [hash, logs], at most once in a chain
    HashChunk,      \* how many transactions are asked for at once, 100
    MaxSaved        \* bound: rows of the table block

BlockReaderConstants ==
    /\ \A b \in Blocks : /\ b.num \in Nat \ {0} /\ b.txs \in Seq(UNION {ToSet(c.txs) : c \in Blocks})
                         /\ \A i, j \in DOMAIN b.txs : b.txs[i].hash = b.txs[j].hash => i = j
    /\ HashChunk \in Nat \ {0} /\ MaxSaved \in Nat

VARIABLES
    rows,           \* the table block, and by it the tables tx and tx_log
    pc,             \* which table is read next
    task,           \* the task that reads, hence the filter
    start, end,     \* the range
    found,          \* the rows of the blocks read
    logs,           \* the logs read, with the hash of their transaction
    hashes,         \* the transactions still to be asked for, by hash
    txs             \* the transactions read: [num, hash], in order

dbVars == rows
readVars == <<pc, task, start, end, found, logs, hashes, txs>>
vars == <<rows, readVars>>

Init ==
    /\ rows = <<>> /\ pc = "idle" /\ task = "erc20" /\ start = 0 /\ end = 0
    /\ found = <<>> /\ logs = <<>> /\ hashes = {} /\ txs = <<>>

----------------------------------------------------------------------------
(* base_data. *)

OkRow(i) == rows[i].state = "ok"

Standing == SelectSeq([i \in DOMAIN rows |-> i], OkRow)

\* The feed is a chain: a block is saved on top of its parent, with all its
\* rows.
SaveBlock(b) ==
    /\ Len(rows) < MaxSaved /\ b.num = Len(Standing) + 1
    /\ b.num > 1 => b.parent = rows[Last(Standing)].blk.hash
    /\ rows' = Append(rows, [blk |-> b, state |-> "ok"])
    /\ UNCHANGED readVars

\* UpdateBlockSate: the rows of the block in all tables.
UpdateBlockState(n) ==
    /\ n = Len(Standing)
    /\ rows' = [i \in DOMAIN rows |->
                   IF OkRow(i) /\ rows[i].blk.num = n
                   THEN [rows[i] EXCEPT !.state = "revert"] ELSE rows[i]]
    /\ UNCHANGED readVars

----------------------------------------------------------------------------
(* The reader. *)

InRange(i) == rows[i].blk.num \in start..end

\* The rows of blocks that are in the range and not reverted, in the order
\* they were inserted.
Selected == SelectSeq([i \in DOMAIN rows |-> i], LAMBDA i : OkRow(i) /\ InRange(i))

Begin(t, s, e) ==
    /\ pc = "idle" /\ pc' = "block" /\ task' = t /\ start' = s /\ end' = e
    /\ found' = <<>> /\ logs' = <<>> /\ hashes' = {} /\ txs' = <<>>
    /\ UNCHANGED dbVars

ReadBlocks ==
    /\ pc = "block"
    /\ found' = Selected
    /\ pc' = IF found' = <<>> THEN "done" ELSE "log"
    /\ UNCHANGED <<dbVars, task, start, end, logs, hashes, txs>>

\* The logs of a transaction the filter wants.
Wanted(tx) == SelectSeq(tx.logs, LAMBDA l : Matches(l, FilterOf[task]))

\* By block and log index, as they were inserted.
ReadLogs ==
    /\ pc = "log" /\ pc' = "tx"
    /\ logs' = FlattenSeq([k \in DOMAIN Selected |->
                   LET b == rows[Selected[k]].blk
                   IN  FlattenSeq([i \in DOMAIN b.txs |->
                           [j \in DOMAIN Wanted(b.txs[i]) |->
                               [tx |-> b.txs[i].hash, log |-> Wanted(b.txs[i])[j]]]])])
    /\ hashes' = {logs'[k].tx : k \in DOMAIN logs'}
    /\ UNCHANGED <<dbVars, task, start, end, found, txs>>

\* The transactions with these hashes, by block and index.
TxRows(hs) ==
    FlattenSeq([k \in DOMAIN Selected |->
        LET b == rows[Selected[k]].blk
        IN  SelectSeq([i \in DOMAIN b.txs |-> [num |-> b.num, hash |-> b.txs[i].hash]],
                      LAMBDA r : r.hash \in hs)])

\* A filter for transactions: one query.
ReadTxs ==
    /\ pc = "tx" /\ FilterOf[task].txs
    /\ txs' = TxRows({tx.hash : tx \in UNION {ToSet(b.txs) : b \in Blocks}})
    /\ hashes' = {} /\ pc' = "done"
    /\ UNCHANGED <<dbVars, task, start, end, found, logs>>

\* Without one, those of the logs, some hashes at a time, in the order a map
\* is gone through.
ReadTxsOfLogs ==
    /\ pc = "tx" /\ ~FilterOf[task].txs /\ hashes # {}
    /\ \E asked \in kSubset(Min({HashChunk, Cardinality(hashes)}), hashes) :
          /\ txs' = txs \o TxRows(asked)
          /\ hashes' = hashes \ asked
    /\ UNCHANGED <<dbVars, pc, task, start, end, found, logs>>

TxsDone ==
    /\ pc = "tx" /\ ~FilterOf[task].txs /\ hashes = {} /\ pc' = "done"
    /\ UNCHANGED <<dbVars, task, start, end, found, logs, hashes, txs>>

Return == /\ pc = "done" /\ pc' = "idle"
          /\ found' = <<>> /\ logs' = <<>> /\ txs' = <<>>
          /\ UNCHANGED <<dbVars, task, start, end, hashes>>

\* convertOutLogs, convertOutTxs: a transaction gets the logs with its hash, a
\* block the transactions with its number.
LogsOf(h) == LET mine == SelectSeq(logs, LAMBDA r : r.tx = h)
             IN  [j \in DOMAIN mine |-> mine[j].log]

TxsOf(n) == LET mine == SelectSeq(txs, LAMBDA r : r.num = n)
            IN  [k \in DOMAIN mine |-> [hash |-> mine[k].hash, logs |-> LogsOf(mine[k].hash)]]

Next ==
    \/ \E b \in Blocks : SaveBlock(b) \/ UpdateBlockState(b.num)
    \/ \E t \in DOMAIN Takes, b, c \in Blocks : b.num <= c.num /\ Begin(t, b.num, c.num)
    \/ ReadBlocks \/ ReadLogs \/ ReadTxs \/ ReadTxsOfLogs \/ TxsDone \/ Return

Spec == Init /\ [][Next]_vars

----------------------------------------------------------------------------
TypeOK ==
    /\ \A i \in DOMAIN rows : rows[i].blk \in Blocks /\ rows[i].state \in {"ok", "revert"}
    /\ pc \in {"idle", "block", "log", "tx", "done"}
    /\ task \in DOMAIN Takes /\ start \in Nat /\ end \in Nat
    /\ \A k \in DOMAIN found : found[k] \in DOMAIN rows
    /\ \A k \in DOMAIN txs : txs[k].num \in start..end

\* What a handler makes of the transactions of a block: the logs it takes,
\* each with its transaction, in their order.
Handled(ts) ==
    FlattenSeq([i \in DOMAIN ts |->
        LET mine == SelectSeq(ts[i].logs, LAMBDA l : l \in Takes[task])
        IN  [j \in DOMAIN mine |-> [tx |-> ts[i].hash, log |-> mine[j]]]])

\* A block that was read and was not reverted meanwhile gives a handler that
\* catches up the logs it takes from the same block when it comes from the
\* feed, those and no other, whatever base_data did between the queries.
HandledAlike ==
    pc = "done" => \A k \in DOMAIN found : OkRow(found[k]) =>
        LET b == rows[found[k]].blk IN ToSet(Handled(TxsOf(b.num))) = ToSet(Handled(b.txs))

\* The blocks come by number, each once: the callers take the last one for the
\* highest.
ByNumber ==
    \A i, j \in DOMAIN found : i < j => rows[found[i]].blk.num < rows[found[j]].blk.num

\* The transactions of a block come by index, as the queries ask.
TxsInOrder ==
    pc = "done" => \A k \in DOMAIN found : OkRow(found[k]) =>
        LET b == rows[found[k]].blk IN Handled(TxsOf(b.num)) = Handled(b.txs)
=============================================================================

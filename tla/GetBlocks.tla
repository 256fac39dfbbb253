------------------------------ MODULE GetBlocks ------------------------------
(***************************************************************************)
(* GetBlocks, src/fetch/fetch.go: one round of the fetcher.  Workers take   *)
(* heights from a channel and read the blocks, others take the blocks and   *)
(* add what the node keeps by transaction and by number: the receipts,      *)
(* asked for in groups of transactions by workers of their own, and the     *)
(* traces.  Every call sees the chain the node has at that moment.          *)
(*                                                                          *)
(* The channels between the workers are unbuffered: a block passes when     *)
(* a reader is free.  Workers of a kind are alike, so the state holds what  *)
(* they hold.                                                               *)
(***************************************************************************)
EXTENDS EvmNode, SequencesExt, FiniteSetsExt

CONSTANTS
    Low, High,      \* height, heightEnd: the range, High excluded
    BlockWorker,    \* config: workers that read blocks, and that complete them
    TxWorker,       \* config: workers that ask for the receipts of a block
    TxBatch,        \* config: how many receipts are asked for at once
    IsDealInternal, \* config: traces are asked for
    Txs,            \* Txs[hash]: the transactions of a block, in order
    MaxFails        \* bound: calls that fail for good

ASSUME GetBlocksAssumption ==
    /\ Low \in Nat /\ High \in Nat /\ Low <= High /\ High <= MaxHead + 1
    /\ BlockWorker \in Nat \ {0}        \* with none, no block is completed
    /\ TxWorker \in Nat /\ TxBatch \in Nat
    /\ IsDealInternal \in BOOLEAN /\ MaxFails \in Nat

Hashes == (0..MaxHead) \X (0..MaxReorgs)

\* No block has a transaction twice; the genesis block has none.
ASSUME TxsAssumption ==
    /\ Hashes \subseteq DOMAIN Txs /\ Txs[<<0, 0>>] = <<>>
    /\ \A h \in Hashes : Txs[h] \in Seq(ToSet(Txs[h])) /\ IsInjective(Txs[h])

VARIABLES
    heights,        \* heighCh: the heights still to be read
    asking,         \* the heights workers have taken
    read,           \* the blocks read, their workers waiting: height -> block
    building,       \* the blocks being completed: height -> record
    blocks,         \* the blocks handed to Run: height -> record
    errs,           \* the heights for which Run got an error
    fails,          \* how many calls have failed for good
    pc              \* "running", "returned", or "exited": log.Fatal

workVars == <<heights, asking, read, building, blocks, errs, fails, pc>>
vars == <<nodeVars, workVars>>

Put(f, n, x) == [i \in DOMAIN f \cup {n} |-> IF i = n THEN x ELSE f[i]]

Without(f, n) == [i \in DOMAIN f \ {n} |-> f[i]]

\* The node mines a transaction once in a chain, anew in another branch.
NoTxTwice ==
    \A m, n \in 1..Tip : m # n =>
        ToSet(Txs[<<m, chain[m]>>]) \cap ToSet(Txs[<<n, chain[n]>>]) = {}

InRange == [i \in 1..(High - Low) |-> Low + i - 1]

Init ==
    /\ chain = [n \in 1..(High - 1) |-> 0] /\ branch = 0 /\ NoTxTwice
    /\ heights = InRange /\ asking = {} /\ read = <<>> /\ building = <<>>
    /\ blocks = <<>> /\ errs = {} /\ fails = 0 /\ pc = "running"

----------------------------------------------------------------------------
(* getBlocks. *)

TakeHeight ==
    /\ pc = "running" /\ heights # <<>>
    /\ Cardinality(asking) + Cardinality(DOMAIN read) < BlockWorker
    /\ asking' = asking \cup {Head(heights)} /\ heights' = Tail(heights)
    /\ UNCHANGED <<nodeVars, read, building, blocks, errs, fails, pc>>

\* eth_getBlockByNumber, again until there is an answer.
getBlockByNum(n) ==
    /\ pc = "running" /\ n \in asking /\ n <= Tip
    /\ asking' = asking \ {n} /\ read' = Put(read, n, BlockAt(n))
    /\ UNCHANGED <<nodeVars, heights, building, blocks, errs, fails, pc>>

\* No answer after FetchRetryTimes: log.Fatal.
NoBlock(n) ==
    /\ pc = "running" /\ n \in asking /\ fails < MaxFails
    /\ fails' = fails + 1 /\ pc' = "exited"
    /\ UNCHANGED <<nodeVars, heights, asking, read, building, blocks, errs>>

----------------------------------------------------------------------------
(* batchDealBlock, createBlockInfo. *)

Batch == Max({TxBatch, 1})

Workers == Max({TxWorker, 1})

groupTxs(ts) ==
    [k \in 1..((Len(ts) + Batch - 1) \div Batch) |->
        SubSeq(ts, (k - 1) * Batch + 1, Min({k * Batch, Len(ts)}))]

\* A worker takes a block: the groups wait in a channel; receipts[k] holds the
\* answer for group k until it is appended to the transactions.
TakeBlock(n) ==
    /\ pc = "running" /\ n \in DOMAIN read /\ Cardinality(DOMAIN building) < BlockWorker
    /\ building' = Put(building, n,
           [blk |-> read[n], groups |-> groupTxs(Txs[read[n].hash]),
            left |-> DOMAIN groupTxs(Txs[read[n].hash]),
            receipts |-> <<>>, txs |-> <<>>, failed |-> FALSE, traces |-> <<>>])
    /\ read' = Without(read, n)
    /\ UNCHANGED <<nodeVars, heights, asking, blocks, errs, fails, pc>>

\* The groups the workers hold: the first ones not done.
InHand(b) == {k \in b.left : Cardinality({j \in b.left : j < k}) < Workers}

\* The block of the chain that has the transaction, if any.
Holder(t) == {BlockAt(n).hash : n \in {m \in 1..Tip : t \in ToSet(Txs[BlockAt(m).hash])}}

\* eth_getTransactionReceipt: the receipt says what the transaction did in the
\* block that has it now.
Receipt(t) == [tx |-> t, at |-> Holder(t)]

\* The group waits for an answer.
AsksReceipts(n, k) ==
    /\ pc = "running" /\ n \in DOMAIN building
    /\ k \in InHand(building[n]) /\ k \notin DOMAIN building[n].receipts

NoneIsNull(g) == \A i \in DOMAIN g : Holder(g[i]) # {}

createTxBatch(n, k) ==
    /\ AsksReceipts(n, k) /\ NoneIsNull(building[n].groups[k])
    /\ building' = [building EXCEPT ![n].receipts =
           Put(@, k, [i \in DOMAIN building[n].groups[k] |-> Receipt(building[n].groups[k][i])])]
    /\ UNCHANGED <<nodeVars, heights, asking, read, blocks, errs, fails, pc>>

\* Under the lock.
AppendTxs(n, k) ==
    /\ pc = "running" /\ n \in DOMAIN building /\ k \in DOMAIN building[n].receipts
    /\ building' = [building EXCEPT ![n].txs = @ \o building[n].receipts[k],
                                    ![n].receipts = Without(@, k),
                                    ![n].left = @ \ {k}]
    /\ UNCHANGED <<nodeVars, heights, asking, read, blocks, errs, fails, pc>>

\* Mutant: the error of a group is only logged.
SetFailed_Logged(b) == b

SetFailed(b) == [b EXCEPT !.failed = TRUE]

\* No receipts after ReceiptRetryTimes.
GroupFails(n, k) ==
    /\ AsksReceipts(n, k)
    /\ building' = [building EXCEPT ![n] = SetFailed([building[n] EXCEPT !.left = @ \ {k}])]
    /\ UNCHANGED <<nodeVars, heights, asking, read, blocks, errs, pc>>

\* The call fails.
NoReceipts(n, k) == fails < MaxFails /\ fails' = fails + 1 /\ GroupFails(n, k)

\* The node has no such transaction any more: a null receipt is an error, too.
NullReceipt(n, k) ==
    /\ GroupFails(n, k) /\ ~NoneIsNull(building[n].groups[k]) /\ UNCHANGED fails

\* Mutant: nobody reads the errors, and the worker waits.
BlockFails_Unread(n) == FALSE

\* The groups are done, one failed: the block is given up.
BlockFails(n) ==
    /\ pc = "running" /\ n \in DOMAIN building
    /\ building[n].left = {} /\ building[n].failed
    /\ errs' = errs \cup {n} /\ building' = Without(building, n)
    /\ UNCHANGED <<nodeVars, heights, asking, read, blocks, fails, pc>>

\* The traces of an empty block are not asked for.
NeedsTraces(b) == IsDealInternal /\ b.groups # <<>> /\ b.traces = <<>>

\* By number, and until the node answers.
GetTxInternalsByBlock(n) ==
    /\ pc = "running" /\ n \in DOMAIN building
    /\ building[n].left = {} /\ ~building[n].failed /\ NeedsTraces(building[n])
    /\ building' = [building EXCEPT ![n].traces = <<BlockAt(n).hash>>]
    /\ UNCHANGED <<nodeVars, heights, asking, read, blocks, errs, fails, pc>>

SendBlock(n) ==
    /\ pc = "running" /\ n \in DOMAIN building
    /\ building[n].left = {} /\ ~building[n].failed /\ ~NeedsTraces(building[n])
    /\ blocks' = Put(blocks, n, [blk |-> building[n].blk, txs |-> building[n].txs,
                                 traces |-> building[n].traces])
    /\ building' = Without(building, n)
    /\ UNCHANGED <<nodeVars, heights, asking, read, errs, fails, pc>>

\* Mutant: Run goes on as soon as the heights are taken.
NothingLeft_Taken == heights = <<>> /\ building = <<>>

NothingLeft == heights = <<>> /\ asking = {} /\ read = <<>> /\ building = <<>>

\* The workers have ended, the channels are closed: Run has all there is.
Return ==
    /\ pc = "running" /\ NothingLeft /\ pc' = "returned"
    /\ UNCHANGED <<nodeVars, heights, asking, read, building, blocks, errs, fails>>

Works ==
    \/ TakeHeight \/ Return
    \/ \E n \in asking : getBlockByNum(n)
    \/ \E n \in DOMAIN read : TakeBlock(n)
    \/ \E n \in DOMAIN building :
          \/ BlockFails(n) \/ GetTxInternalsByBlock(n) \/ SendBlock(n)
          \/ \E k \in DOMAIN building[n].groups :
                createTxBatch(n, k) \/ NullReceipt(n, k) \/ AppendTxs(n, k)

Fails ==
    \/ \E n \in asking : NoBlock(n)
    \/ \E n \in DOMAIN building : \E k \in DOMAIN building[n].groups : NoReceipts(n, k)

Next == Works \/ Fails \/ (NodeStep /\ NoTxTwice' /\ UNCHANGED workVars)

Spec == Init /\ [][Next]_vars

\* The workers are goroutines and the node answers.
FairSpec == Spec /\ WF_vars(Works)

----------------------------------------------------------------------------
(* Properties. *)

TypeOK ==
    /\ NodeTypeOK /\ pc \in {"running", "returned", "exited"}
    /\ ToSet(heights) \cup asking \cup DOMAIN read \cup DOMAIN building
          \cup DOMAIN blocks \cup errs \subseteq Low..(High - 1)
    /\ \A n \in DOMAIN building : building[n].blk \in Block /\ building[n].blk.num = n
    /\ \A n \in DOMAIN blocks : blocks[n].blk \in Block /\ blocks[n].blk.num = n

\* What belongs to a block: its transactions, each as it ran in that block,
\* and its own traces.
Whole(b) ==
    /\ Len(b.txs) = Len(Txs[b.blk.hash])
    /\ ToSet(b.txs) = {[tx |-> t, at |-> {b.blk.hash}] : t \in ToSet(Txs[b.blk.hash])}
    /\ IsDealInternal /\ b.txs # <<>> => b.traces = <<b.blk.hash>>

\* The header, the receipts and the traces of a block are read at different
\* times.  A block put together from two branches is one the node has abandoned,
\* whose revert will follow.
WholeOrOrphan ==
    \A n \in DOMAIN blocks : Whole(blocks[n]) \/ ~Canonical(blocks[n].blk)

\* With one worker for the receipts, the transactions keep their order, which
\* the owner of a token depends on.
TxsInOrder ==
    Workers = 1 => \A n \in DOMAIN blocks :
        [i \in DOMAIN blocks[n].txs |-> blocks[n].txs[i].tx] = Txs[blocks[n].blk.hash]

\* The round ends: no worker waits for another one for ever.
Returns == <>(pc # "running")

Headers ==
    [n \in DOMAIN read \cup DOMAIN building \cup DOMAIN blocks |->
        IF n \in DOMAIN read THEN read[n]
        ELSE IF n \in DOMAIN building THEN building[n].blk ELSE blocks[n].blk]

Round == INSTANCE FetchRound WITH
    got <- IF errs # {} \/ pc = "exited" THEN <<>> ELSE Headers,
    outcome <- IF errs # {} \/ pc = "exited" THEN "error"
               ELSE IF pc = "returned" THEN "blocks" ELSE "running"

\* To Run, the workers are one read of each block: all or none.
IsOneRound == Round!RoundSpec
=============================================================================

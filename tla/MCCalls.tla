------------------------------ MODULE MCCalls ------------------------------
(***************************************************************************)
(* Instances for TLC of the calls the other modules take as one step: the   *)
(* round of the fetcher, the queries for blocks, the call of the contract   *)
(* and the inserts.  They share no state; Init chooses one of them.         *)
(***************************************************************************)
EXTENDS GetBlocks

CONSTANT Chosen

VARIABLES
    call,
    readRows, readPc, readTask, start, end, found, logs, hashes, readTxs,
    multiPc, groups, returnData, blockNumber, head, multiTries, multiLost,
    savePc, op, saveRows, i, draft, table, saveTries, first, saveLost

----------------------------------------------------------------------------
(* GetBlocks: the blocks of two heights on two branches, which share        *)
(* transactions at other places; no chain has one twice.                    *)

TxsOfBlocks ==
    [h \in (0..3) \X (0..1) |->
        CASE h = <<1, 0>> -> <<"a", "b", "c">>
          [] h = <<1, 1>> -> <<"b", "d">>
          [] h = <<2, 0>> -> <<"d">>
          [] OTHER -> <<>>]

Gains == {0}

\* The same with one worker for the receipts of a block.
OneWorker == INSTANCE GetBlocks WITH TxWorker <- 1, TxBatch <- 2

----------------------------------------------------------------------------
(* getBlocksByRangeAndState: two blocks at height 1, which share a          *)
(* transaction with other logs, and two at height 2.                        *)

Log(e, n) == [event |-> e, topics |-> n]

Tx(h, ls) == [hash |-> h, logs |-> ls]

Erc20Log == Log("Transfer", 3)
Erc721Log == Log("Transfer", 4)

BlockTree ==
    {[num |-> 1, hash |-> "a", parent |-> "genesis", txs |->
        <<Tx(1, <<Erc20Log, Erc721Log, Log("TransferSingle", 4)>>),
          Tx(2, <<Log("Sync", 1), Erc721Log>>)>>],
     [num |-> 1, hash |-> "b", parent |-> "genesis", txs |->
        <<Tx(2, <<Erc721Log, Log("TransferBatch", 4), Log("other", 0)>>),
          Tx(3, <<Log("Sync", 2), Erc20Log>>)>>],
     [num |-> 2, hash |-> "c", parent |-> "a", txs |->
        <<Tx(4, <<Log("TransferBatch", 2), Log("Transfer", 2), Erc20Log>>),
          Tx(3, <<Erc721Log, Log("Sync", 1)>>)>>],
     [num |-> 2, hash |-> "d", parent |-> "b", txs |->
        <<Tx(1, <<Erc721Log, Log("Sync", 1)>>)>>]}

Reader == INSTANCE BlockReader
    WITH Blocks <- BlockTree, HashChunk <- 1, MaxSaved <- 4,
         rows <- readRows, pc <- readPc, task <- readTask, txs <- readTxs

----------------------------------------------------------------------------
(* MultiCall: five calls, of which the fourth always fails. *)

Multi == INSTANCE MultiCall
    WITH Inputs <- <<"a", "b", "c", "d", "e">>, Bad <- {"d"}, MinHeight <- 2,
         FirstHead <- 1, MaxHead <- 3, MaxLost <- 2, FetchRetryTimes <- 1,
         pc <- multiPc, tries <- multiTries, lost <- multiLost

----------------------------------------------------------------------------
(* The inserts: three rows for two keys. *)

ThreeRows == {[key |-> "k", val |-> [who |-> "a", much |-> 1]],
              [key |-> "k", val |-> [who |-> "b", much |-> 2]],
              [key |-> "j", val |-> [who |-> "c", much |-> 1]]}

Writer == INSTANCE TableWriter
    WITH Rows <- ThreeRows, Before <- {<<>>} \cup {<<r>> : r \in ThreeRows},
         MaxRows <- 3, SqlBatch <- 2, RetryTimes <- 1,
         pc <- savePc, rows <- saveRows, tries <- saveTries, lost <- saveLost

NothingToSave ==
    /\ savePc = "begin" /\ op = "insertTxs" /\ saveRows = <<>> /\ i = 0 /\ draft = <<>>
    /\ table = <<>> /\ saveTries = 0 /\ first = <<>> /\ saveLost = FALSE

ASSUME MCCallsAssumption ==
    Reader!BlockReaderConstants /\ Multi!MultiCallConstants /\ Writer!TableWriterConstants

----------------------------------------------------------------------------
CallsInit ==
    /\ call \in Chosen /\ Init /\ Reader!Init /\ Multi!Init
    /\ IF call = "writer" THEN Writer!Init ELSE NothingToSave

readerVars == <<readRows, readPc, readTask, start, end, found, logs, hashes, readTxs>>
multiVars == <<multiPc, groups, returnData, blockNumber, head, multiTries, multiLost>>
saveVars == <<savePc, op, saveRows, i, draft, table, saveTries, first, saveLost>>

RoundDoes(A) ==
    A /\ UNCHANGED <<call, readerVars, multiVars, saveVars>>

MultiDoes(A) ==
    call = "multicall" /\ A /\ UNCHANGED <<call, vars, readerVars, saveVars>>

CallsNext ==
    \/ call = "getblocks" /\ RoundDoes(Next)
    \/ call = "one_worker" /\ RoundDoes(OneWorker!Next)
    \/ /\ call = "reader" /\ Reader!Next
       /\ UNCHANGED <<call, vars, multiVars, saveVars>>
    \/ MultiDoes(Multi!Next)
    \/ /\ call = "writer" /\ Writer!Next
       /\ UNCHANGED <<call, vars, readerVars, multiVars>>

CallsVars == <<call, vars, readerVars, multiVars, saveVars>>

\* The workers are goroutines and the node answers.
FairCalls ==
    /\ CallsInit /\ [][CallsNext]_CallsVars
    /\ WF_CallsVars(call = "getblocks" /\ RoundDoes(Works))
    /\ WF_CallsVars(MultiDoes(Multi!Answer))
    /\ WF_CallsVars(MultiDoes(Multi!Split \/ Multi!GiveUp))
    /\ WF_CallsVars(MultiDoes(Multi!Accept \/ Multi!Refuse))

----------------------------------------------------------------------------
\* The call comes back: in a round no worker waits for another one for ever,
\* and the halving of a group that fails ends, once the chain is high enough.
CallsReturn ==
    /\ call = "getblocks" => Returns
    /\ call = "multicall" => Multi!Ends

\* A block handed over is whole, or was abandoned meanwhile: one put together
\* from several answers of the node, and one put together from several tables,
\* where the blocks also come by number, each once.
BlocksWhole ==
    /\ WholeOrOrphan
    /\ call = "one_worker" => OneWorker!TxsInOrder
    /\ Reader!HandledAlike /\ Reader!ByNumber

\* The outputs of a group that was cut to pieces match the balances they are
\* for, none is lost but by its own failure, and none is older than said.
OutputsMatch == Multi!Aligned /\ Multi!OnlyFailedMissing /\ Multi!AcceptedHeight

\* A save reported done wrote every row once, in whatever pieces it was tried;
\* one that was never committed wrote none.
SavedOnce == Writer!SavedIsWritten /\ Writer!NothingInPart
=============================================================================

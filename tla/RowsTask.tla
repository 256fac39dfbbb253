------------------------------ MODULE RowsTask ------------------------------
(***************************************************************************)
(* The task erc1155_basic, src/task/erc1155_task.go, the plainest of the    *)
(* three that erc20_tx and erc721_basic resemble: each block adds rows to a *)
(* table of transfers, a revert marks them, and the table has no unique     *)
(* key.  The rows of a block, of one or several transfers, are one row      *)
(* here: they are inserted and marked together.                             *)
(***************************************************************************)
EXTENDS AsyncTask

CONSTANTS
    MaxBlockCount,   \* config: blocks saved together, at most
    LostAnswers      \* fault: a commit may be done and reported as failed

ASSUME RowsTaskAssumption ==
    /\ MaxBlockCount \in Nat \ {0} /\ BatchBlockCount \in Nat \ {0}
    /\ LostAnswers \in BOOLEAN

VARIABLE rows        \* tx_erc20, tx_erc721 or tx_erc1155, oldest first

OkRows == {i \in DOMAIN rows : rows[i].state = "ok"}

OkBlocks == {rows[i].blk : i \in OkRows}

\* A task starts with the rows of the blocks up to its height.
InitRows == rows = [i \in 1..StartNumber |-> [blk |-> StartChain[i], state |-> "ok"]]

InsertRows(bs) ==
    rows' = rows \o [i \in DOMAIN bs |-> [blk |-> bs[i], state |-> "ok"]]

\* Mutant: the rows are deleted by state, not by block.
MarkRows_All(n) ==
    rows' = [i \in DOMAIN rows |-> [rows[i] EXCEPT !.state = "revert"]]

\* Mutant: the rows above the height the task goes back to, but one.
MarkRows_Above(n) ==
    rows' = [i \in DOMAIN rows |-> IF rows[i].blk.num > n
                                   THEN [rows[i] EXCEPT !.state = "revert"]
                                   ELSE rows[i]]

\* update ... set block_state = 1 where block_num = n
MarkRows(n) ==
    rows' = [i \in DOMAIN rows |-> IF rows[i].blk.num = n
                                   THEN [rows[i] EXCEPT !.state = "revert"]
                                   ELSE rows[i]]

\* fixHistoryData: BatchBlockCount blocks from curHeight + 1 on.
RangeEnd == curHeight + BatchBlockCount

Answered == ReadFound(RangeEnd) \/ Skip(RangeEnd, "loop")

FixHistoryData == Answered \/ ReadFails

\* Rows and height are written in one transaction.
SaveWithHeight ==
    /\ pc = "save"
    /\ InsertRows(batch) /\ taskNum' = Last(batch).num
    /\ Saved
    /\ UNCHANGED <<cache, latestHeight, compensation, feedVars,
                   envVars, history>>

SaveFails ==
    /\ pc = "save" /\ Retry
    /\ UNCHANGED <<rows, feedVars, taskNum, envVars, history>>

SaveAnswerLost ==
    /\ LostAnswers /\ pc = "save" /\ Retry
    /\ InsertRows(batch) /\ taskNum' = Last(batch).num
    /\ UNCHANGED <<feedVars, envVars, history>>

\* doRevert: one transaction too.  It marks the rows of one height.
MarkedWithHeight ==
    /\ MarkRows(inHand[1].blk.num) /\ taskNum' = inHand[1].blk.num - 1
    /\ astray' = astray \cup LeftAbove(OkBlocks)
    /\ UNCHANGED <<feedVars, envVars, skipped, gone>>

Revert ==
    /\ pc = "revert" /\ MarkedWithHeight /\ Reverted
    /\ UNCHANGED <<cache, compensation, todo, batch>>

RevertFails ==
    /\ pc = "revert" /\ Retry
    /\ UNCHANGED <<rows, feedVars, taskNum, envVars, history>>

RevertAnswerLost ==
    /\ LostAnswers /\ pc = "revert" /\ Retry /\ MarkedWithHeight

RowsInit == Init /\ InitRows

Handle == Cut(MaxBlockCount, "save")

Step == \/ LoopStep /\ UNCHANGED rows
        \/ (FixHistoryData \/ Handle) /\ UNCHANGED rows
        \/ SaveWithHeight \/ Revert

Failure == SaveFails \/ SaveAnswerLost \/ RevertFails \/ RevertAnswerLost

RowsNext == \/ Step \/ Failure
            \/ (Environment \/ Restart(OkBlocks \ ToSet(chain), {})) /\ UNCHANGED rows

rowsVars == <<pc, loopVars, workVars, feedVars, taskNum, envVars, history, rows>>

RowsSpec == RowsInit /\ [][RowsNext]_rowsVars

----------------------------------------------------------------------------
(* Properties. *)

RowsTypeOK ==
    /\ LoopTypeOK
    /\ rows \in Seq([blk : Blocks, state : {"ok", "revert"}])

\* "curHeight + 1 is what is compared: in no case is anything written twice":
\* no height has the rows of two blocks, or of one block twice, that count.
NoBlockTwice == \A i, j \in OkRows : rows[i].blk.num = rows[j].blk.num => i = j

\* What is true of it, where rows and height are committed together and no
\* commit is reported as failed: whatever order feed, base_data, catch-up,
\* failures, crashes and restarts come in, a height that counts twice means
\* that a block went astray.
OnlyStraysTwice ==
    \A i, j \in OkRows :
        rows[i].blk.num = rows[j].blk.num =>
            i = j \/ rows[i].blk \in astray \/ rows[j].blk \in astray

\* A step writes the rows of a block again only where the height did not tell:
\* a crash came before it was recorded, a commit was reported as failed, or the
\* block went astray.
TwiceOnlyUnrecorded ==
    [][\A i \in DOMAIN rows' \ DOMAIN rows :
          \A j \in OkRows : rows'[i].blk = rows[j].blk =>
              \/ rows[j].blk.num > taskNum \/ tries > 0
              \/ rows[j].blk \in astray]_rowsVars

\* A block the feed took back is not left with rows that count: its revert is
\* on its way to the task or in its hands.  The exceptions are the blocks that
\* went astray: catch-up read them, from the cache or from tables base_data
\* had not updated, after their revert had been received, or a restart found
\* their rows when base_data had not saved them, or had reverted them.
RowsStand ==
    pc \in Running =>
        \A b \in OkBlocks : Stands(b) \/ ToRevert(b) \/ b \in astray

\* Nothing is missed: the blocks that stand below the height of the task have
\* their rows, or are about to be reverted and to come again.  The exceptions
\* are the heights catch-up passed without a block, and those a block that
\* went astray has taken.
NothingMissed == pc \in Subscribed => NothingOwed(OkBlocks)

\* The height in the table async_task is never above the blocks that have
\* rows: what a restart passes over is written, or was passed by catch-up.
HeightIsWritten ==
    \A n \in 1..taskNum : n \in skipped \/ \E b \in OkBlocks : b.num = n

\* The task does not stay behind the last event it received, while it runs.
CatchesUp == <>[](curHeight >= latestHeight \/ pc \notin Running)
=============================================================================

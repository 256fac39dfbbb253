---------------------------- MODULE BaseStorage ----------------------------
(***************************************************************************)
(* BaseStorageTask, src/task/basedata_storage_task.go: the task that writes *)
(* the blocks of the feed to the database, and what a restart makes of what *)
(* it has written.  Blocks are collected and saved in batches, one database *)
(* transaction per block; a revert first saves what was collected and then  *)
(* marks the rows of its block.                                             *)
(*                                                                          *)
(* The feed is any sequence of events ChainLog allows, over the tree of     *)
(* blocks Blocks.  The database survives crashes; a restarted fetcher goes  *)
(* on from the chain it finds there.  A database call may fail before or    *)
(* after it took effect (the commit is done and its answer is lost), and is *)
(* retried at most RetryTimes times before the process exits.               *)
(***************************************************************************)
EXTENDS Feed, SequencesExt

CONSTANTS
    BufferSize,     \* config: capacity of blockChan
    MaxBlockCount,  \* config: more blocks than this are saved at once
    RetryTimes,     \* config: how often a failed database call is retried
    MaxEvents,      \* bound: events the feed sends
    MaxRestarts     \* bound: how many times the process is started again

ASSUME BaseStorageAssumption ==
    /\ \A b \in Blocks : b.num \in Nat \ {0}
    /\ \A b \in Blocks : b.num = 1 <=> b.parent = GenesisHash
    /\ \A b, c \in Blocks : /\ b.hash = c.hash => b = c
                            /\ b.parent = c.hash => b.num = c.num + 1
    /\ BufferSize \in Nat \ {0}
    /\ MaxBlockCount \in Nat /\ RetryTimes \in Nat
    /\ MaxEvents \in Nat /\ MaxRestarts \in Nat

VARIABLES
    spc,            \* where Start is
    blockChan,      \* the channel of events not yet received
    blocks,         \* Start's variable blocks: collected, not yet saved
    curHeight,      \* BaseStorageTask.curHeight
    inHand,         \* the event being handled, if any
    saved,          \* saveBlocks: how many of the blocks it has gone through
    tries,          \* HandleErrorWithRetryMaxTime: how many attempts failed
    rows,           \* the table block, in insertion order
    contracts,      \* the table contract: address -> number of its block
    sent,           \* the chain described by the events sent so far
    events,         \* how many events were sent
    stopping,       \* Process.Run has stopped the fetcher and stops the tasks
    restarts,       \* how many times the process was started again
    late            \* history: an event was sent before the task subscribed,
                    \* since the process was started

taskVars == <<spc, blocks, curHeight, inHand, saved, tries>>
dbVars   == <<rows, contracts>>
envVars  == <<sent, events, stopping, restarts, late>>
vars == <<taskVars, blockChan, dbVars, envVars>>

Running == {"created", "subscribed", "select", "save", "mark"}

----------------------------------------------------------------------------
(* The database. *)

OkRows == {i \in DOMAIN rows : rows[i].state = "ok"}

OkBlocks == {rows[i].blk : i \in OkRows}

\* GetCurrentMainBlockNum: the highest block that is not reverted, or 0.
MainBlockNum == Max({b.num : b \in OkBlocks} \cup {0})

\* The blocks that are not reverted, by number, as a restarted fetcher reads
\* them; genesis has its row from elsewhere.  No number is missing: NoGaps.
DBChain == [n \in 1..MainBlockNum |-> CHOOSE b \in OkBlocks : b.num = n]

\* Mutant: a block saved by an attempt that failed later is saved again.
Exists_Never(b) == FALSE

\* GetBlockByNumAndState(b.Number, ok): whether a row has this number.
Exists(b) == \E i \in OkRows : rows[i].blk.num = b.num

\* The transaction that saves b.  A contract whose address is already in the
\* table is ignored (INSERT IGNORE on the unique key addr).
Insert(b) ==
    /\ rows' = Append(rows, [blk |-> b, state |-> "ok"])
    /\ contracts' = [a \in DOMAIN contracts \cup b.creates |->
                        IF a \in DOMAIN contracts THEN contracts[a] ELSE b.num]

\* Mutant: only the rows above the reverted block are marked.
MarkReverted_Above(n) ==
    /\ rows' = [i \in DOMAIN rows |->
                   IF i \in OkRows /\ rows[i].blk.num > n
                   THEN [rows[i] EXCEPT !.state = "revert"] ELSE rows[i]]
    /\ UNCHANGED contracts

\* UpdateBlockSate(n, revert), of the tables block, tx, tx_log, tx_internal.
MarkReverted(n) ==
    /\ rows' = [i \in DOMAIN rows |->
                   IF i \in OkRows /\ rows[i].blk.num = n
                   THEN [rows[i] EXCEPT !.state = "revert"] ELSE rows[i]]
    /\ UNCHANGED contracts

----------------------------------------------------------------------------
(* The process starts; the fetcher feeds. *)

Fresh ==
    /\ spc' = "created" /\ blockChan' = <<>> /\ blocks' = <<>>
    /\ curHeight' = 0 /\ inHand' = <<>> /\ saved' = 0 /\ tries' = 0
    /\ stopping' = FALSE
    /\ sent' = DBChain

Init ==
    /\ spc = "created" /\ blockChan = <<>> /\ blocks = <<>>
    /\ curHeight = 0 /\ inHand = <<>> /\ saved = 0 /\ tries = 0
    /\ rows = <<>> /\ contracts = [a \in {} |-> 0]
    /\ sent = <<>> /\ events = 0 /\ stopping = FALSE /\ restarts = 0
    /\ late = FALSE

\* The fetcher sends an event; Feed.Send returns when there is room for it.
\* An event is lost that is sent before the task has subscribed.  Process.Run
\* starts both as goroutines, in no order, and nothing makes the fetcher wait.
Publish(e) ==
    /\ spc \in Running /\ ~stopping
    /\ events < MaxEvents /\ events' = events + 1
    /\ Follows(e, sent) /\ sent' = Applied(sent, e)
    /\ IF spc = "created"
       THEN late' = TRUE /\ UNCHANGED blockChan
       ELSE /\ Len(blockChan) < BufferSize /\ blockChan' = Append(blockChan, e)
            /\ UNCHANGED late
    /\ UNCHANGED <<taskVars, dbVars, stopping, restarts>>

\* SIGTERM and the like: Process.Run stops the fetcher, then this task.
Signal ==
    /\ spc \in Running /\ ~stopping
    /\ stopping' = TRUE
    /\ UNCHANGED <<taskVars, blockChan, dbVars, sent, events, restarts, late>>

Crash ==
    /\ spc \in Running
    /\ spc' = "down"
    /\ UNCHANGED <<blocks, curHeight, inHand, saved, tries, blockChan, dbVars,
                   envVars>>

Restart ==
    /\ spc \notin Running /\ restarts < MaxRestarts
    /\ restarts' = restarts + 1
    /\ Fresh /\ late' = FALSE
    /\ UNCHANGED <<dbVars, events>>

----------------------------------------------------------------------------
(* Start. *)

Subscribe ==
    /\ spc = "created"
    /\ spc' = "subscribed"
    /\ UNCHANGED <<blocks, curHeight, inHand, saved, tries, blockChan, dbVars,
                   envVars>>

\* With StartHeight = 0; an error of the query ends the process.
LoadHeight ==
    /\ spc = "subscribed"
    /\ \/ spc' = "select" /\ curHeight' = MainBlockNum
       \/ spc' = "exited" /\ UNCHANGED curHeight
    /\ UNCHANGED <<blocks, inHand, saved, tries, blockChan, dbVars, envVars>>

Stop ==
    /\ spc = "select" /\ stopping
    /\ spc' = "stopped"
    /\ UNCHANGED <<blocks, curHeight, inHand, saved, tries, blockChan, dbVars,
                   envVars>>

\* Mutant: the timer does not save the last blocks.
Timer_Waits ==
    /\ spc = "select" /\ Len(blocks) > 1
    /\ spc' = "save"
    /\ UNCHANGED <<blocks, curHeight, inHand, saved, tries, blockChan, dbVars,
                   envVars>>

Timer ==
    /\ spc = "select" /\ blocks # <<>>
    /\ spc' = "save"
    /\ UNCHANGED <<blocks, curHeight, inHand, saved, tries, blockChan, dbVars,
                   envVars>>

\* A block that does not fit curHeight: log.Fatalf.
Unexpected(e) == \/ e.blk.num > curHeight + 1
                 \/ e.state = "ok" /\ e.blk.num # curHeight + 1

ReceiveUnexpected ==
    /\ spc = "select" /\ blockChan # <<>>
    /\ Unexpected(Head(blockChan))
    /\ blockChan' = Tail(blockChan)
    /\ spc' = "fatal"
    /\ UNCHANGED <<blocks, curHeight, inHand, saved, tries, dbVars, envVars>>

\* Mutant: one block more is collected.
Fits_Late(bs) == Len(bs) <= MaxBlockCount + 1

Fits(bs) == Len(bs) <= MaxBlockCount

\* A block is collected; a full batch is saved.  The batch may also be full
\* for its transactions and logs (MaxTxCount, MaxLogCount).
ReceiveBlock ==
    /\ spc = "select" /\ blockChan # <<>>
    /\ LET e == Head(blockChan)
       IN  /\ e.state = "ok" /\ ~Unexpected(e)
           /\ blocks' = Append(blocks, e.blk)
           /\ \/ spc' = "save" /\ inHand' = <<e>> /\ UNCHANGED curHeight
              \/ /\ Fits(Append(blocks, e.blk))
                 /\ curHeight' = e.blk.num
                 /\ UNCHANGED <<spc, inHand>>
    /\ blockChan' = Tail(blockChan)
    /\ UNCHANGED <<saved, tries, dbVars, envVars>>

\* Mutant: a revert does not wait for the blocks collected before it.
NextAfterRevert_Unsaved == "mark"

NextAfterRevert == IF blocks # <<>> THEN "save" ELSE "mark"

ReceiveRevert ==
    /\ spc = "select" /\ blockChan # <<>>
    /\ LET e == Head(blockChan)
       IN  /\ e.state = "revert" /\ ~Unexpected(e)
           /\ inHand' = <<e>>
    /\ blockChan' = Tail(blockChan)
    /\ spc' = NextAfterRevert
    /\ UNCHANGED <<blocks, curHeight, saved, tries, dbVars, envVars>>

----------------------------------------------------------------------------
(* HandleErrorWithRetry around saveBlocks and UpdateBlockSate. *)

\* Mutant: another attempt goes on after the block that failed.
Resume_After == saved + 1

\* Another attempt starts saveBlocks again from its first block.
Resume == 0

Retry ==
    /\ tries' = tries + 1
    /\ spc' = IF tries' > RetryTimes THEN "exited" ELSE spc
    /\ saved' = Resume
    /\ UNCHANGED <<blocks, curHeight, inHand, blockChan, envVars>>

Saving == spc = "save" /\ saved < Len(blocks)

SaveBlock ==
    /\ Saving
    /\ saved' = saved + 1
    /\ IF Exists(blocks[saved + 1]) THEN UNCHANGED dbVars
       ELSE Insert(blocks[saved + 1])
    /\ UNCHANGED <<spc, blocks, curHeight, inHand, tries, blockChan, envVars>>

\* A query, a statement or the commit fails: the transaction has no effect.
SaveFails ==
    /\ Saving
    /\ Retry
    /\ UNCHANGED dbVars

\* The commit is done but reported as failed.
SaveAnswerLost ==
    /\ Saving /\ ~Exists(blocks[saved + 1])
    /\ Insert(blocks[saved + 1])
    /\ Retry

SaveDone ==
    /\ spc = "save" /\ saved = Len(blocks)
    /\ blocks' = <<>> /\ saved' = 0 /\ tries' = 0
    /\ IF inHand = <<>>
       THEN spc' = "select" /\ UNCHANGED <<curHeight, inHand>>
       ELSE IF inHand[1].state = "ok"
       THEN spc' = "select" /\ curHeight' = inHand[1].blk.num /\ inHand' = <<>>
       ELSE spc' = "mark" /\ UNCHANGED <<curHeight, inHand>>
    /\ UNCHANGED <<blockChan, dbVars, envVars>>

\* A revert of another block than the one on top: log.Fatalf.
MarkUnexpected ==
    /\ spc = "mark" /\ inHand[1].blk.num # curHeight
    /\ spc' = "fatal"
    /\ UNCHANGED <<blocks, curHeight, inHand, saved, tries, blockChan, dbVars,
                   envVars>>

Marking == spc = "mark" /\ inHand[1].blk.num = curHeight

\* Mutant: the reverted block still counts.
AfterRevert_Same == inHand[1].blk.num

AfterRevert == inHand[1].blk.num - 1

Mark ==
    /\ Marking
    /\ MarkReverted(inHand[1].blk.num)
    /\ curHeight' = AfterRevert
    /\ spc' = "select" /\ inHand' = <<>> /\ tries' = 0
    /\ UNCHANGED <<blocks, saved, blockChan, envVars>>

MarkFails ==
    /\ Marking
    /\ Retry
    /\ UNCHANGED dbVars

MarkAnswerLost ==
    /\ Marking
    /\ MarkReverted(inHand[1].blk.num)
    /\ Retry

----------------------------------------------------------------------------
Step == \/ Subscribe \/ LoadHeight
        \/ ReceiveUnexpected \/ ReceiveBlock \/ ReceiveRevert
        \/ SaveBlock \/ SaveDone \/ MarkUnexpected \/ Mark

Failure == SaveFails \/ SaveAnswerLost \/ MarkFails \/ MarkAnswerLost

Next == \/ \E e \in Event : Publish(e)
        \/ Step
        \/ Timer
        \/ Stop
        \/ Failure
        \/ Signal \/ Crash \/ Restart

Spec == Init /\ [][Next]_vars

\* The goroutine runs when it can; the timer fires when no event resets it.
Fairness == WF_vars(Step) /\ WF_vars(Timer) /\ WF_vars(Stop)

FairSpec == Spec /\ Fairness

----------------------------------------------------------------------------
(* Properties. *)

Row == [blk : Blocks, state : {"ok", "revert"}]

\* Type invariant.
TypeOK ==
    /\ spc \in Running \cup {"stopped", "exited", "fatal", "down"}
    /\ blockChan \in Seq(Event) /\ Len(blockChan) <= BufferSize
    /\ blocks \in Seq(Blocks) /\ Len(blocks) <= MaxBlockCount + 1
    /\ curHeight \in Nat
    /\ inHand \in Seq(Event) /\ Len(inHand) <= 1
    /\ saved \in 0..Len(blocks)
    /\ tries \in 0..(RetryTimes + 1)
    /\ rows \in Seq(Row)
    /\ \A a \in DOMAIN contracts : contracts[a] \in Nat
    /\ sent \in Seq(Blocks)
    /\ events \in 0..MaxEvents
    /\ stopping \in BOOLEAN
    /\ restarts \in 0..MaxRestarts
    /\ late \in BOOLEAN

\* The collected blocks that are not in the database yet: those after the last
\* one that is.
Unsaved ==
    LET stored == {i \in DOMAIN blocks : blocks[i].num <= MainBlockNum}
    IN  SubSeq(blocks, Max(stored \cup {0}) + 1, Len(blocks))

\* The events the task still has to apply to what it has collected.
ToApply == IF inHand # <<>> /\ inHand[1].state = "revert"
           THEN inHand \o blockChan ELSE blockChan

\* While the task runs, and did not subscribe too late, nothing of the feed is
\* lost or doubled: the chain in the database, with the blocks collected and
\* the events received and in the channel applied in their order, is the chain
\* the feed describes.  It holds between two attempts too, after an answer that
\* was lost.  A contract that a stored block creates has its row, which a
\* revert leaves behind.
DBFollowsFeed ==
    /\ spc \in Running /\ ~late =>
           FoldLeft(Applied, DBChain \o Unsaved, ToApply) = sent
    /\ \A i \in OkRows : rows[i].blk.creates \subseteq DOMAIN contracts

\* "state=1 block 只有一条记录": a height has one row that is not reverted,
\* whatever was retried.
OneOkRow == \A i, j \in OkRows : rows[i].blk.num = rows[j].blk.num => i = j

\* No height is missing below a stored one, although saves fail halfway and
\* retries skip what they find: a restart only looks at the highest row.
NoGaps ==
    \A b \in OkBlocks : \A n \in 1..b.num : \E c \in OkBlocks : c.num = n

\* The checks of Start against its own height never end the process, unless the
\* first events were lost.
NeverUnexpected == late \/ spc # "fatal"

\* When the feed pauses, every block of it reaches the database, unless the
\* process ends; one that lost events may ignore what follows.
Saved == <>[](DBChain = sent \/ spc \notin Running \/ late)

\* Unless an event was lost before the subscription, the chain in the database
\* changes as the feed may, by one block at a time, through retries, stops,
\* crashes and restarts.  A process that subscribed too late may store a block
\* on a parent that is not its own; the chain it leaves is one the restarted
\* process goes on from as it is, and nothing is said of it while it is broken.
DBLog == INSTANCE ChainLog WITH log <- DBChain, Genesis <- GenesisHash
DBImplementsChainLog ==
    DBLog!Init /\ [][DBLog!Next \/ late \/ ~DBLog!Linked(DBChain)]_DBChain
=============================================================================

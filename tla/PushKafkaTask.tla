--------------------------- MODULE PushKafkaTask ---------------------------
(***************************************************************************)
(* The task push_kafka, src/task/push_kafka_task.go: every event of the     *)
(* feed becomes a message of a Kafka topic, a reverted block included.  A   *)
(* message is sent with retries; the height is recorded after it, and an    *)
(* error there is only logged.                                              *)
(***************************************************************************)
EXTENDS AsyncTask

CONSTANTS
    RangeBlocks,     \* config: batch_block_count, blocks read together
    LostAcks,        \* fault: a message may be stored and reported as failed
    MaxFailures      \* bound: heights that could not be recorded

PushKafkaConstants ==
    RangeBlocks \in Nat /\ LostAcks \in BOOLEAN /\ MaxFailures \in Nat

VARIABLES
    topic,           \* the messages of the topic, oldest first
    failures         \* how many heights could not be recorded

vars == <<pc, feedVars, loopVars, workVars, taskNum, envVars, history, topic,
          failures>>

Message(state, b) == [state |-> state, blk |-> b]

PushInit ==
    /\ Init /\ failures = 0
    /\ topic = [i \in 1..StartNumber |-> Message("ok", StartChain[i])]

PushRangeEnd == curHeight + 1 + RangeBlocks

\* What the consumers know: the blocks announced last as standing.
LastWord(b) == LET at == {i \in DOMAIN topic : topic[i].blk = b}
               IN  IF at = {} THEN "none" ELSE topic[Max(at)].state

Announced == {b \in Blocks : LastWord(b) = "ok"}

PushHistory == ReadFound(PushRangeEnd) \/ Skip(PushRangeEnd, "loop") \/ ReadFails

\* fixHistoryData and handleBlock go through the blocks one by one.
HandleOne == Cut(1, "save")

Push ==
    /\ pc = "save" /\ topic' = Append(topic, Message("ok", batch[1]))
    /\ pc' = "record" /\ tries' = 0
    /\ UNCHANGED <<feedVars, loopVars, inHand, todo, batch, taskNum, envVars,
                   history, failures>>

\* revertBlock hands the block, which says that it is reverted, to handleBlock.
PushRevert ==
    /\ pc = "revert" /\ topic' = Append(topic, inHand[1])
    /\ batch' = <<inHand[1].blk>> /\ pc' = "record" /\ tries' = 0
    /\ astray' = astray \cup LeftAbove(Announced)
    /\ UNCHANGED <<feedVars, loopVars, inHand, todo, taskNum, envVars, skipped,
                   gone, failures>>

PushFails ==
    /\ pc \in {"save", "revert"} /\ Retry
    /\ \/ UNCHANGED topic
       \/ LostAcks /\ topic' = Append(topic, IF pc = "save" THEN Message("ok", batch[1])
                                                ELSE inHand[1])
    /\ UNCHANGED <<feedVars, taskNum, envVars, history, failures>>

RevertInHand == inHand # <<>> /\ inHand[1].state = "revert"

\* handleBlock records the height; then comes the next block, the next event,
\* or the second update: of catch-up, or of revertBlock.
Advance ==
    /\ pc = "record"
    /\ pc' = IF todo # <<>> THEN "handle"
             ELSE IF inHand = <<>> \/ RevertInHand THEN "height" ELSE "drain"
    /\ inHand' = IF pc' = "drain" THEN <<>> ELSE inHand
    /\ batch' = IF pc' = "height" THEN batch ELSE <<>>
    /\ UNCHANGED <<feedVars, cache, latestHeight, compensation, todo, tries,
                   envVars, skipped, gone, topic>>

Record ==
    /\ Advance /\ taskNum' = batch[1].num /\ curHeight' = batch[1].num
    /\ UNCHANGED <<astray, failures>>

\* The block is sent and the height is not there.
RecordFails ==
    /\ failures < MaxFailures /\ failures' = failures + 1
    /\ Advance /\ astray' = astray \cup {batch[1]}
    /\ UNCHANGED <<taskNum, curHeight>>

\* The height revertBlock goes back to.
Below == batch[1].num - 1

RecordRevert ==
    /\ pc = "height" /\ RevertInHand
    /\ \/ taskNum' = Below /\ UNCHANGED failures
       \/ /\ failures < MaxFailures /\ failures' = failures + 1
          /\ UNCHANGED taskNum
    /\ batch' = <<>> /\ Reverted
    /\ UNCHANGED <<feedVars, cache, compensation, todo, envVars, history, topic>>

\* The end of fixHistoryData.
RecordBatch ==
    /\ pc = "height" /\ ~RevertInHand
    /\ \/ /\ taskNum' = batch[1].num /\ curHeight' = batch[1].num
          /\ UNCHANGED failures
       \/ /\ failures < MaxFailures /\ failures' = failures + 1
          /\ UNCHANGED <<taskNum, curHeight>>
    /\ batch' = <<>> /\ pc' = "loop"
    /\ UNCHANGED <<feedVars, cache, latestHeight, compensation, inHand, todo,
                   tries, envVars, history, topic>>

PushStep == \/ (LoopStep \/ PushHistory \/ HandleOne) /\ UNCHANGED <<topic, failures>>
            \/ Push \/ PushRevert \/ Record \/ RecordRevert \/ RecordBatch

\* What a restart does not know of: blocks announced that are not in the
\* database, or above the height; and heights of the task without a block.
Unknown == (Announced \ ToSet(chain)) \cup {b \in Announced : b.num > taskNum}

Unannounced == {n \in 1..taskNum : \A b \in Announced : b.num # n}

PushNext ==
    \/ PushStep \/ PushFails \/ RecordFails
    \/ (Environment \/ Restart(Unknown, Unannounced)) /\ UNCHANGED <<topic, failures>>

PushSpec == PushInit /\ [][PushNext]_vars

----------------------------------------------------------------------------
(* Properties. *)

PushTypeOK ==
    /\ LoopTypeOK
    /\ topic \in Seq(Event) /\ failures \in 0..MaxFailures

\* A block the consumers believe in stands, or its revert is on its way: no
\* order of head, catch-up and reorganisation leaves one announced for good.
\* The exceptions are the blocks that went astray.
AnnouncedStand ==
    pc \in Running =>
        \A b \in Announced : Stands(b) \/ ToRevert(b) \/ b \in astray

\* Nothing is kept from the consumers: the blocks that stand up to the height
\* of the task have been announced.
AllAnnounced == pc \in Subscribed => NothingOwed(Announced)
=============================================================================

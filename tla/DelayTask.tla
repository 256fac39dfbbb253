----------------------------- MODULE DelayTask -----------------------------
(***************************************************************************)
(* The task block_send_delay, src/task/block_delay_task.go: it sends the    *)
(* blocks of the feed to a Kafka topic, each when Delay blocks have come    *)
(* after it.  The last Delay + 1 blocks are kept in a queue, where a block  *)
(* of another branch replaces the one of its number; what the queue does    *)
(* not hold is read from the tables base_data fills.                        *)
(***************************************************************************)
EXTENDS TaskFeed

CONSTANTS
    Delay,          \* config: block_delay.delay
    QueryBatch,     \* config: blocks read together by catch-up, at most
    StartNumber,    \* the height of the task when all begins
    MaxRestarts,    \* bound: how many times the process is started again
    MaxFailures     \* bound: heights not recorded, messages stored and
                    \* reported as failed

ASSUME DelayTaskAssumption ==
    /\ Delay \in Nat /\ QueryBatch \in Nat /\ MaxRestarts \in Nat
    /\ StartNumber \in 0..Len(StartChain) /\ MaxFailures \in Nat

VARIABLES
    pc,             \* where the goroutine is
    q,              \* the queue, front first
    cur,            \* the height handled
    latest,         \* the number at the rear of the queue
    catchUP,        \* is there a token in the channel catchUP
    toSend,         \* the blocks to send, with the heights to record
    kafka,          \* the topic: the blocks sent, oldest first
    taskNum,        \* async_task.number
    highest,        \* environment: the highest block there has been
    restarts,
    failures

envVars == <<highest, restarts, failures>>
taskVars == <<pc, q, cur, latest, catchUP, toSend, kafka, taskNum>>
vars == <<feedVars, taskVars, envVars>>

Running == {"loop", "select", "get", "send", "record"}

curNum == cur + 1

Init ==
    /\ FeedInit /\ pc = "loop" /\ q = <<>>
    /\ cur = StartNumber /\ latest = 0 /\ catchUP = FALSE /\ toSend = <<>>
    /\ kafka = <<>> /\ taskNum = StartNumber
    /\ highest = Len(StartChain) /\ restarts = 0 /\ failures = 0

\* It is assumed that no reorganisation takes back a block that has Delay
\* blocks above it: that is what the delay is for.
Publish(e) ==
    /\ pc \in Running /\ Deliver(e)
    /\ e.state = "revert" => e.blk.num > highest - Delay
    /\ highest' = Max({highest, Len(sent')})
    /\ UNCHANGED <<taskVars, restarts, failures>>

BaseApplies == pc \in Running /\ Apply /\ UNCHANGED <<taskVars, envVars>>

Crash ==
    /\ pc \in Running /\ pc' = "down"
    /\ UNCHANGED <<feedVars, q, cur, latest, catchUP, toSend, kafka, taskNum,
                   envVars>>

Restart ==
    /\ pc = "down" /\ restarts < MaxRestarts /\ restarts' = restarts + 1
    /\ FeedAgain /\ pc' = "loop" /\ q' = <<>>
    /\ cur' = taskNum /\ latest' = 0 /\ catchUP' = FALSE /\ toSend' = <<>>
    /\ UNCHANGED <<kafka, taskNum, highest, failures>>

\* Stop closes stopCh: the select may take it, whatever else is ready.
TakeStop ==
    /\ pc = "select" /\ pc' = "down"
    /\ UNCHANGED <<feedVars, q, cur, latest, catchUP, toSend, kafka, taskNum,
                   envVars>>

----------------------------------------------------------------------------
(* Start. *)

\* Mutant: the task counts as behind when the next block will do.
Catching_Late == latest > 0 /\ q # <<>> /\ curNum + Delay + 1 < latest

Catching == latest > 0 /\ q # <<>> /\ curNum + Delay < latest

\* The token is sent only into an empty channel.
Enter ==
    /\ pc = "loop" /\ pc' = "select" /\ catchUP' = (catchUP \/ Catching)
    /\ UNCHANGED <<feedVars, q, cur, latest, toSend, kafka, taskNum, envVars>>

Full == Len(q) = Delay + 1

Ignored(e) == e.state = "revert" \/ e.blk.num < curNum

Ignore(e) ==
    /\ pc = "select" /\ TakeEvent(e) /\ Ignored(e) /\ pc' = "loop"
    /\ UNCHANGED <<q, cur, latest, catchUP, toSend, kafka, taskNum, envVars>>

\* addBlock of a block at or below the rear: it takes the place of the one of
\* its number.
Replaced(b) == [i \in DOMAIN q |-> IF q[i].num = b.num THEN b ELSE q[i]]

\* addBlock: q with b in it.
Added(b) ==
    IF q # <<>> /\ b.num < q[1].num THEN q
    ELSE IF q # <<>> /\ b.num <= Last(q).num THEN Replaced(b)
    ELSE Append(IF Full THEN Tail(q) ELSE q, b)

\* log.Fatalf: the block does not continue the queue.
Unexpected(b) == q # <<>> /\ b.num > Last(q).num + 1

Receive(e) ==
    /\ pc = "select" /\ TakeEvent(e) /\ ~Ignored(e) /\ ~Unexpected(e.blk)
    /\ q' = Added(e.blk) /\ latest' = Last(q').num
    /\ pc' = IF curNum + Delay = latest' THEN "get" ELSE "loop"
    /\ UNCHANGED <<cur, catchUP, toSend, kafka, taskNum, envVars>>

ReceiveUnexpected(e) ==
    /\ pc = "select" /\ TakeEvent(e) /\ ~Ignored(e) /\ Unexpected(e.blk)
    /\ pc' = "exited"
    /\ UNCHANGED <<q, cur, latest, catchUP, toSend, kafka, taskNum, envVars>>

\* The block of number n, if the queue has one.
InQueue(n) ==
    IF \E i \in DOMAIN q : q[i].num = n
    THEN <<q[CHOOSE i \in DOMAIN q : q[i].num = n]>> ELSE <<>>

\* Mutant: the rear of a full queue is taken.
Due_Rear == IF Full THEN <<Last(q)>>
            ELSE IF InQueue(curNum) # <<>> THEN InQueue(curNum) ELSE StoredAt(curNum)

\* getBlcok: the front of a full queue whatever its number, else the queue is
\* searched, else the database asked.
Due == IF Full THEN <<Head(q)>>
       ELSE IF InQueue(curNum) # <<>> THEN InQueue(curNum) ELSE StoredAt(curNum)

GetBlock ==
    /\ pc = "get"
    /\ toSend' = [i \in DOMAIN Due |-> [blk |-> Due[i], num |-> curNum]]
    /\ pc' = IF Due = <<>> THEN "loop" ELSE "send"
    /\ UNCHANGED <<feedVars, q, cur, latest, catchUP, kafka, taskNum, envVars>>

GetFails ==
    /\ pc = "get" /\ ~Full /\ InQueue(curNum) = <<>> /\ pc' = "loop"
    /\ UNCHANGED <<feedVars, q, cur, latest, catchUP, toSend, kafka, taskNum,
                   envVars>>

\* sendBlock.
Send ==
    /\ pc = "send" /\ kafka' = Append(kafka, Head(toSend).blk) /\ pc' = "record"
    /\ UNCHANGED <<feedVars, q, cur, latest, catchUP, toSend, taskNum, envVars>>

Failing == failures < MaxFailures /\ failures' = failures + 1

\* What is left is not sent in this turn.
SendFails ==
    /\ pc = "send" /\ toSend' = <<>> /\ pc' = "loop"
    /\ \/ UNCHANGED <<kafka, failures>>
       \/ Failing /\ kafka' = Append(kafka, Head(toSend).blk)
    /\ UNCHANGED <<feedVars, q, cur, latest, catchUP, taskNum, highest, restarts>>

Next1 ==
    /\ toSend' = Tail(toSend) /\ pc' = IF toSend' = <<>> THEN "loop" ELSE "send"

Record ==
    /\ pc = "record" /\ Next1
    /\ taskNum' = Head(toSend).num /\ cur' = Head(toSend).num
    /\ UNCHANGED <<feedVars, q, latest, catchUP, kafka, envVars>>

\* The error is logged; catch-up goes on with the next block.
RecordFails ==
    /\ pc = "record" /\ Next1 /\ Failing
    /\ UNCHANGED <<feedVars, q, cur, latest, catchUP, kafka, taskNum, highest,
                   restarts>>

\* Mutant: the delay is left out.
CatchUpEnd_Latest == Min({curNum + QueryBatch, latest})

CatchUpEnd == Min({curNum + QueryBatch, latest - Delay})

CatchUp ==
    /\ pc = "select" /\ catchUP /\ catchUP' = FALSE
    /\ LET bs == Stored(curNum, CatchUpEnd)
       IN  /\ bs # <<>> /\ pc' = "send"
           /\ toSend' = [i \in DOMAIN bs |-> [blk |-> bs[i], num |-> bs[i].num]]
    /\ UNCHANGED <<feedVars, q, cur, latest, kafka, taskNum, envVars>>

\* No block in the database: the range is passed.
CatchUpSkips ==
    /\ pc = "select" /\ catchUP /\ catchUP' = FALSE /\ pc' = "loop"
    /\ curNum <= CatchUpEnd /\ Stored(curNum, CatchUpEnd) = <<>>
    /\ taskNum' = CatchUpEnd /\ cur' = CatchUpEnd
    /\ UNCHANGED <<feedVars, q, latest, toSend, kafka, envVars>>

\* There is nothing to catch up with any more, or the query failed, or the
\* update of the height.
CatchUpEnds ==
    /\ pc = "select" /\ catchUP /\ catchUP' = FALSE /\ pc' = "loop"
    /\ UNCHANGED <<feedVars, q, cur, latest, toSend, kafka, taskNum, envVars>>

Step == \/ Enter \/ GetBlock \/ Send \/ Record \/ CatchUp \/ CatchUpSkips
        \/ \E e \in Event : Ignore(e) \/ Receive(e) \/ ReceiveUnexpected(e)

Failure == GetFails \/ SendFails \/ RecordFails \/ CatchUpEnds

Next == \/ Step \/ Failure \/ BaseApplies \/ Crash \/ Restart \/ TakeStop
        \/ \E e \in Event : Publish(e)

Spec == Init /\ [][Next]_vars

----------------------------------------------------------------------------
(* Properties. *)

TypeOK ==
    /\ FeedTypeOK
    /\ pc \in Running \cup {"exited", "down"}
    /\ q \in Seq(Blocks) /\ Len(q) <= Delay + 1
    /\ cur \in Nat /\ latest \in Nat /\ taskNum \in Nat /\ highest \in Nat
    /\ catchUP \in BOOLEAN /\ kafka \in Seq(Blocks)
    /\ toSend \in Seq([blk : Blocks, num : Nat])
    /\ restarts \in 0..MaxRestarts /\ failures \in 0..MaxFailures

\* The front of a full queue is sent without a look at its number: it is the
\* block whose turn it is, and the height recorded for a block is its number,
\* through reorganisations, catch-up and failures; the queue has no gap, although
\* blocks at or below the height never reach it.
SendsDue == /\ \A i \in DOMAIN toSend : toSend[i].blk.num = toSend[i].num
            /\ pc # "exited"

\* Nothing is sent before its delay, even what is read from the tables of a
\* base_data that is behind.
NotEarly == [][Len(kafka') > Len(kafka) => Last(kafka').num + Delay <= highest]_vars
=============================================================================

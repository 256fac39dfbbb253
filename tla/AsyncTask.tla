----------------------------- MODULE AsyncTask -----------------------------
(***************************************************************************)
(* BaseAsyncTask, src/task/base_async_task.go: the loop every asynchronous  *)
(* task runs.  A task receives the same feed as base_data, handles the      *)
(* block above its height as it arrives, keeps blocks further above in a    *)
(* cache, and catches up from the cache or from the tables base_data fills. *)
(* What handling a block means is in the modules that extend this one: they *)
(* take over where pc is "handle", "save" or "revert".                      *)
(***************************************************************************)
EXTENDS TaskFeed

CONSTANTS
    CompensationCap, \* capacity of compensationChan, 10 in newBase
    BatchBlockCount, \* config: blocks read together, at most
    EndNumber,       \* async_task.end_number: stop there, unless 0
    RetryTimes,      \* config: how often a failed database call is retried
    WordSize,        \* 2^64, or a smaller power of two above every height
    StartNumber,     \* the height of the task when all begins
    MaxRestarts      \* bound: how many times the process is started again

ASSUME AsyncTaskAssumption ==
    /\ \A b \in Blocks : b.num < WordSize
    /\ CompensationCap \in Nat \ {0} /\ BatchBlockCount \in Nat
    /\ EndNumber \in Nat /\ RetryTimes \in Nat /\ WordSize \in Nat \ {0}
    /\ StartNumber \in 0..Len(StartChain) /\ MaxRestarts \in Nat

VARIABLES
    pc,             \* where the task's goroutine is
    cache,          \* the blocks that came too early, oldest first
    curHeight,      \* the height the task has handled
    latestHeight,   \* the height of the last event received
    compensation,   \* how many tokens are in compensationChan
    inHand,         \* the event being handled; <<>> while catching up
    todo,           \* the blocks handleBlocks has yet to go through
    batch,          \* those it saves together
    tries,          \* HandleErrorWithRetryMaxTime: how many attempts failed
    taskNum,        \* async_task.number
    restarts,       \* how many times the process was started again
    stopping,       \* Process.Run stops the tasks
    skipped,        \* history: heights passed without a block
    gone,           \* history: blocks whose revert was received last
    astray          \* history: blocks handled though gone, or left so by a
                    \* restart or a revert of one below, or handled without
                    \* the height to show it

loopVars == <<cache, curHeight, latestHeight, compensation>>
workVars == <<inHand, todo, batch, tries>>
envVars  == <<restarts, stopping>>
history  == <<skipped, gone, astray>>

Running == {"created", "loop", "select", "drain", "catchup",
            "handle", "origin", "query", "save", "height", "revert", "record"}

Subscribed == Running \ {"created"}

----------------------------------------------------------------------------
(* The process, the feed and base_data. *)

\* newBase reads the row of the task, made with number 0 if there is none;
\* blockChan, the cache and compensationChan are new.
Init ==
    /\ FeedInit /\ pc = "created" /\ cache = <<>>
    /\ curHeight = StartNumber /\ latestHeight = 0 /\ compensation = 0
    /\ inHand = <<>> /\ todo = <<>> /\ batch = <<>> /\ tries = 0
    /\ taskNum = StartNumber /\ restarts = 0 /\ stopping = FALSE
    /\ skipped = {} /\ gone = {} /\ astray = {}

Crash ==
    /\ pc \in Running /\ pc' = "down"
    /\ UNCHANGED <<loopVars, workVars, feedVars, taskNum, envVars, history>>

\* left are the blocks the task has handled that are not in the database,
\* missed the heights up to its own that it has not handled.
Restart(left, missed) ==
    /\ pc \notin Running /\ restarts < MaxRestarts
    /\ restarts' = restarts + 1 /\ stopping' = FALSE
    /\ FeedAgain /\ pc' = "created" /\ cache' = <<>>
    /\ curHeight' = taskNum /\ latestHeight' = 0 /\ compensation' = 0
    /\ inHand' = <<>> /\ todo' = <<>> /\ batch' = <<>> /\ tries' = 0
    /\ skipped' = (skipped \cap 1..taskNum) \cup missed
    /\ gone' = {} /\ astray' = astray \cup left
    /\ UNCHANGED taskNum

\* It is assumed that the task has subscribed: an event sent before is lost,
\* as in BaseStorage (see late there).
Publish(e) ==
    /\ pc \in Subscribed /\ ~stopping /\ Deliver(e)
    /\ UNCHANGED <<pc, loopVars, workVars, taskNum, envVars, history>>

BaseApplies ==
    /\ pc \in Running /\ Apply
    /\ UNCHANGED <<pc, loopVars, workVars, taskNum, envVars, history>>

Signal ==
    /\ pc \in Running /\ ~stopping /\ stopping' = TRUE
    /\ UNCHANGED <<pc, loopVars, workVars, feedVars, taskNum, restarts, history>>

----------------------------------------------------------------------------
(* Start. *)

StartTask ==
    /\ pc = "created" /\ pc' = "loop"
    /\ UNCHANGED <<loopVars, workVars, feedVars, taskNum, envVars, history>>

AtEnd == EndNumber # 0 /\ curHeight >= EndNumber

Unsubscribe ==
    /\ pc = "loop" /\ AtEnd /\ pc' = "ended"
    /\ UNCHANGED <<loopVars, workVars, feedVars, taskNum, envVars, history>>

\* Mutant: one block short.
Behind_Off == curHeight + 1 < latestHeight

Behind == curHeight < latestHeight

\* The token is for the task itself: with the channel full it waits for ever.
Enter ==
    /\ pc = "loop" /\ ~AtEnd
    /\ IF Behind THEN /\ compensation < CompensationCap
                      /\ compensation' = compensation + 1
       ELSE UNCHANGED compensation
    /\ pc' = "select"
    /\ UNCHANGED <<cache, curHeight, latestHeight, workVars,
                   feedVars, taskNum, envVars, history>>

TakeStop ==
    /\ pc = "select" /\ stopping /\ pc' = "stopped"
    /\ UNCHANGED <<loopVars, workVars, feedVars, taskNum, envVars, history>>

Wake ==
    /\ pc = "select" /\ compensation > 0
    /\ compensation' = 0 /\ pc' = "catchup"
    /\ UNCHANGED <<cache, curHeight, latestHeight, workVars,
                   feedVars, taskNum, envVars, history>>

\* The event e is received, by select or by the loop inside its case.
Take(e) ==
    /\ pc \in {"select", "drain"} /\ TakeEvent(e)
    /\ gone' = IF e.state = "revert" THEN gone \cup {e.blk} ELSE gone \ {e.blk}
    /\ UNCHANGED <<compensation, batch, tries, taskNum, envVars, skipped, astray>>

\* Mutant: the height is the block's own number.
FitsHeight_Off(b) == curHeight = b.num

FitsHeight(b) == curHeight + 1 = b.num

\* consumeFunc is handleBlock: handleBlocks of this one block.
ReceiveNext(e) ==
    /\ e.state = "ok" /\ Take(e) /\ FitsHeight(e.blk)
    /\ latestHeight' = e.blk.num
    /\ inHand' = <<e>> /\ todo' = <<e.blk>> /\ pc' = "handle"
    /\ UNCHANGED <<cache, curHeight>>

AddToCache(b) ==
    Append(IF Len(cache) >= BufferSize THEN Tail(cache) ELSE cache, b)

ReceiveAhead(e) ==
    /\ e.state = "ok" /\ Take(e) /\ curHeight + 1 < e.blk.num
    /\ latestHeight' = e.blk.num
    /\ cache' = AddToCache(e.blk) /\ pc' = "drain"
    /\ UNCHANGED <<curHeight, inHand, todo>>

\* A block at or below the height is dropped.
ReceiveOld(e) ==
    /\ e.state = "ok" /\ Take(e) /\ curHeight + 1 > e.blk.num
    /\ latestHeight' = e.blk.num /\ pc' = "drain"
    /\ UNCHANGED <<cache, curHeight, inHand, todo>>

\* Prev of an element that was removed is nil: at most one block goes.
RemoveFromCache(n) ==
    IF cache # <<>> /\ Last(cache).num >= n THEN Front(cache) ELSE cache

ReceiveRevert(e) ==
    /\ e.state = "revert" /\ Take(e) /\ curHeight >= e.blk.num
    /\ cache' = RemoveFromCache(e.blk.num)
    /\ inHand' = <<e>> /\ pc' = "revert"
    /\ UNCHANGED <<curHeight, latestHeight, todo>>

ReceiveRevertAbove(e) ==
    /\ e.state = "revert" /\ Take(e) /\ curHeight < e.blk.num
    /\ latestHeight' = e.blk.num - 1 /\ pc' = "drain"
    /\ UNCHANGED <<cache, curHeight, inHand, todo>>

Receive(e) == \/ ReceiveNext(e) \/ ReceiveAhead(e) \/ ReceiveOld(e)
              \/ ReceiveRevert(e) \/ ReceiveRevertAbove(e)

\* blockChan is empty: back to the outer loop.
Drained ==
    /\ pc = "drain" /\ blockChan = <<>> /\ pc' = "loop"
    /\ UNCHANGED <<loopVars, workVars, feedVars, taskNum, envVars, history>>

\* revertFunc has returned.
Reverted ==
    /\ curHeight' = inHand[1].blk.num - 1
    /\ latestHeight' = inHand[1].blk.num - 1
    /\ inHand' = <<>> /\ tries' = 0 /\ pc' = "drain"

----------------------------------------------------------------------------
(* Where compensationFunc gets its blocks. *)

\* getBlkFromCache(h): what it finds, and what it leaves in the cache.
Cached(h) ==
    IF cache = <<>> \/ h < Head(cache).num
    THEN [found |-> <<>>, rest |-> cache]
    ELSE LET at == {i \in DOMAIN cache : cache[i].num = h}
         IN  IF at = {} THEN [found |-> <<>>, rest |-> <<>>]
             ELSE [found |-> <<cache[Min(at)]>>,
                   rest  |-> SubSeq(cache, Min(at) + 1, Len(cache))]

\* curHeight < latestHeight - bufferSize on uint64.
FarBehind == curHeight < (latestHeight - BufferSize) % WordSize

\* The blocks fixHistoryData finds: a range up to end, or one block.
Found(end) ==
    IF FarBehind THEN Stored(curHeight + 1, end)
    ELSE LET c == Cached(curHeight + 1)
         IN  IF c.found # <<>> THEN c.found ELSE StoredAt(curHeight + 1)

CacheLeft == IF FarBehind THEN cache ELSE Cached(curHeight + 1).rest

ReadFound(end) ==
    /\ pc = "catchup" /\ Found(end) # <<>>
    /\ todo' = Found(end) /\ cache' = CacheLeft /\ pc' = "handle"
    /\ astray' = astray \cup (ToSet(todo') \cap gone)
    /\ UNCHANGED <<curHeight, latestHeight, compensation, inHand,
                   batch, tries, feedVars, taskNum, envVars, skipped, gone>>

\* The query failed: nothing is handled in this turn.
ReadFails ==
    /\ pc = "catchup" /\ (FarBehind \/ Cached(curHeight + 1).found = <<>>)
    /\ cache' = CacheLeft /\ pc' = "loop"
    /\ UNCHANGED <<curHeight, latestHeight, compensation, workVars,
                   feedVars, taskNum, envVars, history>>

\* Nothing found: the height goes up to end all the same.
Skip(end, next) ==
    /\ pc = "catchup" /\ Found(end) = <<>>
    /\ curHeight' = end /\ cache' = CacheLeft /\ pc' = next
    /\ skipped' = skipped \cup ((curHeight + 1)..end)
    /\ UNCHANGED <<latestHeight, compensation, workVars, feedVars,
                   taskNum, envVars, gone, astray>>

----------------------------------------------------------------------------
(* What the handlers share. *)

\* handleBlocks saves when it has max blocks, enough rows, or all of them.
Cut(max, next) ==
    /\ pc = "handle"
    /\ \E k \in 1..Min({max, Len(todo)}) :
          /\ batch' = SubSeq(todo, 1, k)
          /\ todo' = SubSeq(todo, k + 1, Len(todo))
    /\ pc' = next
    /\ UNCHANGED <<loopVars, inHand, tries, feedVars, taskNum, envVars, history>>

\* The batch is saved: handleBlocks goes on, or returns to the loop.
Saved ==
    /\ curHeight' = Last(batch).num
    /\ batch' = <<>> /\ tries' = 0
    /\ pc' = IF todo # <<>> THEN "handle"
             ELSE IF inHand # <<>> THEN "drain" ELSE "loop"
    /\ inHand' = IF todo # <<>> THEN inHand ELSE <<>>
    /\ UNCHANGED todo

\* HandleErrorWithRetry: another attempt, or the process ends.
Retry ==
    /\ tries' = tries + 1
    /\ pc' = IF tries' > RetryTimes THEN "exited" ELSE pc
    /\ UNCHANGED <<loopVars, inHand, todo, batch>>

LoopStep == \/ StartTask \/ Unsubscribe \/ Enter \/ Wake \/ Drained
            \/ \E e \in Event : Receive(e)

Environment == \/ \E e \in Event : Publish(e)
               \/ BaseApplies \/ Signal \/ Crash \/ TakeStop

----------------------------------------------------------------------------
\* The events the task still has to apply.
ToApply == inHand \o blockChan

\* The feed has not taken b back, as far as it has got.
Stands(b) == \E i \in DOMAIN sent : sent[i] = b

\* Block n is to be reverted, alone or with those below it.
ToRevert(b) == \E i \in DOMAIN ToApply : ToApply[i] = [state |-> "revert", blk |-> b]

ToRedo(n) ==
    \E i \in DOMAIN ToApply : ToApply[i].state = "revert" /\ ToApply[i].blk.num <= n

\* Catch-up or a restart passed height n without a block, or a block that went astray is
\* taken for it.
PassedOver(n) == n \in skipped \/ \E b \in astray : b.num = n

\* A revert takes back one height: the blocks catch-up handled above it, ahead
\* of the feed, keep their effects and go astray.
LeftAbove(done) == {b \in done : b.num > inHand[1].blk.num}

\* What the task owes the blocks that stand, given those whose effect is there.
NothingOwed(done) ==
    \A i \in DOMAIN sent : \/ sent[i].num > curHeight \/ sent[i] \in done
                           \/ PassedOver(sent[i].num) \/ ToRedo(sent[i].num)

LoopTypeOK ==
    /\ pc \in Running \cup {"ended", "stopped", "exited", "down"}
    /\ FeedTypeOK
    /\ cache \in Seq(Blocks) /\ Len(cache) <= BufferSize
    /\ curHeight \in Nat /\ latestHeight \in Nat /\ taskNum \in Nat
    /\ compensation \in 0..CompensationCap
    /\ inHand \in Seq(Event) /\ Len(inHand) <= 1
    /\ todo \in Seq(Blocks) /\ batch \in Seq(Blocks)
    /\ tries \in 0..(RetryTimes + 1)
    /\ restarts \in 0..MaxRestarts
    /\ stopping \in BOOLEAN
    /\ skipped \subseteq Nat /\ gone \subseteq Blocks /\ astray \subseteq Blocks
=============================================================================

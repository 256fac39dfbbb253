---------------------------- MODULE BalanceTask ----------------------------
(***************************************************************************)
(* What native_balance, erc20_balance and erc1155_balance share: the        *)
(* balances a block touches are asked of a node, at its latest block, and   *)
(* saved with a height; a cache of these heights saves questions.  A        *)
(* balance is seen here as the chain it was read from.                      *)
(*                                                                          *)
(* The node is ahead of the feed and may change to another branch, so the   *)
(* blocks behind a balance may never come to the task.  The node that       *)
(* answers may be some blocks behind the others.  As in EvmNode a branch it *)
(* has given up does not return.                                            *)
(***************************************************************************)
EXTENDS AsyncTask, CacheFilter

CONSTANTS
    MaxReorgs,      \* bound: how often the node changes to another branch
    MaxLag,         \* bound: how far behind the node that answers may be
    MaxFails        \* bound: heights not recorded, and calls that fail

Linked(c) == /\ c[1].parent = GenesisHash
             /\ \A i \in 2..Len(c) : c[i].parent = c[i - 1].hash

ASSUME BalanceTaskAssumption ==
    /\ \A b \in Blocks : b.touches \subseteq Keys
    /\ MaxReorgs \in Nat /\ MaxLag \in Nat /\ MaxFails \in Nat
    /\ CacheSize \in Nat
    /\ StartChain # <<>> /\ Linked(StartChain)

VARIABLES
    node,           \* the chain of the node
    reorgs,         \* how often it changed to another branch
    abandoned,      \* history: the blocks it has given up
    lag,            \* how far behind the node that answers this query is
    asking,         \* the balances to ask for
    answers,        \* the balances read so far
    balances,       \* the table, by key
    handled,        \* history: the blocks handled, but for a restart those
                    \* that are not both recorded and in the database
    counted,        \* history: of the blocks handled, those that no revert
                    \* has taken back since, nor one of a block below
    misled,         \* history: the balances the filter took for known that
                    \* were not added since it was emptied, until asked for
    fails           \* how many heights were not recorded or calls failed

nodeVars == <<node, reorgs, abandoned>>
queryVars == <<lag, asking, answers>>
tableVars == <<balances, handled, counted, misled, fails>>
balanceVars == <<nodeVars, queryVars, cacheVars, tableVars>>
taskVars == <<pc, feedVars, loopVars, workVars, taskNum, envVars, history, balanceVars>>

\* unsure: the node that answered may not have had the blocks handled.
Balance(c, height, unsure) == [at |-> c, height |-> height, unsure |-> unsure]

Heights == [k \in DOMAIN balances |-> balances[k].height]

Touched(bs) == UNION {b.touches : b \in ToSet(bs)}

BalanceInit ==
    /\ Init /\ CacheInit /\ node = StartChain /\ reorgs = 0 /\ abandoned = {}
    /\ lag = 0 /\ asking = {} /\ answers = Empty /\ misled = {} /\ fails = 0
    /\ handled = ToSet(SubSeq(StartChain, 1, StartNumber)) /\ counted = handled
    /\ \E n \in StartNumber..Len(StartChain) :
          balances = [k \in Touched(SubSeq(StartChain, 1, StartNumber)) |->
                         Balance(SubSeq(StartChain, 1, n), n, FALSE)]

----------------------------------------------------------------------------
(* The node, and the feed, which follows it. *)

NodeGrows ==
    /\ \E b \in Blocks \ abandoned : node' = Append(node, b) /\ Linked(node')
    /\ UNCHANGED <<reorgs, abandoned>>

\* The node changes to a branch that is not shorter.
NodeReorganises ==
    /\ reorgs < MaxReorgs /\ reorgs' = reorgs + 1
    /\ node' \in {c \in UNION {[1..n -> Blocks] : n \in Len(node)..(Len(node) + 1)} :
                     Linked(c) /\ ToSet(c) \cap abandoned = {}}
    /\ ~IsPrefix(node, node')
    /\ abandoned' = abandoned \cup (ToSet(node) \ ToSet(node'))

NodeMoves ==
    /\ pc \in Running /\ (NodeGrows \/ NodeReorganises)
    /\ UNCHANGED <<pc, feedVars, loopVars, workVars, taskNum, envVars, history,
                   queryVars, cacheVars, tableVars>>

PublishNode(e) ==
    /\ (e.state = "ok") <=> (e.blk \in ToSet(node))
    /\ Publish(e) /\ UNCHANGED balanceVars

----------------------------------------------------------------------------
(* The task. *)

\* Mutant: a balance read one block earlier will do.
Stale_Off(h, n) == h + 1 < n

\* Missing is below every number.
Stale(h, n) == h < n

\* A query is sent: some node will answer.
Ask(keys) ==
    /\ asking' = keys /\ answers' = Empty
    /\ lag' \in IF keys = {} THEN {0} ELSE 0..Min({MaxLag, Len(node) - 1})

\* fixHistoryData, up to where it hands over to handleBlocks.
CatchUp(end) ==
    /\ ReadFound(end) \/ Skip(end, "loop") \/ ReadFails
    /\ UNCHANGED balanceVars

\* The false positives among the answers of cache and table.
FalselyKnown(seen) ==
    {k \in DOMAIN seen : seen[k] # Missing} \ (DOMAIN lru \cup filter)

\* handleBlocks: a balance is asked for unless it was read at the block or
\* above it.
AskForTouched ==
    /\ pc = "handle" /\ batch' = todo /\ todo' = <<>> /\ pc' = "query"
    /\ \E seen \in [Touched(todo) -> {Missing} \cup 0..(WordSize - 1)] :
          /\ \A k \in DOMAIN seen : seen[k] \in Get(k, Heights)
          /\ Keep(seen) /\ misled' = misled \cup FalselyKnown(seen)
          /\ Ask({k \in DOMAIN seen : \E b \in ToSet(todo) :
                                         k \in b.touches /\ Stale(seen[k], b.num)})
    /\ UNCHANGED <<feedVars, loopVars, inHand, tries, taskNum, envVars, history,
                   nodeVars, filter, balances, handled, counted, fails>>

\* The chain of the node that answers.
View == SubSeq(node, 1, Len(node) - lag)

QueryAnswered ==
    /\ pc' = "save" /\ tries' = 0
    /\ UNCHANGED <<feedVars, loopVars, inHand, todo, batch, taskNum, envVars, history,
                   nodeVars, cacheVars, tableVars>>

\* A batch is answered one element after the other, the height last.
ReadValue(k) ==
    /\ pc = "query" /\ k \in asking \ DOMAIN answers
    /\ answers' = Overlaid(answers, [j \in {k} |-> Balance(View, 0, FALSE)])
    /\ UNCHANGED <<pc, feedVars, loopVars, workVars, taskNum, envVars, history,
                   nodeVars, lag, asking, cacheVars, tableVars>>

\* Mutant: any node will do.
HighEnough_Not(required) == TRUE

HighEnough(required) == asking # {} => Len(View) >= required

\* The last block of the batch that touches k.
TouchedAt(k) == Max({b.num : b \in {x \in ToSet(batch) : k \in x.touches}})

\* No node needs to have all blocks of the batch when latestHeight is required.
TooEarly == latestHeight < Last(batch).num

\* The node moved after it had answered.
Raced(c) == Len(View) > Len(c)

\* A balance that changed meanwhile is saved with a height it does not have.
ReadHeight(required) ==
    /\ pc = "query" /\ asking = DOMAIN answers /\ HighEnough(required)
    /\ answers' = [k \in asking |-> Balance(answers[k].at, Len(View), Raced(answers[k].at))]
    /\ QueryAnswered /\ UNCHANGED <<lag, asking>>

\* The query failed, or the node is behind: it is sent again.
QueryFails ==
    /\ pc = "query" /\ asking # {} /\ Retry /\ Ask(asking)
    /\ UNCHANGED <<feedVars, taskNum, envVars, history, nodeVars, cacheVars, tableVars>>

ForRevert == inHand # <<>> /\ inHand[1].state = "revert"

\* The rows are inserted or updated, and their heights cached.
Save ==
    /\ pc = "save" /\ pc' = "height" /\ tries' = 0
    /\ balances' = Overlaid(balances, answers)
    /\ Add([k \in DOMAIN answers |-> answers[k].height])
    /\ asking' = {} /\ answers' = Empty /\ lag' = 0
    /\ handled' = handled \cup ToSet(batch) /\ misled' = misled \ DOMAIN answers
    /\ counted' = {b \in counted : b.num < batch[1].num}
                     \cup IF ForRevert THEN {} ELSE ToSet(batch)
    /\ UNCHANGED <<loopVars, inHand, todo, batch, feedVars, taskNum, envVars,
                   history, nodeVars, fails>>

SaveBalancesFail ==
    /\ pc = "save" /\ Retry
    /\ UNCHANGED <<feedVars, taskNum, envVars, history, balanceVars>>

\* UpdateAsyncTaskNumByName: an error is logged, the task goes on.
Update(n) ==
    \/ taskNum' = n /\ UNCHANGED fails
    \/ fails < MaxFails /\ fails' = fails + 1 /\ UNCHANGED taskNum

RecordHeight ==
    /\ pc = "height" /\ ~ForRevert /\ Update(Last(batch).num) /\ Saved
    /\ UNCHANGED <<cache, latestHeight, compensation, feedVars, envVars, history,
                   nodeVars, queryVars, cacheVars, balances, handled, counted, misled>>

\* revertBlock cleans the cache and handles the block as if it were new,
\* the record of its height included.
CleanAndHandle ==
    /\ pc = "revert" /\ Clean /\ todo' = <<inHand[1].blk>> /\ pc' = "handle"
    /\ UNCHANGED <<loopVars, inHand, batch, tries, feedVars, taskNum, envVars,
                   history, nodeVars, queryVars, tableVars>>

RecordReverted ==
    /\ pc = "height" /\ ForRevert /\ Update(Last(batch).num)
    /\ curHeight' = Last(batch).num /\ batch' = <<>> /\ pc' = "record"
    /\ UNCHANGED <<cache, latestHeight, compensation, inHand, todo, tries,
                   feedVars, envVars, history,
                   nodeVars, queryVars, cacheVars, balances, handled, counted, misled>>

RecordBelow ==
    /\ pc = "record" /\ Update(inHand[1].blk.num - 1) /\ Reverted
    /\ UNCHANGED <<cache, compensation, todo, batch, feedVars, envVars, history,
                   nodeVars, queryVars, cacheVars, balances, handled, counted, misled>>

\* The heights it takes for handled whose blocks are not: they are not in the
\* database, or a revert has taken the task back and is not recorded.
Missed == {n \in 1..taskNum : n > Len(chain) \/ chain[n] \notin counted}

RestartBalance ==
    /\ Restart({}, Missed) /\ handled' = handled \cap ToSet(Stored(1, taskNum))
    /\ counted' = counted \cap ToSet(Stored(1, taskNum))
    /\ lag' = 0 /\ asking' = {} /\ answers' = Empty /\ lru' = Empty /\ filter' = {}
    /\ UNCHANGED <<nodeVars, balances, misled, fails>>

\* The steps of the loop, of the database, and of the environment.
Common == \/ (LoopStep \/ BaseApplies \/ Signal \/ Crash \/ TakeStop)
             /\ UNCHANGED balanceVars
          \/ \E e \in Event : PublishNode(e)
          \/ NodeMoves \/ QueryFails \/ SaveBalancesFail \/ RestartBalance

----------------------------------------------------------------------------
BalanceTypeOK ==
    /\ LoopTypeOK
    /\ node \in Seq(Blocks) /\ Linked(node) /\ reorgs \in 0..MaxReorgs
    /\ lag \in 0..MaxLag /\ lag < Len(node)
    /\ asking \subseteq Keys /\ DOMAIN answers \subseteq asking
    /\ \A k \in DOMAIN answers : answers[k].at \in Seq(Blocks)
    /\ DOMAIN balances \subseteq Keys
    /\ Cardinality(DOMAIN lru) <= CacheSize
    /\ counted \subseteq handled /\ handled \subseteq Blocks
    /\ misled \subseteq Keys /\ fails \in 0..MaxFails

\* The node has given up a block the balance was read from, and the task was
\* never told of it, or only while it was above its height.
Untold(row, n) == \E c \in ToSet(row.at) \ handled : c.num = n

\* A call that failed, or reverted, is saved as a balance of zero.
Unanswered(row) == row.at = <<>>

\* The task has passed the block.
Passed(b) == b.num <= curHeight /\ ~PassedOver(b.num) /\ ~ToRedo(b.num)

\* Why a row need not be from a chain the block is in: the filter was mistaken,
\* the call failed, or the node may have been below the block.  It may when it
\* moved between value and height, which are asked one after the other without
\* the contract; with it, when the block comes out of the database above the
\* last event, whose height is required, as after a revert with a token left in
\* compensationChan.
Excused(k) == k \in misled \/ Unanswered(balances[k]) \/ balances[k].unsure

\* The row of every balance a block touches, once the task has passed it, is
\* from a chain the block is in: neither the cache nor a node that is behind
\* leaves an older balance.
BalanceFresh ==
    \A b \in ToSet(sent) : Passed(b) =>
        \A k \in b.touches : /\ k \in DOMAIN balances
                             /\ \/ Excused(k) \/ b \in ToSet(balances[k].at)
                                \/ Untold(balances[k], b.num)

\* No row keeps the change of a block that was reverted: a block the task has
\* handled stands in the feed, its revert is still to come, or it was passed
\* over.
BalanceStands ==
    \A k \in DOMAIN balances : \A c \in ToSet(balances[k].at) \cap handled :
        k \in c.touches => Stands(c) \/ ToRevert(c) \/ PassedOver(c.num)
=============================================================================

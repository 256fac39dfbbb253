# A TLA+ verification of the block indexer

The program reads blocks from an EVM-compatible node (TRON's JSON-RPC), keeps
them in MySQL, and derives transfers, balances and pairs from them in tasks of
their own; some of it goes to Kafka. It follows the head of the chain, so it has
to undo what a reorganisation has replaced; it is stopped, killed and restarted;
and its parts run as goroutines that share a database and little else. This
directory models the parts where that can go wrong, checks the models with TLC,
and proves with TLAPS what matters most about them for every value of the
constants: of the fetcher and its round of workers, base_data, the three tasks that keep
transfers, those that keep pairs and balances, the one that announces blocks in Kafka,
the delay task, the multicall, the inserts, the tools and the shutdown.

1. [Inventory](#inventory)
2. [Modules](#modules)
3. [How the models correspond to the code](#how-the-models-correspond-to-the-code)
4. [Runs](#runs)
5. [Properties](#properties)
6. [Where the code and its promises part](#where-the-code-and-its-promises-part)
7. [Assumptions, bounds and fairness](#assumptions-bounds-and-fairness)
8. [What is proved](#what-is-proved)
9. [Plan, and what is not modelled](#plan-and-what-is-not-modelled)

## Inventory

How the parts interact:

    EVM node --JSON-RPC--> Fetcher --event.Feed--> base_data   --+
                             |    \--event.Feed--> async tasks --+--> MySQL
                             |     \-event.Feed--> delay task ---+--> Kafka
                             +-- reads MySQL once, at start

`event.Feed.Send` is synchronous: it returns when every subscriber's channel has
taken the event. A subscriber that stops reading therefore stops the fetcher,
and an event sent before a task has subscribed is lost for that task. The tasks
do not talk to each other; they meet in the database (`base_data` fills `block`,
`tx`, `tx_log`, ...; the others read them when they are behind) and each keeps
the height it has reached in the table `async_task`.

| component | state | operations | what is hard | correct when |
|---|---|---|---|---|
| Fetcher, `fetch/fetch.go` | `Height`, `blockCache`, `interrupt`, `interruptCh`; in `Run` the end of the range, `firstLoop`, the hash the next block must name | `Run`, `Stop`, `SubBlock`, the start-up cache, the walk that finds the fork, `GetBlocks` with workers for blocks, receipts and traces | the walk and the round are many reads of a node that moves; unsigned heights; `Stop` racing the two places where `Run` answers; channels between workers | the events describe one linked chain changed only at its top; only orphans are reverted; a block handed over is whole; it catches up; `Stop` returns and silence follows |
| base_data, `task/basedata_storage_task.go` | channel, collected blocks, `curHeight`, a timer; five tables | `Start`, `saveBlocks`, `UpdateBlockSate`, `Stop` | a retry after a commit whose answer was lost; a batch saved in part; a revert while blocks are collected; stop and crash | the rows that count are the chain the feed describes, each height once, up to what is still in hand |
| async task loop, `task/base_async_task.go` | `curHeight`, `latestHeight`, a cache of blocks, `compensationChan` of capacity 10, the row of `async_task` | main loop, catch-up from cache or tables, revert, stop | the loop is sender and receiver of its own channel; feed and catch-up meet at a moving height; base_data may be behind, or behind after a restart | every block that stands is handled, none that was taken back counts |
| handlers: erc1155, erc20, erc721, dex_pair, push_kafka | their tables, LRU caches of tokens and pairs, the Kafka topic | `handleBlock`, `revertBlock`, `fixHistoryData` | what is committed together differs: rows with the height, rows before the height, a delete ahead of both; a message stored and reported as failed | no row or message of a reverted block is left, none is missed or doubled, derived tables agree with the rows |
| balance handlers, `task/*balance_task.go`, and `task/cache_filter.go` | tables of balances with their heights, an LRU of heights, a Bloom filter | ask a node for what a block touches, save, revert by handling the block again | the node is ahead of the feed, behind itself on another replica, and reorganises between two answers; the filter forgets at a restart | a balance is not older than the last block that changed it, and keeps nothing of a reverted one |
| delay task, `task/block_delay_task.go` | a bounded queue, the height recorded | send with a delay, replace in the queue, catch up from the tables | the front of the queue is sent without a look; record after send; catch-up while the queue fills | blocks leave in order, delayed, each at least once, and none is reverted later |
| multicall, `utils/multicall.go` | none | a call of many, halved when it fails | results are matched by position across pieces | output i belongs to input i |
| database layer, `output/mysqldb` | - | reads of blocks from four tables with filters; batched inserts | no transaction around the reads; inserts in pieces, retried as a whole or not | a block read is whole; a save reported done wrote each row once |
| process, `process/process.go` | which goroutines live | start, signal, stop of everything under one timeout | the feed waits for its subscribers, the stop waits for the loops | a signal ends the process, in an order in which nobody waits for a reader that has gone |
| itxpatcher, `cmd/itxpatcher` | two pools and three channels | re-read internal transactions, replace rows | a failed save is sent to the pool again while channels close; delete and insert are two transactions | rows deleted have new ones on the way |
| compensation, `tools/compensation` | a height, the cache filter | ask the balances of a range again | ranges cut at the end; a node that has not reached it | no block of the range is left out |

Retry helpers (`utils/retry_helper.go`) bound the attempts of all of these; after
the bound the caller ends the process.

## Modules

| module | what it is | code |
|---|---|---|
| `EvmNode` | the node: a chain that grows and reorganises | external |
| `ChainLog` | abstract: a stack of linked blocks, what the feed and the table `block` both promise | - |
| `Fetcher` | the fetcher, its stop handshake, its subscriber's view | `fetch/fetch.go` |
| `FetchRound` | abstract: one round as `Fetcher` assumes it, all blocks of the range or none | - |
| `GetBlocks` | the round in detail: workers, channels, receipts, traces | `fetch/fetch.go`, `fetch/util.go` |
| `Feed` | what an event is, and what it does to a chain | - |
| `BaseStorage` | base_data, its database, failures, crashes, restarts | `task/basedata_storage_task.go`, `output/mysqldb` |
| `TaskFeed` | the feed and the tables of base_data as the other tasks see them | `output/mysqldb/query.go` |
| `AsyncTask` | the loop of an asynchronous task | `task/base_async_task.go` |
| `RowsTask` | erc1155_basic, and what the transfer tasks share | `task/erc1155_task.go` |
| `Erc20TxTask`, `Erc721Task` | RowsTask with `erc20_info`; with `token_erc721` | `task/erc20_tx_task.go`, `task/erc721_task.go` |
| `DexPairTask`, `PushKafkaTask` | AsyncTask with pairs and reserves; with a topic | `task/dex_pair_task.go`, `task/push_kafka_task.go` |
| `CacheFilter` | LRU and Bloom filter in front of a table | `task/cache_filter.go` |
| `BalanceTask` | AsyncTask and CacheFilter with a node to ask | `task/balance_task.go` and the two below |
| `NativeBalance`, `Erc20Balance`, `Erc1155Balance` | the three balance tasks | `task/balance_task.go`, `task/erc20_balance_task.go`, `task/erc1155_balance_task.go` |
| `DelayedLog` | abstract: what the consumers of the delayed topic are promised | - |
| `DelayTask` | the delay task | `task/block_delay_task.go` |
| `MultiCall` | a call that is halved when it fails | `utils/multicall.go` |
| `Transfers` | which logs handlers take, which logs filters return | `task/*.go`, `output/mysqldb/filter.go` |
| `BlockReader` | reading blocks from four tables | `output/mysqldb/query.go` |
| `TableWriter` | the batched inserts | `output/mysqldb/mysqldb.go`, `writer.go` |
| `Process` | start, signal, stop | `process/process.go`, the `Stop`s of the tasks |
| `ItxPatcher`, `Compensation` | the two tools that write | `cmd/itxpatcher`, `tools/compensation` |
| `FetcherProof`, `BaseStorageProof`, `DelayTaskProof` | theorems and proofs of the module they are named after | - |
| `ProgramsProof` | of `Process`, and of the tools `Compensation` and `ItxPatcher` | - |
| `TaskFeedProof`, `RowsTaskProof`, `HandlersProof` | of what tasks are fed with; of any task with rows and a height, and so of erc1155_basic, erc20_tx and erc721_basic; of push_kafka, dex_pair and the balance tasks | - |
| `CallsProof` | of what other modules take as one step: the round (`GetBlocks`), the multicall (`MultiCall`) and the inserts (`TableWriter`) | - |
| `MC...` | instances for TLC | - |

How they compose:

- `Fetcher` is shown to implement `ChainLog` (`ImplementsChainLog`: the
  subscriber's chain is the log). `BaseStorage` takes its events from that
  contract (`Follows` in `Feed` is `ChainLog`'s step) and is shown to implement
  it again in the database (`DBImplementsChainLog`: the rows that count are the
  log). `TaskFeed` uses both: a task receives the events of one `ChainLog`, and
  reads the tables as another one that applies the same events in its own time,
  before the task or after it.
- What `Fetcher` takes as one step, the read of a block within a round, is the
  whole of `GetBlocks`, which is shown to implement `FetchRound` (`IsOneRound`).
- What the tasks take as one step is detailed in the same way: the read of blocks
  from the tables (`BlockReader`), the inserts (`TableWriter`), the multicall
  (`MultiCall`), each with the properties the one step assumes.
- `RowsTask`, `DexPairTask`, `PushKafkaTask` and `BalanceTask` extend `AsyncTask`
  and take over where its `pc` is `handle`, `save` or `revert`. `Erc20TxTask` and
  `Erc721Task` extend `RowsTask`: what they do to rows and height is a step of
  `TransferNext` in `RowsTaskProof`, the relation the theorems about rows are
  proved of.
- The MC modules of a family (`MCTasks`, `MCBalances`, `MCCalls`, `MCTools`,
  `MCFetcherFair`, `MCDelayTask`) hold several instances with their own
  constants. The members of a family write nothing in common, so that `Init`
  chooses one of them, and the others' variables stay as they are. A property of
  a family puts together what the same question means for its members.

## How the models correspond to the code

One step of a model is one read of the node, one query, one transaction or one
access to shared state; whatever runs beside it may step between any two.
Variables have the names of the fields they stand for where the code has one;
`pc` says where a loop is. Actions of a failure (`...Fails`, `...AnswerLost`) are
the error branches of the call they are named after; an answer that is lost is a
call that took effect and returned an error.

**Fetcher.**

| action | code |
|---|---|
| `Init`, `LoadLocalBlocksToCache` | `NewFetcher`: the cache filled from the database |
| `Start` | `Run` up to its loops, with `StartHeight = 0` |
| `EnterLoop`, `StopRun` | the two checks of `interrupt` |
| `BeginWalk`, `SkipWalk` | the check whether `Height` is near `end`, or the first round |
| `WalkDown`, `WalkEnds`, `WalkLost` | one turn of the loop of `getLatestNormalBlockInfoInDB`: one read of the node |
| `SendRevert`, `EndReverts` | the reverts, top first; the new `Height` |
| `FetchBlock(n)`, `FetchFails`, `FetchEnds` | a block of `GetBlocks` read; an error discards the round |
| `BreakRound`, `Publish` | the check of the parent hash; cache, send, `Height` |
| `Idle`, `Wake`, `Finish` | end of the range: sleep and refresh `end`, or finish |
| `RpcExit` | retries used up: the process ends |
| `StopLoad`, `StopStore`, `StopReceive` | `Stop`: atomic load, atomic store, receive |
| `Accept` | the subscriber takes the event, `Send` returns |

The event being sent is `out`, and `Run` does nothing while it is not taken, as
`Send` blocks. Hashes are pairs of height and branch: a block's hash determines
its ancestors. Unsigned subtraction is `Minus`, modulo `U64`. The comparison of
the walk reads `ParentHash` of the block *above* the local one, so a block counts
as orphaned when its successor on the node does not name it. `LocalHash` keeps
its former value when the cache has no block at this height, as the Go variable
does.

**GetBlocks.** `heights` is what is left in the channel of heights; `asking`,
`read`, `building` are what workers hold; `blocks` and `errs` what has been
returned. `TakeHeight`, `getBlockByNum`, `NoBlock`: a block worker. `TakeBlock`:
a second worker takes it, and `groupTxs` cuts its transactions into groups, which
`TxWorker` workers take from a channel: `left` are the groups not done, the first
ones of them in hand. `createTxBatch` asks the receipts of a
group, and takes them as they are: the code does not compare the block they name.
`AppendTxs` appends them under the mutex, so the order is that in which groups return.
`NoReceipts`, where the call fails, and `NullReceipt`, where the node has one of the
transactions no more, are the end of the retries: the block is given up.
`GetTxInternalsByBlock`, by number, comes when all groups are there.
`SendBlock`, `BlockFails`: the answer, read by the loop of `GetBlocks` or the
goroutine of errors. `Return`: all or none. The node keeps a transaction in one
block of its chain at most, and may have it in blocks of several branches
(`NoTxTwice`), which is what makes the block of a receipt a single one.

**BaseStorage.**

| action | code |
|---|---|
| `Subscribe`, `LoadHeight` | the head of `Start`, with `StartHeight = 0` |
| `Timer`, `Stop` | two cases of the select |
| `ReceiveUnexpected`, `ReceiveBlock`, `ReceiveRevert` | the third: check of the height, collect, save or go on to the revert |
| `SaveBlock`, `SaveDone` | one turn of `saveBlocks`' loop: look for the row, else insert in one transaction |
| `Mark`, `MarkUnexpected` | `UpdateBlockSate` and the check before it |
| `SaveFails`, `MarkFails`, `SaveAnswerLost`, `MarkAnswerLost` | errors: another attempt from the first block, or exit |
| `Publish` | the feed; an event sent before `Subscribe` is lost |
| `Signal`, `Crash`, `Restart` | `Process`, and the operating system |

A row of `rows` stands for the rows of one block in `block`, `tx`, `tx_log` and
`tx_internal`: they are written in one transaction and marked together.
`contracts` is separate because a revert does not touch it. After a restart the
feed continues from the chain in the database, because that is what the fetcher
loads (`sent' = DBChain`).

**AsyncTask.** `StartTask` is the head of `Start`: height from `async_task`,
subscription. `Enter` is the part of the loop above the select: a task that has
reached `EndNumber` ends, one that is behind puts a token into `compensationChan`
and waits if it is full (`Behind`). The select is `Receive(e)`, `Wake` (a token:
the channel is drained and catch-up begins) and `TakeStop`. An event is
`ReceiveNext` (the block above the height), `ReceiveAhead` (kept in the cache),
`ReceiveOld`, `ReceiveRevert` (of the height, or below it), `ReceiveRevertAbove`.
`Drained` empties the cache behind a block that was handled.
`Cached(h)` and `Stored` are the two sources of catch-up, chosen by `FarBehind`,
where `latestHeight - bufferSize` wraps around; `ReadFound`, `Skip`, `Cut` and
`ReadFails` are the outcomes. `Saved` and `Retry` end a save. The environment is
`Publish`, `BaseApplies` (base_data has saved or reverted one more event),
`Signal`, `Crash`, `Restart`: a restart begins with a feed cut back to what
base_data has in the database, whatever the task has recorded. `skipped`, `gone` and
`astray` are history for the properties: they change no step. A block goes astray when
catch-up reads it after its revert was received (`ReadFound`), when a restart finds its
effects where base_data does not have it (`Restart`), or when the revert of a block below
leaves it with its effects, because catch-up was ahead of the feed (`LeftAbove`: a revert
takes back one height).

**Handlers.** `RowsTask`: `FixHistoryData`, `Handle`, `SaveWithHeight` (rows and
height in one transaction), `Revert` (`MarkedWithHeight`: marks the rows of the height and
records the one below; rows above it, of blocks catch-up has read, stay as they are). `Erc20TxTask` adds the infos asked for in between
(`FetchInfos`, `Evict`) and `GetOrigin`, which deletes the old row of
`erc20_info` ahead of the transaction that inserts the new one. `Erc721Task`
splits the save (`SaveRows`, `SaveHeight`) and moves owners (`Upsert`,
`GiveBack`). `DexPairTask`: `LastSync` goes through the events backwards,
`DexHandle` asks for the tokens of pairs it does not know, `UpsertPairs` and the
height are committed together; a revert only sets the height back.
`PushKafkaTask`: `Push`, `PushRevert`, then `Record` or `RecordRevert`, whose
errors are only logged. Catch-up announces the blocks of a range one by one
(`HandleOne`, `Advance`).

**Balances.** A balance is the chain it was read from, so that "older" and
"reverted" can be said of it. `AskForTouched` goes through a block's keys with the
cache; `ReadValue` and `ReadHeight` are the answers of a batch, one by one, with
the node moving in between, `Erc20GetBalanceByMultiCall` the one of the contract, with
its height; `ElementReverts` is an element of a batch that fails in a way no retry would
help (`NoMreRetryErrors`), which the code takes for an answer without a value; `QueryFails` includes a height below the one required. `Save`,
`RecordHeight`. A revert is `CleanAndHandle`, `RecordReverted`, `RecordBelow`: the
block is handled as if it were new, and the height recorded twice. `lag` is how
far behind the replica that answers is.

**DelayTask.** `Enter` sends the front if the queue is full (`Due`) or turns to
the select: `Ignore`, `Receive`, catch-up, `TakeStop`. `Added` is
`addBlock`/`enQueue`; `GetBlock` reads from the tables what the queue does not
hold; `Send` and `Record` are two steps.

**MultiCall.** The recursion of `AggregateWithRetry` is the list `groups` of the
calls still to make: `Answer` (a group that succeeds), `Split`, `GiveUp` (one
input), then `Accept` or `Refuse` by the height.

**BlockReader, TableWriter.** One step per query (`ReadBlocks`, `ReadLogs`,
`ReadTxs`, `ReadTxsOfLogs`) and per statement (`InsertBatch`), with base_data
saving and reverting in between, or the statement failing. Each of the insert
functions is an operator on the table: plain, ignoring or updating.

**Process.** `Signal`, `ReceiveSignal`, `Expire`; the stopping goroutine goes
through `Targets` (`InterruptFetcher`, `StopBase`, `CheckStoped`/`StopAsync`,
`StopDelay`, `ReportStopped`); the fetcher is its sends; a task its
subscription, its loop and its channel.

**Tools.** `ItxPatcher`: `SendNum`, `TakeNum`, `FetchInternalTx`, `SendRows`,
`TakeRows`, `DeleteRows`, `InsertRows` and what a failure does (`SaveFails`,
`Resend`, `ResendPanics` on a closed channel). `Compensation`: `ReadFound`,
`PassedTo`, the balances as above, `Save`.

## Runs

| run | cfg | states | what is asked |
|---|---|---|---|
| `head` | `MCFetcher_head` | 2 691 807 | the head followed through three reorganisations, one failed round, a `Stop` at any moment, after a first start or a restart, three blocks per round; refinement of `ChainLog` |
| `stop_and_range` | `MCFetcherFair_both` | 444 903 | `Stop` at any moment, of a fetcher without an end and of a bounded one; with fairness, catching up and the return of `Stop` |
| `shortdb` | `MCFetcher_shortdb` | violation | a restart on fewer than `2*BlocksSafe` stored blocks |
| `base` | `MCBaseStorage_rows` | 363 338 | base_data through failures, lost answers, a crash and a restart: nothing lost or doubled, everything saved, unless it subscribed too late; refinement of `ChainLog` in the database |
| `shutdown` | `MCProcess_stop` | 110 528 | two signals, a task of each kind, a feed that blocks: the process ends, and in which order |
| `tasks` | `MCTasks_all` | 1 974 656 | the five asynchronous tasks against a feed with a reorganisation, a base_data that is behind, failures, lost answers, a crash and a restart |
| `tasks_catch_up` | `MCTasks_catchup` | 159 635 | with fairness, erc1155_basic and dex_pair do not stay behind |
| `twice` | `MCTasks_twice` | violation | erc1155_basic, catch-up ahead of a revert |
| `balances` | `MCBalances_fresh` | 1 080 206 | the balance tasks against a node that is ahead, reorganises and is behind on a replica |
| `delay` | `MCDelayTask_all` | 486 094 | the delayed topic through a reorganisation, failures, a restart; refinement of `DelayedLog` |
| `calls` | `MCCalls_all` | 138 146 | the calls the other modules take as one step: round, queries, multicall, inserts |
| `tools` | `MCTools_all` | 78 469 | compensation in both of its ways, itxpatcher |

Two of the runs end with a violation on purpose; see
[below](#where-the-code-and-its-promises-part).

## Properties

**Fetcher.**

- `FeedIsStack`: an appended block is one above the subscriber's top, a revert
  names exactly the top. base_data ends the process when either fails.
- `OnlyOrphansRevert`: a block sent as a revert is not on the node's chain at
  that moment, although the walk that chose it has read the node earlier.
- `CacheIsPublished`: the cache holds, at every height it has, the block the
  subscriber has there.
- `FeedIsChain`: what the subscriber has is linked down to genesis.
- `NeverLost`: the walk does not run out of the cache and end the process.
- `ImplementsChainLog`: step by step, `view` is a stack of linked blocks.
- `EndlessCatchesUp`: when the node stops changing, the subscriber ends with
  exactly its chain up to `BlocksDelay` below the head.
- `QuietAfterStop`, `EndlessStopReturns`: the two halves of `Stop`.
- `FinishedIsComplete`: a bounded range ends with every block of it.
- `BlocksWhole`: a block that a round hands over has all its transactions, with
  receipts of this block and traces of this height, or it was abandoned while it
  was put together; with one worker the transactions are in order. For a block
  read back from the tables: handlers find the same transfers in it as in the
  block of the feed.
- `IsOneRound`, `CallsReturn`: a round is all or nothing, and ends.

**base_data.**

- `DBFollowsFeed`: database + collected blocks + events in hand and in the
  channel, applied in order, are the chain the feed describes, at every moment
  the task runs, between two attempts of a failed save too; and a stored block
  has its contract rows.
- `OneOkRow`: a height has at most one row that is not reverted. There is no
  unique key in the table that would enforce it.
- `NoGaps`: below a height with such a row every height has one. A restart asks
  only for the highest one, so a hole that a half-failed batch left would never be
  filled.
- `NeverUnexpected`: the task's own checks do not end the process.
- `DBImplementsChainLog`: the database changes by one block at a time, at its top,
  through restarts too.
- `Saved`: the last blocks do not stay unsaved when the feed pauses.

**Asynchronous tasks.** Each is a family property with one meaning.

- `RowsStand`: rows that count are of blocks that stand, or whose revert is on its
  way to the task, or that went astray.
- `NothingLost`: up to the height of the task every block that stands has its
  rows, its message, or its reserves in a row that names the tokens
  (`NothingMissed`, `AllAnnounced`, `ReservesFresh`); the height in the table is
  never above the blocks with rows, since that is all a restart looks at
  (`HeightIsWritten`); and the blocks the consumers of the topic believe in stand
  as rows do (`AnnouncedStand`).
- `OnceWithHeight`: where rows and height are committed together, a height that
  counts twice means that a block went astray, whatever order feed, base_data,
  catch-up, crashes and restarts come in (`OnlyStraysTwice`).
- `TwiceOnlyUnrecorded`: the rows of a block are written again only if the height
  did not tell: a crash or a lost answer in between, or the block went astray.
- `OriginsKept`: the supply in a row of `erc20_info` that was deleted ahead of the
  transaction is in the new row or in hand, through failures, retries, evictions;
  and a token taken for known has its row, after a crash too.
- `OwnersFollow`: at rest, the table of owners agrees with the table of transfers.
- `CatchesUp`: with fairness, the task does not stay behind the last event.

**Balances.** `BalanceFresh`: once a task has passed a block that stands, the row
of each balance it touches was read from a chain with this block: the cache, a filter
that was emptied, a replica that is behind do not leave an older one. The exceptions
(`Excused`, `Untold`) are listed below; each of them is needed, the run fails without it.
`BalanceStands`: no row keeps the change of a block the task has handled and the feed
has taken back since, by reverts that handle the block again.

**Delay task.** `KeepsDelay`: the topic implements `DelayedLog` (in order, at least
once, repeated only while not recorded) where base_data is not behind, and is never
early where it is. `SendsDue`: the front of the queue, sent without a look, is the
block whose turn it is, and the queue has no gap. `DelayCatchesUp`: it does not stay
more than its delay behind.

**Calls and tools.** `OutputsMatch`: the outputs of a group cut to pieces match the
balances they are for, only what failed itself is lost, none is older than asked.
`SavedOnce`: a save reported done wrote every row once, in whatever pieces it was
tried; one never committed wrote none. `LeavesNoHole`: compensation asks about every
block of its range; rows itxpatcher has deleted have new ones on the way, and no block
with internal transactions is dropped between its channels, workers and retries.
`ToolsEnd`: the tools come to an end.

**Process.** `NoSendToEnded`: the feed does not wait for a task that has left its
loop. `TerminatedMeansEnded`: unless a second signal came, the process says
"terminated" only when all have ended. `SignalEnds`: a signal ends the process.

## Where the code and its promises part

Two runs show a disagreement:

- `shortdb`: `loadLocalBlocksToCache` subtracts `2*BlocksSafe` from the highest
  stored height on `uint64`. With fewer stored blocks it wraps around, nothing is
  loaded, and the first round takes the empty cache for a first start: a
  reorganisation that happened while the process was down is not noticed and the
  next block is published on top of an orphan.
- `twice`: `base_async_task.go:124` says that nothing is written twice in any
  case. A revert takes back one height (`erc1155_task.go:169`), the one of the event.
  A task that was behind may have read blocks above it from the tables, ahead of
  the feed; their rows stay, and the blocks that come in their place are written
  beside them. (erc721_basic has another case: it commits rows and height in two
  transactions, and after a crash in between writes the rows again.)

The models name what else they had to assume or except. Each of these is a branch
of a model, or an assumption with a name, and the passing properties say where it
ends:

- *Fetcher.* The walk is left out when `Height` is `BlocksSafe` or more below `end`,
  since "revert won't happen" there. The blocks already published were published
  near the head, however: if the head moves that far while the fetcher sleeps or
  waits in `Send`, and the top published block was orphaned meanwhile, the next
  round starts with an empty `prevHash` and links to nothing (`Prompt`,
  `NodeKeepsPace`). A reorganisation to an equally long branch is noticed only when
  the node grows. When a bounded range ends while `Process` stops, `Run` and the
  caller of `Stop` may both wait for the one token.
- *Start* (`late`). `Process.Run` starts tasks and fetcher as goroutines; an event sent
  before base_data has subscribed is lost, and the next block ends the process. The
  properties of base_data except what happens from such an event to the next start.
- *base_data.* `UpdateBlockSate` marks four of the five tables `saveBlocks` fills: the
  contract rows of a reverted block stay.
- *Tasks* (`astray`, `skipped`). A task may record more than base_data has saved; after
  a restart the feed goes back and the rows above it stay, with other blocks coming at
  their heights. A revert takes back its own height, and what catch-up has handled above
  it stays in the same way. Catch-up may read a block from the cache or from the tables after its
  revert has been received; where it finds none, because base_data is behind, it passes
  the height. push_kafka may send a message whose height is not recorded. dex_pair does
  not take reserves back when a block is reverted.
- *Balances* (`Untold`, `misled`, `Unanswered`, `unsure`). A balance read ahead
  of the feed may come from a block the task never hears of, and counts as up to date at
  its height when the block that took its place comes. In a batch the height is read after
  the values, so a node that moves in between gives a balance a height it does not have; a
  call that failed, or an element of a batch that reverted, is saved as zero, with a height
  that keeps it from being asked for again. erc1155 saves the height of the block, not that of
  the answer. The height required of a multicall is that of the last event received. After
  a revert a token may be left in `compensationChan`; the block that replaces the reverted
  one is then read from the database while its event still waits, and a node without
  this block is good enough: its older balance stays when the event comes and is dropped.
  The batch asks for the height of the block and has no such case. A revert empties cache
  and filter, since the heights in the table may be those of the branch given up; a false
  positive of the filter believes them all the same, and keeps a balance of that branch.
  After a restart a task goes on from the height it had recorded: a block up to there
  that it has not handled, or that a revert cut short has taken back, counts as passed
  over (`Missed`, `counted`), and its balances are not asked for again.
- *Multicall.* One call that fails among others is given up alone, at the greatest height.
- *Delay.* The error branches between the send and the record send a block again.
- *Database.* Transactions read in chunks of hashes come chunk by chunk, so not in the
  order of the block; native balances are inserted without a transaction.
- *Tools.* `RenewInternalTransactions` deletes and inserts in two transactions; a failed
  save sent to a closed pool panics; compensation's `StartHeight - 1` wraps at 0.

## Assumptions, bounds and fairness

**The node.** A reorganisation replaces at most the last `ReorgDepth` blocks by at
least as many. An abandoned branch does not come back; a node that flips back and
forth is a sequence of new branches with other hashes. `MaxHead` and `MaxReorgs`
bound the run, not the model; they are the only bounds on the node.

**Finality.** `ReorgDepth <= BlocksSafe + BlocksDelay` is what the configuration
has to satisfy for `FeedIsChain`: only then is a block `BlocksSafe` below `end`,
which itself is `BlocksDelay` below the head, out of a reorganisation's reach. The
cfgs take the limit, 3 = 2 + 1. `NeverLost` asks for less
(`ReorgDepth <= 2*BlocksSafe + BlocksDelay - 1`) and holds with room.

**Keeping pace** (`Prompt`, `NodeKeepsPace`). No step of the node makes the fetcher
`BlocksSafe` blocks late while it holds an orphan, in the cache or in the round it
is about to publish. The code does not enforce this. `FeedIsStack`,
`CacheIsPublished` and type correctness do not need it: their proofs hold for
`Prompt = FALSE`.

**Start.** `Boots` lists what the database and the node may hold when the process
starts: nothing stored, or the blocks a previous run can have stored, with the
node on the same branch or on another that left it within the finality depth.
A database of 1 to `2*BlocksSafe - 1` blocks is left out of the passing runs and
is the subject of `shortdb`. `StartHeight` is 0 throughout, the value the program
uses after its first start. `getCurChainHeight` wraps around on a node shorter than
`BlocksDelay`; the definition has the wrap-around, the runs start at longer nodes.

**Events are linked.** What `BaseStorage` and the tasks take from the feed is a
`ChainLog`, that is, what `head` shows of the fetcher. That base_data applies the
same events in order is what `base` shows.

**Order of the rows.** The query of `GetBlocksByRange` (`query.go:84`) has no ORDER BY,
and the tasks handle what it returns as it comes. That it comes by number is an assumption
of `Stored` in `TaskFeed` and of the tools; `ReadBlocks` in `BlockReader` returns the rows
in the order of their insertion, which is by number for the blocks that stand. MySQL
does either as long as it reads the rows through the index `idx_state_num` or
`idx_num` (`sql/dump.sql:134`), or in the order of the primary key; it promises none.

**Bounds.** `head` allows three reorganisations of up to three blocks on ten, with
rounds of three: reorganisations can overlap a walk, a round, a revert and each
other. `stop_and_range` has two reorganisations that gain one block each.
`base` has seven events over a tree of two branches of four blocks, two
restarts, one retry and a channel of two, and the first events may come before the
subscription: a batch of two blocks and a revert can be
in flight at a crash, and a revert, another branch and a revert again fit in;
`MaxBlockCount` 2 with events that come singly makes full batches and batches the
timer saves.
`tasks` has three events after two stored blocks, over a branch that leaves after
block 1: a task can be reverted twice, be behind base_data and ahead of it, read
from cache and tables, and meet the other branch after its restart; the cache
holds fewer blocks than may wait. erc1155_basic has one event more, a channel of three
and reads two blocks at a time, so that catch-up can be ahead of a revert and of the
blocks that come after it. `balances` has two keys and a cache for one of
them, so evictions occur, with every answer of the filter; it begins with a block the
task has yet to catch up on, in the balances already or not, and five events revert it and
bring one of two other branches, of which one leaves the chain a block later. `delay` has a queue of
three and chains of six. `calls` has two workers of each kind, two heights on two
branches that share transactions, five calls of which the fourth fails, three rows
for two keys. `tools` has ranges that do not divide evenly. A channel, batch or
queue in a run is always smaller than what goes through it. `U64` and `WordSize`
only have to be larger than every height.

Members of `MCTasks` and `MCBalances` have bounds of their own, stated where they
are instantiated; those that multiply most without meeting a case of their own
(restart and failures in the three balance tasks besides native_balance, lost
answers in erc1155_basic) are left to the members that have them.

**Fairness.** Nothing is assumed of the node, of failing calls, of signals or
crashes: they may happen or not. What is assumed is that goroutines run:

- `stop_and_range`: `WF(Progress)`, the goroutine of `Run` (while `out` is empty:
  `Send` blocks it otherwise); `WF(Accept)`, the subscriber reads its channel;
  `WF(EndStop)`, a goroutine inside `Stop` goes on. Only the fetcher without an
  end is asked to be live, because at the end of a range two may wait for one
  token (`fetch.go:195`).
- `base`: `WF` of the goroutine's step, of the timer, which runs whenever no event
  resets it, and of the stop case.
- `tasks_catch_up`, `delay`: `WF` of the task's goroutine and of base_data, and `SF` of
  the single cases of the select and of the answers of the database: Go's select chooses
  at random among ready cases and does not pass over one for ever, and a
  database does not fail for ever.
- `calls`, `tools`: `WF` of the workers and of the answers; the failures are bounded by
  the retries the code has.
- `shutdown`: `WF` of `Run`, of the stopping goroutine and of every task. The timer of
  twenty seconds expires at some time.

`CHECK_DEADLOCK FALSE` is in every cfg because every run may really stop: the
process ends by a signal, a fatal error or the end of a range, and the bounded
feed and node come to an end.

## What is proved

Every theorem holds for all values of the constants that satisfy the assumptions
of the modules (`EvmNodeAssumption`, `FetcherAssumption`, `BaseStorageAssumption`,
`ProcessAssumption`, `TaskFeedAssumption`, `AsyncTaskAssumption`,
`RowsTaskAssumption`, `Erc20Assumption`, `PushKafkaConstants`, `DexPairConstants`,
`DelayTaskAssumption`,
`BalanceTaskAssumption`,
`GetBlocksAssumption`, `TxsAssumption`, `MultiCallConstants`, `TableWriterConstants`,
`CompensationConstants`, `ItxPatcherConstants`): any depth of
reorganisation, any batch, buffer and queue, any number of workers, any list of tasks
or calls, any number of retries, failures and restarts. TLC evaluates each of them in
a run.

| theorem | states | further assumption |
|---|---|---|
| `FetcherProof!TypeCorrect` | `[]TypeOK` | |
| `FetcherProof!FeedStack` | `[]FeedIsStack` | |
| `FetcherProof!CacheAgrees` | `[]CacheIsPublished` | |
| `FetcherProof!RevertsAreOrphans` | `[]OnlyOrphansRevert` | |
| `FetcherProof!RangeIsComplete` | `[]FinishedIsComplete` | a range ends above what is stored |
| `FetcherProof!StopIsQuiet` | `[]QuietAfterStop` | one caller of `Stop`, besides `Run` itself |
| `FetcherProof!FeedChain` | `[]FeedIsChain` | `Finality` |
| `FetcherProof!WalkFindsBlocks` | `[]NeverLost` | `Finality` |
| `FetcherProof!FetcherImplementsChainLog` | `ImplementsChainLog` | `Finality` |
| `BaseStorageProof!StorageTypes` | `[]TypeOK` | |
| `BaseStorageProof!OneRowPerHeight` | `[]OneOkRow` | |
| `BaseStorageProof!HeightsAreDense` | `[]NoGaps` | |
| `BaseStorageProof!HeightsAgree` | `[]NeverUnexpected` | |
| `BaseStorageProof!DatabaseFollowsFeed` | `[]DBFollowsFeed` | |
| `BaseStorageProof!DatabaseIsChainLog` | `DBImplementsChainLog` | |
| `ProgramsProof!NoWaitForEnded` | `[]NoSendToEnded` | |
| `ProgramsProof!TerminatedIsTrue` | `[]TerminatedMeansEnded` | |
| `ProgramsProof!RangeIsCompensated` | `[]Compensated` | `StartHeight # 0` |
| `ProgramsProof!DeletedAreReplaced` | `[]DeletedIsPending` | |
| `ProgramsProof!NoBlockFallsThrough` | `[]NoneIsDropped` | |
| `DelayTaskProof!DelayTypesHold` | `[]TypeOK` | |
| `DelayTaskProof!DueIsSent` | `[]SendsDue` | |
| `DelayTaskProof!NothingIsEarly` | `NotEarly` | |
| `DelayTaskProof!DelayTaskImplementsDelayedLog` | `Promised!Spec` | `BaseFirst` |
| `RowsTaskProof!RowsTypesHold` | `[]RowsTypeOK` | |
| `RowsTaskProof!RowsThatCountStand` | `[]RowsStand` | |
| `RowsTaskProof!NoneIsMissed` | `[]NothingMissed` | |
| `RowsTaskProof!HeightHasRows` | `[]HeightIsWritten` | |
| `RowsTaskProof!WrittenOnce` | `TwiceOnlyUnrecorded` | |
| `RowsTaskProof!TwiceMeansAstray` | `[]OnlyStraysTwice` | `~LostAnswers` |
| `RowsTaskProof!Erc20RowsStand`, `Erc721RowsStand` | `[]RowsStand` | |
| `RowsTaskProof!Erc20MissesNone`, `Erc721MissesNone` | `[](NothingMissed /\ HeightIsWritten)` | |
| `RowsTaskProof!Erc20WritesOnce`, `Erc721WritesOnce` | `TwiceOnlyUnrecorded` | |
| `RowsTaskProof!Erc20TwiceAstray` | `[]OnlyStraysTwice` | `~LostAnswers` |
| `RowsTaskProof!Erc20TypesHold` | `[]Erc20TypeOK` | |
| `RowsTaskProof!OriginsStay` | `[]OriginsKept` | |
| `HandlersProof!PushTypesHold` | `[]PushTypeOK` | |
| `HandlersProof!NoneBelievedInVain` | `[]AnnouncedStand` | |
| `HandlersProof!AllAreAnnounced` | `[]AllAnnounced` | |
| `HandlersProof!DexTypesHold` | `[]DexTypeOK` | |
| `HandlersProof!PairsHaveTokens` | `[]TokensAsked` | |
| `HandlersProof!ReservesStayFresh` | `[]ReservesFresh` | |
| `HandlersProof!BalanceTypesHold` | `[]BalanceTypeOK` | |
| `HandlersProof!NoRevertedBalance` | `[]BalanceStands` | |
| `HandlersProof!NoOlderBalance` | `[]BalanceFresh` | |
| `CallsProof!RoundTypesHold` | `[]TypeOK` | |
| `CallsProof!WorkersMakeOneRound` | `IsOneRound` | |
| `CallsProof!OneWorkerKeepsOrder` | `[]TxsInOrder` | |
| `CallsProof!HandedOverWhole` | `[]WholeOrOrphan` | |
| `CallsProof!OutputsMatchInputs` | `[]OutputsInPlace` | |
| `CallsProof!FailuresStayAlone` | `[]OnlyFailedMissing` | |
| `CallsProof!NoneIsOlder` | `[]AcceptedHeight` | |
| `CallsProof!SavedOncePlainly` | `[]SavedIsWritten`, and the rows in their order | a table without unique key |
| `CallsProof!NothingIsLeftInPart` | `[]NothingInPart` | |

`Finality` is what the code's "revert won't happen" takes for granted: the fetcher
keeps pace (`Prompt`) and follows the head (`EndHeight = 0`), `BlocksSafe > 0`,
`ReorgDepth <= BlocksSafe + BlocksDelay`, and at a start the database is empty or
fills the cache and is `BlocksDelay` below the head. It is satisfied by the
constants of the run `head`, which checks the same properties. `~LostAnswers` excludes
the commit that is reported as failed: after one, a retry writes the rows again, as
`TwiceOnlyUnrecorded` says. `BaseFirst` is base_data at hand; where it is behind
`NothingIsEarly` is what holds.

**The feed.** `FeedIsStack` is not inductive. The invariant that is, `IInv`, has six
parts:

- `TypeOK` and `ViewNumbered` (the subscriber's n-th block has number n);
- `FeedIsStack` and `CacheIsPublished` themselves. They need each other: a
  revert names the top block because the walk took it from the cache, and the
  cache stays equal to what was published because a revert removes exactly the
  height the subscriber drops;
- `HeightInv`: between rounds `height` is one above the last block sent; during
  the walk and the reverts, `walk` plus the number of blocks still to revert is
  the length of what was sent, and those blocks are its top ones, from the top
  down. It also says where `height < end` is known, which the range of a round
  needs;
- `BatchInv`: the blocks of a round carry the numbers they are kept under, and
  the round in publication is an interval that starts at `height` or later.

There is a lemma per action or group of actions (`WalkDownKeepsIInv`,
`SendRevertKeepsIInv`, `PublishKeepsIInv`, ...; `QuietKeepsIInv` for those that
touch neither cache, event nor round), a lemma `NodeGrows` about what a node step
leaves of the facts about heights, and `StepKeepsIInv` that puts them together.

**Reverts.** `OrphanInv` adds that every block in the cache and in a round is
`Known`, that is, of a branch the node has or had and no higher than its tip, and
that what is about to be reverted is an orphan. A block becomes an orphan in the
eyes of the walk when its successor names another parent; it is one at that
moment because both reads are of one chain (`WalkDownKeepsOrphanInv`). It stays one
because a height whose block changes gets a block of the newest branch
(`ChangeIsNew`, `NodeLeavesOrphans`): this is where the proof uses that abandoned
branches do not come back.

**Ranges.** `RangeInv`: the end of a bounded range is never refreshed, and `Height`
and the blocks of a round stay below it.

**Stop.** `QuietInv` says where the token can be: it is put into `interruptCh` only
when `Run` has left its loops, and taken only by the one caller. With two callers
the second finds `interrupt` set and returns at once, while `Run` still works: the
code relies on `Process` being the only one.

**The chain.** `ChainInv` is inductive under `Finality`, on top of `IInv` and
`OrphanInv`. What is published is linked (`LinkedTo`) because the first block of a
round follows `prevHash`, and `prevHash` is the hash of the block below
(`PrevHashInv`), except in a round that skipped the walk. Such a round is harmless as
long as Run holds no orphan then, which is what the rest is about: orphans in the
cache are upward closed (`CacheClosed`), they are near the end that was read last
(`OrphansNearEnd`, `OrphansInSight`), so that a round after one walks, and a walk finds
the fork before the cache ends, because there is a cached block `ReorgDepth` below the
head with no gap above it (`CacheAnchored`); `NeverLost` is `pc # "lost"` in the same
invariant. `NodeForks` says what a reorganisation leaves: the chain up to a height at
most `ReorgDepth` below the head. The refinement is the step simulation: `Accept` is a
step of `ChainLog`, every other step leaves `view` as it is.

**Rows of base_data.** `SInv` is inductive without any assumption on the feed: besides
`TypeOK` and `OneOkRow` it says that the heights of the rows that stand are exactly
1 to the highest one (`RowsInv`), that what the fetcher sends is numbered from 1
(`SentNumbered`), that the collected blocks are consecutive up to `curHeight` and
begin at most one above the database (`CollectInv`: the ones a failed attempt has
saved already are a prefix of them), and how the counters of the retry loop
relate to where `Start` is (`TriesInv`). `HeightsAgree` needs `FeedInv` as well:
starting from `curHeight` (or the event in hand), the events in the channel lead,
height by height, to the length of the chain the feed describes (`ChanLeads`). An
event lost before the subscription breaks `FeedInv`; what is inductive is
`late \/ FeedInv`, as only such an event sets `late` (`StaysLate`), and a restart, which
clears it, establishes `FeedInv` from `SInv` alone.

`ChainsInv` says the same of the blocks themselves: collected blocks that are stored
are the ones in the database (`Stored`), each was built on the one below
(`BatchLinked`), and there is a function of chains over the events in the channel that
begins with what the task has and ends with what the feed describes, each made of the
one before by its event (`ChanMakes`). Such a function takes the place of a recursive
one; that `DBFollowsFeed`, a fold over the channel, follows from it is an induction
over its length: `UpTo`, an induction over an interval that is stated on sets, as
a theorem with an operator as parameter cannot be instantiated.

**The end of the process.** `PInv`: the goroutine that stops the others goes through
its targets in their order and has waited for those it has passed (`OrderInv`); until
the fetcher has ended no task leaves its loop without having unsubscribed
(`LeaveInv`); the channel of signals holds the goroutine's own one only at the end
(`SignalInv`).

**The delay task.** `TaskFeedProof` has what all tasks are fed with: the events in the
channel lead, height by height, to the chain that was sent, and those base_data has yet
to apply lead there from the chain in the tables (`FeedInv`). `DelayInv` adds that the
queue has no gap (`QueueRuns`), that what is sent was due when its turn came
(`TurnsAreDue`) and that the next event is not ahead of the queue (`HeightsMeet`). For
the refinement, `ChainStands` says that a block with `Delay` blocks above it is not
concerned by anything on its way (`PendingIsFresh`), and that queue and channel together
hold the blocks of the chain (`QueueIsSent`, `PendingIsSent`), in turns that follow each
other (`TurnsFollow`).

**Tasks with rows.** The theorems of an instantiated module cannot be cited, so the
steps the three tasks share are one relation, `TransferNext`, with a stop between cut
and save (erc20_tx) and with rows and height saved one after the other (erc721_basic);
`JointNext` is the part of it where they are saved together. `Erc20Step` and its like
show each task's step to be one of these. The invariants come in layers:

- `WorkInv`: types, `FeedInv`, the blocks in hand are those above the height in their
  order (`WorkFollows`), what is in hand where (`WorkInHand`), and the height recorded
  is not ahead of the task, except after a commit reported as failed
  (`HeightRecorded`);
- `Accounted`, or `RowsBelow` for `JointNext`: rows that count are below the height
  recorded, are being saved, or went astray. From it, that rows are written once;
- `HeightsCovered`: below the height there are rows at each height, or it was skipped;
- `StandsInv`: whatever the task may come to read (channel, tables, cache) it has been,
  or will be, told of (`BlocksKnown`), and what it works on or has written stands, is
  to be reverted or went astray (`WorkSettled`). Both parts are needed at once: a block
  that catch-up reads from the tables was known to base_data before the task.

`OriginsKept` has an invariant of its own, `InfosInv`: the new information of tokens is
in hand from the cut to the save, and a token in the LRU has its row or is in hand.

**push_kafka.** The layers are those of the tasks with rows, but a message cannot be
taken out of a topic, and a revert is announced without a look at what was announced.
What has to be shown is that the right block is believed after any such message:

- `PushWork`: types, `FeedInv`, the blocks of catch-up are those above the height in
  their order (`PushFollows`), and a revert in hand is of a block that is gone, at the
  height or below it, and the channel leads on from the one below (`PushInHand`);
- `PushKnown`: besides `BlocksKnown`, the feed tells of a block before it takes it
  back (`FeedTold`), what is in hand or believed stands, is to be taken back or went
  astray (`PushSettled`), and nothing is believed above the height but the next block,
  one in hand, or one the feed is about to tell again (`PushAccounted`).
  The lemma it turns on is `TakenBack`: if a revert is announced while the consumers
  believe in another block of that height, the feed is about to tell of that block;
- `PushCovered`: at each height up to the one announced last there is a block that is
  believed, or the height was passed over. With `NoneBelievedInVain` it is the block that
  stands, unless the feed is about to tell of that.

**dex_pair.** A revert sets the height back and leaves the reserves: what makes them
right again is that the block which comes in its place is handled, or had not changed
the pair. So what is proved is not that rows are of blocks that stand, but that a
row is never older than a block of the chain (`Shown`: it is of that block, at its last
event that can be decoded, or of a block above it):

- `DexWork`: types, `FeedInv`, what is in hand where (`DexHand`), and the blocks in hand
  are those above the height, in their order (`DexFollows`). As blocks are handled one
  after the other, what a block of the chain wrote is overwritten by those above it only;
- `PairsInv`: a pair in the LRU has a row, and a pair that is saved without having
  been asked for its tokens has one. This is `TokensAsked`;
- `DexKnown`: `BlocksKnown` again, and what is in hand stands, is to be taken back or
  went astray;
- `DexCovered`: at each height up to that of the task, and up to the one recorded, a
  block was handled and is `Shown`, or the height was passed over; up to the task's own
  it is one that is settled. Two settled blocks of one height that stand are the same
  one, and so it is the block of the chain.

**Balances.** The three tasks ask in different ways: in a batch, the height last, or
by calls of the contract, each with its height. `BalanceNext(calls)` is what their steps
have in common (`NativeBalanceStep`, `Erc20BalanceStep`, `Erc1155BalanceStep`), and
`BalanceInv` is inductive for it:

- `BalanceWork`: types, `FeedInv`, the blocks in hand are those above the height, and
  what is asked for is what they touch (`BalanceAsks`);
- `NodeTold`: the feed sends blocks the node has, and takes back those it has given up.
  So no later answer contains a block whose revert is on its way: here the proof uses,
  as in the fetcher, that a branch does not come back;
- `SoundInv`: what a row or an answer was read from, and the task has handled, stands,
  is to be taken back or went astray (`RowsSound`, `AnswersSound`). The step that matters
  is the end of a revert, after which the feed no longer owes it: until then, what
  is read for it, and what the filter knows, has nothing of the block (`Unwound`);
- `FreshInv`: what the cache holds are heights of rows, and the filter knows of them
  or is `misled` (`CacheTrue`); what is not asked for is saved with a height that is
  enough (`NotAsked`); the height of a row is one its node had, or the row is `unsure`
  (`AllTimely`), so that the row of what a block touches reaches the block
  (`CountedReach`), and at the height of the block it has the block itself
  (`CountedSound`).

Two facts make `BalanceFresh` out of it: a block the task has passed was handled and
not taken back since (`CountedCover`), and of the blocks of its height it is the only
one that is not forgotten (`PassedFacts`).

**The round.** `RoundWork` says that the heights left are the last ones of the range
(`LastOnes`), that each height that was taken is at exactly one place (`OnePlace`), and
that what is held for a height is a block of that height (`BlocksHeld`). The
simulation of `FetchRound` needs no more: whatever worker moves, the headers grow by
one block the node has at that moment, or stay. `AllFilled` follows the groups: they
cut the transactions of the block, those no longer `left` are in `txs`, so that a
block that is sent without an error has every transaction, and with one worker in
their order (`AllOrdered`). `AllAsRun` is about time: a receipt, a trace and
a header are read at different moments, but a branch the node has left does not come
back, so a block canonical when it is handed over was so at every read of it, and
by `NoTxTwice` the receipts were its own.

**The multicall.** The outputs and the groups still to call cut the inputs into
consecutive pieces: there are increasing places `f[1] = Len(returnData)`, ..., up to
`Len(Inputs)`, between which each group stands (`Cuts`). A group that is halved adds a
place, one that is answered moves the first. `Aligned`, which the run checks, says the
same with a concatenation of all groups; that is an induction over data, so the
theorem is about places: output i is that of input i, and an accepted result has as
many outputs as inputs.

**The inserts.** While a plain insert is under way, the draft of the session is the table
it began with and, after it, the first `inserted` rows of the save (`Grown`); a retry
begins with the table as it was, as long as no answer to a commit was lost. So a save
reported done has every row once and in order (`SavedOncePlainly`). What an insert that
ignores or updates leaves is a fold over the rows, an induction over data, and stays
with TLC; that a save never committed left nothing (`NothingIsLeftInPart`) holds for all.

**The tools.** `CompInv` is inductive: rows, and answers when they are saved, were read
at the end of the range or are excepted, and the cache knows of rows only
(`ReadAtEnd`, so that a balance that is not asked for has such a row); up to
`curHeight` every balance touched has a row, and of the batch in hand one or is asked
for (`RangeCovered`). The batches meet: the next one begins above the greatest number that
was found, and nothing lies between it and the end of the batch. A start of 0 is
excluded, as it wraps around and the tool is done at once. For itxpatcher, a deleted
block is with a save worker, in the channel or with a goroutine that sends again
(`DeletedWait`), and one with internal transactions that is not patched is at one of
the stations it has to pass (`Coming`).

**Only model-checked.** Liveness and `ENABLED` are out of the prover's reach: `Saved`,
`CatchesUp`, `DelayCatchesUp`, `EndlessCatchesUp`, `EndlessStopReturns`, `CallsReturn`,
`ToolsEnd`, `SignalEnds`.

Some properties of the runs put together what a question means for the members of a
family, and the theorems are about the members: `OnceWithHeight` is `TwiceMeansAstray`
and `Erc20TwiceAstray`,
`LeavesNoHole` is the three theorems about the tools. `NothingLost` is `NoneIsMissed`, `HeightHasRows` and those of the other handlers,
`AllAreAnnounced`, `NoneBelievedInVain`, `PairsHaveTokens` and `ReservesStayFresh`.
Of others a part is left to TLC: of `BlocksWhole` the queries
(`BlockReader`, which flattens and selects sequences: an induction over data), of
`OutputsMatch` the form of `Aligned`, of `SavedOnce` the inserts that ignore or update.
`OwnersFollow` is checked by its run only.

## Plan, and what is not modelled

The components are modelled. What could still be proved about them is `OwnersAgree` of
`Erc721Task`, which states a type invariant for it (`Erc721TypeOK`).

Not modelled:

- `cmd/tools/check`, `cmd/tools/readcurheight`: sequential programs that read the
  node and the database once, compare and print; no state, nothing written.
- `checkGenesisBlock` and the lock file of `main.go`: they end the process before
  anything runs.
- Configuration and logging: parameters of the other parts, here CONSTANTS, and
  output only.
- The contents of blocks beyond hashes, transactions and logs; JSON and column
  conversions; amounts; the payload of messages; the SQL text; lookups of one row by
  key: data that no property here tells apart.
- The waiting times of retries: an attempt comes later, whenever.
- The composition of fetcher and base_data over one database in a single state space:
  the two meet at `ChainLog`, which one implements and the other assumes.

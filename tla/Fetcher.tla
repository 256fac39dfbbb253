------------------------------ MODULE Fetcher ------------------------------
(***************************************************************************)
(* The block fetcher, src/fetch/fetch.go.  Run walks the chain of an EVM    *)
(* node in batches of blocks fetched concurrently and publishes them, in    *)
(* order, on a feed.  Near the head it first compares the blocks it has     *)
(* published, kept in blockCache, with the node's chain; those a            *)
(* reorganisation has orphaned are published again as reverts, top first.   *)
(*                                                                          *)
(* One process, Run, takes the steps below; the node steps at any time      *)
(* between two of its reads.  event.Feed.Send returns when the subscriber   *)
(* has the event, so Run waits with the event in `out' until it is taken.   *)
(* The Stop handshake (interrupt, interruptCh) is between Run and the       *)
(* goroutines that call Stop: those in Callers, and Run itself when it has  *)
(* reached the end of a bounded range.                                      *)
(***************************************************************************)
EXTENDS EvmNode, Functions

CONSTANTS
    BlocksDelay,    \* config: how far the fetcher stays behind the head
    BlocksSafe,     \* config: a block this far below the end is not checked
    BlockBatch,     \* config: how many blocks are fetched at once
    EndHeight,      \* config: end of the range, exclusive; 0: never ends
    U64,            \* 2^64: uint64 subtraction wraps around
    Boots,          \* what the database and the node may hold at start
    Callers,        \* goroutines that may call Stop, besides Run
    MaxFails,       \* bound: batches that fail with an error
    Prompt          \* environment assumption, see NodeKeepsPace

ASSUME FetcherAssumption ==
    /\ BlocksDelay \in Nat
    /\ BlocksSafe \in Nat
    /\ BlockBatch \in Nat \ {0}
    /\ EndHeight \in Nat
    /\ U64 \in Nat /\ BlocksDelay < U64 /\ 2 * BlocksSafe < U64
    /\ Boots \subseteq [stored : Nat, head : Nat, fork : Nat]
    /\ \A b \in Boots : b.fork <= b.head /\ b.stored <= b.head
    /\ "run" \notin Callers
    /\ MaxFails \in Nat
    /\ Prompt \in BOOLEAN

VARIABLES
    pc,             \* where Run is
    startNum,       \* Fetcher.startNum
    height,         \* Fetcher.Height: the next block to publish
    end,            \* Run's variable end
    firstLoop,      \* Run's variable firstLoop
    prevHash,       \* Run's variable prevHash
    cache,          \* Fetcher.blockCache
    walk,           \* getLatestNormalBlockInfoInDB: localHeight
    reverts,        \* getLatestNormalBlockInfoInDB: revertBlocks
    batch,          \* the fetched blocks of this round not yet published
    fails,          \* how many batches have failed
    out,            \* the event in blockFeed.Send, if any
    view,           \* the chain the subscriber has, after the events it took
    interrupt,      \* Fetcher.interrupt
    token,          \* how many tokens are in interruptCh, of capacity 1
    stopPc          \* where each call of Stop is

loopVars  == <<pc, startNum, height, end, firstLoop>>
roundVars == <<prevHash, walk, reverts, batch, fails>>
stopVars  == <<interrupt, token, stopPc>>
vars == <<nodeVars, loopVars, roundVars, cache, out, view, stopVars>>

Stoppers == Callers \cup {"run"}
Running == {"start", "outer", "inner", "walk", "revert", "fetch", "publish",
            "sleep"}

Event == [state : {"ok", "revert"}, blk : Block]

\* uint64 subtraction.
Minus(a, b) == IF a >= b THEN a - b ELSE a + U64 - b

----------------------------------------------------------------------------
(* Start of the process. *)

\* Blocks 1..n of the branch that is canonical when the database is filled.
StoredChain(n) == [i \in 1..n |-> [num |-> i, hash |-> <<i, 0>>,
                                              parent |-> <<i - 1, 0>>]]

\* The heights loadLocalBlocksToCache reads, given the highest stored block.
LoadedHeights(n) ==
    LET low == Minus(n, 2 * BlocksSafe)
    IN  IF n > 0 THEN (IF 0 < low THEN low ELSE 0)..n ELSE {}

LoadLocalBlocksToCache(stored) ==
    [n \in LoadedHeights(Len(stored)) |-> IF n = 0 THEN Genesis ELSE stored[n]]

Init ==
    /\ \E b \in Boots :
          /\ chain = [n \in 1..b.head |-> IF n <= b.fork THEN 0 ELSE 1]
          /\ branch = IF b.fork < b.head THEN 1 ELSE 0
          /\ view = StoredChain(b.stored)
    /\ cache = LoadLocalBlocksToCache(view)
    /\ pc = "start" /\ startNum = 0 /\ height = 0 /\ end = 0
    /\ firstLoop = TRUE
    /\ prevHash = NoHash /\ walk = 0 /\ reverts = <<>> /\ batch = <<>>
    /\ fails = 0 /\ out = <<>>
    /\ interrupt = FALSE /\ token = 0
    /\ stopPc = [p \in Stoppers |-> "idle"]

\* getCurChainHeight.
CurChainHeight == Minus(Tip, BlocksDelay)

\* Run, up to its loops, with StartHeight = 0: after the last stored block.
Start ==
    /\ pc = "start"
    /\ startNum' = Len(view) + 1
    /\ height' = Len(view) + 1
    /\ end' = IF EndHeight = 0 THEN CurChainHeight ELSE EndHeight
    /\ pc' = "outer"
    /\ UNCHANGED <<nodeVars, firstLoop, roundVars, cache, out, view, stopVars>>

----------------------------------------------------------------------------
(* The loops of Run. *)

\* Mutant: Run returns without reporting.
SendToken_Forgotten == UNCHANGED token

SendToken == token = 0 /\ token' = 1

\* An interrupted Run reports to the goroutine in Stop and returns.
StopRun ==
    /\ interrupt
    /\ \/ pc = "outer"
       \/ pc = "inner" /\ height < end
    /\ SendToken
    /\ pc' = "stopped"
    /\ UNCHANGED <<nodeVars, startNum, height, end, firstLoop, roundVars,
                   cache, out, view, interrupt, stopPc>>

EnterLoop ==
    /\ pc = "outer" /\ ~interrupt
    /\ pc' = "inner"
    /\ UNCHANGED <<nodeVars, startNum, height, end, firstLoop, roundVars,
                   cache, out, view, stopVars>>

\* Mutant: the first round after a restart is like any other.
NearEnd_NotFirst == height + BlocksSafe > end

NearEnd == firstLoop \/ height + BlocksSafe > end

\* A round that compares the published blocks with the node's chain first.
BeginWalk ==
    /\ pc = "inner" /\ height < end /\ ~interrupt /\ NearEnd
    /\ firstLoop' = FALSE
    /\ walk' = height - 1
    /\ pc' = "walk"
    /\ UNCHANGED <<nodeVars, startNum, height, end, prevHash, reverts, batch,
                   fails, cache, out, view, stopVars>>

\* A round far behind the head, that takes the published blocks for final.
SkipWalk ==
    /\ pc = "inner" /\ height < end /\ ~interrupt /\ ~NearEnd
    /\ pc' = "fetch"
    /\ UNCHANGED <<nodeVars, startNum, height, end, firstLoop, roundVars,
                   cache, out, view, stopVars>>

\* The range is exhausted: wait for new blocks, or finish.
Idle ==
    /\ pc = "inner" /\ height >= end /\ EndHeight = 0
    /\ pc' = IF interrupt THEN "outer" ELSE "sleep"
    /\ UNCHANGED <<nodeVars, startNum, height, end, firstLoop, roundVars,
                   cache, out, view, stopVars>>

\* Mutant: the end, which is exclusive, is the last block to publish.
NewEnd_Inclusive == CurChainHeight

NewEnd == CurChainHeight + 1

Wake ==
    /\ pc = "sleep"
    /\ end' = NewEnd
    /\ pc' = "outer"
    /\ UNCHANGED <<nodeVars, startNum, height, firstLoop, roundVars, cache,
                   out, view, stopVars>>

Finish ==
    /\ pc = "inner" /\ height >= end /\ EndHeight # 0
    /\ SendToken
    /\ pc' = "finished"
    /\ UNCHANGED <<nodeVars, startNum, height, end, firstLoop, roundVars,
                   cache, out, view, interrupt, stopPc>>

----------------------------------------------------------------------------
(* getLatestNormalBlockInfoInDB: one step reads one block of the node. *)

\* The local block to compare is gone: log.Fatalf.
WalkLost ==
    /\ pc = "walk" /\ walk \notin DOMAIN cache /\ height # startNum
    /\ pc' = "lost"
    /\ UNCHANGED <<nodeVars, startNum, height, end, firstLoop, roundVars,
                   cache, out, view, stopVars>>

\* localHash keeps its value when the cache has no block at this height.
LocalHash == IF walk \in DOMAIN cache THEN cache[walk].hash ELSE prevHash

ChainParent == BlockAt(walk + 1).parent

WalkReads == /\ pc = "walk"
             /\ walk \in DOMAIN cache \/ height = startNum
             /\ walk + 1 <= Tip

\* Mutant: the block of the same height is read, not the next one.
Orphaned_SameHeight == /\ walk \in DOMAIN cache
                       /\ BlockAt(walk).parent # cache[walk].hash

Orphaned == /\ walk \in DOMAIN cache
            /\ ChainParent # NoHash
            /\ ChainParent # cache[walk].hash

WalkDown ==
    /\ WalkReads /\ Orphaned
    /\ reverts' = Append(reverts, cache[walk])
    /\ prevHash' = LocalHash
    /\ walk' = walk - 1
    /\ UNCHANGED <<nodeVars, loopVars, batch, fails, cache, out, view,
                   stopVars>>

WalkEnds ==
    /\ WalkReads /\ ~Orphaned
    /\ prevHash' = LocalHash
    /\ pc' = "revert"
    /\ UNCHANGED <<nodeVars, startNum, height, end, firstLoop, walk, reverts,
                   batch, fails, cache, out, view, stopVars>>

----------------------------------------------------------------------------
(* Publishing. *)

\* blockFeed.Send, up to the subscriber taking the event.
Send(state, b) == out' = <<[state |-> state, blk |-> b]>>

\* Mutant: reverts are sent in ascending order.
NextRevert_Ascending == reverts[Len(reverts)]

\* The walk collects the reverts from the top down: the sort keeps the order.
NextRevert == Head(reverts)

\* Mutant: a reverted block stays in the cache.
CacheDrop_Keeps(b) == cache

CacheDrop(b) == Restrict(cache, DOMAIN cache \ {b.num})

SendRevert ==
    /\ pc = "revert" /\ reverts # <<>>
    /\ cache' = CacheDrop(NextRevert)
    /\ Send("revert", NextRevert)
    /\ reverts' = Tail(reverts)
    /\ UNCHANGED <<nodeVars, loopVars, prevHash, walk, batch, fails, view,
                   stopVars>>

EndReverts ==
    /\ pc = "revert" /\ reverts = <<>>
    /\ height' = walk + 1
    /\ walk' = 0
    /\ pc' = "fetch"
    /\ UNCHANGED <<nodeVars, startNum, end, firstLoop, prevHash, reverts,
                   batch, fails, cache, out, view, stopVars>>

----------------------------------------------------------------------------
(* GetBlocks: workers fetch the blocks of a round in any order, each at its *)
(* own time.                                                                *)

\* Mutant: the last round of a range is not cut at its end.
HeightEnd_Uncut == height + BlockBatch

HeightEnd == IF height + BlockBatch > end THEN end ELSE height + BlockBatch

FetchBlock(n) ==
    /\ pc = "fetch"
    /\ n \in height..(HeightEnd - 1) /\ n \notin DOMAIN batch
    /\ n <= Tip
    /\ batch' = [i \in DOMAIN batch \cup {n} |->
                    IF i = n THEN BlockAt(n) ELSE batch[i]]
    /\ UNCHANGED <<nodeVars, loopVars, prevHash, walk, reverts, fails, cache,
                   out, view, stopVars>>

\* An error for one block discards the whole round.
FetchFails ==
    /\ pc = "fetch" /\ fails < MaxFails
    /\ fails' = fails + 1
    /\ prevHash' = NoHash /\ batch' = <<>>
    /\ pc' = "inner"
    /\ UNCHANGED <<nodeVars, startNum, height, end, firstLoop, walk, reverts,
                   cache, out, view, stopVars>>

FetchEnds ==
    /\ pc = "fetch" /\ DOMAIN batch = height..(HeightEnd - 1)
    /\ pc' = "publish"
    /\ UNCHANGED <<nodeVars, startNum, height, end, firstLoop, roundVars,
                   cache, out, view, stopVars>>

\* Mutant: the blocks of a round are taken for a chain.
Breaks_Never == FALSE

\* A block that does not follow the one before it ends the round.
Breaks == prevHash # NoHash /\ batch[height].parent # prevHash

BreakRound ==
    /\ pc = "publish" /\ Breaks
    /\ prevHash' = NoHash /\ batch' = <<>>
    /\ pc' = "inner"
    /\ UNCHANGED <<nodeVars, startNum, height, end, firstLoop, walk, reverts,
                   fails, cache, out, view, stopVars>>

\* Mutant: the cache keeps BlocksSafe blocks, not twice as many.
CacheAdd_Half(b) ==
    LET kept == DOMAIN cache \ {Minus(b.num, BlocksSafe)}
    IN  [n \in kept \cup {b.num} |-> IF n = b.num THEN b ELSE cache[n]]

\* The cache after block b is published.
CacheAdd(b) ==
    LET kept == DOMAIN cache \ {Minus(b.num, 2 * BlocksSafe)}
    IN  [n \in kept \cup {b.num} |-> IF n = b.num THEN b ELSE cache[n]]

Publish ==
    /\ pc = "publish" /\ ~Breaks
    /\ LET b    == batch[height]
           left == DOMAIN batch \ {height}
       IN  /\ cache' = CacheAdd(b)
           /\ Send("ok", b)
           /\ height' = b.num + 1
           /\ batch' = Restrict(batch, left)
           /\ prevHash' = IF left = {} THEN NoHash ELSE b.hash
           /\ pc' = IF left = {} THEN "inner" ELSE "publish"
    /\ UNCHANGED <<nodeVars, startNum, end, firstLoop, walk, reverts, fails,
                   view, stopVars>>

----------------------------------------------------------------------------
\* A call to the node fails more often than the retries allow: log.Fatal.
RpcExit ==
    /\ pc \in {"start", "walk", "fetch", "sleep"}
    /\ pc' = "exited"
    /\ UNCHANGED <<nodeVars, startNum, height, end, firstLoop, roundVars,
                   cache, out, view, stopVars>>

\* What Run does when nothing fails.
Progress == /\ out = <<>>
            /\ \/ Start \/ StopRun \/ EnterLoop \/ BeginWalk \/ SkipWalk
               \/ Idle \/ Wake \/ Finish
               \/ WalkLost \/ WalkDown \/ WalkEnds
               \/ SendRevert \/ EndReverts
               \/ \E n \in height..(HeightEnd - 1) : FetchBlock(n)
               \/ FetchEnds \/ BreakRound \/ Publish

Failure == out = <<>> /\ (FetchFails \/ RpcExit)

----------------------------------------------------------------------------
(* The subscriber: base_data and the tasks read the feed's events in order  *)
(* and keep the chain they describe.                                        *)

Applied(s, e) == IF e.state = "ok" THEN Append(s, e.blk)
                 ELSE SubSeq(s, 1, e.blk.num - 1)

Accept ==
    /\ out # <<>>
    /\ view' = Applied(view, out[1])
    /\ out' = <<>>
    /\ UNCHANGED <<nodeVars, loopVars, roundVars, cache, stopVars>>

----------------------------------------------------------------------------
(* Stop: an atomic load, an atomic store, and a receive from interruptCh.   *)
(* Run calls it when it has finished.                                       *)

StopLoad(p) ==
    /\ stopPc[p] = "idle"
    /\ p = "run" => pc = "finished"
    /\ stopPc' = [stopPc EXCEPT ![p] = IF interrupt THEN "returned"
                                       ELSE "loaded"]
    /\ UNCHANGED <<nodeVars, loopVars, roundVars, cache, out, view, interrupt,
                   token>>

\* Mutant: Stop does not wait for Run.
StopStore_NoWait(p) ==
    /\ stopPc[p] = "loaded"
    /\ interrupt' = TRUE
    /\ stopPc' = [stopPc EXCEPT ![p] = "returned"]
    /\ UNCHANGED <<nodeVars, loopVars, roundVars, cache, out, view, token>>

StopStore(p) ==
    /\ stopPc[p] = "loaded"
    /\ interrupt' = TRUE
    /\ stopPc' = [stopPc EXCEPT ![p] = "waiting"]
    /\ UNCHANGED <<nodeVars, loopVars, roundVars, cache, out, view, token>>

StopReceive(p) ==
    /\ stopPc[p] = "waiting"
    /\ token = 1 /\ token' = 0
    /\ stopPc' = [stopPc EXCEPT ![p] = "returned"]
    /\ UNCHANGED <<nodeVars, loopVars, roundVars, cache, out, view, interrupt>>

\* log.Fatal ends every goroutine.
Alive == pc \notin {"lost", "exited"}

CallStop(p) == Alive /\ StopLoad(p)
EndStop(p)  == Alive /\ (StopStore(p) \/ StopReceive(p))

----------------------------------------------------------------------------
(* The environment assumption behind "if height long behind (20 blocks or   *)
(* more) from current height, revert won't happen": no node step makes the  *)
(* fetcher BlocksSafe blocks late while it holds an orphaned block.  The    *)
(* code does not enforce it.                                                *)

HoldsOrphan == \/ \E n \in DOMAIN cache : ~Canonical(cache[n])
               \/ \E n \in DOMAIN batch : ~Canonical(batch[n])

OrphanOutOfSight == HoldsOrphan /\ height + BlocksSafe <= CurChainHeight + 1

NodeKeepsPace == OrphanOutOfSight' => OrphanOutOfSight

Node == /\ NodeStep
        /\ UNCHANGED <<loopVars, roundVars, cache, out, view, stopVars>>
        /\ Prompt => NodeKeepsPace

Next == \/ Node
        \/ Progress
        \/ Failure
        \/ Accept
        \/ \E p \in Stoppers : CallStop(p) \/ EndStop(p)

Spec == Init /\ [][Next]_vars

\* The scheduler runs every goroutine that can take a step; nothing obliges
\* the node to change, a call to fail, or the process to be stopped.
Fairness == /\ WF_vars(Progress)
            /\ WF_vars(Accept)
            /\ WF_vars(CallStop("run"))
            /\ \A p \in Stoppers : WF_vars(EndStop(p))

FairSpec == Spec /\ Fairness

----------------------------------------------------------------------------
(* Properties. *)

\* Type invariant.
TypeOK ==
    /\ NodeTypeOK
    /\ pc \in Running \cup {"stopped", "finished", "lost", "exited"}
    /\ startNum \in Nat /\ height \in Nat /\ end \in Nat /\ walk \in Nat
    /\ firstLoop \in BOOLEAN
    /\ prevHash \in Hash \cup {NoHash}
    /\ DOMAIN cache \subseteq Nat /\ \A n \in DOMAIN cache : cache[n] \in Block
    /\ DOMAIN batch \subseteq Nat /\ \A n \in DOMAIN batch : batch[n] \in Block
    /\ reverts \in Seq(Block)
    /\ fails \in 0..MaxFails
    /\ out \in Seq(Event) /\ Len(out) <= 1
    /\ view \in Seq(Block)
    /\ interrupt \in BOOLEAN
    /\ token \in 0..1
    /\ stopPc \in [Stoppers -> {"idle", "loaded", "waiting", "returned"}]

\* The chain the subscriber will have when Send returns.
Sent == IF out = <<>> THEN view ELSE Applied(view, out[1])

\* The feed is a stack: a new block comes one height above the subscriber's
\* top block, and a revert names exactly that top block.  base_data checks
\* both and ends the process when one fails.
FeedIsStack ==
    out # <<>> =>
        \/ out[1].state = "ok" /\ out[1].blk.num = Len(view) + 1
        \/ /\ out[1].state = "revert"
           /\ view # <<>> /\ out[1].blk = view[Len(view)]

\* Only blocks that a reorganisation has orphaned are reverted, although the
\* walk and the revert are separated by other reads and by node steps.
OnlyOrphansRevert ==
    out # <<>> /\ out[1].state = "revert" => ~Canonical(out[1].blk)

\* blockCache, which the walk takes for what was published, holds at every
\* height the very block the subscriber has there.
CacheIsPublished ==
    \A n \in DOMAIN cache : IF n = 0 THEN cache[n] = Genesis
                            ELSE n <= Len(Sent) /\ cache[n] = Sent[n]

\* "make sure it's a chain": the subscriber's blocks are linked by parent
\* hashes down to the genesis block, through reorganisations and restarts.
FeedIsChain ==
    \A n \in DOMAIN view :
        view[n].parent = IF n = 1 THEN Genesis.hash ELSE view[n - 1].hash

\* The walk never runs out of cached blocks.
NeverLost == pc # "lost"

\* Once a caller's Stop has returned, Run publishes nothing more: the caller
\* goes on to stop the tasks that read the feed.
QuietAfterStop ==
    (\E p \in Callers : stopPc[p] = "returned") =>
        out = <<>> /\ pc \notin Running

\* A bounded Run ends having published exactly the range [start, end).
FinishedIsComplete == pc = "finished" => Len(Sent) = EndHeight - 1

\* Every Stop that found Run not yet interrupted returns.
StopReturns ==
    \A p \in Callers :
        stopPc[p] = "loaded" ~> stopPc[p] = "returned" \/ ~Alive

\* When the node stops changing, the subscriber ends with the node's chain up
\* to BlocksDelay below the head, unless the process stopped or exited.
Synced == /\ Len(view) = CurChainHeight
          /\ \A n \in DOMAIN view : Canonical(view[n])

CatchesUp == <>[](Synced \/ pc \notin Running)

Log == INSTANCE ChainLog WITH log <- view, Genesis <- Genesis.hash
ImplementsChainLog == Log!Spec
=============================================================================

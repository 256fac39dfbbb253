------------------------------ MODULE TaskFeed ------------------------------
(***************************************************************************)
(* What a task besides base_data sees of the others: the feed it subscribes *)
(* to, and the tables base_data fills.  base_data is seen from here as      *)
(* ChainLog: it applies the same events to the chain in the database, at    *)
(* its own pace (BaseStorage shows that it does).  It may be behind the     *)
(* task, and ahead of it.                                                   *)
(***************************************************************************)
EXTENDS Feed, SequencesExt

CONSTANTS
    BufferSize,     \* config: capacity of the task's channel
    StartChain,     \* the chain in the database when all begins
    MaxEvents,      \* bound: events the feed sends
    BaseFirst       \* environment assumption: base_data saves at once

ASSUME TaskFeedAssumption ==
    /\ \A b \in Blocks : b.num \in Nat \ {0}
    /\ \A b \in Blocks : b.num = 1 <=> b.parent = GenesisHash
    /\ \A b, c \in Blocks : /\ b.hash = c.hash => b = c
                            /\ b.parent = c.hash => b.num = c.num + 1
    /\ BufferSize \in Nat \ {0}
    /\ StartChain \in Seq(Blocks)
    /\ \A i \in DOMAIN StartChain : StartChain[i].num = i
    /\ MaxEvents \in Nat /\ BaseFirst \in BOOLEAN

VARIABLES
    blockChan,      \* the events the task has not yet received
    chain,          \* the tables base_data fills: the blocks that stand
    toBase,         \* the events base_data has yet to apply
    sent,           \* the chain described by the events sent so far
    events          \* how many events were sent

feedVars == <<blockChan, chain, toBase, sent, events>>

FeedInit ==
    /\ blockChan = <<>> /\ chain = StartChain /\ toBase = <<>>
    /\ sent = StartChain /\ events = 0

\* Feed.Send delivers to base_data and to the task and waits for room.
Deliver(e) ==
    /\ events < MaxEvents /\ events' = events + 1
    /\ Follows(e, sent) /\ sent' = Applied(sent, e)
    /\ Len(blockChan) < BufferSize /\ blockChan' = Append(blockChan, e)
    /\ IF BaseFirst THEN chain' = Applied(chain, e) /\ UNCHANGED toBase
       ELSE toBase' = Append(toBase, e) /\ UNCHANGED chain

Apply ==
    /\ toBase # <<>>
    /\ chain' = Applied(chain, Head(toBase)) /\ toBase' = Tail(toBase)
    /\ UNCHANGED <<blockChan, sent, events>>

\* The process is started again: the fetcher goes on from the chain it finds
\* in the database.
FeedAgain ==
    /\ blockChan' = <<>> /\ sent' = chain /\ toBase' = <<>>
    /\ UNCHANGED <<chain, events>>

TakeEvent(e) ==
    /\ blockChan # <<>> /\ e = Head(blockChan) /\ blockChan' = Tail(blockChan)
    /\ UNCHANGED <<chain, toBase, sent, events>>

\* GetBlocksByRange: the blocks base_data has saved, by number: the n-th block
\* of the chain has number n.  The query has no ORDER BY; that its rows come in
\* this order is assumed.
Stored(start, end) ==
    SubSeq(chain, start, IF end < Len(chain) THEN end ELSE Len(chain))

\* GetBlockByNum.
StoredAt(h) == Stored(h, h)

FeedTypeOK ==
    /\ blockChan \in Seq(Event) /\ Len(blockChan) <= BufferSize
    /\ chain \in Seq(Blocks) /\ toBase \in Seq(Event) /\ sent \in Seq(Blocks)
    /\ events \in 0..MaxEvents
=============================================================================

---------------------------- MODULE FetcherProof ----------------------------
(***************************************************************************)
(* Theorems about Fetcher, for every value of its constants.                *)
(***************************************************************************)
EXTENDS Fetcher, SequenceTheorems, TLAPS

\* The reverts collected so far are the top blocks of s, from the top down.
TopDown(r, s) == \A i \in DOMAIN r : r[i] = s[Len(s) + 1 - i]

ViewNumbered == \A n \in DOMAIN view : view[n].num = n

\* Between rounds and inside one, Height is the height above the last block
\* sent; during the walk and while it sends reverts, what is still to be
\* reverted lies between `walk' and the top.
HeightInv ==
    /\ pc \in {"outer", "inner", "sleep", "walk", "fetch", "publish", "finished"}
          => height = Len(Sent) + 1
    /\ pc \in {"walk", "revert"} => /\ walk + Len(reverts) = Len(Sent)
                                    /\ TopDown(reverts, Sent)
    /\ pc \in {"start", "walk"} => out = <<>>
    /\ pc \in {"start", "outer", "inner", "sleep", "fetch", "publish"} =>
          reverts = <<>>
    /\ pc \in {"walk", "revert"} => height < end /\ walk < height

\* The blocks of a round are the ones that follow, numbered by their heights.
BatchInv ==
    /\ \A n \in DOMAIN batch : batch[n].num = n
    /\ pc \in {"start", "outer", "inner", "sleep", "walk", "revert"} =>
          DOMAIN batch = {}
    /\ pc = "fetch" => /\ height < end
                       /\ DOMAIN batch \subseteq height..(HeightEnd - 1)
    /\ pc = "publish" => \E m \in Nat : m >= height /\ DOMAIN batch = height..m

IInv == /\ TypeOK
        /\ ViewNumbered
        /\ FeedIsStack
        /\ CacheIsPublished
        /\ HeightInv
        /\ BatchInv

----------------------------------------------------------------------------
(* Lemmas about the node and about sequences of blocks. *)

LEMMA BlockAtType ==
    ASSUME NodeTypeOK, NEW n \in Nat, n <= Tip
    PROVE  BlockAt(n) \in Block /\ BlockAt(n).num = n
  BY DEF NodeTypeOK, BlockAt, Block, Hash, NoHash, Genesis, BranchAt, Tip

LEMMA BlockAtParent ==
    ASSUME NodeTypeOK, NEW n \in Nat, n < Tip
    PROVE  BlockAt(n + 1).parent = <<n, BranchAt(n)>>
  BY DEF NodeTypeOK, BlockAt, BranchAt, Tip

LEMMA FunIsSeq ==
    ASSUME NEW S, NEW n \in Nat, NEW f \in [1..n -> S]
    PROVE  f \in Seq(S) /\ Len(f) = n
<1>1. f \in Seq(S)
  BY SeqDef
<1>2. QED
  BY <1>1, LenProperties

LEMMA CutFacts ==
    ASSUME NEW S, NEW s \in Seq(S), NEW n \in 1..Len(s)
    PROVE  /\ SubSeq(s, 1, n - 1) \in Seq(S)
           /\ Len(SubSeq(s, 1, n - 1)) = n - 1
           /\ \A i \in 1..(n - 1) : SubSeq(s, 1, n - 1)[i] = s[i]
  BY SubSeqProperties

LEMMA OneLess ==
    ASSUME NEW a \in Nat, NEW b \in Nat, NEW c, a + b = c
    PROVE  a + (b - 1) = c - 1
  OBVIOUS

LEMMA InitIInv == Init => IInv
<1> SUFFICES ASSUME Init PROVE IInv
  OBVIOUS
<1> USE FetcherAssumption DEF Init
<1>1. PICK b \in Boots : /\ chain = [n \in 1..b.head |-> IF n <= b.fork THEN 0 ELSE 1]
                         /\ branch = IF b.fork < b.head THEN 1 ELSE 0
                         /\ view = StoredChain(b.stored)
  OBVIOUS
<1>2. b.head \in Nat /\ b.stored \in Nat /\ b.fork \in Nat
  OBVIOUS
<1>3. NodeTypeOK
  <2>1. chain \in [1..b.head -> {0, 1}]
    BY <1>1
  <2>2. chain \in [1..b.head -> Nat]
    BY <2>1
  <2>3. chain \in Seq(Nat)
    BY <2>2, <1>2, FunIsSeq
  <2>4. QED
    BY <1>1, <1>2, <2>2, <2>3 DEF NodeTypeOK
<1>4. view \in Seq(Block) /\ Len(view) = b.stored /\ ViewNumbered
  <2>1. \A i \in 1..b.stored :
           [num |-> i, hash |-> <<i, 0>>, parent |-> <<i - 1, 0>>] \in Block
    BY <1>2 DEF Block, Hash
  <2>2. StoredChain(b.stored) \in [1..b.stored -> Block]
    BY <2>1 DEF StoredChain
  <2>3. QED
    BY <1>1, <1>2, <2>2, FunIsSeq DEF StoredChain, ViewNumbered
<1>5. /\ DOMAIN cache \subseteq Nat
      /\ \A n \in DOMAIN cache : n <= Len(view)
      /\ \A n \in DOMAIN cache : cache[n] = IF n = 0 THEN Genesis ELSE view[n]
  <2>1. LoadedHeights(Len(view)) \subseteq 0..Len(view)
    BY <1>2, <1>4 DEF LoadedHeights, Minus
  <2>2. QED
    BY <1>2, <1>4, <2>1 DEF LoadLocalBlocksToCache
<1>6. \A n \in DOMAIN cache : cache[n] \in Block
  <2>1. Genesis \in Block
    BY DEF Genesis, Block, Hash, NoHash
  <2>2. \A n \in DOMAIN cache : n # 0 => view[n] \in Block
    BY <1>2, <1>4, <1>5, ElementOfSeq
  <2>3. QED
    BY <1>5, <2>1, <2>2
<1>7. TypeOK
  <2>1. reverts \in Seq(Block) /\ out \in Seq(Event) /\ Len(out) <= 1
    BY EmptySeq
  <2>2. batch = <<>> /\ DOMAIN batch = {}
    OBVIOUS
  <2>3. stopPc \in [Stoppers -> {"idle", "loaded", "waiting", "returned"}]
    OBVIOUS
  <2>4. fails \in 0..MaxFails /\ token \in 0..1
    OBVIOUS
  <2>5. pc \in Running /\ prevHash \in Hash \cup {NoHash}
    BY DEF Running
  <2>6. QED
    BY <1>3, <1>4, <1>5, <1>6, <2>1, <2>2, <2>3, <2>4, <2>5 DEF TypeOK
<1>8. CacheIsPublished
  BY <1>5 DEF CacheIsPublished, Sent
<1>9. QED
  BY <1>4, <1>7, <1>8 DEF IInv, FeedIsStack, HeightInv, BatchInv

----------------------------------------------------------------------------
(* Steps of the node. *)

\* The chain never gets shorter, and the branch at a height never decreases.
LEMMA NodeGrows ==
    ASSUME NodeTypeOK, NodeStep
    PROVE  /\ NodeTypeOK'
           /\ Tip' >= Tip
           /\ \A n \in 1..Tip : chain[n] <= chain'[n]
<1>1. Tip \in Nat /\ DOMAIN chain = 1..Tip /\ \A n \in 1..Tip : chain[n] \in Nat
  BY LenProperties, ElementOfSeq DEF NodeTypeOK, Tip
<1>2. CASE Extend
  <2>1. /\ chain' \in Seq(Nat) /\ Tip' = Tip + 1 /\ DOMAIN chain' = 1..(Tip + 1)
        /\ \A n \in 1..Tip : chain'[n] = chain[n]
        /\ chain'[Tip + 1] = branch
    BY <1>2, AppendProperties, LenProperties DEF NodeTypeOK, Extend, Tip
  <2>2. QED
    BY <1>1, <1>2, <2>1 DEF NodeTypeOK, Extend
<1>3. ASSUME NEW d \in 1..ReorgDepth, NEW gain \in ReorgGains, d <= Tip,
             Reorg(d, gain)
      PROVE  NodeTypeOK' /\ Tip' >= Tip /\ \A n \in 1..Tip : chain[n] <= chain'[n]
  <2>1. gain \in Nat /\ branch \in Nat
    BY EvmNodeAssumption DEF NodeTypeOK
  <2>2. chain' \in [1..(Tip + gain) -> Nat]
    BY <1>1, <1>3, <2>1 DEF Reorg
  <2>3. chain' \in Seq(Nat) /\ Tip' = Tip + gain
    BY <1>1, <2>1, <2>2, FunIsSeq DEF Tip
  <2>4. \A n \in 1..(Tip + gain) :
           chain'[n] = IF n <= Tip - d THEN chain[n] ELSE branch + 1
    BY <1>3 DEF Reorg
  <2>5. \A n \in 1..Tip : chain[n] <= branch
    BY <1>1 DEF NodeTypeOK
  <2>6. branch' = branch + 1
    BY <1>3 DEF Reorg
  <2>7. \A n \in DOMAIN chain' : chain'[n] <= branch'
    BY <1>1, <2>1, <2>2, <2>4, <2>5, <2>6
  <2>8. \A n \in 1..Tip : chain[n] <= chain'[n]
    BY <1>1, <2>1, <2>4, <2>5
  <2>9. QED
    BY <1>1, <2>1, <2>3, <2>6, <2>7, <2>8 DEF NodeTypeOK
<1>4. QED
  BY <1>2, <1>3 DEF NodeStep

LEMMA NodeKeepsIInv == IInv /\ Node => IInv'
<1> SUFFICES ASSUME IInv, Node PROVE IInv'
  OBVIOUS
<1>1. NodeTypeOK'
  BY NodeGrows DEF IInv, TypeOK, Node
<1>2. QED
  BY <1>1 DEF IInv, Node, TypeOK, ViewNumbered, FeedIsStack, CacheIsPublished,
     Sent, HeightInv, BatchInv, HeightEnd, loopVars, roundVars, stopVars

----------------------------------------------------------------------------
(* Steps of Run that neither publish nor touch the cache. *)

QuietStep ==
    \/ Start \/ StopRun \/ EnterLoop \/ BeginWalk \/ SkipWalk \/ Idle \/ Wake
    \/ Finish \/ WalkLost \/ WalkEnds \/ FetchFails \/ FetchEnds \/ BreakRound
    \/ RpcExit

\* What the quiet steps leave alone.
LEMMA QuietKeepsFeed ==
    QuietStep => /\ UNCHANGED <<nodeVars, cache, out, view, Sent>>
                 /\ reverts' = reverts
  BY DEF QuietStep, Start, StopRun, EnterLoop, BeginWalk, SkipWalk, Idle, Wake,
     Finish, WalkLost, WalkEnds, FetchFails, FetchEnds, BreakRound, RpcExit,
     roundVars, stopVars, loopVars, Sent

LEMMA TipType == IInv => /\ Tip \in Nat /\ CurChainHeight \in Nat
                         /\ Len(view) \in Nat /\ Len(Sent) \in Nat /\ Sent \in Seq(Block)
<1> SUFFICES ASSUME IInv PROVE /\ Tip \in Nat /\ CurChainHeight \in Nat
                               /\ Len(view) \in Nat /\ Len(Sent) \in Nat
                               /\ Sent \in Seq(Block)
  OBVIOUS
<1>1. Tip \in Nat /\ view \in Seq(Block) /\ Len(view) \in Nat
  BY LenProperties DEF IInv, TypeOK, NodeTypeOK, Tip
<1>2. CurChainHeight \in Nat
  BY <1>1, FetcherAssumption DEF CurChainHeight, Minus
<1>3. Sent \in Seq(Block)
  <2>1. CASE out = <<>>
    BY <1>1, <2>1 DEF Sent
  <2>2. CASE out # <<>> /\ out[1].state = "ok"
    <3>1. out[1] \in Event
      BY <2>2, ElementOfSeq, LenProperties, EmptySeq DEF IInv, TypeOK
    <3>2. QED
      BY <1>1, <2>2, <3>1, AppendProperties DEF Sent, Applied, Event
  <2>3. CASE out # <<>> /\ out[1].state # "ok"
    <3>1. view # <<>> /\ out[1].blk = view[Len(view)]
      BY <2>3 DEF IInv, FeedIsStack
    <3>2. Len(view) \in 1..Len(view) /\ out[1].blk.num = Len(view)
      BY <1>1, <3>1, EmptySeq, LenProperties DEF IInv, ViewNumbered
    <3>3. QED
      BY <1>1, <2>3, <3>2, CutFacts DEF Sent, Applied
  <2>4. QED
    BY <2>1, <2>2, <2>3
<1>4. QED
  BY <1>1, <1>2, <1>3, LenProperties

LEMMA QuietKeepsIInv == IInv /\ out = <<>> /\ QuietStep => IInv'
<1> SUFFICES ASSUME IInv, out = <<>>, QuietStep PROVE IInv'
  OBVIOUS
<1>1. ViewNumbered' /\ FeedIsStack' /\ CacheIsPublished'
  BY QuietKeepsFeed DEF IInv, ViewNumbered, FeedIsStack, CacheIsPublished
<1>2. NodeTypeOK'
  BY QuietKeepsFeed DEF IInv, TypeOK, NodeTypeOK, nodeVars
<1> USE TipType, QuietKeepsFeed, FetcherAssumption
<1>3. TypeOK'
  <2>1. CASE Start
    BY <1>2, <2>1 DEF Start, IInv, TypeOK, Running, roundVars, stopVars, loopVars, nodeVars
  <2>2. CASE StopRun
    BY <1>2, <2>2 DEF StopRun, SendToken, IInv, TypeOK, Running, roundVars, stopVars, loopVars, nodeVars
  <2>3. CASE EnterLoop
    BY <1>2, <2>3 DEF EnterLoop, IInv, TypeOK, Running, roundVars, stopVars, loopVars, nodeVars
  <2>4. CASE BeginWalk
    <3>1. height - 1 \in Nat
      BY <2>4 DEF BeginWalk, IInv, HeightInv
    <3>2. QED
      BY <1>2, <2>4, <3>1 DEF BeginWalk, IInv, TypeOK, Running, roundVars,
         stopVars, loopVars, nodeVars
  <2>5. CASE SkipWalk
    BY <1>2, <2>5 DEF SkipWalk, IInv, TypeOK, Running, roundVars, stopVars, loopVars, nodeVars
  <2>6. CASE Idle
    BY <1>2, <2>6 DEF Idle, IInv, TypeOK, Running, roundVars, stopVars, loopVars, nodeVars
  <2>7. CASE Wake
    BY <1>2, <2>7 DEF Wake, NewEnd, IInv, TypeOK, Running, roundVars, stopVars, loopVars, nodeVars
  <2>8. CASE Finish
    BY <1>2, <2>8 DEF Finish, SendToken, IInv, TypeOK, Running, roundVars, stopVars, loopVars, nodeVars
  <2>9. CASE WalkLost
    BY <1>2, <2>9 DEF WalkLost, IInv, TypeOK, Running, roundVars, stopVars, loopVars, nodeVars
  <2>10. CASE WalkEnds
    BY <1>2, <2>10 DEF WalkEnds, LocalHash, Block, IInv, TypeOK, Running, roundVars, stopVars, loopVars, nodeVars
  <2>11. CASE FetchFails
    BY <1>2, <2>11 DEF FetchFails, IInv, TypeOK, Running, roundVars, stopVars, loopVars, nodeVars
  <2>12. CASE FetchEnds
    BY <1>2, <2>12 DEF FetchEnds, IInv, TypeOK, Running, roundVars, stopVars, loopVars, nodeVars
  <2>13. CASE BreakRound
    BY <1>2, <2>13 DEF BreakRound, IInv, TypeOK, Running, roundVars, stopVars, loopVars, nodeVars
  <2>14. CASE RpcExit
    BY <1>2, <2>14 DEF RpcExit, IInv, TypeOK, Running, roundVars, stopVars, loopVars, nodeVars
  <2>15. QED
    BY <2>1, <2>2, <2>3, <2>4, <2>5, <2>6, <2>7, <2>8, <2>9, <2>10, <2>11, <2>12, <2>13, <2>14 DEF QuietStep
<1>4. HeightInv' /\ BatchInv'
  <2>1. CASE Start
    BY <2>1 DEF Start, IInv, TypeOK, HeightInv, BatchInv, HeightEnd, Sent, TopDown, roundVars
  <2>2. CASE StopRun
    BY <2>2 DEF StopRun, IInv, TypeOK, HeightInv, BatchInv, HeightEnd, Sent, TopDown, roundVars
  <2>3. CASE EnterLoop
    BY <2>3 DEF EnterLoop, IInv, TypeOK, HeightInv, BatchInv, HeightEnd, Sent, TopDown, roundVars
  <2>4. CASE BeginWalk
    BY <2>4 DEF BeginWalk, IInv, TypeOK, HeightInv, BatchInv, HeightEnd, Sent, TopDown, roundVars
  <2>5. CASE SkipWalk
    BY <2>5 DEF SkipWalk, IInv, TypeOK, HeightInv, BatchInv, HeightEnd, Sent, TopDown, roundVars
  <2>6. CASE Idle
    BY <2>6 DEF Idle, IInv, TypeOK, HeightInv, BatchInv, HeightEnd, Sent, TopDown, roundVars
  <2>7. CASE Wake
    BY <2>7 DEF Wake, IInv, TypeOK, HeightInv, BatchInv, HeightEnd, Sent, TopDown, roundVars
  <2>8. CASE Finish
    BY <2>8 DEF Finish, IInv, TypeOK, HeightInv, BatchInv, HeightEnd, Sent, TopDown, roundVars
  <2>9. CASE WalkLost
    BY <2>9 DEF WalkLost, IInv, TypeOK, HeightInv, BatchInv, HeightEnd, Sent, TopDown, roundVars
  <2>10. CASE WalkEnds
    BY <2>10 DEF WalkEnds, WalkReads, IInv, TypeOK, HeightInv, BatchInv, HeightEnd, Sent, TopDown, roundVars
  <2>11. CASE FetchFails
    BY <2>11 DEF FetchFails, IInv, TypeOK, HeightInv, BatchInv, HeightEnd, Sent, TopDown, roundVars
  <2>12. CASE FetchEnds
    BY <2>12 DEF FetchEnds, IInv, TypeOK, HeightInv, BatchInv, HeightEnd, Sent, TopDown, roundVars
  <2>13. CASE BreakRound
    BY <2>13 DEF BreakRound, IInv, TypeOK, HeightInv, BatchInv, HeightEnd, Sent, TopDown, roundVars
  <2>14. CASE RpcExit
    BY <2>14 DEF RpcExit, IInv, TypeOK, HeightInv, BatchInv, HeightEnd, Sent, TopDown, roundVars
  <2>15. QED
    BY <2>1, <2>2, <2>3, <2>4, <2>5, <2>6, <2>7, <2>8, <2>9, <2>10, <2>11, <2>12, <2>13, <2>14 DEF QuietStep
<1>5. QED
  BY <1>1, <1>3, <1>4 DEF IInv

----------------------------------------------------------------------------
(* The steps that build a round, publish or revert. *)

\* The walk only goes below a block it has: above the genesis block, which
\* every chain has in common.
LEMMA WalkDownFacts ==
    ASSUME IInv, WalkDown
    PROVE  /\ walk \in 1..Len(view) /\ out = <<>> /\ Sent = view
           /\ cache[walk] = view[walk] /\ view[walk] \in Block
<1>1. /\ pc = "walk" /\ walk \in DOMAIN cache /\ walk + 1 <= Tip /\ walk \in Nat
      /\ ChainParent # cache[walk].hash
  BY DEF WalkDown, WalkReads, Orphaned, IInv, TypeOK
<1>2. out = <<>> /\ Sent = view
  BY <1>1 DEF IInv, HeightInv, Sent
<1>3. walk # 0
  <2> SUFFICES ASSUME walk = 0 PROVE FALSE
    OBVIOUS
  <2>1. ChainParent = <<0, BranchAt(0)>>
    BY <1>1, TipType, BlockAtParent DEF ChainParent, IInv, TypeOK
  <2>2. cache[walk].hash = <<0, 0>>
    BY <1>1 DEF IInv, CacheIsPublished, Genesis
  <2>3. QED
    BY <1>1, <2>1, <2>2 DEF BranchAt
<1>4. walk <= Len(view) /\ cache[walk] = view[walk]
  BY <1>1, <1>2, <1>3 DEF IInv, CacheIsPublished
<1>5. QED
  BY <1>1, <1>2, <1>3, <1>4, TipType, ElementOfSeq DEF IInv, TypeOK

LEMMA WalkDownKeepsIInv == IInv /\ WalkDown => IInv'
<1> SUFFICES ASSUME IInv, WalkDown PROVE IInv'
  OBVIOUS
<1>1. /\ walk \in 1..Len(view) /\ out = <<>> /\ Sent = view
      /\ cache[walk] = view[walk] /\ view[walk] \in Block
  BY WalkDownFacts
<1>2. /\ pc = "walk" /\ pc' = pc /\ height' = height /\ end' = end
      /\ UNCHANGED <<nodeVars, startNum, firstLoop, batch, fails, cache, out,
                     view, stopVars, Sent>>
      /\ walk' = walk - 1 /\ reverts' = Append(reverts, view[walk])
      /\ prevHash' = view[walk].hash
  BY <1>1 DEF WalkDown, WalkReads, Orphaned, LocalHash, loopVars, Sent
<1>3. /\ reverts \in Seq(Block) /\ reverts' \in Seq(Block)
      /\ Len(reverts) \in Nat /\ Len(reverts') = Len(reverts) + 1
      /\ DOMAIN reverts' = 1..(Len(reverts) + 1)
      /\ \A i \in 1..Len(reverts) : reverts'[i] = reverts[i]
      /\ reverts'[Len(reverts) + 1] = view[walk]
  BY <1>1, <1>2, AppendProperties, LenProperties DEF IInv, TypeOK
<1>4. walk + Len(reverts) = Len(view) /\ TopDown(reverts, view)
  BY <1>1, <1>2 DEF IInv, HeightInv
<1>5. TopDown(reverts', view')
  <2>1. DOMAIN reverts = 1..Len(reverts)
    BY <1>3, LenProperties
  <2>2. Len(view) \in Nat
    BY TipType
  <2>3. Len(view) + 1 - (Len(reverts) + 1) = walk
    BY <1>1, <1>3, <1>4, <2>2
  <2>4. \A i \in 1..Len(reverts) : reverts[i] = view[Len(view) + 1 - i]
    BY <1>4, <2>1 DEF TopDown
  <2>5. \A i \in DOMAIN reverts' : reverts'[i] = view[Len(view) + 1 - i]
    BY <1>3, <2>3, <2>4
  <2>6. view' = view
    BY <1>2
  <2>7. QED
    BY <2>5, <2>6 DEF TopDown
<1>6. NodeTypeOK'
  BY <1>2 DEF IInv, TypeOK, NodeTypeOK, nodeVars
<1>7. TypeOK'
  BY <1>1, <1>2, <1>3, <1>6, TipType DEF IInv, TypeOK, Block, stopVars
<1>8. HeightInv'
  BY <1>1, <1>2, <1>3, <1>4, <1>5, TipType DEF IInv, TypeOK, HeightInv
<1>9. QED
  BY <1>2, <1>7, <1>8 DEF IInv, ViewNumbered, FeedIsStack, CacheIsPublished,
     BatchInv

LEMMA EndRevertsKeepsIInv == IInv /\ out = <<>> /\ EndReverts => IInv'
<1> SUFFICES ASSUME IInv, out = <<>>, EndReverts PROVE IInv'
  OBVIOUS
<1>1. /\ pc = "revert" /\ pc' = "fetch" /\ height' = walk + 1 /\ walk' = 0
      /\ UNCHANGED <<nodeVars, startNum, end, firstLoop, prevHash, reverts,
                     batch, fails, cache, out, view, stopVars, Sent>>
      /\ reverts = <<>> /\ Len(reverts) = 0
  BY EmptySeq DEF EndReverts, Sent
<1>2. NodeTypeOK'
  BY <1>1 DEF IInv, TypeOK, NodeTypeOK, nodeVars
<1>3. TypeOK'
  BY <1>1, <1>2 DEF IInv, TypeOK, Running, stopVars
<1>4. walk = Len(Sent) /\ height < end /\ walk < height
  BY <1>1, TipType DEF IInv, HeightInv, TypeOK
<1>5. HeightInv' /\ BatchInv'
  BY <1>1, <1>4, TipType DEF IInv, TypeOK, HeightInv, BatchInv
<1>6. QED
  BY <1>1, <1>3, <1>5 DEF IInv, ViewNumbered, FeedIsStack, CacheIsPublished

LEMMA FetchBlockKeepsIInv ==
    ASSUME IInv, out = <<>>, NEW n \in height..(HeightEnd - 1), FetchBlock(n)
    PROVE  IInv'
<1>1. height \in Nat /\ n \in Nat /\ HeightEnd \in Int
  BY FetcherAssumption DEF IInv, TypeOK, HeightEnd
<1>2. BlockAt(n) \in Block /\ BlockAt(n).num = n
  BY <1>1, BlockAtType DEF FetchBlock, IInv, TypeOK
<1>3. /\ pc = "fetch"
      /\ UNCHANGED <<nodeVars, loopVars, prevHash, walk, reverts, fails, cache,
                     out, view, stopVars, Sent, HeightEnd>>
      /\ DOMAIN batch' = DOMAIN batch \cup {n}
      /\ \A i \in DOMAIN batch' : batch'[i] = IF i = n THEN BlockAt(n) ELSE batch[i]
  BY DEF FetchBlock, Sent, HeightEnd, loopVars
<1>4. NodeTypeOK'
  BY <1>3 DEF IInv, TypeOK, NodeTypeOK, nodeVars
<1>5. DOMAIN batch' \subseteq Nat /\ \A i \in DOMAIN batch' : batch'[i] \in Block /\ batch'[i].num = i
  BY <1>1, <1>2, <1>3 DEF IInv, TypeOK, BatchInv
<1>6. TypeOK'
  BY <1>3, <1>4, <1>5 DEF IInv, TypeOK, loopVars, stopVars
<1>7. HeightInv' /\ BatchInv'
  BY <1>1, <1>3, <1>5 DEF IInv, HeightInv, BatchInv, loopVars
<1>8. QED
  BY <1>3, <1>6, <1>7 DEF IInv, ViewNumbered, FeedIsStack, CacheIsPublished

LEMMA SendRevertKeepsIInv == IInv /\ out = <<>> /\ SendRevert => IInv'
<1> SUFFICES ASSUME IInv, out = <<>>, SendRevert PROVE IInv'
  OBVIOUS
<1> DEFINE b == Head(reverts)
<1>1. /\ pc = "revert" /\ reverts # <<>> /\ pc' = pc /\ height' = height
      /\ end' = end /\ startNum' = startNum /\ firstLoop' = firstLoop
      /\ UNCHANGED <<nodeVars, prevHash, walk, batch, fails, view, stopVars>>
      /\ reverts' = Tail(reverts)
      /\ out' = <<[state |-> "revert", blk |-> b]>>
      /\ cache' = Restrict(cache, DOMAIN cache \ {b.num})
  BY DEF SendRevert, NextRevert, CacheDrop, Send, loopVars
<1>2. /\ Len(view) \in Nat /\ view \in Seq(Block) /\ DOMAIN view = 1..Len(view)
      /\ reverts \in Seq(Block) /\ Len(reverts) \in Nat \ {0}
      /\ DOMAIN reverts = 1..Len(reverts) /\ walk \in Nat
  BY <1>1, LenProperties, EmptySeq DEF IInv, TypeOK
<1>3. walk + Len(reverts) = Len(view) /\ TopDown(reverts, view)
  BY <1>1 DEF IInv, HeightInv, Sent
<1>4. Len(view) \in 1..Len(view)
  BY <1>2, <1>3
<1>5. b = view[Len(view)] /\ b \in Block /\ b.num = Len(view)
  <2>1. b = reverts[1]
    BY <1>1
  <2>2. reverts[1] = view[Len(view)]
    BY <1>2, <1>3 DEF TopDown
  <2>3. QED
    BY <1>2, <1>4, <2>1, <2>2, ElementOfSeq DEF IInv, ViewNumbered
<1>6. out' # <<>> /\ out'[1] = [state |-> "revert", blk |-> b] /\ Len(out') = 1
      /\ out' \in Seq(Event)
  BY <1>1, <1>5 DEF Event
<1> HIDE DEF b
<1>7. /\ Sent' = SubSeq(view, 1, Len(view) - 1)
      /\ Sent' \in Seq(Block) /\ Len(Sent') = Len(view) - 1
      /\ \A i \in 1..(Len(view) - 1) : Sent'[i] = view[i]
  <2>1. Sent' = SubSeq(view, 1, Len(view) - 1)
    BY <1>1, <1>5, <1>6 DEF Sent, Applied
  <2>2. QED
    BY <1>2, <1>4, <2>1, CutFacts
<1>8. /\ reverts' \in Seq(Block) /\ Len(reverts') = Len(reverts) - 1
      /\ DOMAIN reverts' = 1..(Len(reverts) - 1)
      /\ \A i \in 1..(Len(reverts) - 1) : reverts'[i] = reverts[i + 1]
  BY <1>1, <1>2, HeadTailProperties, LenProperties
<1>9. DOMAIN cache' = DOMAIN cache \ {Len(view)}
      /\ \A n \in DOMAIN cache' : cache'[n] = cache[n]
  BY <1>1, <1>5 DEF Restrict
<1>10. TypeOK'
  <2>1. NodeTypeOK'
    BY <1>1 DEF IInv, TypeOK, NodeTypeOK, nodeVars
  <2>2. DOMAIN cache' \subseteq Nat /\ \A n \in DOMAIN cache' : cache'[n] \in Block
    BY <1>9 DEF IInv, TypeOK
  <2>3. out' \in Seq(Event) /\ Len(out') <= 1
    BY <1>6
  <2>4. /\ UNCHANGED <<pc, startNum, height, end, firstLoop, prevHash, walk, batch,
                       fails, view, interrupt, token, stopPc>>
    BY <1>1 DEF stopVars
  <2>5. QED
    BY <1>8, <2>1, <2>2, <2>3, <2>4 DEF IInv, TypeOK
<1>11. ViewNumbered' /\ FeedIsStack'
  <2>1. view' = view
    BY <1>1
  <2>2. view # <<>>
    BY <1>4, EmptySeq
  <2>3. QED
    BY <1>5, <1>6, <2>1, <2>2 DEF IInv, ViewNumbered, FeedIsStack
<1>12. CacheIsPublished'
  <2>1. ASSUME NEW n \in DOMAIN cache'
        PROVE  IF n = 0 THEN cache'[n] = Genesis
               ELSE n <= Len(Sent') /\ cache'[n] = Sent'[n]
    <3>1. n \in DOMAIN cache /\ n \in Nat /\ n # Len(view) /\ cache'[n] = cache[n]
      BY <1>9 DEF IInv, TypeOK
    <3>2. IF n = 0 THEN cache[n] = Genesis ELSE n <= Len(view) /\ cache[n] = view[n]
      BY <3>1 DEF IInv, CacheIsPublished, Sent
    <3>3. QED
      BY <1>2, <1>7, <3>1, <3>2
  <2>2. QED
    BY <2>1 DEF CacheIsPublished
<1>13. HeightInv'
  <2>1. walk' + Len(reverts') = Len(Sent')
    <3>1. walk + Len(reverts) = Len(view) /\ walk \in Nat /\ Len(reverts) \in Nat
      BY <1>2, <1>3, Zenon
    <3>2. walk + (Len(reverts) - 1) = Len(view) - 1
      BY <3>1, OneLess
    <3>3. walk' = walk
      BY <1>1, Zenon
    <3>4. Len(reverts') = Len(reverts) - 1
      BY <1>8, Zenon
    <3>5. Len(Sent') = Len(view) - 1
      BY <1>7, Zenon
    <3>6. QED
      BY <3>2, <3>3, <3>4, <3>5, Zenon
  <2>2. TopDown(reverts', Sent')
    <3>1. \A i \in 1..Len(reverts) : reverts[i] = view[Len(view) + 1 - i]
      BY <1>2, <1>3 DEF TopDown
    <3>2. ASSUME NEW i \in 1..(Len(reverts) - 1)
          PROVE  reverts'[i] = Sent'[Len(Sent') + 1 - i]
      <4>1. i + 1 \in 1..Len(reverts) /\ Len(view) - i \in 1..(Len(view) - 1)
        BY <1>2, <1>3
      <4>2. reverts'[i] = view[Len(view) - i]
        BY <1>2, <1>8, <3>1, <4>1
      <4>3. QED
        BY <1>2, <1>7, <4>1, <4>2
    <3>3. QED
      BY <1>8, <3>2 DEF TopDown
  <2>3. height < end /\ walk < height
    BY <1>1 DEF IInv, HeightInv
  <2>4. QED
    BY <1>1, <2>1, <2>2, <2>3 DEF HeightInv
<1>14. BatchInv'
  BY <1>1 DEF IInv, BatchInv
<1>15. QED
  BY <1>10, <1>11, <1>12, <1>13, <1>14 DEF IInv

LEMMA AcceptKeepsIInv == IInv /\ Accept => IInv'
<1> SUFFICES ASSUME IInv, Accept PROVE IInv'
  OBVIOUS
<1>1. /\ out # <<>> /\ out' = <<>> /\ view' = Sent /\ Sent' = Sent
      /\ UNCHANGED <<nodeVars, loopVars, roundVars, cache, stopVars>>
  BY DEF Accept, Sent
<1>2. TypeOK'
  <2>1. NodeTypeOK'
    BY <1>1 DEF IInv, TypeOK, NodeTypeOK, nodeVars
  <2>2. out' \in Seq(Event) /\ Len(out') <= 1 /\ view' \in Seq(Block)
    BY <1>1, EmptySeq, TipType
  <2>3. QED
    BY <1>1, <2>1, <2>2 DEF IInv, TypeOK, loopVars, roundVars, stopVars
<1>3. ViewNumbered'
  <2>1. out[1] \in Event /\ view \in Seq(Block) /\ Len(view) \in Nat
        /\ DOMAIN view = 1..Len(view)
    BY <1>1, ElementOfSeq, LenProperties, EmptySeq DEF IInv, TypeOK
  <2>2. CASE out[1].state = "ok"
    <3>1. view' = Append(view, out[1].blk) /\ out[1].blk.num = Len(view) + 1
          /\ out[1].blk \in Block
      BY <1>1, <2>1, <2>2 DEF IInv, FeedIsStack, Sent, Applied, Event
    <3>2. QED
      BY <2>1, <3>1, AppendProperties, LenProperties DEF IInv, ViewNumbered
  <2>3. CASE out[1].state # "ok"
    <3>1. view # <<>> /\ out[1].blk = view[Len(view)]
      BY <1>1, <2>3 DEF IInv, FeedIsStack
    <3>2. Len(view) \in 1..Len(view) /\ out[1].blk.num = Len(view)
      BY <2>1, <3>1, EmptySeq DEF IInv, ViewNumbered
    <3>3. view' = SubSeq(view, 1, Len(view) - 1)
      BY <1>1, <2>3, <3>2 DEF Sent, Applied
    <3>4. /\ view' \in Seq(Block) /\ Len(view') = Len(view) - 1
          /\ \A i \in 1..(Len(view) - 1) : view'[i] = view[i]
      BY <2>1, <3>2, <3>3, CutFacts
    <3>5. QED
      BY <2>1, <3>2, <3>4, LenProperties DEF IInv, ViewNumbered
  <2>4. QED
    BY <2>2, <2>3
<1>4. FeedIsStack'
  BY <1>1 DEF FeedIsStack
<1>5. CacheIsPublished'
  BY <1>1 DEF IInv, CacheIsPublished
<1>6. pc # "start" /\ pc # "walk"
  BY <1>1 DEF IInv, HeightInv
<1>7. HeightInv' /\ BatchInv'
  BY <1>1, <1>6 DEF IInv, HeightInv, BatchInv, HeightEnd, loopVars, roundVars
<1>8. QED
  BY <1>2, <1>3, <1>4, <1>5, <1>7 DEF IInv

LEMMA StopKeepsIInv ==
    ASSUME IInv, NEW p \in Stoppers, CallStop(p) \/ EndStop(p)
    PROVE  IInv'
<1>1. /\ UNCHANGED <<nodeVars, loopVars, roundVars, cache, out, view, Sent>>
      /\ interrupt' \in BOOLEAN /\ token' \in 0..1
      /\ stopPc' \in [Stoppers -> {"idle", "loaded", "waiting", "returned"}]
  <2>1. /\ interrupt \in BOOLEAN /\ token \in 0..1
        /\ stopPc \in [Stoppers -> {"idle", "loaded", "waiting", "returned"}]
    BY DEF IInv, TypeOK
  <2>2. CASE StopLoad(p)
    BY <2>1, <2>2 DEF StopLoad, Sent
  <2>3. CASE StopStore(p)
    BY <2>1, <2>3 DEF StopStore, Sent
  <2>4. CASE StopReceive(p)
    BY <2>1, <2>4 DEF StopReceive, Sent
  <2>5. QED
    BY <2>2, <2>3, <2>4 DEF CallStop, EndStop
<1>2. TypeOK'
  BY <1>1 DEF IInv, TypeOK, NodeTypeOK, nodeVars, loopVars, roundVars
<1>3. QED
  BY <1>1, <1>2 DEF IInv, ViewNumbered, FeedIsStack, CacheIsPublished, HeightInv,
     BatchInv, HeightEnd, loopVars, roundVars

LEMMA PublishKeepsIInv == IInv /\ out = <<>> /\ Publish => IInv'
<1> SUFFICES ASSUME IInv, out = <<>>, Publish PROVE IInv'
  OBVIOUS
<1> DEFINE b == batch[height]
           left == DOMAIN batch \ {height}
<1>1. /\ pc = "publish"
      /\ cache' = CacheAdd(b)
      /\ out' = <<[state |-> "ok", blk |-> b]>>
      /\ height' = b.num + 1
      /\ batch' = Restrict(batch, left)
      /\ prevHash' = IF left = {} THEN NoHash ELSE b.hash
      /\ pc' = IF left = {} THEN "inner" ELSE "publish"
      /\ UNCHANGED <<nodeVars, startNum, end, firstLoop, walk, reverts, fails,
                     view, stopVars>>
  BY DEF Publish, Send
<1>2. PICK m \in Nat : m >= height /\ DOMAIN batch = height..m
  BY <1>1 DEF IInv, BatchInv
<1>3. /\ height = Len(view) + 1 /\ height \in Nat /\ reverts = <<>>
      /\ Len(view) \in Nat /\ view \in Seq(Block)
  BY <1>1, TipType DEF IInv, HeightInv, TypeOK, Sent
<1>4. b \in Block /\ b.num = height /\ b.hash \in Hash
  BY <1>2, <1>3 DEF IInv, BatchInv, TypeOK, Block
<1>5. left = (height + 1)..m
  BY <1>2, <1>3
<1>6. /\ DOMAIN batch' = left
      /\ \A n \in left : batch'[n] = batch[n]
  BY <1>1 DEF Restrict
<1> HIDE DEF b, left
<1>7. /\ out' # <<>> /\ out'[1] = [state |-> "ok", blk |-> b] /\ Len(out') = 1
      /\ out' \in Seq(Event)
  BY <1>1, <1>4 DEF Event
<1>8. view' = view /\ Sent' = Append(view, b)
  BY <1>1, <1>7 DEF Sent, Applied
<1>9. /\ Sent' \in Seq(Block) /\ Len(Sent') = Len(view) + 1
      /\ \A i \in 1..Len(view) : Sent'[i] = view[i]
      /\ Sent'[Len(view) + 1] = b
  BY <1>3, <1>4, <1>8, AppendProperties
<1>10. /\ DOMAIN cache' \subseteq DOMAIN cache \cup {height}
       /\ \A n \in DOMAIN cache' : cache'[n] = IF n = height THEN b ELSE cache[n]
  BY <1>1, <1>4 DEF CacheAdd
<1>11. TypeOK'
  <2>1. NodeTypeOK'
    BY <1>1 DEF IInv, TypeOK, NodeTypeOK, nodeVars
  <2>2. DOMAIN cache' \subseteq Nat /\ \A n \in DOMAIN cache' : cache'[n] \in Block
    BY <1>3, <1>4, <1>10 DEF IInv, TypeOK
  <2>3. DOMAIN batch' \subseteq Nat /\ \A n \in DOMAIN batch' : batch'[n] \in Block
    BY <1>2, <1>3, <1>5, <1>6 DEF IInv, TypeOK
  <2>4. out' \in Seq(Event) /\ Len(out') <= 1 /\ view' \in Seq(Block)
    BY <1>3, <1>7, <1>8
  <2>5. /\ pc' \in Running /\ height' \in Nat /\ prevHash' \in Hash \cup {NoHash}
    BY <1>1, <1>3, <1>4 DEF Running
  <2>6. UNCHANGED <<startNum, end, firstLoop, walk, reverts, fails, interrupt,
                    token, stopPc>>
    BY <1>1 DEF stopVars
  <2>7. QED
    BY <2>1, <2>2, <2>3, <2>4, <2>5, <2>6 DEF IInv, TypeOK
<1>12. ViewNumbered' /\ FeedIsStack'
  BY <1>3, <1>4, <1>7, <1>8 DEF IInv, ViewNumbered, FeedIsStack
<1>13. CacheIsPublished'
  <2>1. ASSUME NEW n \in DOMAIN cache'
        PROVE  IF n = 0 THEN cache'[n] = Genesis
               ELSE n <= Len(Sent') /\ cache'[n] = Sent'[n]
    <3>1. CASE n = height
      BY <1>3, <1>9, <1>10, <3>1
    <3>2. CASE n # height
      <4>1. n \in DOMAIN cache /\ n \in Nat /\ cache'[n] = cache[n]
        BY <1>10, <3>2 DEF IInv, TypeOK
      <4>2. IF n = 0 THEN cache[n] = Genesis
            ELSE n <= Len(view) /\ cache[n] = view[n]
        BY <4>1 DEF IInv, CacheIsPublished, Sent
      <4>3. QED
        BY <1>3, <1>9, <4>1, <4>2
    <3>3. QED
      BY <3>1, <3>2
  <2>2. QED
    BY <2>1 DEF CacheIsPublished
<1>14. HeightInv'
  <2>1. height' = Len(Sent') + 1 /\ reverts' = <<>> /\ pc' \in {"inner", "publish"}
    BY <1>1, <1>3, <1>4, <1>9
  <2>2. QED
    BY <2>1 DEF HeightInv
<1>15. BatchInv'
  <2>1. \A n \in DOMAIN batch' : batch'[n].num = n
    BY <1>2, <1>3, <1>5, <1>6 DEF IInv, BatchInv
  <2>2. CASE left = {}
    BY <1>1, <1>6, <2>1, <2>2 DEF BatchInv
  <2>3. CASE left # {}
    <3>1. pc' = "publish" /\ height' = height + 1
      BY <1>1, <1>4, <2>3
    <3>2. m >= height'
      BY <1>2, <1>3, <1>5, <2>3, <3>1
    <3>3. QED
      BY <1>2, <1>5, <1>6, <2>1, <3>1, <3>2 DEF BatchInv
  <2>4. QED
    BY <2>2, <2>3
<1>16. QED
  BY <1>11, <1>12, <1>13, <1>14, <1>15 DEF IInv

----------------------------------------------------------------------------
LEMMA StepKeepsIInv == IInv /\ [Next]_vars => IInv'
<1> SUFFICES ASSUME IInv, [Next]_vars PROVE IInv'
  OBVIOUS
<1>1. CASE Node
  BY <1>1, NodeKeepsIInv
<1>2. CASE Progress
  <2>1. out = <<>>
    BY <1>2 DEF Progress
  <2>2. CASE \E n \in height..(HeightEnd - 1) : FetchBlock(n)
    BY <2>1, <2>2, FetchBlockKeepsIInv
  <2>3. QED
    BY <1>2, <2>1, <2>2, QuietKeepsIInv, WalkDownKeepsIInv, SendRevertKeepsIInv,
       EndRevertsKeepsIInv, PublishKeepsIInv DEF Progress, QuietStep
<1>3. CASE Failure
  BY <1>3, QuietKeepsIInv DEF Failure, QuietStep
<1>4. CASE Accept
  BY <1>4, AcceptKeepsIInv
<1>5. CASE \E p \in Stoppers : CallStop(p) \/ EndStop(p)
  BY <1>5, StopKeepsIInv
<1>6. CASE UNCHANGED vars
  BY <1>6 DEF vars, nodeVars, loopVars, roundVars, stopVars, IInv, TypeOK,
     NodeTypeOK, ViewNumbered, FeedIsStack, CacheIsPublished, Sent, HeightInv,
     BatchInv, HeightEnd
<1>7. QED
  BY <1>1, <1>2, <1>3, <1>4, <1>5, <1>6 DEF Next

LEMMA AlwaysIInv == Spec => []IInv
  BY InitIInv, StepKeepsIInv, PTL DEF Spec

\* Type correctness of the fetcher.
THEOREM TypeCorrect == Spec => []TypeOK
<1>1. IInv => TypeOK
  BY DEF IInv
<1>2. QED
  BY <1>1, AlwaysIInv, PTL

\* Whatever the node does and however late the fetcher is, what it publishes
\* describes a stack: base_data's checks of the block heights (log.Fatalf in
\* BaseStorageTask.Start) never fail on a feed it has followed from the start.
THEOREM FeedStack == Spec => []FeedIsStack
<1>1. IInv => FeedIsStack
  BY DEF IInv
<1>2. QED
  BY <1>1, AlwaysIInv, PTL

\* blockCache always agrees with what the subscriber has been sent.
THEOREM CacheAgrees == Spec => []CacheIsPublished
<1>1. IInv => CacheIsPublished
  BY DEF IInv
<1>2. QED
  BY <1>1, AlwaysIInv, PTL

----------------------------------------------------------------------------
(* The stop handshake, for one goroutine that calls Stop, as Process.Run    *)
(* does.  With two callers the second one returns at once, while Run still  *)
(* runs.                                                                    *)

\* Where Run is once it publishes no more, and what each caller may conclude.
QuietInv ==
    /\ stopPc \in [Stoppers -> {"idle", "loaded", "waiting", "returned"}]
    /\ pc \notin Running => out = <<>>
    /\ token = 1 => pc \notin Running
    /\ stopPc["run"] # "idle" => pc \notin Running
    /\ \A p \in Callers : /\ stopPc[p] = "returned" => pc \notin Running
                          /\ stopPc[p] = "idle" /\ interrupt => pc \notin Running

LEMMA InitQuietInv == Init => QuietInv
  BY FetcherAssumption DEF Init, QuietInv, Running, Stoppers

\* A step of Run that ends it leaves nothing in Send; no step starts it again.
LEMMA RunKeepsQuietInv == QuietInv /\ (Progress \/ Failure) => QuietInv'
<1> SUFFICES ASSUME QuietInv, Progress \/ Failure PROVE QuietInv'
  OBVIOUS
<1>1. out = <<>> /\ pc \in Running /\ interrupt' = interrupt /\ stopPc' = stopPc
  BY DEF Progress, Failure, Start, StopRun, EnterLoop, BeginWalk, SkipWalk, Idle,
     Wake, Finish, WalkLost, WalkReads, WalkDown, WalkEnds, SendRevert,
     EndReverts, FetchBlock, FetchEnds, BreakRound, Publish, FetchFails, RpcExit,
     Running, stopVars, loopVars, roundVars
<1>2. pc' \notin Running => out' = <<>>
  BY <1>1 DEF Progress, Failure, Start, StopRun, EnterLoop, BeginWalk, SkipWalk,
     Idle, Wake, Finish, WalkLost, WalkDown, WalkEnds, SendRevert,
     EndReverts, FetchBlock, FetchEnds, BreakRound, Publish, FetchFails, RpcExit,
     Running, loopVars, roundVars
<1>3. token' = 1 => pc' \notin Running
  <2>1. CASE StopRun \/ Finish
    BY <2>1 DEF StopRun, Finish, Running
  <2>2. CASE ~(StopRun \/ Finish)
    <3>1. token' = token
      BY <2>2 DEF Progress, Failure, Start, EnterLoop, BeginWalk, SkipWalk, Idle,
         Wake, WalkLost, WalkDown, WalkEnds, SendRevert, EndReverts,
         FetchBlock, FetchEnds, BreakRound, Publish, FetchFails, RpcExit, stopVars
    <3>2. QED
      BY <1>1, <3>1 DEF QuietInv
  <2>3. QED
    BY <2>1, <2>2
<1>4. QED
  BY <1>1, <1>2, <1>3 DEF QuietInv

LEMMA StopKeepsQuietInv ==
    ASSUME NEW p, Callers = {p}, QuietInv,
           NEW q \in Stoppers, CallStop(q) \/ EndStop(q)
    PROVE  QuietInv'
<1> USE DEF QuietInv
<1>1. Stoppers = {p, "run"} /\ p # "run"
  BY FetcherAssumption DEF Stoppers
<1>2. pc' = pc /\ out' = out
  BY DEF CallStop, EndStop, StopLoad, StopStore, StopReceive, loopVars
<1>3. /\ stopPc' \in [Stoppers -> {"idle", "loaded", "waiting", "returned"}]
      /\ \A r \in Stoppers : r # q => stopPc'[r] = stopPc[r]
  BY DEF CallStop, EndStop, StopLoad, StopStore, StopReceive
<1>4. CASE StopLoad(q)
  <2>1. /\ stopPc[q] = "idle" /\ interrupt' = interrupt /\ token' = token
        /\ stopPc'[q] = IF interrupt THEN "returned" ELSE "loaded"
        /\ q = "run" => pc = "finished"
    BY <1>4 DEF StopLoad
  <2>2. QED
    BY <1>1, <1>2, <1>3, <2>1 DEF Running
<1>5. CASE StopStore(q)
  <2>1. /\ stopPc[q] = "loaded" /\ token' = token
        /\ stopPc'[q] = "waiting"
    BY <1>5 DEF StopStore
  <2>2. QED
    BY <1>1, <1>2, <1>3, <2>1
<1>6. CASE StopReceive(q)
  <2>1. /\ stopPc[q] = "waiting" /\ token = 1 /\ token' = 0
        /\ stopPc'[q] = "returned" /\ interrupt' = interrupt
    BY <1>6 DEF StopReceive
  <2>2. QED
    BY <1>1, <1>2, <1>3, <2>1
<1>7. QED
  BY <1>4, <1>5, <1>6 DEF CallStop, EndStop

LEMMA StepKeepsQuietInv ==
    ASSUME NEW p, Callers = {p}, QuietInv, [Next]_vars
    PROVE  QuietInv'
<1>1. CASE Node \/ UNCHANGED vars
  BY <1>1 DEF Node, QuietInv, vars, loopVars, stopVars
<1>2. CASE Accept
  BY <1>2 DEF Accept, QuietInv, loopVars, stopVars
<1>3. CASE Progress \/ Failure
  BY <1>3, RunKeepsQuietInv
<1>4. CASE \E q \in Stoppers : CallStop(q) \/ EndStop(q)
  BY <1>4, StopKeepsQuietInv
<1>5. QED
  BY <1>1, <1>2, <1>3, <1>4 DEF Next

\* When Stop has returned to its one caller Run publishes nothing more, however
\* the stop falls into its rounds, its sends or the end of its range.
THEOREM StopIsQuiet ==
    ASSUME NEW CONSTANT p, Callers = {p}
    PROVE  Spec => []QuietAfterStop
<1>1. QuietInv /\ [Next]_vars => QuietInv'
  BY StepKeepsQuietInv
<1>2. QuietInv => QuietAfterStop
  BY DEF QuietInv, QuietAfterStop
<1>3. QED
  BY <1>1, <1>2, InitQuietInv, PTL DEF Spec

----------------------------------------------------------------------------
(* Fetcher reverts only what the node has abandoned, and a bounded range    *)
(* ends with all of it published.                                           *)

\* A block the node has, or had, on its chain, which has not become shorter.
Known(b) == b.num <= Tip /\ \E k \in 0..branch : b.hash = <<b.num, k>>

Orphan(b) == Known(b) /\ ~Canonical(b)

\* All blocks Run holds came from the node; those it is about to revert are
\* orphans, and stay so: an abandoned branch does not return.
OrphanInv ==
    /\ \A n \in DOMAIN cache : Known(cache[n])
    /\ \A n \in DOMAIN batch : Known(batch[n])
    /\ \A i \in DOMAIN reverts : Orphan(reverts[i])
    /\ out # <<>> /\ out[1].state = "revert" => Orphan(out[1].blk)

----------------------------------------------------------------------------
LEMMA InitOrphanInv == Init => OrphanInv
<1> SUFFICES ASSUME Init PROVE OrphanInv
  OBVIOUS
<1>1. PICK b \in Boots : /\ chain = [n \in 1..b.head |-> IF n <= b.fork THEN 0 ELSE 1]
                         /\ branch = IF b.fork < b.head THEN 1 ELSE 0
                         /\ view = StoredChain(b.stored)
  BY DEF Init
<1>2. /\ b.head \in Nat /\ b.stored \in Nat /\ b.fork \in Nat
      /\ b.stored <= b.head
  BY FetcherAssumption
<1>3. IInv
  BY InitIInv
<1>4. Tip = b.head /\ branch \in Nat
  <2>1. chain \in [1..b.head -> Nat]
    BY <1>1
  <2>2. QED
    BY <1>1, <1>2, <2>1, FunIsSeq DEF Tip
<1>5. Len(view) = b.stored
  <2>1. \A i \in 1..b.stored :
           [num |-> i, hash |-> <<i, 0>>, parent |-> <<i - 1, 0>>] \in Block
    BY <1>2 DEF Block, Hash
  <2>2. StoredChain(b.stored) \in [1..b.stored -> Block]
    BY <2>1 DEF StoredChain
  <2>3. QED
    BY <1>1, <1>2, <2>2, FunIsSeq
<1>6. ASSUME NEW n \in DOMAIN cache PROVE Known(cache[n])
  <2>1. n \in Nat /\ Sent = view
    BY <1>3 DEF IInv, TypeOK, Init, Sent
  <2>2. CASE n = 0
    <3>1. cache[n] = Genesis
      BY <1>3, <2>2 DEF IInv, CacheIsPublished
    <3>2. QED
      BY <1>2, <1>4, <3>1 DEF Known, Genesis
  <2>3. CASE n # 0
    <3>1. n \in 1..b.stored /\ cache[n] = view[n]
      BY <1>3, <1>5, <2>1, <2>3 DEF IInv, CacheIsPublished
    <3>2. cache[n].num = n /\ cache[n].hash = <<n, 0>>
      BY <1>1, <3>1 DEF StoredChain
    <3>3. QED
      BY <1>2, <1>4, <3>1, <3>2 DEF Known
  <2>4. QED
    BY <2>2, <2>3
<1>7. QED
  BY <1>6 DEF Init, OrphanInv

----------------------------------------------------------------------------
(* Steps of the node. *)

\* A height whose block has changed is on the newest branch.
LEMMA ChangeIsNew ==
    ASSUME NodeTypeOK, NodeStep
    PROVE  /\ branch' \in {branch, branch + 1}
           /\ \A n \in 1..Tip : chain'[n] = chain[n] \/ chain'[n] = branch + 1
<1>1. Tip \in Nat /\ branch \in Nat
  BY LenProperties DEF NodeTypeOK, Tip
<1>2. CASE Extend
  BY <1>2, AppendProperties, LenProperties DEF NodeTypeOK, Extend, Tip
<1>3. ASSUME NEW d \in 1..ReorgDepth, NEW gain \in ReorgGains, d <= Tip,
             Reorg(d, gain)
      PROVE  /\ branch' = branch + 1
             /\ \A n \in 1..Tip : chain'[n] = chain[n] \/ chain'[n] = branch + 1
  <2>1. gain \in Nat
    BY EvmNodeAssumption
  <2>2. \A n \in 1..(Tip + gain) :
           chain'[n] = IF n <= Tip - d THEN chain[n] ELSE branch + 1
    BY <1>3 DEF Reorg
  <2>3. QED
    BY <1>1, <1>3, <2>1, <2>2 DEF Reorg
<1>4. QED
  BY <1>2, <1>3 DEF NodeStep

LEMMA NodeLeavesOrphans ==
    ASSUME NodeTypeOK, NodeStep
    PROVE  /\ \A b \in Block : Known(b) => Known(b)'
           /\ \A b \in Block : Orphan(b) => Orphan(b)'
<1>1. /\ Tip \in Nat /\ Tip' \in Nat /\ Tip' >= Tip /\ branch \in Nat
      /\ branch' \in {branch, branch + 1}
  BY NodeGrows, ChangeIsNew, LenProperties DEF NodeTypeOK, Tip
<1>2. ASSUME NEW b \in Block, Known(b) PROVE Known(b)'
  BY <1>1, <1>2 DEF Known, Block
<1>3. ASSUME NEW b \in Block, Orphan(b) PROVE ~Canonical(b)'
  <2>1. PICK k \in 0..branch : b.hash = <<b.num, k>>
    BY <1>3 DEF Orphan, Known
  <2>2. b.num \in Nat /\ b.num <= Tip /\ k # BranchAt(b.num)
    BY <1>3, <2>1 DEF Orphan, Known, Canonical, Block
  <2>3. k # BranchAt(b.num)'
    <3>1. CASE b.num = 0
      BY <2>2, <3>1 DEF BranchAt
    <3>2. CASE b.num # 0
      <4>1. b.num \in 1..Tip
        BY <1>1, <2>2, <3>2
      <4>2. chain'[b.num] = chain[b.num] \/ chain'[b.num] = branch + 1
        BY <4>1, ChangeIsNew
      <4>3. QED
        BY <1>1, <2>2, <3>2, <4>2 DEF BranchAt
    <3>3. QED
      BY <3>1, <3>2
  <2>4. QED
    BY <2>1, <2>3 DEF Canonical
<1>4. QED
  BY <1>2, <1>3 DEF Orphan

LEMMA NodeKeepsOrphanInv == IInv /\ OrphanInv /\ Node => OrphanInv'
<1> SUFFICES ASSUME IInv, OrphanInv, Node PROVE OrphanInv'
  OBVIOUS
<1>1. /\ \A b \in Block : Known(b) => Known(b)'
      /\ \A b \in Block : Orphan(b) => Orphan(b)'
  BY NodeLeavesOrphans DEF Node, IInv, TypeOK
<1>2. UNCHANGED <<cache, batch, reverts, out>>
  BY DEF Node, roundVars
<1>3. \A n \in DOMAIN cache' : Known(cache[n])'
  BY <1>1, <1>2 DEF OrphanInv, IInv, TypeOK
<1>4. \A n \in DOMAIN batch' : Known(batch[n])'
  BY <1>1, <1>2 DEF OrphanInv, IInv, TypeOK
<1>5. \A i \in DOMAIN reverts' : Orphan(reverts[i])'
  BY <1>1, <1>2, ElementOfSeq DEF OrphanInv, IInv, TypeOK
<1>6. out' # <<>> /\ out'[1].state = "revert" => Orphan(out[1].blk)'
  <2>1. out # <<>> => out[1] \in Event
    BY ElementOfSeq, EmptySeq, LenProperties DEF IInv, TypeOK
  <2>2. out # <<>> => out[1].blk \in Block
    BY <2>1 DEF Event
  <2>3. QED
    BY <1>1, <1>2, <2>2 DEF OrphanInv
<1>7. QED
  BY <1>3, <1>4, <1>5, <1>6 DEF OrphanInv

----------------------------------------------------------------------------
(* Steps of Run. *)

\* What is known and what is orphaned is a matter of the node alone.
LEMMA OnlyNodeOrphans ==
    ASSUME UNCHANGED nodeVars
    PROVE  /\ \A b \in Block : Known(b) <=> Known(b)'
           /\ \A b \in Block : Orphan(b) <=> Orphan(b)'
  BY DEF nodeVars, Orphan, Known, Canonical, Tip, BranchAt

LEMMA QuietKeepsOrphanInv == OrphanInv /\ QuietStep => OrphanInv'
<1> SUFFICES ASSUME OrphanInv, QuietStep PROVE OrphanInv'
  OBVIOUS
<1>1. UNCHANGED <<chain, branch, cache, reverts, out>>
  BY QuietKeepsFeed DEF nodeVars
<1>2. batch' = batch \/ DOMAIN batch' = {}
  BY DEF QuietStep, Start, StopRun, EnterLoop, BeginWalk, SkipWalk, Idle, Wake,
     Finish, WalkLost, WalkEnds, FetchFails, FetchEnds, BreakRound, RpcExit,
     roundVars
<1>3. QED
  BY <1>1, <1>2 DEF OrphanInv, Orphan, Known, Canonical, Tip, BranchAt

\* The walk collects a block whose successor names another parent.
LEMMA WalkDownKeepsOrphanInv == IInv /\ OrphanInv /\ WalkDown => OrphanInv'
<1> SUFFICES ASSUME IInv, OrphanInv, WalkDown PROVE OrphanInv'
  OBVIOUS
<1>1. /\ walk \in 1..Len(view) /\ out = <<>> /\ cache[walk] = view[walk]
      /\ view[walk] \in Block
  BY WalkDownFacts
<1>2. /\ walk \in DOMAIN cache /\ walk \in Nat /\ walk < Tip
      /\ ChainParent # cache[walk].hash
  BY TipType DEF WalkDown, WalkReads, Orphaned, IInv, TypeOK
<1>3. /\ UNCHANGED <<chain, branch, cache, batch, out>>
      /\ reverts' = Append(reverts, cache[walk])
  BY DEF WalkDown, nodeVars
<1>4. cache[walk].num = walk
  BY <1>1, LenProperties DEF IInv, TypeOK, ViewNumbered
<1>5. Orphan(cache[walk])
  <2>1. ChainParent = <<walk, BranchAt(walk)>>
    BY <1>2, BlockAtParent DEF ChainParent, IInv, TypeOK
  <2>2. QED
    BY <1>2, <1>4, <2>1 DEF Orphan, OrphanInv, Canonical
<1>6. ASSUME NEW i \in DOMAIN reverts' PROVE Orphan(reverts'[i])
  <2>1. reverts \in Seq(Block) /\ Len(reverts) \in Nat /\ cache[walk] \in Block
    BY <1>1, LenProperties DEF IInv, TypeOK
  <2>2. /\ DOMAIN reverts' = 1..(Len(reverts) + 1)
        /\ DOMAIN reverts = 1..Len(reverts)
        /\ \A j \in 1..Len(reverts) : reverts'[j] = reverts[j]
        /\ reverts'[Len(reverts) + 1] = cache[walk]
    BY <1>3, <2>1, AppendProperties, LenProperties
  <2>3. QED
    BY <1>5, <2>1, <2>2 DEF OrphanInv
<1>7. QED
  BY <1>1, <1>3, <1>6 DEF OrphanInv, Orphan, Known, Canonical, Tip, BranchAt

LEMMA FetchBlockKeepsOrphanInv ==
    ASSUME IInv, OrphanInv, NEW n \in height..(HeightEnd - 1), FetchBlock(n)
    PROVE  OrphanInv'
<1>1. height \in Nat /\ n \in Nat /\ n <= Tip /\ Tip \in Nat /\ branch \in Nat
  BY TipType, FetcherAssumption DEF IInv, TypeOK, NodeTypeOK, HeightEnd, FetchBlock
<1>2. Known(BlockAt(n))
  <2>1. CASE n = 0
    BY <1>1, <2>1 DEF BlockAt, Genesis, Known
  <2>2. CASE n # 0
    <3>1. n \in DOMAIN chain /\ chain \in Seq(Nat)
      BY <1>1, <2>2, LenProperties DEF IInv, TypeOK, NodeTypeOK, Tip
    <3>2. chain[n] \in 0..branch
      BY <1>1, <3>1, ElementOfSeq, LenProperties DEF IInv, TypeOK, NodeTypeOK
    <3>3. QED
      BY <1>1, <2>2, <3>2 DEF BlockAt, Known
  <2>3. QED
    BY <2>1, <2>2
<1>3. /\ UNCHANGED <<chain, branch, cache, reverts, out>>
      /\ DOMAIN batch' = DOMAIN batch \cup {n}
      /\ \A i \in DOMAIN batch' : batch'[i] = IF i = n THEN BlockAt(n) ELSE batch[i]
  BY DEF FetchBlock, nodeVars
<1>4. \A i \in DOMAIN batch' : Known(batch'[i])
  BY <1>2, <1>3 DEF OrphanInv
<1>5. QED
  BY <1>3, <1>4 DEF OrphanInv, Orphan, Known, Canonical, Tip, BranchAt

LEMMA SendRevertKeepsOrphanInv == IInv /\ OrphanInv /\ SendRevert => OrphanInv'
<1> SUFFICES ASSUME IInv, OrphanInv, SendRevert PROVE OrphanInv'
  OBVIOUS
<1>1. /\ reverts # <<>> /\ reverts' = Tail(reverts)
      /\ UNCHANGED <<chain, branch, batch>>
      /\ out' = <<[state |-> "revert", blk |-> Head(reverts)]>>
      /\ cache' = Restrict(cache, DOMAIN cache \ {Head(reverts).num})
  BY DEF SendRevert, NextRevert, CacheDrop, Send, nodeVars
<1>2. /\ reverts \in Seq(Block) /\ Len(reverts) \in Nat \ {0}
      /\ DOMAIN reverts = 1..Len(reverts) /\ Head(reverts) = reverts[1]
  BY <1>1, LenProperties, EmptySeq DEF IInv, TypeOK
<1>3. /\ DOMAIN reverts' = 1..(Len(reverts) - 1)
      /\ \A i \in 1..(Len(reverts) - 1) : reverts'[i] = reverts[i + 1]
  BY <1>1, <1>2, HeadTailProperties, LenProperties
<1>4. \A i \in DOMAIN reverts' : Orphan(reverts'[i])
  <2>1. \A i \in 1..(Len(reverts) - 1) : i + 1 \in 1..Len(reverts)
    BY <1>2
  <2>2. QED
    BY <1>2, <1>3, <2>1 DEF OrphanInv
<1>5. \A n \in DOMAIN cache' : n \in DOMAIN cache /\ cache'[n] = cache[n]
  BY <1>1 DEF Restrict
<1>6. Orphan(out'[1].blk)
  <2>1. Orphan(reverts[1])
    BY <1>2 DEF OrphanInv
  <2>2. out'[1].blk = reverts[1]
    BY <1>1, <1>2
  <2>3. QED
    BY <2>1, <2>2
<1>7. QED
  BY <1>1, <1>4, <1>5, <1>6 DEF OrphanInv, Orphan, Known, Canonical, Tip, BranchAt

LEMMA PublishKeepsOrphanInv == IInv /\ OrphanInv /\ Publish => OrphanInv'
<1> SUFFICES ASSUME IInv, OrphanInv, Publish PROVE OrphanInv'
  OBVIOUS
<1>1. /\ pc = "publish"
      /\ cache' = CacheAdd(batch[height])
      /\ out' = <<[state |-> "ok", blk |-> batch[height]]>>
      /\ batch' = Restrict(batch, DOMAIN batch \ {height})
      /\ UNCHANGED <<chain, branch, reverts>>
  BY DEF Publish, Send, nodeVars
<1>2. height \in DOMAIN batch
  BY <1>1 DEF IInv, BatchInv, TypeOK
<1>3. Known(batch[height])
  BY <1>2 DEF OrphanInv
<1>4. \A n \in DOMAIN cache' : \/ cache'[n] = batch[height]
                               \/ n \in DOMAIN cache /\ cache'[n] = cache[n]
  BY <1>1 DEF CacheAdd
<1>5. \A n \in DOMAIN cache' : Known(cache'[n])
  BY <1>3, <1>4 DEF OrphanInv
<1>6. \A n \in DOMAIN batch' : n \in DOMAIN batch /\ batch'[n] = batch[n]
  BY <1>1 DEF Restrict
<1>7. out'[1].state = "ok"
  BY <1>1
<1>8. QED
  BY <1>1, <1>5, <1>6, <1>7 DEF OrphanInv, Orphan, Known, Canonical, Tip, BranchAt

LEMMA OthersKeepOrphanInv ==
    ASSUME OrphanInv,
           EndReverts \/ Accept \/ UNCHANGED vars
              \/ \E p \in Stoppers : CallStop(p) \/ EndStop(p)
    PROVE  OrphanInv'
<1>1. /\ UNCHANGED <<chain, branch, cache, batch, reverts>>
      /\ out' = out \/ out' = <<>>
  BY DEF EndReverts, Accept, vars, nodeVars, roundVars, CallStop, EndStop,
     StopLoad, StopStore, StopReceive
<1>2. QED
  BY <1>1 DEF OrphanInv, Orphan, Known, Canonical, Tip, BranchAt

----------------------------------------------------------------------------
LEMMA StepKeepsOrphanInv == IInv /\ OrphanInv /\ [Next]_vars => OrphanInv'
<1> SUFFICES ASSUME IInv, OrphanInv, [Next]_vars PROVE OrphanInv'
  OBVIOUS
<1>1. CASE Node
  BY <1>1, NodeKeepsOrphanInv
<1>2. CASE Progress
  <2>1. CASE \E n \in height..(HeightEnd - 1) : FetchBlock(n)
    BY <2>1, FetchBlockKeepsOrphanInv
  <2>2. QED
    BY <1>2, <2>1, QuietKeepsOrphanInv, WalkDownKeepsOrphanInv,
       SendRevertKeepsOrphanInv, PublishKeepsOrphanInv, OthersKeepOrphanInv
       DEF Progress, QuietStep
<1>3. CASE Failure
  BY <1>3, QuietKeepsOrphanInv DEF Failure, QuietStep
<1>4. CASE Accept \/ UNCHANGED vars \/ \E p \in Stoppers : CallStop(p) \/ EndStop(p)
  BY <1>4, OthersKeepOrphanInv
<1>5. QED
  BY <1>1, <1>2, <1>3, <1>4 DEF Next

\* A block that is sent as a revert is not on the node's chain at that moment,
\* although the walk has read the node before: what the walk has found orphaned
\* remains so, as getLatestNormalBlockInfoInDB takes for granted.
THEOREM RevertsAreOrphans == Spec => []OnlyOrphansRevert
<1>1. IInv /\ OrphanInv /\ [Next]_vars => (IInv /\ OrphanInv)'
  BY StepKeepsIInv, StepKeepsOrphanInv
<1>2. OrphanInv => OnlyOrphansRevert
  BY DEF OrphanInv, Orphan, OnlyOrphansRevert
<1>3. QED
  BY <1>1, <1>2, InitIInv, InitOrphanInv, PTL DEF Spec

----------------------------------------------------------------------------
(* A bounded range. *)

\* The end of a bounded range stays where it was set, no round goes beyond it,
\* and Run never waits for new blocks.
Bounded ==
    /\ pc # "sleep"
    /\ pc = "start" => Len(view) < EndHeight
    /\ pc \notin {"start", "exited"} => end = EndHeight /\ height <= end
    /\ \A n \in DOMAIN batch : n < EndHeight

RangeInv == /\ EndHeight # 0 => Bounded
            /\ pc = "finished" => EndHeight # 0 /\ height = EndHeight

LEMMA InitRangeInv ==
    ASSUME \A b \in Boots : EndHeight # 0 => b.stored < EndHeight, Init
    PROVE  RangeInv
<1>1. PICK b \in Boots : view = StoredChain(b.stored)
  BY DEF Init
<1>2. b.stored \in Nat
  BY FetcherAssumption
<1>3. Len(view) = b.stored
  <2>1. \A i \in 1..b.stored :
           [num |-> i, hash |-> <<i, 0>>, parent |-> <<i - 1, 0>>] \in Block
    BY <1>2 DEF Block, Hash
  <2>2. StoredChain(b.stored) \in [1..b.stored -> Block]
    BY <2>1 DEF StoredChain
  <2>3. QED
    BY <1>1, <1>2, <2>2, FunIsSeq
<1>4. QED
  BY <1>3 DEF Init, RangeInv, Bounded

LEMMA StepKeepsRangeInv == IInv /\ RangeInv /\ [Next]_vars => RangeInv'
<1> SUFFICES ASSUME IInv, RangeInv, [Next]_vars PROVE RangeInv'
  OBVIOUS
<1>1. EndHeight \in Nat /\ height \in Nat /\ end \in Nat /\ walk \in Nat /\ Len(view) \in Nat
  BY TipType, FetcherAssumption DEF IInv, TypeOK
<1>2. CASE Node
  BY <1>2 DEF Node, RangeInv, Bounded, loopVars, roundVars
<1>3. CASE Start
  BY <1>1, <1>3 DEF Start, RangeInv, Bounded, roundVars
<1>4. CASE StopRun \/ EnterLoop \/ SkipWalk \/ WalkLost \/ FetchEnds
  <2>1. pc \notin {"start", "exited", "finished"} /\ pc' \notin {"start", "sleep", "finished"}
    BY <1>4 DEF StopRun, EnterLoop, SkipWalk, WalkLost, FetchEnds
  <2>2. UNCHANGED <<end, height, batch>>
    BY <1>4 DEF StopRun, EnterLoop, SkipWalk, WalkLost, FetchEnds, roundVars
  <2>3. QED
    BY <2>1, <2>2 DEF RangeInv, Bounded
<1>5. CASE BeginWalk \/ WalkEnds
  BY <1>5 DEF BeginWalk, WalkEnds, WalkReads, RangeInv, Bounded
<1>6. CASE Idle \/ Wake
  BY <1>6 DEF Idle, Wake, RangeInv, Bounded
<1>7. CASE Finish
  BY <1>1, <1>7 DEF Finish, RangeInv, Bounded, roundVars
<1>8. CASE WalkDown \/ SendRevert
  BY <1>8 DEF WalkDown, SendRevert, RangeInv, Bounded, loopVars
<1>9. CASE EndReverts
  BY <1>1, <1>9 DEF EndReverts, RangeInv, Bounded, IInv, HeightInv
<1>10. ASSUME NEW n \in height..(HeightEnd - 1), FetchBlock(n)
      PROVE  RangeInv'
  <2> SUFFICES ASSUME EndHeight # 0 PROVE Bounded'
    BY <1>10 DEF FetchBlock, RangeInv, loopVars
  <2>1. HeightEnd <= end
    BY <1>1, FetcherAssumption DEF HeightEnd
  <2>2. HeightEnd \in Int
    BY <1>1, FetcherAssumption DEF HeightEnd
  <2>3. pc = "fetch" /\ DOMAIN batch' = DOMAIN batch \cup {n}
    BY <1>10 DEF FetchBlock
  <2>4. end = EndHeight
    BY <2>3 DEF RangeInv, Bounded
  <2>5. n < EndHeight
    BY <1>1, <1>10, <2>1, <2>2, <2>4
  <2>6. QED
    BY <1>10, <2>3, <2>5 DEF FetchBlock, RangeInv, Bounded, loopVars
<1>11. CASE FetchFails \/ BreakRound
  BY <1>11 DEF FetchFails, BreakRound, RangeInv, Bounded
<1>12. CASE Publish
  <2> SUFFICES ASSUME EndHeight # 0 PROVE Bounded'
    BY <1>12 DEF Publish, RangeInv
  <2>1. /\ pc = "publish" /\ height' = batch[height].num + 1
        /\ batch' = Restrict(batch, DOMAIN batch \ {height})
        /\ pc' \in {"inner", "publish"} /\ UNCHANGED <<end, view>>
    BY <1>12 DEF Publish
  <2>2. height \in DOMAIN batch
    BY <2>1 DEF IInv, BatchInv, TypeOK
  <2>3. height' = height + 1
    BY <2>1, <2>2 DEF IInv, BatchInv
  <2>4. height < EndHeight
    BY <2>2 DEF RangeInv, Bounded
  <2>5. DOMAIN batch' \subseteq DOMAIN batch
    BY <2>1 DEF Restrict
  <2>6. end' = EndHeight /\ height' <= end'
    BY <1>1, <2>1, <2>3, <2>4 DEF RangeInv, Bounded
  <2>7. \A n \in DOMAIN batch' : n < EndHeight
    BY <2>5 DEF RangeInv, Bounded
  <2>8. QED
    BY <2>1, <2>6, <2>7 DEF Bounded
<1>13. CASE RpcExit
  BY <1>13 DEF RpcExit, RangeInv, Bounded, roundVars
<1>14. CASE Accept
  BY <1>14 DEF Accept, RangeInv, Bounded, IInv, HeightInv, loopVars, roundVars
<1>15. CASE UNCHANGED vars \/ \E p \in Stoppers : CallStop(p) \/ EndStop(p)
  BY <1>15 DEF vars, CallStop, EndStop, StopLoad, StopStore, StopReceive,
     RangeInv, Bounded, loopVars, roundVars
<1>16. QED
  BY <1>2, <1>3, <1>4, <1>5, <1>6, <1>7, <1>8, <1>9, <1>10, <1>11, <1>12, <1>13,
     <1>14, <1>15 DEF Next, Progress, Failure

\* A Run with an EndHeight above what the database holds finishes only when
\* exactly the range up to EndHeight, which is exclusive, has been sent, through
\* failed rounds and reorganisations.
THEOREM RangeIsComplete ==
    ASSUME \A b \in Boots : EndHeight # 0 => b.stored < EndHeight
    PROVE  Spec => []FinishedIsComplete
<1>1. Init => IInv /\ RangeInv
  BY InitIInv, InitRangeInv
<1>2. IInv /\ RangeInv /\ [Next]_vars => (IInv /\ RangeInv)'
  BY StepKeepsIInv, StepKeepsRangeInv
<1>3. IInv /\ RangeInv => FinishedIsComplete
  <2> SUFFICES ASSUME IInv, RangeInv, pc = "finished" PROVE Len(Sent) = EndHeight - 1
    BY DEF FinishedIsComplete
  <2>1. height = Len(Sent) + 1 /\ Len(Sent) \in Nat
    BY TipType DEF IInv, HeightInv
  <2>2. height = EndHeight
    BY DEF RangeInv
  <2>3. QED
    BY <2>1, <2>2
<1>4. QED
  BY <1>1, <1>2, <1>3, PTL DEF Spec

----------------------------------------------------------------------------
(***************************************************************************)
(* What Fetcher publishes is one chain and the walk never runs out of       *)
(* cached blocks, whatever the node reorganises, provided that blocks are   *)
(* final ReorgDepth below the head (Finality).                              *)
(***************************************************************************)

\* A restart with a database that is empty or fills the cache, a chain whose
\* replaceable part, ReorgDepth blocks, lies within BlocksSafe blocks of where
\* the fetcher reads it, and an unbounded range.
Finality ==
    /\ EndHeight = 0 /\ Prompt
    /\ BlocksSafe > 0 /\ ReorgDepth <= BlocksSafe + BlocksDelay
    /\ \A b \in Boots : /\ b.stored = 0 \/ b.stored >= 2 * BlocksSafe
                        /\ b.stored + BlocksDelay <= b.head
                        /\ b.stored + BlocksDelay <= b.fork + ReorgDepth
                        /\ ReorgDepth < b.head

Between == {"start", "outer", "inner", "sleep"}
InRound == {"fetch", "publish"}

\* What Run reads is at least BlocksDelay below the head.
BehindHead ==
    /\ BlocksDelay <= Tip /\ ReorgDepth < Tip
    /\ end + BlocksDelay <= Tip + 1
    /\ pc = "sleep" => end <= height
    /\ pc = "start" => firstLoop
    /\ \A n \in DOMAIN batch : n < end

\* The heights at which Run holds a block that is not on the chain.
CacheOrphans == {n \in DOMAIN cache : ~Canonical(cache[n])}
BatchOrphans == {n \in DOMAIN batch : ~Canonical(batch[n])}

\* A block names its parent, and the hash of a block on the chain the branch of
\* everything below it.
BatchParents ==
    \A n \in DOMAIN batch :
        /\ n = 1 => batch[n].parent = Genesis.hash /\ Canonical(batch[n])
        /\ n # 0 /\ Canonical(batch[n]) =>
              batch[n].parent = <<n - 1, BranchAt(n - 1)>>

\* Every block of s names the one below it as its parent.
LinkedTo(s) == \A n \in DOMAIN s :
                  s[n].parent = IF n = 1 THEN Genesis.hash ELSE s[n - 1].hash

\* What is above an orphan is an orphan too.
CacheClosed ==
    \A m \in CacheOrphans : \A n \in DOMAIN cache : m <= n => n \in CacheOrphans

\* A cached block that is on the chain for good, and no gap above it.
Anchor(low) ==
    /\ low <= Len(Sent) /\ low..Len(Sent) \subseteq DOMAIN cache
    /\ low \notin CacheOrphans /\ low + ReorgDepth <= Tip
    /\ pc \in {"walk", "revert"} => low <= walk

CacheAnchored ==
    \/ /\ DOMAIN cache = {} /\ Sent = <<>>
       /\ pc \notin {"start", "exited"} => startNum = 1
    \/ \E low \in Nat : Anchor(low)

\* The hash of the block below height h.
HashBelow(h) == IF h = 1 THEN Genesis.hash ELSE Sent[h - 1].hash

\* prevHash is what the first block of the round must follow; it is unset in a
\* round that skipped the walk, whose first block follows all the same.
PrevHashInv ==
    /\ pc \in Between => prevHash = NoHash
    /\ pc = "walk" /\ DOMAIN cache = {} => prevHash = NoHash
    /\ pc = "revert" => \/ prevHash = HashBelow(walk + 1)
                        \/ prevHash = NoHash /\ walk = 0
    /\ pc \in InRound =>
          \/ prevHash = HashBelow(height)
          \/ prevHash = NoHash /\ height = 1
          \/ /\ prevHash = NoHash /\ height + BlocksSafe <= end
             /\ height \in DOMAIN batch => batch[height].parent = HashBelow(height)

\* While Run holds an orphan, its next round is one that walks: what the node
\* can replace is less than BlocksSafe below the end that was read before.
OrphansNearEnd ==
    /\ pc \in Between /\ ~firstLoop /\ CacheOrphans # {} =>
          end < height + BlocksSafe
    /\ pc \in InRound =>
          \A n \in CacheOrphans \cup BatchOrphans : end < n + 1 + BlocksSafe
    /\ pc = "revert" =>
          \A n \in CacheOrphans : n <= walk => end < n + 1 + BlocksSafe

\* Run does not wait for a new end while it holds an orphan that the new end
\* would put out of sight; a round that began with such an orphan at the top of
\* the cache breaks.
OrphansInSight ==
    /\ pc \in Between /\ OrphanOutOfSight => firstLoop \/ height < end
    /\ pc \in InRound /\ OrphanOutOfSight =>
          /\ height - 1 \in CacheOrphans
          /\ prevHash = cache[height - 1].hash
          /\ height \in DOMAIN batch => batch[height].parent # prevHash

\* The inductive invariant.
ChainInv ==
    /\ pc # "lost"
    /\ BehindHead
    /\ BatchParents
    /\ LinkedTo(view) /\ LinkedTo(Sent)
    /\ CacheClosed
    /\ CacheAnchored
    /\ PrevHashInv
    /\ OrphansNearEnd
    /\ OrphansInSight

----------------------------------------------------------------------------
(* The node. *)

\* A step of the node keeps the chain up to some height, ReorgDepth below the
\* head at most, and puts what it has above it on a new branch.
LEMMA NodeForks ==
    ASSUME NodeTypeOK, NodeStep
    PROVE  \E k \in 0..Tip : /\ Tip <= k + ReorgDepth
                             /\ \A n \in 1..k : chain'[n] = chain[n]
                             /\ \A n \in (k + 1)..Tip : chain'[n] = branch + 1
<1>1. Tip \in Nat /\ branch \in Nat /\ ReorgDepth \in Nat
  BY LenProperties, EvmNodeAssumption DEF NodeTypeOK, Tip
<1>2. CASE Extend
  <2>1. \A n \in 1..Tip : chain'[n] = chain[n]
    BY <1>2, AppendProperties, LenProperties DEF NodeTypeOK, Extend, Tip
  <2>2. Tip \in 0..Tip /\ Tip <= Tip + ReorgDepth /\ (Tip + 1)..Tip = {}
    BY <1>1
  <2>3. QED
    BY <2>1, <2>2
<1>3. ASSUME NEW d \in 1..ReorgDepth, NEW gain \in ReorgGains, d <= Tip,
             Reorg(d, gain)
      PROVE  \E k \in 0..Tip : /\ Tip <= k + ReorgDepth
                               /\ \A n \in 1..k : chain'[n] = chain[n]
                               /\ \A n \in (k + 1)..Tip : chain'[n] = branch + 1
  <2>1. gain \in Nat
    BY EvmNodeAssumption
  <2>2. \A n \in 1..(Tip + gain) :
           chain'[n] = IF n <= Tip - d THEN chain[n] ELSE branch + 1
    BY <1>3 DEF Reorg
  <2>3. Tip - d \in 0..Tip /\ Tip <= (Tip - d) + ReorgDepth
    BY <1>1, <1>3
  <2>4. /\ \A n \in 1..(Tip - d) : chain'[n] = chain[n]
        /\ \A n \in ((Tip - d) + 1)..Tip : chain'[n] = branch + 1
    BY <1>1, <1>3, <2>1, <2>2
  <2>5. QED
    BY <2>3, <2>4
<1>4. QED
  BY <1>2, <1>3 DEF NodeStep

\* A known block that is on the chain after a step of the node was on it
\* before, as was all that is below it.
LEMMA NodeKeepsBelow ==
    ASSUME NodeTypeOK, NodeStep, NEW b \in Block, Known(b), Canonical(b)'
    PROVE  /\ Canonical(b)
           /\ \A m \in 0..b.num : m <= Tip /\ BranchAt(m)' = BranchAt(m)
<1>1. Tip \in Nat /\ Tip' \in Nat /\ Tip <= Tip' /\ branch \in Nat /\ b.num \in Nat
  BY NodeGrows, LenProperties DEF NodeTypeOK, Tip, Block
<1>2. PICK k \in 0..Tip : /\ \A n \in 1..k : chain'[n] = chain[n]
                          /\ \A n \in (k + 1)..Tip : chain'[n] = branch + 1
  BY NodeForks
<1>3. b.num <= Tip /\ b.hash = <<b.num, BranchAt(b.num)'>> /\ b.hash # <<b.num, branch + 1>>
  <2>1. PICK i \in 0..branch : b.hash = <<b.num, i>>
    BY DEF Known
  <2>2. i # branch + 1
    BY <1>1
  <2>3. QED
    BY <2>1, <2>2 DEF Known, Canonical
<1>4. b.num <= k
  <2> SUFFICES ASSUME b.num > k PROVE FALSE
    BY <1>1, <1>2
  <2>1. b.num \in (k + 1)..Tip /\ b.num # 0
    BY <1>1, <1>2, <1>3
  <2>2. BranchAt(b.num)' = branch + 1
    BY <1>2, <2>1 DEF BranchAt
  <2>3. QED
    BY <1>3, <2>2
<1>5. \A m \in 0..b.num : m <= Tip /\ BranchAt(m)' = BranchAt(m)
  BY <1>1, <1>2, <1>3, <1>4 DEF BranchAt
<1>6. QED
  BY <1>1, <1>3, <1>5 DEF Canonical

\* Only the last ReorgDepth blocks of the chain can become orphans.
LEMMA NodeOrphansTop ==
    ASSUME NodeTypeOK, NodeStep, NEW b \in Block, Canonical(b),
           b.num + ReorgDepth <= Tip
    PROVE  Canonical(b)'
<1>1. /\ Tip \in Nat /\ Tip' \in Nat /\ Tip <= Tip' /\ b.num \in Nat
      /\ ReorgDepth \in Nat
  BY NodeGrows, LenProperties, EvmNodeAssumption DEF NodeTypeOK, Tip, Block
<1>2. PICK k \in 0..Tip : /\ Tip <= k + ReorgDepth
                          /\ \A n \in 1..k : chain'[n] = chain[n]
  BY NodeForks
<1>3. b.num <= k
  BY <1>1, <1>2
<1>4. BranchAt(b.num)' = BranchAt(b.num)
  BY <1>1, <1>2, <1>3 DEF BranchAt
<1>5. QED
  BY <1>1, <1>4 DEF Canonical

\* What is on the chain is a matter of the node alone.
LEMMA SameChain ==
    ASSUME UNCHANGED nodeVars
    PROVE  /\ Tip' = Tip
           /\ \A n : BranchAt(n)' = BranchAt(n)
           /\ \A b : Canonical(b)' <=> Canonical(b)
  BY DEF nodeVars, Tip, BranchAt, Canonical

----------------------------------------------------------------------------
(* The start of the process. *)

LEMMA StoredChainFacts ==
    ASSUME NEW n \in Nat
    PROVE  StoredChain(n) \in Seq(Block) /\ Len(StoredChain(n)) = n
<1>1. \A i \in 1..n :
         [num |-> i, hash |-> <<i, 0>>, parent |-> <<i - 1, 0>>] \in Block
  BY DEF Block, Hash
<1>2. StoredChain(n) \in [1..n -> Block]
  BY <1>1 DEF StoredChain
<1>3. QED
  BY <1>2, FunIsSeq

LEMMA InitChainInv == Finality /\ Init => ChainInv
<1> SUFFICES ASSUME Finality, Init PROVE ChainInv
  OBVIOUS
<1>1. PICK b \in Boots : /\ chain = [n \in 1..b.head |-> IF n <= b.fork THEN 0 ELSE 1]
                         /\ branch = IF b.fork < b.head THEN 1 ELSE 0
                         /\ view = StoredChain(b.stored)
  BY DEF Init
<1>2. /\ b.head \in Nat /\ b.stored \in Nat /\ b.fork \in Nat
      /\ BlocksSafe \in Nat /\ BlocksDelay \in Nat /\ ReorgDepth \in Nat
      /\ BlocksSafe > 0 /\ ReorgDepth <= BlocksSafe + BlocksDelay
      /\ b.stored = 0 \/ b.stored >= 2 * BlocksSafe
      /\ b.stored + BlocksDelay <= b.head
      /\ b.stored + BlocksDelay <= b.fork + ReorgDepth
      /\ ReorgDepth < b.head
  BY FetcherAssumption, EvmNodeAssumption DEF Finality
<1>3. Tip = b.head
  <2>1. chain \in [1..b.head -> Nat]
    BY <1>1
  <2>2. QED
    BY <1>2, <2>1, FunIsSeq DEF Tip
<1>4. /\ Len(view) = b.stored /\ DOMAIN view = 1..b.stored
      /\ \A n \in 1..b.stored : view[n] = [num |-> n, hash |-> <<n, 0>>,
                                                     parent |-> <<n - 1, 0>>]
      /\ Sent = view
  BY <1>1, <1>2, StoredChainFacts DEF Init, Sent, StoredChain
<1>5. /\ DOMAIN cache = LoadedHeights(b.stored)
      /\ \A n \in DOMAIN cache : cache[n] = IF n = 0 THEN Genesis ELSE view[n]
  BY <1>4 DEF Init, LoadLocalBlocksToCache
<1>6. LoadedHeights(b.stored) =
         IF b.stored > 0 THEN (b.stored - 2 * BlocksSafe)..b.stored ELSE {}
  BY <1>2 DEF LoadedHeights, Minus
<1>7. \A n \in DOMAIN cache : n \in 0..b.stored
  BY <1>2, <1>5, <1>6
<1>8. \A n \in DOMAIN cache : Canonical(cache[n]) <=> n = 0 \/ n <= b.fork
  <2> SUFFICES ASSUME NEW n \in DOMAIN cache
               PROVE  Canonical(cache[n]) <=> n = 0 \/ n <= b.fork
    OBVIOUS
  <2>1. CASE n = 0
    BY <1>2, <1>3, <1>5, <2>1 DEF Genesis, Canonical, BranchAt
  <2>2. CASE n # 0
    <3>1. n \in 1..b.stored /\ cache[n] = view[n] /\ n <= b.head
      BY <1>2, <1>5, <1>7, <2>2
    <3>2. BranchAt(n) = IF n <= b.fork THEN 0 ELSE 1
      BY <1>1, <1>2, <3>1 DEF BranchAt
    <3>3. cache[n].num = n /\ cache[n].hash = <<n, 0>>
      <4>1. cache[n] = [num |-> n, hash |-> <<n, 0>>, parent |-> <<n - 1, 0>>]
        BY <1>4, <3>1, Zenon
      <4>2. QED
        BY <4>1
    <3>4. n <= Tip
      BY <1>3, <3>1
    <3>5. Canonical(cache[n]) <=> 0 = BranchAt(n)
      BY <3>3, <3>4 DEF Canonical
    <3>6. QED
      BY <2>2, <3>2, <3>5
  <2>3. QED
    BY <2>1, <2>2
<1>9. BehindHead /\ BatchParents
  BY <1>2, <1>3 DEF Init, BehindHead, BatchParents
<1>10. LinkedTo(view)
  <2>1. \A n \in 1..b.stored : n = 1 \/ n - 1 \in 1..b.stored
    BY <1>2
  <2>2. ASSUME NEW n \in 1..b.stored
        PROVE  view[n].hash = <<n, 0>> /\ view[n].parent = <<n - 1, 0>>
    <3>1. view[n] = [num |-> n, hash |-> <<n, 0>>, parent |-> <<n - 1, 0>>]
      BY <1>4, Zenon
    <3>2. QED
      BY <3>1
  <2>3. \A n \in 1..b.stored : n # 1 => view[n - 1].hash = <<n - 1, 0>>
    BY <2>1, <2>2
  <2>4. Genesis.hash = <<1 - 1, 0>>
    BY DEF Genesis
  <2>5. ASSUME NEW n \in 1..b.stored
        PROVE  view[n].parent = IF n = 1 THEN Genesis.hash ELSE view[n - 1].hash
    <3>1. view[n].parent = <<n - 1, 0>>
      BY <2>2
    <3>2. CASE n = 1
      BY <2>4, <3>1, <3>2
    <3>3. CASE n # 1
      BY <2>3, <3>1, <3>3
    <3>4. QED
      BY <3>2, <3>3
  <2>6. DOMAIN view = 1..b.stored
    BY <1>4
  <2>7. QED
    BY <2>5, <2>6 DEF LinkedTo
<1>11. CacheClosed
  BY <1>2, <1>7, <1>8 DEF CacheClosed, CacheOrphans
<1>12. CacheAnchored
  <2>1. CASE b.stored = 0
    <3>1. view = <<>>
      BY <1>1, <1>4, <2>1, StoredChainFacts, EmptySeq
    <3>2. QED
      BY <1>4, <1>5, <1>6, <2>1, <3>1 DEF CacheAnchored, Init
  <2>2. CASE b.stored # 0
    <3> DEFINE low == b.stored - 2 * BlocksSafe
    <3>1. low \in Nat /\ low <= b.stored /\ low..b.stored = DOMAIN cache
      BY <1>2, <1>5, <1>6, <2>2
    <3>2. low + ReorgDepth <= Tip /\ low <= b.fork
      BY <1>2, <1>3
    <3>3. low \in DOMAIN cache
      BY <1>2, <3>1
    <3> HIDE DEF low
    <3>4. Canonical(cache[low])
      BY <1>8, <3>2, <3>3
    <3>5. Anchor(low)
      BY <1>4, <3>1, <3>2, <3>4 DEF Anchor, CacheOrphans, Init
    <3>6. QED
      BY <3>1, <3>5 DEF CacheAnchored
  <2>3. QED
    BY <2>1, <2>2
<1>13. PrevHashInv /\ OrphansNearEnd /\ OrphansInSight
  BY DEF Init, PrevHashInv, OrphansNearEnd, OrphansInSight, InRound
<1>14. QED
  BY <1>4, <1>9, <1>10, <1>11, <1>12, <1>13 DEF ChainInv, Init

----------------------------------------------------------------------------
(* Steps of the node. *)

LEMMA SentNumbered == IInv => \A n \in DOMAIN Sent : Sent[n].num = n
<1> SUFFICES ASSUME IInv PROVE \A n \in DOMAIN Sent : Sent[n].num = n
  OBVIOUS
<1>1. /\ view \in Seq(Block) /\ Len(view) \in Nat /\ DOMAIN view = 1..Len(view)
      /\ \A n \in 1..Len(view) : view[n].num = n
  BY LenProperties DEF IInv, TypeOK, ViewNumbered
<1>2. CASE out = <<>>
  BY <1>1, <1>2 DEF Sent
<1>3. CASE out # <<>> /\ out[1].state = "ok"
  <2>1. out[1] \in Event
    BY <1>3, ElementOfSeq, LenProperties, EmptySeq DEF IInv, TypeOK
  <2>2. Sent = Append(view, out[1].blk) /\ out[1].blk.num = Len(view) + 1
        /\ out[1].blk \in Block
    BY <1>3, <2>1 DEF IInv, FeedIsStack, Sent, Applied, Event
  <2>3. QED
    BY <1>1, <2>2, AppendProperties, LenProperties
<1>4. CASE out # <<>> /\ out[1].state # "ok"
  <2>1. view # <<>> /\ out[1].blk = view[Len(view)]
    BY <1>4 DEF IInv, FeedIsStack
  <2>2. Len(view) \in 1..Len(view) /\ out[1].blk.num = Len(view)
    BY <1>1, <2>1, EmptySeq
  <2>3. Sent = SubSeq(view, 1, Len(view) - 1)
    BY <1>4, <2>2 DEF Sent, Applied
  <2>4. /\ Sent \in Seq(Block) /\ Len(Sent) = Len(view) - 1
        /\ \A i \in 1..(Len(view) - 1) : Sent[i] = view[i]
    BY <1>1, <2>2, <2>3, CutFacts
  <2>5. QED
    BY <1>1, <2>2, <2>4, LenProperties
<1>5. QED
  BY <1>2, <1>3, <1>4

\* The blocks of the cache: typed, numbered, and with the hashes that were sent.
LEMMA CacheFacts ==
    ASSUME IInv
    PROVE  \A n \in DOMAIN cache :
              /\ n \in Nat /\ n <= Len(Sent)
              /\ cache[n] \in Block /\ cache[n].num = n
              /\ cache[n].hash = HashBelow(n + 1)
<1>1. TAKE n \in DOMAIN cache
<1>2. n \in Nat /\ cache[n] \in Block /\ Len(Sent) \in Nat /\ Sent \in Seq(Block)
  BY TipType DEF IInv, TypeOK
<1>3. CASE n = 0
  BY <1>2, <1>3 DEF IInv, CacheIsPublished, Genesis, HashBelow
<1>4. CASE n # 0
  <2>1. n \in 1..Len(Sent) /\ cache[n] = Sent[n]
    BY <1>2, <1>4 DEF IInv, CacheIsPublished
  <2>2. Sent[n].num = n
    BY <1>2, <2>1, SentNumbered, LenProperties
  <2>3. HashBelow(n + 1) = Sent[n].hash
    BY <1>2, <1>4 DEF HashBelow
  <2>4. QED
    BY <1>2, <2>1, <2>2, <2>3
<1>5. QED
  BY <1>3, <1>4

\* What a step of the node makes of the blocks that Run holds.
LEMMA NodeMakesOrphans ==
    ASSUME IInv, OrphanInv, Node
    PROVE  /\ Tip \in Nat /\ Tip' \in Nat /\ Tip <= Tip'
           /\ CacheOrphans \subseteq CacheOrphans'
           /\ BatchOrphans \subseteq BatchOrphans'
           /\ \A n \in CacheOrphans' \ CacheOrphans : Tip < n + ReorgDepth
           /\ \A n \in BatchOrphans' \ BatchOrphans : Tip < n + ReorgDepth
           /\ \A n \in DOMAIN batch : n \notin BatchOrphans' =>
                 \A m \in 0..n : BranchAt(m)' = BranchAt(m)
<1>1. NodeTypeOK /\ NodeStep /\ cache' = cache /\ batch' = batch
  BY DEF IInv, TypeOK, Node, roundVars
<1>2. Tip \in Nat /\ Tip' \in Nat /\ Tip <= Tip' /\ ReorgDepth \in Nat
  BY <1>1, NodeGrows, LenProperties, EvmNodeAssumption DEF NodeTypeOK, Tip
<1>3. \A n \in DOMAIN cache : n \in Nat /\ cache[n] \in Block /\ Known(cache[n])
                              /\ cache[n].num = n
  BY CacheFacts DEF OrphanInv
<1>4. \A n \in DOMAIN batch : n \in Nat /\ batch[n] \in Block /\ Known(batch[n])
                              /\ batch[n].num = n
  BY DEF IInv, TypeOK, BatchInv, OrphanInv
<1>5. ASSUME NEW b \in Block, Known(b), Canonical(b)' PROVE Canonical(b)
  BY <1>1, <1>5, NodeKeepsBelow
<1>6. ASSUME NEW b \in Block, Canonical(b), ~Canonical(b)'
      PROVE  Tip < b.num + ReorgDepth
  BY <1>1, <1>2, <1>6, NodeOrphansTop DEF Block
<1>7. CacheOrphans \subseteq CacheOrphans'
  BY <1>1, <1>3, <1>5 DEF CacheOrphans
<1>8. BatchOrphans \subseteq BatchOrphans'
  BY <1>1, <1>4, <1>5 DEF BatchOrphans
<1>9. \A n \in CacheOrphans' \ CacheOrphans : Tip < n + ReorgDepth
  BY <1>1, <1>3, <1>6 DEF CacheOrphans
<1>10. \A n \in BatchOrphans' \ BatchOrphans : Tip < n + ReorgDepth
  BY <1>1, <1>4, <1>6 DEF BatchOrphans
<1>11. ASSUME NEW n \in DOMAIN batch, n \notin BatchOrphans', NEW m \in 0..n
       PROVE  BranchAt(m)' = BranchAt(m)
  <2>1. Canonical(batch[n])'
    BY <1>1, <1>11 DEF BatchOrphans
  <2>2. QED
    BY <1>1, <1>4, <1>11, <2>1, NodeKeepsBelow
<1>12. QED
  BY <1>2, <1>7, <1>8, <1>9, <1>10, <1>11

LEMMA SumBelow ==
    ASSUME NEW a \in Nat, NEW b \in Nat, NEW c \in Nat, NEW d \in Nat,
           a + b <= c + 1, c <= d
    PROVE  a + b <= d + 1
  OBVIOUS

\* When Run is out of sight of an orphan it holds.
LEMMA SightFacts ==
    ASSUME BlocksDelay <= Tip, Tip \in Nat
    PROVE  OrphanOutOfSight <=>
              /\ CacheOrphans # {} \/ BatchOrphans # {}
              /\ height + BlocksSafe <= Tip - BlocksDelay + 1
  BY FetcherAssumption DEF OrphanOutOfSight, HoldsOrphan, CacheOrphans,
     BatchOrphans, CurChainHeight, Minus

\* The same in the state after a step.
LEMMA SightFactsNext ==
    ASSUME BlocksDelay <= Tip', Tip' \in Nat
    PROVE  OrphanOutOfSight' <=>
              /\ CacheOrphans' # {} \/ BatchOrphans' # {}
              /\ height' + BlocksSafe <= Tip' - BlocksDelay + 1
  BY FetcherAssumption DEF OrphanOutOfSight, HoldsOrphan, CacheOrphans,
     BatchOrphans, CurChainHeight, Minus

LEMMA NodeKeepsChainInv ==
    ASSUME Finality, IInv, OrphanInv, ChainInv, Node
    PROVE  ChainInv'
<1>1. /\ UNCHANGED <<pc, startNum, height, end, firstLoop, prevHash, walk,
                     reverts, batch, cache, out, view, Sent>>
      /\ OrphanOutOfSight' => OrphanOutOfSight
  BY DEF Node, loopVars, roundVars, stopVars, Sent, Finality, NodeKeepsPace
<1>2. /\ BlocksSafe \in Nat /\ BlocksDelay \in Nat /\ ReorgDepth \in Nat
      /\ ReorgDepth <= BlocksSafe + BlocksDelay
      /\ height \in Nat /\ end \in Nat
  BY FetcherAssumption, EvmNodeAssumption DEF Finality, IInv, TypeOK
<1>3. /\ Tip \in Nat /\ Tip' \in Nat /\ Tip <= Tip'
      /\ CacheOrphans \subseteq CacheOrphans'
      /\ BatchOrphans \subseteq BatchOrphans'
      /\ \A n \in CacheOrphans' \ CacheOrphans : Tip < n + ReorgDepth
      /\ \A n \in BatchOrphans' \ BatchOrphans : Tip < n + ReorgDepth
  BY NodeMakesOrphans
<1>4. BehindHead'
  <2>1. BlocksDelay <= Tip' /\ ReorgDepth < Tip' /\ end + BlocksDelay <= Tip' + 1
    <3>1. BlocksDelay <= Tip /\ ReorgDepth < Tip /\ end + BlocksDelay <= Tip + 1
      BY DEF ChainInv, BehindHead
    <3>2. Tip \in Nat /\ Tip' \in Nat /\ Tip <= Tip'
      BY <1>3
    <3>3. BlocksDelay <= Tip'
      BY <1>2, <3>1, <3>2
    <3>4. ReorgDepth < Tip'
      BY <1>2, <3>1, <3>2
    <3>5. end + BlocksDelay <= Tip' + 1
      BY <1>2, <3>1, <3>2, SumBelow
    <3>6. QED
      BY <3>3, <3>4, <3>5
  <2>2. QED
    BY <1>1, <2>1 DEF ChainInv, BehindHead
<1>5. BatchParents'
  <2> SUFFICES ASSUME NEW n \in DOMAIN batch
               PROVE  /\ n = 1 => batch[n].parent = Genesis.hash /\ Canonical(batch[n])'
                      /\ n # 0 /\ Canonical(batch[n])' =>
                            batch[n].parent = <<n - 1, BranchAt(n - 1)'>>
    BY <1>1 DEF BatchParents
  <2>1. n \in Nat /\ batch[n] \in Block /\ batch[n].num = n /\ NodeTypeOK /\ NodeStep
    BY DEF IInv, TypeOK, BatchInv, Node
  <2>2. ASSUME n = 1
        PROVE  batch[n].parent = Genesis.hash /\ Canonical(batch[n])'
    <3>1. batch[n].parent = Genesis.hash /\ Canonical(batch[n])
      BY <2>2 DEF ChainInv, BatchParents
    <3>2. batch[n].num + ReorgDepth <= Tip
      BY <1>2, <1>3, <2>1, <2>2 DEF ChainInv, BehindHead
    <3>3. QED
      BY <1>1, <2>1, <3>1, <3>2, NodeOrphansTop
  <2>3. ASSUME n # 0, Canonical(batch[n])'
        PROVE  batch[n].parent = <<n - 1, BranchAt(n - 1)'>>
    <3>1. Known(batch[n])
      BY DEF OrphanInv
    <3>2. Canonical(batch[n]) /\ \A m \in 0..n : BranchAt(m)' = BranchAt(m)
      BY <1>1, <2>1, <2>3, <3>1, NodeKeepsBelow
    <3>3. n - 1 \in 0..n
      BY <2>1, <2>3
    <3>4. QED
      BY <2>3, <3>2, <3>3 DEF ChainInv, BatchParents
  <2>4. QED
    BY <2>2, <2>3
<1>6. LinkedTo(view)' /\ LinkedTo(Sent)'
  BY <1>1 DEF ChainInv, LinkedTo
<1>7. CacheClosed'
  <2> SUFFICES ASSUME NEW m \in CacheOrphans', NEW n \in DOMAIN cache, m <= n
               PROVE  n \in CacheOrphans'
    BY <1>1 DEF CacheClosed
  <2>1. m \in DOMAIN cache
    BY <1>1 DEF CacheOrphans
  <2>2. CASE m \in CacheOrphans
    BY <1>3, <2>2 DEF ChainInv, CacheClosed
  <2>3. CASE m \notin CacheOrphans
    <3> SUFFICES ASSUME Canonical(cache[n])' PROVE FALSE
      BY <1>1 DEF CacheOrphans
    <3>1. /\ m \in Nat /\ n \in Nat /\ cache[n] \in Block /\ cache[n].num = n
          /\ Known(cache[n]) /\ cache[m].num = m
      BY <2>1, CacheFacts DEF OrphanInv
    <3>2. m <= Tip /\ BranchAt(m)' = BranchAt(m)
      <4>1. \A i \in 0..n : i <= Tip /\ BranchAt(i)' = BranchAt(i)
        BY <1>1, <3>1, NodeKeepsBelow DEF Node, IInv, TypeOK
      <4>2. QED
        BY <3>1, <4>1
    <3>3. Canonical(cache[m])
      BY <2>1, <2>3 DEF CacheOrphans
    <3>4. Canonical(cache[m])'
      BY <1>1, <1>3, <3>1, <3>2, <3>3 DEF Canonical
    <3>5. QED
      BY <1>1, <3>4 DEF CacheOrphans
  <2>4. QED
    BY <2>2, <2>3
<1>8. CacheAnchored'
  <2>1. ASSUME NEW low \in Nat, Anchor(low) PROVE Anchor(low)'
    <3>1. low \notin CacheOrphans' /\ low + ReorgDepth <= Tip'
      BY <1>2, <1>3, <2>1 DEF Anchor
    <3>2. QED
      BY <1>1, <2>1, <3>1 DEF Anchor
  <2>2. QED
    BY <1>1, <2>1 DEF ChainInv, CacheAnchored
<1>9. PrevHashInv'
  BY <1>1 DEF ChainInv, PrevHashInv, HashBelow
<1>10. OrphansNearEnd'
  <2>1. end + BlocksDelay <= Tip + 1
    BY DEF ChainInv, BehindHead
  <2>2. \A n \in CacheOrphans' \cup BatchOrphans' : n \in Nat
    BY <1>1 DEF IInv, TypeOK, CacheOrphans, BatchOrphans
  <2>3. \A n \in (CacheOrphans' \cup BatchOrphans') \ (CacheOrphans \cup BatchOrphans) :
           end < n + 1 + BlocksSafe
    BY <1>2, <1>3, <2>1, <2>2
  <2>4. pc \in Between /\ ~firstLoop /\ CacheOrphans' # {} => end < height + BlocksSafe
    <3> SUFFICES ASSUME pc \in Between, ~firstLoop, CacheOrphans = {},
                        NEW n \in CacheOrphans'
                 PROVE  end < height + BlocksSafe
      BY DEF ChainInv, OrphansNearEnd
    <3>1. n \in DOMAIN cache /\ end < n + 1 + BlocksSafe
      BY <1>1, <1>2, <1>3, <2>1, <2>2 DEF CacheOrphans
    <3>2. pc # "start"
      BY DEF ChainInv, BehindHead
    <3>3. n <= Len(Sent) /\ height = Len(Sent) + 1 /\ Len(Sent) \in Nat
      BY <3>1, <3>2, CacheFacts, TipType DEF IInv, HeightInv, Between
    <3>4. QED
      BY <1>2, <2>2, <3>1, <3>3
  <2>5. pc \in InRound =>
          \A n \in CacheOrphans' \cup BatchOrphans' : end < n + 1 + BlocksSafe
    BY <2>3 DEF ChainInv, OrphansNearEnd
  <2>6. pc = "revert" =>
          \A n \in CacheOrphans' : n <= walk => end < n + 1 + BlocksSafe
    <3> SUFFICES ASSUME pc = "revert", NEW n \in CacheOrphans', n <= walk
                 PROVE  end < n + 1 + BlocksSafe
      OBVIOUS
    <3>1. CASE n \in CacheOrphans
      BY <3>1 DEF ChainInv, OrphansNearEnd
    <3>2. CASE n \notin CacheOrphans
      BY <1>2, <1>3, <2>1, <2>2, <3>2
    <3>3. QED
      BY <3>1, <3>2
  <2>7. QED
    BY <1>1, <2>4, <2>5, <2>6 DEF OrphansNearEnd
<1>11. OrphansInSight'
  BY <1>1, <1>3 DEF ChainInv, OrphansInSight
<1>12. QED
  BY <1>1, <1>4, <1>5, <1>6, <1>7, <1>8, <1>9, <1>10, <1>11 DEF ChainInv

----------------------------------------------------------------------------
(* Steps of Run that neither publish nor touch the cache. *)

\* What is an orphan is a matter of the node alone.
LEMMA SameOrphans ==
    ASSUME UNCHANGED nodeVars
    PROVE  /\ cache' = cache => CacheOrphans' = CacheOrphans
           /\ batch' = batch => BatchOrphans' = BatchOrphans
           /\ DOMAIN batch' = {} => BatchOrphans' = {}
  BY DEF nodeVars, Tip, BranchAt, Canonical, CacheOrphans, BatchOrphans

LEMMA QuietCommon ==
    ASSUME ChainInv, QuietStep
    PROVE  /\ UNCHANGED <<Tip, cache, out, view, Sent, reverts, CacheOrphans>>
           /\ \/ batch' = batch /\ BatchOrphans' = BatchOrphans
              \/ DOMAIN batch' = {} /\ BatchOrphans' = {}
           /\ BatchParents' /\ LinkedTo(view)' /\ LinkedTo(Sent)' /\ CacheClosed'
<1>1. UNCHANGED <<nodeVars, cache, out, view, Sent>> /\ reverts' = reverts
  BY QuietKeepsFeed
<1>2. batch' = batch \/ DOMAIN batch' = {}
  BY DEF QuietStep, Start, StopRun, EnterLoop, BeginWalk, SkipWalk, Idle, Wake,
     Finish, WalkLost, WalkEnds, FetchFails, FetchEnds, BreakRound, RpcExit,
     roundVars
<1>3. UNCHANGED <<Tip, CacheOrphans>>
      /\ \/ batch' = batch /\ BatchOrphans' = BatchOrphans
         \/ DOMAIN batch' = {} /\ BatchOrphans' = {}
  BY <1>1, <1>2, SameOrphans, SameChain
<1>4. BatchParents'
  <2>1. CASE batch' = batch
    BY <1>1, <2>1 DEF ChainInv, BatchParents, Canonical, BranchAt, Tip, nodeVars
  <2>2. CASE DOMAIN batch' = {}
    BY <2>2 DEF BatchParents
  <2>3. QED
    BY <1>2, <2>1, <2>2
<1>5. LinkedTo(view)' /\ LinkedTo(Sent)'
  BY <1>1 DEF ChainInv, LinkedTo
<1>6. CacheClosed'
  BY <1>1, <1>3 DEF ChainInv, CacheClosed
<1>7. QED
  BY <1>1, <1>3, <1>4, <1>5, <1>6

\* The numbers that the steps compare.
LEMMA Numbers ==
    ASSUME Finality, IInv, ChainInv
    PROVE  /\ BlocksSafe \in Nat /\ BlocksDelay \in Nat /\ ReorgDepth \in Nat
           /\ height \in Nat /\ end \in Nat /\ walk \in Nat /\ Tip \in Nat
           /\ Len(Sent) \in Nat /\ EndHeight = 0 /\ BlocksSafe > 0
           /\ BlocksDelay <= Tip /\ ReorgDepth < Tip
           /\ end + BlocksDelay <= Tip + 1
           /\ CurChainHeight = Tip - BlocksDelay
<1>1. Tip \in Nat /\ Len(Sent) \in Nat
  BY TipType
<1>2. BlocksSafe \in Nat /\ BlocksDelay \in Nat /\ ReorgDepth \in Nat
  BY FetcherAssumption, EvmNodeAssumption
<1>3. BlocksDelay <= Tip /\ ReorgDepth < Tip /\ end + BlocksDelay <= Tip + 1
  BY DEF ChainInv, BehindHead
<1>4. CurChainHeight = Tip - BlocksDelay
  BY <1>1, <1>2, <1>3 DEF CurChainHeight, Minus
<1>5. QED
  BY <1>1, <1>2, <1>3, <1>4 DEF IInv, TypeOK, Finality

\* Run stops or exits.
LEMMA EndsKeepChainInv ==
    ASSUME Finality, ChainInv, StopRun \/ Finish \/ RpcExit
    PROVE  ChainInv'
<1>1. EndHeight = 0 /\ QuietStep
  BY DEF Finality, QuietStep
<1>2. /\ pc' \in {"stopped", "exited"}
      /\ pc' = "stopped" => pc \notin {"start", "exited"}
      /\ UNCHANGED <<startNum, height, end, firstLoop, batch, nodeVars>>
  BY <1>1 DEF StopRun, Finish, RpcExit, roundVars
<1>3. BehindHead'
  BY <1>1, <1>2, QuietCommon DEF ChainInv, BehindHead
<1>4. CacheAnchored'
  BY <1>1, <1>2, QuietCommon DEF ChainInv, CacheAnchored, Anchor
<1>5. PrevHashInv' /\ OrphansNearEnd' /\ OrphansInSight'
  BY <1>2 DEF PrevHashInv, OrphansNearEnd, OrphansInSight, Between, InRound
<1>6. QED
  BY <1>1, <1>2, <1>3, <1>4, <1>5, QuietCommon DEF ChainInv

\* There is always a block to compare.
LEMMA NotLost == IInv /\ ChainInv => ~WalkLost
<1> SUFFICES ASSUME IInv, ChainInv, WalkLost PROVE FALSE
  OBVIOUS
<1>1. /\ pc = "walk" /\ walk \notin DOMAIN cache /\ height # startNum
      /\ height = Len(Sent) + 1 /\ walk + Len(reverts) = Len(Sent)
      /\ walk \in Nat /\ Len(Sent) \in Nat /\ Len(reverts) \in Nat
  BY TipType, LenProperties DEF WalkLost, IInv, TypeOK, HeightInv
<1>2. CASE Sent = <<>> /\ startNum = 1
  BY <1>1, <1>2, EmptySeq
<1>3. ASSUME NEW low \in Nat, Anchor(low) PROVE FALSE
  <2>1. low..Len(Sent) \subseteq DOMAIN cache /\ low <= walk
    BY <1>1, <1>3 DEF Anchor
  <2>2. walk \in low..Len(Sent)
    BY <1>1, <2>1
  <2>3. QED
    BY <1>1, <2>1, <2>2
<1>4. QED
  BY <1>1, <1>2, <1>3 DEF ChainInv, CacheAnchored

LEMMA StartKeepsChainInv ==
    ASSUME Finality, IInv, ChainInv, Start
    PROVE  ChainInv'
<1>1. /\ pc = "start" /\ pc' = "outer" /\ out = <<>> /\ Sent = view
      /\ startNum' = Len(view) + 1 /\ height' = Len(view) + 1
      /\ end' = CurChainHeight
      /\ UNCHANGED <<firstLoop, prevHash, batch>> /\ firstLoop
  BY DEF Start, Finality, ChainInv, BehindHead, IInv, HeightInv, Sent, roundVars
<1>2. QuietStep
  BY DEF QuietStep
<1>3. BehindHead'
  <2>1. DOMAIN batch = {}
    BY <1>1 DEF IInv, BatchInv
  <2>2. BlocksDelay <= Tip' /\ ReorgDepth < Tip' /\ end' + BlocksDelay <= Tip' + 1
    BY <1>1, <1>2, QuietCommon, Numbers
  <2>3. QED
    BY <1>1, <2>1, <2>2 DEF BehindHead
<1>4. CacheAnchored'
  <2>1. Sent = <<>> => startNum' = 1
    BY <1>1, EmptySeq
  <2>2. QED
    BY <1>1, <1>2, <2>1, QuietCommon DEF ChainInv, CacheAnchored, Anchor
<1>5. PrevHashInv' /\ OrphansNearEnd' /\ OrphansInSight'
  BY <1>1 DEF ChainInv, PrevHashInv, OrphansNearEnd, OrphansInSight, Between, InRound
<1>6. QED
  BY <1>1, <1>2, <1>3, <1>4, <1>5, QuietCommon DEF ChainInv

\* Run looks at its range, or ends its reads.
LEMMA PassKeepsChainInv ==
    ASSUME Finality, IInv, ChainInv, EnterLoop \/ Idle \/ FetchEnds
    PROVE  ChainInv'
<1>1. QuietStep
  BY DEF QuietStep
<1>2. /\ UNCHANGED <<startNum, height, end, firstLoop, prevHash, walk, batch,
                     nodeVars, cache>>
      /\ \/ pc \in {"outer", "inner"} /\ pc' \in {"outer", "inner", "sleep"}
         \/ pc = "fetch" /\ pc' = "publish"
      /\ pc' = "sleep" => end <= height
  BY Numbers DEF EnterLoop, Idle, FetchEnds, roundVars
<1>3. UNCHANGED <<CacheOrphans, BatchOrphans, Tip, OrphanOutOfSight>>
  BY <1>2, SameOrphans, SameChain DEF nodeVars, OrphanOutOfSight, HoldsOrphan,
     CurChainHeight, Tip, Canonical, BranchAt
<1>4. BehindHead'
  BY <1>2, <1>3 DEF ChainInv, BehindHead
<1>5. CacheAnchored'
  BY <1>1, <1>2, QuietCommon DEF ChainInv, CacheAnchored, Anchor
<1>6. PrevHashInv'
  BY <1>1, <1>2, QuietCommon DEF ChainInv, PrevHashInv, HashBelow, Between, InRound
<1>7. OrphansNearEnd'
  BY <1>2, <1>3 DEF ChainInv, OrphansNearEnd, Between, InRound
<1>8. OrphansInSight'
  BY <1>2, <1>3 DEF ChainInv, OrphansInSight, Between, InRound
<1>9. QED
  BY <1>1, <1>2, <1>4, <1>5, <1>6, <1>7, <1>8, QuietCommon DEF ChainInv

\* The new end does not put an orphan out of sight: it would have been before
\* Run went to sleep.
LEMMA WakeKeepsChainInv ==
    ASSUME Finality, IInv, ChainInv, Wake
    PROVE  ChainInv'
<1>1. QuietStep
  BY DEF QuietStep
<1>2. /\ pc = "sleep" /\ pc' = "outer" /\ end' = Tip - BlocksDelay + 1
      /\ UNCHANGED <<startNum, height, firstLoop, prevHash, walk, batch,
                     nodeVars, cache>>
  BY Numbers DEF Wake, NewEnd, roundVars
<1>3. UNCHANGED <<CacheOrphans, BatchOrphans, Tip, OrphanOutOfSight>>
  BY <1>2, SameOrphans, SameChain DEF nodeVars, OrphanOutOfSight, HoldsOrphan,
     CurChainHeight, Tip, Canonical, BranchAt
<1>4. DOMAIN batch = {}
  BY <1>2 DEF IInv, BatchInv
<1>5. BehindHead'
  <2>1. BlocksDelay <= Tip' /\ ReorgDepth < Tip' /\ end' + BlocksDelay <= Tip' + 1
    BY <1>2, <1>3, Numbers
  <2>2. QED
    BY <1>2, <1>4, <2>1 DEF BehindHead
<1>6. CacheAnchored'
  BY <1>1, <1>2, QuietCommon DEF ChainInv, CacheAnchored, Anchor
<1>7. PrevHashInv'
  BY <1>2 DEF ChainInv, PrevHashInv, Between, InRound
<1>8. OrphanOutOfSight => firstLoop
  BY <1>2, Numbers DEF ChainInv, OrphansInSight, BehindHead, Between
<1>9. OrphansNearEnd'
  <2> SUFFICES ASSUME ~firstLoop, CacheOrphans # {} PROVE end' < height + BlocksSafe
    BY <1>2, <1>3 DEF OrphansNearEnd, InRound
  <2>1. ~(height + BlocksSafe <= Tip - BlocksDelay + 1)
    BY <1>8, SightFacts, Numbers
  <2>2. QED
    BY <1>2, <2>1, Numbers
<1>10. OrphansInSight'
  BY <1>2, <1>3, <1>8 DEF OrphansInSight, InRound
<1>11. QED
  BY <1>1, <1>2, <1>5, <1>6, <1>7, <1>9, <1>10, QuietCommon DEF ChainInv

LEMMA BeginWalkKeepsChainInv ==
    ASSUME Finality, IInv, ChainInv, BeginWalk
    PROVE  ChainInv'
<1>1. QuietStep
  BY DEF QuietStep
<1>2. /\ pc = "inner" /\ pc' = "walk" /\ walk' = height - 1 /\ height = Len(Sent) + 1
      /\ UNCHANGED <<startNum, height, end, prevHash, batch, nodeVars>>
  BY DEF BeginWalk, IInv, HeightInv
<1>3. BehindHead'
  BY <1>1, <1>2, QuietCommon DEF ChainInv, BehindHead
<1>4. CacheAnchored'
  <2>1. walk' = Len(Sent)
    BY <1>2, Numbers
  <2>2. ASSUME NEW low \in Nat, Anchor(low) PROVE Anchor(low)'
    BY <1>1, <2>1, <2>2, QuietCommon DEF Anchor
  <2>3. QED
    BY <1>1, <1>2, <2>2, QuietCommon DEF ChainInv, CacheAnchored
<1>5. PrevHashInv' /\ OrphansNearEnd' /\ OrphansInSight'
  BY <1>2 DEF ChainInv, PrevHashInv, OrphansNearEnd, OrphansInSight, Between, InRound
<1>6. QED
  BY <1>1, <1>2, <1>3, <1>4, <1>5, QuietCommon DEF ChainInv

\* A round that skips the walk holds no orphan.
LEMMA SkipWalkKeepsChainInv ==
    ASSUME Finality, IInv, ChainInv, SkipWalk
    PROVE  ChainInv'
<1>1. QuietStep
  BY DEF QuietStep
<1>2. /\ pc = "inner" /\ pc' = "fetch" /\ ~firstLoop
      /\ ~(height + BlocksSafe > end)
      /\ UNCHANGED <<startNum, height, end, firstLoop, prevHash, walk, batch,
                     nodeVars, cache>>
  BY DEF SkipWalk, NearEnd, roundVars
<1>3. height + BlocksSafe <= end
  BY <1>2, Numbers
<1>4. DOMAIN batch = {} /\ prevHash = NoHash
  BY <1>2 DEF IInv, BatchInv, ChainInv, PrevHashInv, Between
<1>5. CacheOrphans = {} /\ BatchOrphans = {}
  <2>1. ~(end < height + BlocksSafe)
    BY <1>3, Numbers
  <2>2. QED
    BY <1>2, <1>4, <2>1 DEF ChainInv, OrphansNearEnd, Between, BatchOrphans
<1>6. CacheOrphans' = {} /\ BatchOrphans' = {} /\ Tip' = Tip
  BY <1>2, <1>5, SameOrphans, SameChain
<1>7. BehindHead'
  BY <1>2, <1>6 DEF ChainInv, BehindHead
<1>8. CacheAnchored'
  BY <1>1, <1>2, QuietCommon DEF ChainInv, CacheAnchored, Anchor
<1>9. PrevHashInv'
  BY <1>2, <1>3, <1>4 DEF PrevHashInv, Between
<1>10. OrphansNearEnd'
  BY <1>2, <1>6 DEF OrphansNearEnd, Between
<1>11. OrphansInSight'
  BY <1>2, <1>6, SightFactsNext, Numbers DEF OrphansInSight, Between
<1>12. QED
  BY <1>1, <1>2, <1>7, <1>8, <1>9, <1>10, <1>11, QuietCommon DEF ChainInv

\* The walk ends at a block that is on the chain, as are those below it.
LEMMA WalkEndsKeepsChainInv ==
    ASSUME Finality, IInv, ChainInv, WalkEnds
    PROVE  ChainInv'
<1>1. QuietStep
  BY DEF QuietStep
<1>2. /\ pc = "walk" /\ pc' = "revert" /\ prevHash' = LocalHash /\ walk + 1 <= Tip
      /\ ~Orphaned
      /\ UNCHANGED <<startNum, height, end, firstLoop, walk, batch, nodeVars, cache>>
      /\ walk + Len(reverts) = Len(Sent) /\ Len(reverts) \in Nat
  BY LenProperties DEF WalkEnds, WalkReads, IInv, TypeOK, HeightInv
<1>3. CacheOrphans' = CacheOrphans /\ Tip' = Tip
  BY <1>2, SameOrphans, SameChain
<1>4. BehindHead'
  BY <1>2, <1>3 DEF ChainInv, BehindHead
<1>5. CacheAnchored'
  BY <1>1, <1>2, QuietCommon DEF ChainInv, CacheAnchored, Anchor
<1>6. walk \notin CacheOrphans
  <2> SUFFICES ASSUME walk \in DOMAIN cache PROVE Canonical(cache[walk])
    BY DEF CacheOrphans
  <2>1. ChainParent = <<walk, BranchAt(walk)>>
    BY <1>2, Numbers, BlockAtParent DEF ChainParent, IInv, TypeOK
  <2>2. ChainParent = cache[walk].hash
    BY <1>2, <2>1 DEF Orphaned, NoHash
  <2>3. cache[walk].num = walk /\ walk <= Tip
    BY <1>2, Numbers, CacheFacts
  <2>4. QED
    BY <2>1, <2>2, <2>3 DEF Canonical
<1>7. \/ walk \in DOMAIN cache
      \/ walk = 0 /\ DOMAIN cache = {}
  <2>1. CASE DOMAIN cache = {} /\ Sent = <<>>
    BY <1>2, <2>1, Numbers, EmptySeq
  <2>2. ASSUME NEW low \in Nat, Anchor(low) PROVE walk \in DOMAIN cache
    <3>1. low <= walk /\ low..Len(Sent) \subseteq DOMAIN cache
      BY <1>2, <2>2 DEF Anchor
    <3>2. walk \in low..Len(Sent)
      BY <1>2, <3>1, Numbers
    <3>3. QED
      BY <3>1, <3>2
  <2>3. QED
    BY <2>1, <2>2 DEF ChainInv, CacheAnchored
<1>8. PrevHashInv'
  <2>1. CASE walk \in DOMAIN cache
    <3>1. prevHash' = HashBelow(walk + 1)
      BY <1>2, <2>1, CacheFacts DEF LocalHash
    <3>2. HashBelow(walk + 1)' = HashBelow(walk + 1)
      BY <1>1, <1>2, QuietCommon DEF HashBelow
    <3>3. QED
      BY <1>2, <3>1, <3>2 DEF PrevHashInv, Between, InRound
  <2>2. CASE walk = 0 /\ DOMAIN cache = {}
    <3>1. prevHash' = NoHash
      BY <1>2, <2>2 DEF LocalHash, ChainInv, PrevHashInv
    <3>2. QED
      BY <1>2, <2>2, <3>1 DEF PrevHashInv, Between, InRound
  <2>3. QED
    BY <1>7, <2>1, <2>2
<1>9. OrphansNearEnd'
  <2> SUFFICES ASSUME NEW n \in CacheOrphans, n <= walk PROVE FALSE
    BY <1>2, <1>3 DEF OrphansNearEnd, Between, InRound
  <2>1. walk \in DOMAIN cache
    BY <1>7 DEF CacheOrphans
  <2>2. QED
    BY <1>6, <2>1 DEF ChainInv, CacheClosed
<1>10. OrphansInSight'
  BY <1>2 DEF OrphansInSight, Between, InRound
<1>11. QED
  BY <1>1, <1>2, <1>4, <1>5, <1>8, <1>9, <1>10, QuietCommon DEF ChainInv

\* A round that is given up leaves the next one at the same height.
LEMMA GiveUpKeepsChainInv ==
    ASSUME Finality, IInv, ChainInv, FetchFails \/ BreakRound
    PROVE  ChainInv'
<1>1. QuietStep
  BY DEF QuietStep
<1>2. /\ pc \in InRound /\ pc' = "inner" /\ prevHash' = NoHash /\ DOMAIN batch' = {}
      /\ UNCHANGED <<startNum, height, end, firstLoop, walk, nodeVars, cache>>
  BY DEF FetchFails, BreakRound, InRound
<1>3. CacheOrphans' = CacheOrphans /\ Tip' = Tip
  BY <1>2, SameOrphans, SameChain
<1>4. height < end
  <2>1. CASE FetchFails
    BY <2>1 DEF FetchFails, IInv, BatchInv
  <2>2. CASE BreakRound
    BY <2>2, Numbers DEF BreakRound, IInv, BatchInv, ChainInv, BehindHead
  <2>3. QED
    BY <2>1, <2>2
<1>5. BehindHead'
  BY <1>2, <1>3 DEF ChainInv, BehindHead
<1>6. CacheAnchored'
  BY <1>1, <1>2, QuietCommon DEF ChainInv, CacheAnchored, Anchor, InRound
<1>7. PrevHashInv'
  BY <1>2 DEF PrevHashInv, InRound
<1>8. OrphansNearEnd'
  <2> SUFFICES ASSUME NEW n \in CacheOrphans PROVE end < height + BlocksSafe
    BY <1>2, <1>3 DEF OrphansNearEnd, InRound
  <2>1. end < n + 1 + BlocksSafe
    BY <1>2 DEF ChainInv, OrphansNearEnd
  <2>2. n \in Nat /\ n <= Len(Sent) /\ height = Len(Sent) + 1
    BY <1>2, CacheFacts DEF CacheOrphans, IInv, HeightInv, InRound
  <2>3. QED
    BY <2>1, <2>2, Numbers
<1>9. OrphansInSight'
  BY <1>2, <1>4 DEF OrphansInSight, InRound
<1>10. QED
  BY <1>1, <1>2, <1>5, <1>6, <1>7, <1>8, <1>9, QuietCommon DEF ChainInv

----------------------------------------------------------------------------
(* The steps that build a round, publish or revert. *)

\* The walk stays above the block that is final.
LEMMA WalkDownKeepsChainInv ==
    ASSUME Finality, IInv, ChainInv, WalkDown
    PROVE  ChainInv'
<1>1. /\ pc = "walk" /\ pc' = "walk" /\ walk \in DOMAIN cache /\ walk' = walk - 1
      /\ walk + 1 <= Tip /\ ChainParent # cache[walk].hash
      /\ UNCHANGED <<startNum, height, end, firstLoop, batch, nodeVars, cache,
                     view, out, Sent>>
  BY DEF WalkDown, WalkReads, Orphaned, loopVars, Sent
<1>2. UNCHANGED <<CacheOrphans, BatchOrphans, Tip>>
  BY <1>1, SameOrphans, SameChain
<1>3. walk \in CacheOrphans
  <2>1. ChainParent = <<walk, BranchAt(walk)>>
    BY <1>1, Numbers, BlockAtParent DEF ChainParent, IInv, TypeOK
  <2>2. cache[walk].num = walk
    BY <1>1, CacheFacts
  <2>3. QED
    BY <1>1, <2>1, <2>2 DEF Canonical, CacheOrphans
<1>4. BehindHead'
  BY <1>1, <1>2 DEF ChainInv, BehindHead
<1>5. BatchParents'
  <2>1. DOMAIN batch' = {}
    BY <1>1 DEF IInv, BatchInv
  <2>2. QED
    BY <2>1 DEF BatchParents
<1>6. LinkedTo(view)' /\ LinkedTo(Sent)'
  BY <1>1 DEF ChainInv, LinkedTo
<1>7. CacheClosed'
  BY <1>1, <1>2 DEF ChainInv, CacheClosed
<1>8. CacheAnchored'
  <2>1. ASSUME NEW low \in Nat, Anchor(low) PROVE Anchor(low)'
    <3>1. low # walk /\ low <= walk
      BY <1>1, <1>3, <2>1 DEF Anchor
    <3>2. low <= walk'
      BY <1>1, <3>1, Numbers
    <3>3. QED
      BY <1>1, <1>2, <2>1, <3>2 DEF Anchor
  <2>2. QED
    BY <1>1, <2>1 DEF ChainInv, CacheAnchored
<1>9. PrevHashInv' /\ OrphansNearEnd' /\ OrphansInSight'
  BY <1>1 DEF PrevHashInv, OrphansNearEnd, OrphansInSight, Between, InRound
<1>10. QED
  BY <1>1, <1>4, <1>5, <1>6, <1>7, <1>8, <1>9 DEF ChainInv

LEMMA HashIsSet == \A h \in Hash : h # NoHash
<1>1. TAKE h \in Hash
<1>2. PICK i \in Nat, k \in Nat : h = <<i, k>>
  BY DEF Hash
<1>3. QED
  BY <1>2 DEF NoHash

\* After the reverts the orphans that are left are those of the last moments.
LEMMA EndRevertsKeepsChainInv ==
    ASSUME Finality, IInv, ChainInv, EndReverts
    PROVE  ChainInv'
<1>1. /\ pc = "revert" /\ pc' = "fetch" /\ height' = walk + 1
      /\ reverts = <<>> /\ Len(reverts) = 0
      /\ UNCHANGED <<startNum, end, firstLoop, prevHash, batch, nodeVars, cache,
                     view, out, Sent>>
  BY EmptySeq DEF EndReverts, Sent
<1>2. UNCHANGED <<CacheOrphans, BatchOrphans, Tip>>
  BY <1>1, SameOrphans, SameChain
<1>3. DOMAIN batch = {} /\ BatchOrphans = {}
  BY <1>1 DEF IInv, BatchInv, BatchOrphans
<1>4. walk = Len(Sent)
  BY <1>1, Numbers DEF IInv, HeightInv
<1>5. BehindHead' /\ BatchParents'
  BY <1>1, <1>2, <1>3 DEF ChainInv, BehindHead, BatchParents
<1>6. LinkedTo(view)' /\ LinkedTo(Sent)'
  BY <1>1 DEF ChainInv, LinkedTo
<1>7. CacheClosed'
  BY <1>1, <1>2 DEF ChainInv, CacheClosed
<1>8. CacheAnchored'
  <2>1. ASSUME NEW low \in Nat, Anchor(low) PROVE Anchor(low)'
    BY <1>1, <1>2, <2>1 DEF Anchor
  <2>2. QED
    BY <1>1, <2>1 DEF ChainInv, CacheAnchored
<1>9. PrevHashInv'
  <2>1. CASE prevHash = HashBelow(walk + 1)
    <3>1. prevHash' = HashBelow(height)'
      BY <1>1, <2>1 DEF HashBelow
    <3>2. QED
      BY <1>1, <3>1 DEF PrevHashInv, Between
  <2>2. CASE prevHash = NoHash /\ walk = 0
    BY <1>1, <2>2 DEF PrevHashInv, Between
  <2>3. QED
    BY <1>1, <2>1, <2>2 DEF ChainInv, PrevHashInv
<1>10. OrphansNearEnd'
  <2>1. \A n \in CacheOrphans : end < n + 1 + BlocksSafe
    BY <1>1, <1>4, CacheFacts DEF ChainInv, OrphansNearEnd, CacheOrphans
  <2>2. QED
    BY <1>1, <1>2, <1>3, <2>1 DEF OrphansNearEnd, Between
<1>11. OrphansInSight'
  <2> SUFFICES ASSUME OrphanOutOfSight'
               PROVE  /\ height' - 1 \in CacheOrphans
                      /\ prevHash = cache[height' - 1].hash
    BY <1>1, <1>2, <1>3 DEF OrphansInSight, Between
  <2>1. CacheOrphans # {}
    BY <1>2, <1>3, SightFactsNext, Numbers
  <2>2. height' - 1 = walk
    BY <1>1, Numbers
  <2>3. walk \in DOMAIN cache
    <3>1. PICK low \in Nat : Anchor(low)
      BY <2>1 DEF ChainInv, CacheAnchored, CacheOrphans
    <3>2. low..Len(Sent) \subseteq DOMAIN cache /\ low <= Len(Sent)
      BY <3>1 DEF Anchor
    <3>3. QED
      BY <1>4, <3>2, Numbers
  <2>4. walk \in CacheOrphans
    <3>1. PICK n \in CacheOrphans : n <= walk
      BY <1>4, <2>1, CacheFacts DEF CacheOrphans
    <3>2. QED
      BY <2>3, <3>1 DEF ChainInv, CacheClosed
  <2>5. prevHash = cache[walk].hash
    <3>1. cache[walk].hash = HashBelow(walk + 1)
      BY <2>3, CacheFacts
    <3>2. prevHash # NoHash
      <4>1. walk # 0
        <5>1. CASE walk = 0
          <6>1. cache[walk] = Genesis
            BY <2>3, <5>1 DEF IInv, CacheIsPublished
          <6>2. Canonical(cache[walk])
            BY <6>1, Numbers DEF Genesis, Canonical, BranchAt
          <6>3. QED
            BY <2>4, <6>2 DEF CacheOrphans
        <5>2. QED
          BY <5>1
      <4>2. CASE prevHash = HashBelow(walk + 1)
        <5>1. cache[walk].hash \in Hash
          BY <2>3, CacheFacts DEF Block
        <5>2. QED
          BY <3>1, <4>2, <5>1, HashIsSet
      <4>3. QED
        BY <1>1, <4>1, <4>2 DEF ChainInv, PrevHashInv
    <3>3. QED
      BY <1>1, <3>1, <3>2 DEF ChainInv, PrevHashInv
  <2>6. QED
    BY <2>2, <2>4, <2>5
<1>12. QED
  BY <1>1, <1>5, <1>6, <1>7, <1>8, <1>9, <1>10, <1>11 DEF ChainInv

\* The subscriber keeps what is below the block that is taken back.
LEMMA SendRevertKeepsChainInv ==
    ASSUME Finality, IInv, ChainInv, out = <<>>, SendRevert
    PROVE  ChainInv'
<1> DEFINE b == Head(reverts)
<1>1. /\ pc = "revert" /\ pc' = "revert" /\ reverts # <<>>
      /\ UNCHANGED <<startNum, height, end, firstLoop, prevHash, walk, batch,
                     nodeVars, view>>
      /\ out' = <<[state |-> "revert", blk |-> b]>>
      /\ cache' = Restrict(cache, DOMAIN cache \ {b.num})
  BY DEF SendRevert, NextRevert, CacheDrop, Send, loopVars
<1>2. /\ view \in Seq(Block) /\ Len(view) \in Nat /\ DOMAIN view = 1..Len(view)
      /\ reverts \in Seq(Block) /\ Len(reverts) \in Nat /\ Len(reverts) > 0
      /\ DOMAIN reverts = 1..Len(reverts) /\ walk \in Nat /\ Sent = view
  BY <1>1, LenProperties, EmptySeq DEF IInv, TypeOK, Sent
<1>3. walk + Len(reverts) = Len(view) /\ reverts[1] = view[Len(view)]
  <2>1. walk + Len(reverts) = Len(view) /\ TopDown(reverts, view)
    BY <1>1, <1>2 DEF IInv, HeightInv
  <2>2. 1 \in DOMAIN reverts /\ Len(view) + 1 - 1 = Len(view)
    BY <1>2
  <2>3. QED
    BY <2>1, <2>2 DEF TopDown
<1>4. Len(view) \in 1..Len(view) /\ walk <= Len(view) - 1
  BY <1>2, <1>3
<1>5. b.num = Len(view)
  <2>1. b = reverts[1]
    BY <1>1
  <2>2. QED
    BY <1>2, <1>3, <1>4, <2>1 DEF IInv, ViewNumbered
<1>6. out' # <<>> /\ out'[1] = [state |-> "revert", blk |-> b]
  BY <1>1
<1> HIDE DEF b
<1>7. /\ Sent' \in Seq(Block) /\ Len(Sent') = Len(view) - 1
      /\ DOMAIN Sent' = 1..(Len(view) - 1)
      /\ \A i \in 1..(Len(view) - 1) : Sent'[i] = view[i]
  <2>1. Sent' = SubSeq(view, 1, Len(view) - 1)
    BY <1>1, <1>5, <1>6 DEF Sent, Applied
  <2>2. QED
    BY <1>2, <1>4, <2>1, CutFacts, LenProperties
<1>8. DOMAIN cache' = DOMAIN cache \ {Len(view)}
      /\ \A n \in DOMAIN cache' : cache'[n] = cache[n]
  BY <1>1, <1>5 DEF Restrict
<1>9. CacheOrphans' = CacheOrphans \ {Len(view)} /\ Tip' = Tip
  BY <1>1, <1>8 DEF CacheOrphans, nodeVars, Canonical, Tip, BranchAt
<1>10. BehindHead'
  BY <1>1, <1>9 DEF ChainInv, BehindHead
<1>11. BatchParents'
  <2>1. DOMAIN batch' = {}
    BY <1>1 DEF IInv, BatchInv
  <2>2. QED
    BY <2>1 DEF BatchParents
<1>12. LinkedTo(view)' /\ LinkedTo(Sent)'
  <2>1. LinkedTo(view)
    BY DEF ChainInv
  <2>2. ASSUME NEW n \in 1..(Len(view) - 1)
        PROVE  Sent'[n].parent = IF n = 1 THEN Genesis.hash ELSE Sent'[n - 1].hash
    <3>1. n \in DOMAIN view /\ Sent'[n] = view[n]
      BY <1>2, <1>7
    <3>2. n # 1 => Sent'[n - 1] = view[n - 1]
      BY <1>2, <1>7
    <3>3. QED
      BY <2>1, <3>1, <3>2 DEF LinkedTo
  <2>3. QED
    BY <1>1, <1>7, <2>1, <2>2 DEF LinkedTo
<1>13. CacheClosed'
  BY <1>8, <1>9 DEF ChainInv, CacheClosed
<1>14. CacheAnchored'
  <2>1. ASSUME NEW low \in Nat, Anchor(low) PROVE Anchor(low)'
    <3>1. low <= walk /\ low..Len(view) \subseteq DOMAIN cache /\ low + ReorgDepth <= Tip
          /\ low \notin CacheOrphans
      BY <1>1, <1>2, <2>1 DEF Anchor
    <3>2. low <= Len(Sent')
      BY <1>2, <1>4, <1>7, <3>1
    <3>3. low..Len(Sent') \subseteq DOMAIN cache'
      BY <1>2, <1>7, <1>8, <3>1
    <3>4. QED
      BY <1>1, <1>9, <3>1, <3>2, <3>3 DEF Anchor
  <2>2. Sent # <<>>
    BY <1>2, <1>4, EmptySeq
  <2>3. QED
    BY <2>1, <2>2 DEF ChainInv, CacheAnchored
<1>15. PrevHashInv'
  <2>1. HashBelow(walk + 1)' = HashBelow(walk + 1)
    <3>1. CASE walk = 0
      BY <1>1, <3>1 DEF HashBelow
    <3>2. CASE walk # 0
      <4>1. walk \in 1..(Len(view) - 1)
        BY <1>2, <1>4, <3>2
      <4>2. Sent'[walk] = Sent[walk]
        BY <1>2, <1>7, <4>1
      <4>3. walk + 1 # 1 /\ (walk + 1) - 1 = walk
        BY <1>2, <3>2
      <4>4. QED
        BY <1>1, <4>2, <4>3 DEF HashBelow
    <3>3. QED
      BY <3>1, <3>2
  <2>2. QED
    BY <1>1, <2>1 DEF ChainInv, PrevHashInv, Between, InRound
<1>16. OrphansNearEnd'
  BY <1>1, <1>9 DEF ChainInv, OrphansNearEnd, Between, InRound
<1>17. OrphansInSight'
  BY <1>1 DEF OrphansInSight, Between, InRound
<1>18. QED
  BY <1>1, <1>10, <1>11, <1>12, <1>13, <1>14, <1>15, <1>16, <1>17 DEF ChainInv

LEMMA FetchBlockKeepsChainInv ==
    ASSUME Finality, IInv, ChainInv, NEW n \in height..(HeightEnd - 1), FetchBlock(n)
    PROVE  ChainInv'
<1>1. /\ pc = "fetch" /\ pc' = "fetch" /\ n <= Tip /\ n \notin DOMAIN batch
      /\ UNCHANGED <<startNum, height, end, firstLoop, prevHash, walk, nodeVars,
                     cache, view, out, Sent>>
      /\ DOMAIN batch' = DOMAIN batch \cup {n}
      /\ \A i \in DOMAIN batch' : batch'[i] = IF i = n THEN BlockAt(n) ELSE batch[i]
  BY DEF FetchBlock, loopVars, Sent
<1>2. UNCHANGED <<CacheOrphans, Tip>> /\ \A m : BranchAt(m)' = BranchAt(m)
      /\ \A b : Canonical(b)' <=> Canonical(b)
  BY <1>1, SameOrphans, SameChain
<1>3. HeightEnd \in Int /\ HeightEnd <= end /\ height = Len(Sent) + 1 /\ n \in Nat
      /\ height <= n /\ n < end
  <2>1. HeightEnd \in Int /\ HeightEnd <= end
    BY Numbers, FetcherAssumption DEF HeightEnd
  <2>2. height = Len(Sent) + 1
    BY <1>1 DEF IInv, HeightInv
  <2>3. QED
    BY <2>1, <2>2, Numbers
<1>4. n # 0 /\ n - 1 \in Nat
  BY <1>3, Numbers
<1>5. Canonical(BlockAt(n)) /\ BlockAt(n).parent = <<n - 1, BranchAt(n - 1)>>
  BY <1>1, <1>4 DEF BlockAt, Canonical, BranchAt
<1>6. BatchOrphans' = BatchOrphans
  BY <1>1, <1>2, <1>5 DEF BatchOrphans
<1>7. BehindHead'
  BY <1>1, <1>2, <1>3 DEF ChainInv, BehindHead
<1>8. BatchParents'
  <2>1. ASSUME NEW i \in DOMAIN batch'
        PROVE  /\ i = 1 => batch'[i].parent = Genesis.hash /\ Canonical(batch'[i])
               /\ i # 0 /\ Canonical(batch'[i]) =>
                     batch'[i].parent = <<i - 1, BranchAt(i - 1)>>
    <3>1. CASE i = n
      <4>1. batch'[i] = BlockAt(n)
        BY <1>1, <3>1
      <4>2. i = 1 => <<n - 1, BranchAt(n - 1)>> = Genesis.hash
        BY <3>1 DEF BranchAt, Genesis
      <4>3. QED
        BY <1>5, <3>1, <4>1, <4>2
    <3>2. CASE i # n
      BY <1>1, <3>2 DEF ChainInv, BatchParents
    <3>3. QED
      BY <3>1, <3>2
  <2>2. QED
    BY <1>2, <2>1 DEF BatchParents
<1>9. LinkedTo(view)' /\ LinkedTo(Sent)'
  BY <1>1 DEF ChainInv, LinkedTo
<1>10. CacheClosed'
  BY <1>1, <1>2 DEF ChainInv, CacheClosed
<1>11. CacheAnchored'
  <2>1. ASSUME NEW low \in Nat, Anchor(low) PROVE Anchor(low)'
    BY <1>1, <1>2, <2>1 DEF Anchor
  <2>2. QED
    BY <1>1, <2>1 DEF ChainInv, CacheAnchored
<1>12. PrevHashInv'
  <2>1. HashBelow(height)' = HashBelow(height)
    BY <1>1 DEF HashBelow
  <2>2. ASSUME prevHash = NoHash, height + BlocksSafe <= end,
               height \in DOMAIN batch', height # 1
        PROVE  batch'[height].parent = HashBelow(height) \/ prevHash = HashBelow(height)
    <3>1. CASE height # n
      BY <1>1, <2>2, <3>1 DEF ChainInv, PrevHashInv, InRound
    <3>2. CASE height = n
      <4>1. Sent # <<>>
        BY <1>3, <2>2, Numbers, EmptySeq
      <4>2. PICK low \in Nat : Anchor(low)
        BY <4>1 DEF ChainInv, CacheAnchored
      <4>3. n - 1 \in DOMAIN cache
        BY <1>3, <3>2, <4>2, Numbers DEF Anchor
      <4>4. n - 1 \notin CacheOrphans
        <5> SUFFICES ASSUME n - 1 \in CacheOrphans PROVE FALSE
          OBVIOUS
        <5>1. end < (n - 1) + 1 + BlocksSafe
          BY <1>1 DEF ChainInv, OrphansNearEnd, InRound
        <5>2. QED
          BY <1>4, <2>2, <3>2, <5>1, Numbers
      <4>5. cache[n - 1].hash = <<n - 1, BranchAt(n - 1)>>
        BY <4>3, <4>4, CacheFacts DEF CacheOrphans, Canonical
      <4>6. cache[n - 1].hash = HashBelow(height)
        <5>1. cache[n - 1].hash = HashBelow((n - 1) + 1)
          BY <4>3, CacheFacts
        <5>2. (n - 1) + 1 = height
          BY <1>3, <3>2
        <5>3. QED
          BY <5>1, <5>2
      <4>7. batch'[height] = BlockAt(n)
        BY <1>1, <2>2, <3>2
      <4>8. QED
        BY <1>5, <4>5, <4>6, <4>7
    <3>3. QED
      BY <3>1, <3>2
  <2>3. \/ prevHash = HashBelow(height)
        \/ prevHash = NoHash /\ height = 1
        \/ prevHash = NoHash /\ height + BlocksSafe <= end
    BY <1>1 DEF ChainInv, PrevHashInv, InRound
  <2>4. QED
    BY <1>1, <2>1, <2>2, <2>3 DEF PrevHashInv, Between
<1>13. OrphansNearEnd'
  BY <1>1, <1>2, <1>6 DEF ChainInv, OrphansNearEnd, Between
<1>14. OrphansInSight'
  <2> SUFFICES ASSUME OrphanOutOfSight'
               PROVE  /\ height - 1 \in CacheOrphans
                      /\ prevHash = cache[height - 1].hash
                      /\ height \in DOMAIN batch' => batch'[height].parent # prevHash
    BY <1>1, <1>2 DEF OrphansInSight, Between
  <2>1. OrphanOutOfSight
    BY <1>1, <1>2, <1>6, SightFacts, SightFactsNext, Numbers
  <2>2. /\ height - 1 \in CacheOrphans
        /\ prevHash = cache[height - 1].hash
        /\ height \in DOMAIN batch => batch[height].parent # prevHash
    BY <1>1, <2>1 DEF ChainInv, OrphansInSight, InRound
  <2>3. ASSUME height = n PROVE BlockAt(n).parent # prevHash
    <3>1. n - 1 \in DOMAIN cache /\ ~Canonical(cache[n - 1])
      BY <2>2, <2>3 DEF CacheOrphans
    <3>2. cache[n - 1].num = n - 1 /\ n - 1 <= Tip
      BY <1>1, <1>4, <3>1, CacheFacts, Numbers
    <3>3. QED
      BY <1>5, <2>2, <2>3, <3>1, <3>2 DEF Canonical
  <2>4. QED
    BY <1>1, <2>2, <2>3
<1>15. QED
  BY <1>1, <1>7, <1>8, <1>9, <1>10, <1>11, <1>12, <1>13, <1>14 DEF ChainInv

\* A block is published only on top of the block whose hash it names.
LEMMA PublishLinks ==
    ASSUME Finality, IInv, ChainInv, out = <<>>, Publish
    PROVE  /\ batch[height].parent = HashBelow(height)
           /\ ~OrphanOutOfSight
<1>1. pc = "publish" /\ ~Breaks /\ height = Len(view) + 1 /\ Sent = view
      /\ height \in DOMAIN batch
  BY Numbers DEF Publish, IInv, HeightInv, BatchInv, Sent
<1>2. view \in Seq(Block) /\ Len(view) \in Nat /\ DOMAIN view = 1..Len(view)
  BY LenProperties DEF IInv, TypeOK
<1>3. HashBelow(height) \in Hash
  <2>1. CASE height = 1
    BY <2>1 DEF HashBelow, Genesis, Hash
  <2>2. CASE height # 1
    <3>1. height - 1 \in DOMAIN view
      BY <1>1, <1>2, <2>2
    <3>2. view[height - 1] \in Block
      BY <1>2, <3>1, ElementOfSeq
    <3>3. QED
      BY <1>1, <2>2, <3>2 DEF HashBelow, Block
  <2>3. QED
    BY <2>1, <2>2
<1>4. batch[height].parent = HashBelow(height)
  <2>1. CASE prevHash = HashBelow(height)
    BY <1>1, <1>3, <2>1, HashIsSet DEF Breaks
  <2>2. CASE prevHash = NoHash /\ height = 1
    BY <1>1, <2>2 DEF ChainInv, BatchParents, HashBelow
  <2>3. CASE batch[height].parent = HashBelow(height)
    BY <2>3
  <2>4. QED
    BY <1>1, <2>1, <2>2, <2>3 DEF ChainInv, PrevHashInv, InRound
<1>5. ~OrphanOutOfSight
  <2> SUFFICES ASSUME OrphanOutOfSight PROVE FALSE
    OBVIOUS
  <2>1. height - 1 \in DOMAIN cache /\ prevHash = cache[height - 1].hash
        /\ batch[height].parent # prevHash
    BY <1>1 DEF ChainInv, OrphansInSight, InRound, CacheOrphans
  <2>2. prevHash # NoHash
    BY <2>1, CacheFacts, HashIsSet DEF Block
  <2>3. QED
    BY <1>1, <2>1, <2>2 DEF Breaks
<1>6. QED
  BY <1>4, <1>5

\* The block above the one that leaves the cache is too far down to be an
\* orphan, and for good: h is the height that is published, s is BlocksSafe, dl
\* BlocksDelay, r ReorgDepth, t the head and e the end of the range.
LEMMA DropIsFinal ==
    ASSUME NEW h \in Nat, NEW s \in Nat, NEW t \in Nat, NEW dl \in Nat,
           NEW r \in Nat, NEW e \in Nat, NEW low \in Nat,
           h < e, s > 0, e + dl <= t + 1, r <= s + dl, low = h - 2 * s + 1
    PROVE  ~(e < low + 1 + s) /\ low + r <= t
  OBVIOUS

LEMMA PublishKeepsChainInv ==
    ASSUME Finality, IInv, ChainInv, out = <<>>, Publish
    PROVE  ChainInv'
<1> DEFINE b == batch[height]
           left == DOMAIN batch \ {height}
           drop == Minus(height, 2 * BlocksSafe)
<1>1. /\ pc = "publish"
      /\ cache' = CacheAdd(b)
      /\ out' = <<[state |-> "ok", blk |-> b]>>
      /\ height' = b.num + 1
      /\ batch' = Restrict(batch, left)
      /\ prevHash' = IF left = {} THEN NoHash ELSE b.hash
      /\ pc' = IF left = {} THEN "inner" ELSE "publish"
      /\ UNCHANGED <<nodeVars, startNum, end, firstLoop, walk, view>>
  BY DEF Publish, Send
<1>2. /\ height = Len(view) + 1 /\ Sent = view /\ Len(view) \in Nat
      /\ view \in Seq(Block) /\ DOMAIN view = 1..Len(view)
      /\ height \in DOMAIN batch /\ b \in Block /\ b.num = height
      /\ height < end
  BY <1>1, Numbers, LenProperties DEF IInv, TypeOK, HeightInv, BatchInv, Sent,
     ChainInv, BehindHead
<1>3. b.parent = HashBelow(height) /\ ~OrphanOutOfSight
  BY PublishLinks
<1>4. DOMAIN batch' = left /\ \A n \in left : batch'[n] = batch[n]
  BY <1>1 DEF Restrict
<1>5. /\ DOMAIN cache' = (DOMAIN cache \ {drop}) \cup {height}
      /\ \A n \in DOMAIN cache' : cache'[n] = IF n = height THEN b ELSE cache[n]
  BY <1>1, <1>2 DEF CacheAdd
<1>6. /\ height >= 2 * BlocksSafe => drop = height - 2 * BlocksSafe
      /\ height < 2 * BlocksSafe => drop > height
  BY Numbers, FetcherAssumption DEF Minus
<1>7. \A n \in DOMAIN cache : n \in Nat /\ n < height
  BY <1>2, CacheFacts
<1> HIDE DEF drop
<1>8. out' # <<>> /\ out'[1] = [state |-> "ok", blk |-> b]
  BY <1>1
<1>9. /\ Sent' \in Seq(Block) /\ Len(Sent') = height /\ DOMAIN Sent' = 1..height
      /\ \A i \in 1..Len(view) : Sent'[i] = view[i]
      /\ Sent'[height] = b
  <2> HIDE DEF b, left
  <2>1. Sent' = Append(view, b)
    BY <1>1, <1>8 DEF Sent, Applied
  <2>2. QED
    BY <1>2, <2>1, AppendProperties, LenProperties
<1>10. /\ Tip' = Tip
       /\ CacheOrphans' = (CacheOrphans \ {drop}) \cup (BatchOrphans \cap {height})
       /\ BatchOrphans' = BatchOrphans \ {height}
  <2>1. Tip' = Tip /\ \A x : Canonical(x)' <=> Canonical(x)
    BY <1>1, SameChain
  <2>2. CacheOrphans' = (CacheOrphans \ {drop}) \cup (BatchOrphans \cap {height})
    BY <1>2, <1>5, <1>7, <2>1 DEF CacheOrphans, BatchOrphans
  <2>3. BatchOrphans' = BatchOrphans \ {height}
    BY <1>4, <2>1 DEF BatchOrphans
  <2>4. QED
    BY <2>1, <2>2, <2>3
<1>11. height' = height + 1
  BY <1>1, <1>2
<1> HIDE DEF b
<1>12. BehindHead'
  BY <1>1, <1>2, <1>4, <1>10 DEF ChainInv, BehindHead
<1>13. BatchParents'
  BY <1>1, <1>4 DEF ChainInv, BatchParents, Canonical, Tip, BranchAt, nodeVars
<1>14. LinkedTo(view)' /\ LinkedTo(Sent)'
  <2>1. LinkedTo(view)
    BY DEF ChainInv
  <2>2. ASSUME NEW n \in 1..height
        PROVE  Sent'[n].parent = IF n = 1 THEN Genesis.hash ELSE Sent'[n - 1].hash
    <3>1. CASE n = height
      <4>1. n # 1 => Sent'[n - 1] = view[n - 1]
        BY <1>2, <1>9, <3>1
      <4>2. QED
        BY <1>2, <1>3, <1>9, <3>1, <4>1 DEF HashBelow
    <3>2. CASE n # height
      <4>1. n \in DOMAIN view /\ Sent'[n] = view[n]
        BY <1>2, <1>9, <3>2
      <4>2. n # 1 => Sent'[n - 1] = view[n - 1]
        BY <1>2, <1>9, <3>2
      <4>3. QED
        BY <2>1, <4>1, <4>2 DEF LinkedTo
    <3>3. QED
      BY <3>1, <3>2
  <2>3. QED
    BY <1>1, <1>9, <2>1, <2>2 DEF LinkedTo
<1>15. CacheClosed'
  <2> SUFFICES ASSUME NEW m \in CacheOrphans', NEW n \in DOMAIN cache', m <= n
               PROVE  n \in CacheOrphans'
    BY DEF CacheClosed
  <2>1. CASE n # height
    <3>1. n \in DOMAIN cache /\ n # drop /\ n < height /\ m # height
      BY <1>2, <1>5, <1>7, <2>1
    <3>2. m \in CacheOrphans
      BY <1>10, <3>1
    <3>3. QED
      BY <1>10, <3>1, <3>2 DEF ChainInv, CacheClosed
  <2>2. CASE n = height /\ m = height
    BY <2>2
  <2>3. CASE n = height /\ m # height
    <3>1. m \in CacheOrphans /\ m \in DOMAIN cache
      BY <1>10, <2>3 DEF CacheOrphans
    <3>2. PICK low \in Nat : Anchor(low)
      BY <3>1 DEF ChainInv, CacheAnchored
    <3>3. height - 1 \in DOMAIN cache
      BY <1>2, <3>2 DEF Anchor
    <3>4. height - 1 \in CacheOrphans
      <4>1. m <= height - 1
        BY <1>2, <1>7, <3>1
      <4>2. QED
        BY <3>1, <3>3, <4>1 DEF ChainInv, CacheClosed
    <3>5. cache[height - 1].hash = HashBelow(height)
      <4>1. cache[height - 1].hash = HashBelow((height - 1) + 1)
        BY <3>3, CacheFacts
      <4>2. (height - 1) + 1 = height
        BY <1>2
      <4>3. QED
        BY <4>1, <4>2
    <3>6. height \in BatchOrphans
      <4> SUFFICES ASSUME Canonical(b) PROVE FALSE
        BY <1>2 DEF BatchOrphans, b
      <4>1. b.parent = <<height - 1, BranchAt(height - 1)>>
        BY <1>2 DEF ChainInv, BatchParents, b
      <4>2. cache[height - 1].num = height - 1 /\ height - 1 <= Tip
        BY <1>2, <3>3, CacheFacts, Numbers
      <4>3. Canonical(cache[height - 1])
        BY <1>3, <3>5, <4>1, <4>2 DEF Canonical
      <4>4. QED
        BY <3>4, <4>3 DEF CacheOrphans
    <3>7. QED
      BY <1>10, <2>3, <3>6
  <2>4. QED
    BY <2>1, <2>2, <2>3
<1>16. CacheAnchored'
  <2>1. pc' \notin {"walk", "revert"}
    BY <1>1
  <2>2. CASE DOMAIN cache = {} /\ Sent = <<>>
    <3>1. height = 1
      BY <1>2, <2>2, EmptySeq
    <3>2. 1 \notin BatchOrphans /\ 1 \notin CacheOrphans
      BY <1>2, <2>2, <3>1 DEF ChainInv, BatchParents, BatchOrphans, CacheOrphans
    <3>3. Anchor(1)'
      <4>1. 1 <= Len(Sent') /\ 1..Len(Sent') \subseteq DOMAIN cache'
        BY <1>5, <1>9, <3>1
      <4>2. 1 \notin CacheOrphans' /\ 1 + ReorgDepth <= Tip'
        BY <1>10, <3>1, <3>2, Numbers
      <4>3. QED
        BY <2>1, <4>1, <4>2 DEF Anchor
    <3>4. QED
      BY <3>3 DEF CacheAnchored
  <2>3. ASSUME NEW low \in Nat, Anchor(low) PROVE \E low2 \in Nat : Anchor(low2)'
    <3>1. low < height /\ low..(height - 1) \subseteq DOMAIN cache
          /\ low \notin CacheOrphans /\ low + ReorgDepth <= Tip
      BY <1>2, <2>3 DEF Anchor
    <3>2. CASE drop \notin low..height
      <4>1. low <= Len(Sent') /\ low..Len(Sent') \subseteq DOMAIN cache'
        <5>1. \A i \in low..height : i = height \/ i \in low..(height - 1)
          BY <1>2
        <5>2. QED
          BY <1>2, <1>5, <1>9, <3>1, <3>2, <5>1
      <4>2. low \notin CacheOrphans' /\ low + ReorgDepth <= Tip'
        BY <1>2, <1>10, <3>1
      <4>3. QED
        BY <2>1, <4>1, <4>2 DEF Anchor
    <3>3. CASE drop \in low..height
      <4>1. drop = height - 2 * BlocksSafe /\ drop + 1 \in low..(height - 1)
        BY <1>2, <1>6, <3>1, <3>3, Numbers
      <4>2. PICK low2 \in Nat : low2 = drop + 1
        BY <3>3, <4>1
      <4>3. low2 <= Len(Sent') /\ low2..Len(Sent') \subseteq DOMAIN cache'
        <5>1. \A i \in low2..height :
                 i # drop /\ (i = height \/ i \in low..(height - 1))
          BY <1>2, <4>1, <4>2
        <5>2. low2 <= height
          BY <1>2, <4>1, <4>2
        <5>3. QED
          BY <1>5, <1>9, <3>1, <5>1, <5>2
      <4>4. ~(end < low2 + 1 + BlocksSafe) /\ low2 + ReorgDepth <= Tip
        BY <1>2, <4>1, <4>2, Numbers, DropIsFinal DEF Finality
      <4>5. low2 \notin CacheOrphans
        BY <1>1, <4>4 DEF ChainInv, OrphansNearEnd, InRound
      <4>6. low2 \notin CacheOrphans' /\ low2 + ReorgDepth <= Tip'
        BY <1>2, <1>10, <4>1, <4>2, <4>4, <4>5
      <4>7. Anchor(low2)'
        BY <2>1, <4>3, <4>6 DEF Anchor
      <4>8. QED
        BY <4>7
    <3>4. QED
      BY <3>2, <3>3
  <2>4. QED
    BY <2>2, <2>3 DEF ChainInv, CacheAnchored
<1>17. PrevHashInv'
  <2>1. CASE left = {}
    BY <1>1, <2>1 DEF PrevHashInv, InRound
  <2>2. CASE left # {}
    <3>1. HashBelow(height)' = b.hash
      BY <1>2, <1>9, <1>11 DEF HashBelow
    <3>2. QED
      BY <1>1, <2>2, <3>1 DEF PrevHashInv, Between
  <2>3. QED
    BY <2>1, <2>2
<1>18. OrphansNearEnd'
  <2>1. \A n \in CacheOrphans' \cup BatchOrphans' : end < n + 1 + BlocksSafe
    BY <1>1, <1>10 DEF ChainInv, OrphansNearEnd, InRound
  <2>2. \A n \in CacheOrphans' : n \in Nat /\ n <= height
    BY <1>2, <1>7, <1>10 DEF CacheOrphans
  <2>3. CacheOrphans' # {} => end < height' + BlocksSafe
    BY <1>2, <1>11, <2>1, <2>2, Numbers
  <2>4. QED
    BY <1>1, <2>1, <2>3 DEF OrphansNearEnd, InRound
<1>19. OrphansInSight'
  <2> SUFFICES ASSUME OrphanOutOfSight' PROVE FALSE
    BY DEF OrphansInSight
  <2>1. CacheOrphans # {} \/ BatchOrphans # {}
    BY <1>10, SightFactsNext, Numbers
  <2>2. height + BlocksSafe <= Tip - BlocksDelay + 1
    <3>1. (height + 1) + BlocksSafe <= Tip - BlocksDelay + 1
      BY <1>10, <1>11, SightFactsNext, Numbers
    <3>2. QED
      BY <3>1, Numbers
  <2>3. QED
    BY <1>3, <2>1, <2>2, SightFacts, Numbers
<1>20. QED
  BY <1>1, <1>12, <1>13, <1>14, <1>15, <1>16, <1>17, <1>18, <1>19 DEF ChainInv

\* Accept, Stop and stuttering leave Run, the node and what was sent alone.
LEMMA OthersKeepChainInv ==
    ASSUME IInv, ChainInv,
           Accept \/ UNCHANGED vars \/ \E p \in Stoppers : CallStop(p) \/ EndStop(p)
    PROVE  ChainInv'
<1>1. /\ UNCHANGED <<nodeVars, pc, startNum, height, end, firstLoop, prevHash, walk,
                     batch, cache, Sent>>
      /\ view' \in {view, Sent}
  BY DEF Accept, vars, nodeVars, loopVars, roundVars, CallStop, EndStop, StopLoad,
     StopStore, StopReceive, Sent
<1>2. UNCHANGED <<CacheOrphans, BatchOrphans, Tip>>
  BY <1>1, SameOrphans, SameChain
<1>3. BehindHead' /\ CacheClosed' /\ PrevHashInv' /\ OrphansNearEnd'
  BY <1>1, <1>2 DEF ChainInv, BehindHead, CacheClosed, PrevHashInv, HashBelow,
     OrphansNearEnd
<1>4. BatchParents'
  BY <1>1 DEF ChainInv, BatchParents, Canonical, Tip, BranchAt, nodeVars
<1>5. LinkedTo(view)' /\ LinkedTo(Sent)'
  BY <1>1 DEF ChainInv, LinkedTo
<1>6. CacheAnchored'
  BY <1>1, <1>2 DEF ChainInv, CacheAnchored, Anchor
<1>7. OrphansInSight'
  <2>1. OrphanOutOfSight' = OrphanOutOfSight
    BY <1>1 DEF OrphanOutOfSight, HoldsOrphan, CurChainHeight, Canonical, Tip,
       BranchAt, nodeVars
  <2>2. QED
    BY <1>1, <1>2, <2>1 DEF ChainInv, OrphansInSight
<1>8. QED
  BY <1>1, <1>3, <1>4, <1>5, <1>6, <1>7 DEF ChainInv

LEMMA StepKeepsChainInv ==
    Finality /\ IInv /\ OrphanInv /\ ChainInv /\ [Next]_vars => ChainInv'
<1> SUFFICES ASSUME Finality, IInv, OrphanInv, ChainInv, [Next]_vars PROVE ChainInv'
  OBVIOUS
<1>1. CASE Node
  BY <1>1, NodeKeepsChainInv
<1>2. CASE Progress
  <2>1. out = <<>>
    BY <1>2 DEF Progress
  <2>2. CASE Start \/ EnterLoop \/ Idle \/ FetchEnds \/ Wake
    BY <2>2, StartKeepsChainInv, PassKeepsChainInv, WakeKeepsChainInv
  <2>3. CASE StopRun \/ Finish \/ WalkLost
    BY <2>3, EndsKeepChainInv, NotLost
  <2>4. CASE BeginWalk \/ SkipWalk \/ WalkDown \/ WalkEnds
    BY <2>4, BeginWalkKeepsChainInv, SkipWalkKeepsChainInv, WalkDownKeepsChainInv,
       WalkEndsKeepsChainInv
  <2>5. CASE SendRevert \/ EndReverts
    BY <2>1, <2>5, SendRevertKeepsChainInv, EndRevertsKeepsChainInv
  <2>6. CASE \E n \in height..(HeightEnd - 1) : FetchBlock(n)
    BY <2>6, FetchBlockKeepsChainInv
  <2>7. CASE BreakRound \/ Publish
    BY <2>1, <2>7, GiveUpKeepsChainInv, PublishKeepsChainInv
  <2>8. QED
    BY <1>2, <2>2, <2>3, <2>4, <2>5, <2>6, <2>7 DEF Progress
<1>3. CASE Failure
  BY <1>3, GiveUpKeepsChainInv, EndsKeepChainInv DEF Failure
<1>4. CASE Accept \/ UNCHANGED vars \/ \E p \in Stoppers : CallStop(p) \/ EndStop(p)
  BY <1>4, OthersKeepChainInv
<1>5. QED
  BY <1>1, <1>2, <1>3, <1>4 DEF Next

LEMMA AlwaysChainInv ==
    ASSUME Finality
    PROVE  Spec => [](IInv /\ ChainInv)
<1>1. Init => IInv /\ OrphanInv /\ ChainInv
  BY InitIInv, InitOrphanInv, InitChainInv
<1>2. IInv /\ OrphanInv /\ ChainInv /\ [Next]_vars
         => (IInv /\ OrphanInv /\ ChainInv)'
  BY StepKeepsIInv, StepKeepsOrphanInv, StepKeepsChainInv
<1>3. QED
  BY <1>1, <1>2, PTL DEF Spec

----------------------------------------------------------------------------
(* What the fetcher promises. *)

\* The blocks the subscriber has are linked by parent hashes down to the genesis
\* block, through reorganisations, restarts, failed rounds and rounds that take
\* the published blocks for final: what "make sure it's a chain" asks of
\* PublishBlock.
THEOREM FeedChain ==
    ASSUME Finality
    PROVE  Spec => []FeedIsChain
<1>1. IInv /\ ChainInv => FeedIsChain
  BY DEF ChainInv, LinkedTo, FeedIsChain
<1>2. QED
  BY <1>1, AlwaysChainInv, PTL

\* getLatestNormalBlockInfoInDB always finds the local block it compares: the
\* walk ends at a final block before the cache does.
THEOREM WalkFindsBlocks ==
    ASSUME Finality
    PROVE  Spec => []NeverLost
<1>1. IInv /\ ChainInv => NeverLost
  BY DEF ChainInv, NeverLost
<1>2. QED
  BY <1>1, AlwaysChainInv, PTL

\* A chain in the sense of the feed is one in the sense of its specification.
LEMMA LinkedIsChain ==
    ASSUME NEW s \in Seq(Block), LinkedTo(s)
    PROVE  Log!Linked(s)
<1>1. Len(s) \in Nat /\ DOMAIN s = 1..Len(s)
  BY LenProperties
<1>2. s # <<>> => s[1].parent = Genesis.hash
  <2> SUFFICES ASSUME s # <<>> PROVE s[1].parent = Genesis.hash
    OBVIOUS
  <2>1. 1 \in DOMAIN s
    BY <1>1, EmptySeq
  <2>2. QED
    BY <2>1 DEF LinkedTo
<1>3. ASSUME NEW i \in 1..(Len(s) - 1) PROVE s[i + 1].parent = s[i].hash
  <2>1. i + 1 \in DOMAIN s /\ i + 1 # 1 /\ (i + 1) - 1 = i
    BY <1>1
  <2>2. QED
    BY <2>1 DEF LinkedTo
<1>4. QED
  BY <1>2, <1>3 DEF Log!Linked

\* Every step of the fetcher pushes a block that follows the top one, takes the
\* top one back, or leaves the subscriber's chain as it is.
LEMMA StepsAreLogSteps ==
    ASSUME IInv, ChainInv, IInv', ChainInv', [Next]_vars
    PROVE  [Log!Next]_view
<1>1. view \in Seq(Block) /\ Len(view) \in Nat /\ DOMAIN view = 1..Len(view)
      /\ view' \in Seq(Block)
  BY LenProperties DEF IInv, TypeOK
<1>2. Log!Linked(view') /\ Log!Numbered(view')
  <2>1. LinkedTo(view')
    BY DEF ChainInv, LinkedTo
  <2>2. QED
    BY <1>1, <2>1, LinkedIsChain DEF IInv, ViewNumbered, Log!Numbered
<1>3. CASE Accept
  <2>1. out # <<>> /\ view' = Applied(view, out[1]) /\ out[1] \in Event
    BY <1>3, ElementOfSeq, LenProperties, EmptySeq DEF Accept, IInv, TypeOK
  <2>2. CASE out[1].state = "ok"
    <3>1. view' = Append(view, out[1].blk) /\ out[1].blk \in Block
      BY <2>1, <2>2 DEF Applied, Event
    <3>2. /\ Len(view') = Len(view) + 1
          /\ \A i \in 1..Len(view) : view'[i] = view[i]
      BY <1>1, <3>1, AppendProperties
    <3>3. SubSeq(view', 1, Len(view)) = view
      <4>1. Len(view) \in 0..Len(view') /\ Len(view) + 1 - 1 = Len(view)
        BY <1>1, <3>2
      <4>2. /\ SubSeq(view', 1, Len(view)) \in Seq(Block)
            /\ Len(SubSeq(view', 1, Len(view))) = Len(view)
            /\ \A i \in 1..Len(view) : SubSeq(view', 1, Len(view))[i] = view'[i]
        BY <1>1, <3>2, <4>1, SubSeqProperties
      <4>3. QED
        BY <1>1, <3>2, <4>2, SeqEqual
    <3>4. QED
      BY <1>2, <3>2, <3>3 DEF Log!Push, Log!Next
  <2>3. CASE out[1].state # "ok"
    <3>1. view # <<>> /\ out[1].blk = view[Len(view)]
      BY <2>1, <2>3 DEF IInv, FeedIsStack
    <3>2. out[1].blk.num = Len(view)
      <4>1. Len(view) \in DOMAIN view
        BY <1>1, <3>1, EmptySeq
      <4>2. QED
        BY <3>1, <4>1 DEF IInv, ViewNumbered
    <3>3. view' = SubSeq(view, 1, Len(view) - 1)
      BY <2>1, <2>3, <3>2 DEF Applied
    <3>4. QED
      BY <3>1, <3>3 DEF Log!Pop, Log!Next
  <2>4. QED
    BY <2>2, <2>3
<1>4. CASE ~Accept
  <2>1. view' = view
    BY <1>4 DEF Next, Node, Progress, Failure, Start, StopRun, EnterLoop, BeginWalk,
       SkipWalk, Idle, Wake, Finish, WalkLost, WalkDown, WalkEnds, SendRevert,
       EndReverts, FetchBlock, FetchFails, FetchEnds, BreakRound, Publish, RpcExit,
       CallStop, EndStop, StopLoad, StopStore, StopReceive, vars
  <2>2. QED
    BY <2>1
<1>5. QED
  BY <1>3, <1>4

\* The fetcher implements ChainLog, what a block feed promises its subscribers.
THEOREM FetcherImplementsChainLog ==
    ASSUME Finality
    PROVE  Spec => ImplementsChainLog
<1>1. Init => Log!Init
  <2> SUFFICES ASSUME Init PROVE Log!Init
    OBVIOUS
  <2>1. IInv /\ ChainInv
    BY InitIInv, InitChainInv
  <2>2. view \in Seq(Block) /\ LinkedTo(view) /\ ViewNumbered
    BY <2>1 DEF IInv, TypeOK, ChainInv
  <2>3. QED
    BY <2>2, LinkedIsChain DEF Log!Init, Log!Numbered, ViewNumbered
<1>2. (IInv /\ ChainInv) /\ (IInv /\ ChainInv)' /\ [Next]_vars => [Log!Next]_view
  BY StepsAreLogSteps
<1>3. QED
  BY <1>1, <1>2, AlwaysChainInv, PTL DEF Spec, ImplementsChainLog, Log!Spec
=============================================================================

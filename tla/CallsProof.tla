----------------------------- MODULE CallsProof -----------------------------
(***************************************************************************)
(* Theorems about the calls the other modules take as one step, for every   *)
(* value of the constants.  The round, GetBlocks: it is a round of          *)
(* FetchRound (IsOneRound), one worker keeps the transactions in order      *)
(* (TxsInOrder), a block handed over is whole or was abandoned              *)
(* (WholeOrOrphan).  The multicall, MultiCall: an output stands at the      *)
(* place of its input (OutputsInPlace), only what fails itself is without   *)
(* one (OnlyFailedMissing), and nothing accepted is older than asked for    *)
(* (AcceptedHeight).  The inserts, TableWriter: plain ones write each row   *)
(* once (SavedIsWritten), and none is left in part (NothingInPart).         *)
(***************************************************************************)
EXTENDS GetBlocks, SequenceTheorems, FiniteSetTheorems, TLAPS

ChainOK == NodeTypeOK /\ branch <= MaxReorgs /\ Tip <= MaxHead

Tx == UNION {ToSet(Txs[h]) : h \in Hashes}

Ran == [tx : Tx, at : SUBSET Hash]

Reports == Seq(Ran)

FunsTo(S) == UNION {[D -> S] : D \in SUBSET Nat}

Building == [blk : Block, groups : Seq(Seq(Tx)), left : SUBSET Nat, receipts : FunsTo(Reports),
             txs : Seq(Ran), failed : BOOLEAN, traces : Seq(Hash)]

Saved == [blk : Block, txs : Seq(Ran), traces : Seq(Hash)]

RoundTypeOK ==
    /\ read \in FunsTo(Block) /\ building \in FunsTo(Building) /\ blocks \in FunsTo(Saved)
    /\ pc \in {"running", "returned", "exited"} /\ heights \in Seq(Int)

\* The heights still to be read are the last ones, in order.
LastOnes ==
    /\ Len(heights) <= High - Low
    /\ \A i \in 1..Len(heights) : heights[i] = High - Len(heights) + i - 1

\* Every height that was taken is at one place.
OnePlace ==
    /\ asking \cup DOMAIN read \cup DOMAIN building \cup DOMAIN blocks \cup errs
          = Low..(High - Len(heights) - 1)
    /\ asking \cap (DOMAIN read \cup DOMAIN building \cup DOMAIN blocks \cup errs) = {}
    /\ DOMAIN read \cap (DOMAIN building \cup DOMAIN blocks \cup errs) = {}
    /\ DOMAIN building \cap (DOMAIN blocks \cup errs) = {}
    /\ DOMAIN blocks \cap errs = {}

\* A block that was read: the node had it then.
Held(b, n) ==
    /\ b \in Block /\ b.num = n /\ n <= Tip
    /\ b.hash[1] = n /\ b.hash[2] <= branch /\ b.hash \in Hashes
    /\ n = 0 => b.hash = <<0, 0>>

BlocksHeld ==
    /\ \A n \in DOMAIN read : Held(read[n], n)
    /\ \A n \in DOMAIN building : Held(building[n].blk, n)
    /\ \A n \in DOMAIN blocks : Held(blocks[n].blk, n)

RoundWork == ChainOK /\ RoundTypeOK /\ LastOnes /\ OnePlace /\ BlocksHeld

----------------------------------------------------------------------------
(* The node. *)

LEMMA FunIsSeq ==
    ASSUME NEW S, NEW n \in Nat, NEW f \in [1..n -> S]
    PROVE  f \in Seq(S) /\ Len(f) = n
<1>1. f \in Seq(S)
  BY SeqDef
<1>2. QED
  BY <1>1, LenProperties

LEMMA OneIsSeq ==
    ASSUME NEW S, NEW x \in S
    PROVE  <<x>> \in Seq(S) /\ Len(<<x>>) = 1 /\ <<x>>[1] = x
  OBVIOUS

LEMMA ChainFacts ==
    ASSUME NodeTypeOK
    PROVE  /\ Tip \in Nat /\ DOMAIN chain = 1..Tip
           /\ \A n \in 1..Tip : chain[n] \in 0..branch
           /\ branch \in Nat
<1>1. Tip \in Nat /\ DOMAIN chain = 1..Tip
  BY LenProperties DEF NodeTypeOK, Tip
<1>2. \A n \in 1..Tip : chain[n] \in Nat
  BY <1>1, ElementOfSeq DEF NodeTypeOK, Tip
<1>3. QED
  BY <1>1, <1>2 DEF NodeTypeOK

LEMMA NodeKeeps ==
    ASSUME ChainOK, [NodeStep]_nodeVars
    PROVE  ChainOK' /\ Tip <= Tip' /\ branch <= branch'
<1> USE EvmNodeAssumption
<1>0. NodeTypeOK /\ Tip \in Nat /\ DOMAIN chain = 1..Tip /\ branch \in Nat
      /\ \A n \in 1..Tip : chain[n] \in 0..branch
  BY ChainFacts DEF ChainOK
<1>1. CASE Extend
  <2>1. /\ chain' \in Seq(Nat) /\ Tip' = Tip + 1
        /\ \A n \in 1..Tip' : chain'[n] = IF n <= Tip THEN chain[n] ELSE branch
    BY <1>0, <1>1, AppendProperties DEF Extend, NodeTypeOK, Tip
  <2>2. DOMAIN chain' = 1..Tip'
    BY <2>1, LenProperties DEF Tip
  <2>3. Tip' <= MaxHead /\ branch' = branch
    BY <1>0, <1>1, <2>1 DEF Extend
  <2>4. NodeTypeOK'
    BY <1>0, <2>1, <2>2, <2>3 DEF NodeTypeOK
  <2>5. QED
    BY <1>0, <2>1, <2>3, <2>4 DEF ChainOK
<1>2. ASSUME NEW d \in 1..ReorgDepth, NEW gain \in ReorgGains, d <= Tip, Reorg(d, gain)
      PROVE  ChainOK' /\ Tip <= Tip' /\ branch <= branch'
  <2>1. gain \in Nat /\ d \in Nat
    OBVIOUS
  <2>2. chain' = [n \in 1..(Tip + gain) |-> IF n <= Tip - d THEN chain[n] ELSE branch + 1]
    BY <1>2 DEF Reorg
  <2>3. chain' \in [1..(Tip + gain) -> Nat]
    BY <1>0, <2>1, <2>2
  <2>4. chain' \in Seq(Nat) /\ Tip' = Tip + gain
    BY <1>0, <2>1, <2>3, FunIsSeq DEF Tip
  <2>5. branch' = branch + 1 /\ branch < MaxReorgs /\ Tip' <= MaxHead
    BY <1>2, <2>4 DEF Reorg
  <2>6. \A n \in 1..Tip' : chain'[n] <= branch'
    BY <1>0, <2>1, <2>2, <2>4, <2>5
  <2>7. NodeTypeOK'
    BY <1>0, <2>2, <2>4, <2>5, <2>6 DEF NodeTypeOK
  <2>8. QED
    BY <1>0, <2>1, <2>4, <2>5, <2>7 DEF ChainOK
<1>3. CASE UNCHANGED nodeVars
  BY <1>0, <1>3 DEF ChainOK, NodeTypeOK, nodeVars, Tip
<1>4. QED
  BY <1>1, <1>2, <1>3 DEF NodeStep

\* A block that was abandoned does not return.
LEMMA OrphanStays ==
    ASSUME ChainOK, [NodeStep]_nodeVars, NEW n \in Nat, NEW b, Held(b, n), Canonical(b)'
    PROVE  Canonical(b)
<1> USE EvmNodeAssumption
<1>0. NodeTypeOK /\ Tip \in Nat /\ DOMAIN chain = 1..Tip /\ branch \in Nat
      /\ \A m \in 1..Tip : chain[m] \in 0..branch
  BY ChainFacts DEF ChainOK
<1>1. b.num = n /\ n <= Tip /\ b.hash[2] <= branch
  BY DEF Held
<1>2. CASE n = 0
  BY <1>1, <1>2 DEF Canonical, BranchAt, Held
<1>3. CASE n # 0
  <2>1. b.hash = <<n, chain'[n]>> /\ chain'[n] <= branch
    BY <1>1, <1>3 DEF Canonical, BranchAt
  <2>2. chain'[n] = chain[n]
    <3>1. CASE Extend
      BY <1>0, <1>1, <1>3, <3>1, AppendProperties DEF Extend, Tip, NodeTypeOK
    <3>2. ASSUME NEW d \in 1..ReorgDepth, NEW gain \in ReorgGains, d <= Tip, Reorg(d, gain)
          PROVE  chain'[n] = chain[n]
      BY <1>0, <1>1, <1>3, <2>1, <3>2 DEF Reorg
    <3>3. CASE UNCHANGED nodeVars
      BY <3>3 DEF nodeVars
    <3>4. QED
      BY <3>1, <3>2, <3>3 DEF NodeStep
  <2>3. QED
    BY <1>1, <1>3, <2>1, <2>2 DEF Canonical, BranchAt
<1>4. QED
  BY <1>2, <1>3

LEMMA HeldStays ==
    ASSUME ChainOK, Tip <= Tip', branch <= branch', NodeTypeOK', NEW n \in Nat, NEW b, Held(b, n)
    PROVE  Held(b, n)'
<1>1. Tip \in Nat /\ Tip' \in Nat /\ branch \in Nat /\ branch' \in Nat
  BY ChainFacts, LenProperties DEF ChainOK, NodeTypeOK, Tip
<1>2. b.hash[2] \in Nat
  BY DEF Held, Block, Hash
<1>3. QED
  BY <1>1, <1>2 DEF Held

LEMMA BlockAtHeld ==
    ASSUME ChainOK, NEW n \in Nat, n <= Tip
    PROVE  Held(BlockAt(n), n) /\ Canonical(BlockAt(n))
<1>0. NodeTypeOK /\ Tip \in Nat /\ DOMAIN chain = 1..Tip /\ branch \in Nat
      /\ \A m \in 1..Tip : chain[m] \in 0..branch
  BY ChainFacts DEF ChainOK
<1>1. MaxHead \in Nat /\ MaxReorgs \in Nat /\ branch <= MaxReorgs /\ Tip <= MaxHead
  BY EvmNodeAssumption DEF ChainOK
<1>2. CASE n = 0
  BY <1>0, <1>1, <1>2 DEF BlockAt, Genesis, Block, Hash, NoHash, Held, Canonical, BranchAt, Hashes
<1>3. CASE n # 0
  <2>1. n \in 1..Tip /\ chain[n] \in 0..branch /\ chain[n] \in 0..MaxReorgs /\ n - 1 \in Nat
    BY <1>0, <1>1, <1>3
  <2>2. BranchAt(n - 1) \in Nat
    BY <1>0, <2>1 DEF BranchAt
  <2>3. BlockAt(n) = [num |-> n, hash |-> <<n, chain[n]>>, parent |-> <<n - 1, BranchAt(n - 1)>>]
    BY <1>3 DEF BlockAt
  <2>4. BlockAt(n) \in Block /\ BlockAt(n).hash \in Hashes
    BY <1>0, <1>1, <2>1, <2>2, <2>3 DEF Block, Hash, Hashes
  <2>5. Canonical(BlockAt(n))
    BY <1>3, <2>3 DEF Canonical, BranchAt
  <2>6. QED
    BY <1>3, <2>1, <2>3, <2>4, <2>5 DEF Held
<1>4. QED
  BY <1>2, <1>3

----------------------------------------------------------------------------
(* Functions on heights. *)

LEMMA FunToFacts ==
    ASSUME NEW S, NEW f
    PROVE  f \in FunsTo(S) <=> /\ DOMAIN f \subseteq Nat /\ f = [x \in DOMAIN f |-> f[x]]
                               /\ \A x \in DOMAIN f : f[x] \in S
<1>1. ASSUME f \in FunsTo(S)
      PROVE  /\ DOMAIN f \subseteq Nat /\ f = [x \in DOMAIN f |-> f[x]]
             /\ \A x \in DOMAIN f : f[x] \in S
  <2>1. PICK D \in SUBSET Nat : f \in [D -> S]
    BY <1>1 DEF FunsTo
  <2>2. QED
    BY <2>1
<1>2. ASSUME DOMAIN f \subseteq Nat, f = [x \in DOMAIN f |-> f[x]], \A x \in DOMAIN f : f[x] \in S
      PROVE  f \in FunsTo(S)
  <2>1. f \in [DOMAIN f -> S]
    BY <1>2
  <2>2. QED
    BY <1>2, <2>1 DEF FunsTo
<1>3. QED
  BY <1>1, <1>2

LEMMA PutFacts ==
    ASSUME NEW S, NEW f \in FunsTo(S), NEW n \in Nat, NEW x \in S
    PROVE  /\ Put(f, n, x) \in FunsTo(S) /\ DOMAIN Put(f, n, x) = DOMAIN f \cup {n}
           /\ Put(f, n, x)[n] = x
           /\ \A i \in DOMAIN f : i # n => Put(f, n, x)[i] = f[i]
<1>1. DOMAIN f \subseteq Nat /\ \A i \in DOMAIN f : f[i] \in S
  BY FunToFacts
<1>2. /\ DOMAIN Put(f, n, x) = DOMAIN f \cup {n}
      /\ \A i \in DOMAIN f \cup {n} : Put(f, n, x)[i] = IF i = n THEN x ELSE f[i]
      /\ Put(f, n, x) = [i \in DOMAIN Put(f, n, x) |-> Put(f, n, x)[i]]
  BY DEF Put
<1>3. Put(f, n, x) \in FunsTo(S)
  BY <1>1, <1>2, FunToFacts
<1>4. QED
  BY <1>2, <1>3

LEMMA WithoutFacts ==
    ASSUME NEW S, NEW f \in FunsTo(S), NEW n
    PROVE  /\ Without(f, n) \in FunsTo(S) /\ DOMAIN Without(f, n) = DOMAIN f \ {n}
           /\ \A i \in DOMAIN f \ {n} : Without(f, n)[i] = f[i]
<1>1. DOMAIN f \subseteq Nat /\ \A i \in DOMAIN f : f[i] \in S
  BY FunToFacts
<1>2. /\ DOMAIN Without(f, n) = DOMAIN f \ {n}
      /\ \A i \in DOMAIN f \ {n} : Without(f, n)[i] = f[i]
      /\ Without(f, n) = [i \in DOMAIN Without(f, n) |-> Without(f, n)[i]]
  BY DEF Without
<1>3. Without(f, n) \in FunsTo(S)
  BY <1>1, <1>2, FunToFacts
<1>4. QED
  BY <1>2, <1>3

LEMMA ExceptFacts ==
    ASSUME NEW S, NEW f \in FunsTo(S), NEW n \in DOMAIN f, NEW x \in S
    PROVE  /\ [f EXCEPT ![n] = x] \in FunsTo(S) /\ DOMAIN [f EXCEPT ![n] = x] = DOMAIN f
           /\ [f EXCEPT ![n] = x][n] = x
           /\ \A i \in DOMAIN f : i # n => [f EXCEPT ![n] = x][i] = f[i]
<1>1. DOMAIN f \subseteq Nat /\ f = [i \in DOMAIN f |-> f[i]] /\ \A i \in DOMAIN f : f[i] \in S
  BY FunToFacts
<1> DEFINE g == [f EXCEPT ![n] = x]
<1>2. /\ DOMAIN g = DOMAIN f /\ g[n] = x /\ \A i \in DOMAIN f : i # n => g[i] = f[i]
      /\ g = [i \in DOMAIN g |-> g[i]]
  BY <1>1
<1>3. g \in FunsTo(S)
  <2> HIDE DEF g
  <2>1. \A i \in DOMAIN g : g[i] \in S
    BY <1>1, <1>2
  <2>2. QED
    BY <1>1, <1>2, <2>1, FunToFacts
<1>4. QED
  BY <1>2, <1>3

----------------------------------------------------------------------------
(* Where the heights are. *)

LEMMA PlaceFacts ==
    ASSUME RoundWork
    PROVE  /\ Low \in Nat /\ High \in Nat /\ Len(heights) \in Nat
           /\ Low..(High - Len(heights) - 1) \subseteq Low..(High - 1)
           /\ asking \subseteq Nat /\ DOMAIN read \subseteq Nat
           /\ DOMAIN building \subseteq Nat /\ DOMAIN blocks \subseteq Nat
           /\ errs \subseteq Nat
           /\ \A n \in DOMAIN read : read[n] \in Block
           /\ \A n \in DOMAIN building : building[n] \in Building
           /\ \A n \in DOMAIN blocks : blocks[n] \in Saved
<1>1. Low \in Nat /\ High \in Nat /\ Len(heights) \in Nat
  BY GetBlocksAssumption, LenProperties DEF RoundWork, RoundTypeOK
<1>2. /\ DOMAIN read \subseteq Nat /\ DOMAIN building \subseteq Nat /\ DOMAIN blocks \subseteq Nat
      /\ \A n \in DOMAIN read : read[n] \in Block
      /\ \A n \in DOMAIN building : building[n] \in Building
      /\ \A n \in DOMAIN blocks : blocks[n] \in Saved
  BY FunToFacts DEF RoundWork, RoundTypeOK
<1>3. asking \cup errs \subseteq Low..(High - Len(heights) - 1)
  BY DEF RoundWork, OnePlace
<1>4. QED
  BY <1>1, <1>2, <1>3

LEMMA TypesFollow == RoundWork => TypeOK
<1> SUFFICES ASSUME RoundWork PROVE TypeOK
  OBVIOUS
<1>1. ToSet(heights) \subseteq Low..(High - 1)
  <2>1. \A i \in 1..Len(heights) : heights[i] \in Low..(High - 1)
    BY PlaceFacts DEF RoundWork, LastOnes
  <2>2. QED
    BY <2>1, PlaceFacts, LenProperties DEF ToSet, RoundWork, RoundTypeOK
<1>2. asking \cup DOMAIN read \cup DOMAIN building \cup DOMAIN blocks \cup errs
         \subseteq Low..(High - 1)
  BY PlaceFacts DEF RoundWork, OnePlace
<1>3. QED
  BY <1>1, <1>2 DEF RoundWork, ChainOK, RoundTypeOK, BlocksHeld, Held, TypeOK

LEMMA InitWork == Init => RoundWork
<1> SUFFICES ASSUME Init PROVE RoundWork
  OBVIOUS
<1> USE EvmNodeAssumption, GetBlocksAssumption
<1>0. Low \in Nat /\ High \in Nat /\ High - Low \in Nat /\ High <= MaxHead + 1
  OBVIOUS
<1>1. chain \in Seq(Nat) /\ branch = 0 /\ Tip <= MaxHead /\ \A n \in 1..Tip : chain[n] = 0
  <2>1. CASE High = 0
    <3>1. 1..(High - 1) = {} /\ 1..0 = {}
      BY <2>1
    <3>2. chain \in [1..0 -> Nat]
      BY <3>1 DEF Init
    <3>3. chain \in Seq(Nat) /\ Len(chain) = 0
      BY <3>2, FunIsSeq
    <3>4. Tip = 0 /\ 0 <= MaxHead
      BY <3>3 DEF Tip
    <3>5. branch = 0
      BY DEF Init
    <3>6. QED
      BY <3>3, <3>4, <3>5
  <2>2. CASE High # 0
    <3>1. chain \in [1..(High - 1) -> Nat] /\ High - 1 \in Nat
      BY <1>0, <2>2 DEF Init
    <3>2. QED
      BY <1>0, <3>1, FunIsSeq DEF Init, Tip
  <2>3. QED
    BY <2>1, <2>2
<1>2. ChainOK
  BY <1>1, LenProperties DEF ChainOK, NodeTypeOK, Tip
<1>3. /\ heights \in Seq(Int) /\ Len(heights) = High - Low
      /\ \A i \in 1..(High - Low) : heights[i] = Low + i - 1
  <2>1. heights \in [1..(High - Low) -> Int]
    BY <1>0 DEF Init, InRange
  <2>2. QED
    BY <1>0, <2>1, FunIsSeq DEF Init, InRange
<1>4. LastOnes
  BY <1>0, <1>3 DEF LastOnes
<1>5. DOMAIN read = {} /\ DOMAIN building = {} /\ DOMAIN blocks = {} /\ asking = {} /\ errs = {}
  BY DEF Init
<1>6. OnePlace
  BY <1>0, <1>3, <1>5 DEF OnePlace
<1>7. read \in FunsTo(Block) /\ building \in FunsTo(Building) /\ blocks \in FunsTo(Saved)
  <2>1. ASSUME NEW S PROVE <<>> \in FunsTo(S)
    <3>1. <<>> \in [{} -> S]
      OBVIOUS
    <3>2. QED
      BY <3>1 DEF FunsTo
  <2>2. QED
    BY <2>1 DEF Init
<1>8. QED
  BY <1>2, <1>3, <1>4, <1>5, <1>6, <1>7 DEF RoundWork, RoundTypeOK, BlocksHeld, Init

----------------------------------------------------------------------------
(* Each step keeps the heights at their places. *)

LEMMA TakeHeightKeeps == RoundWork /\ TakeHeight => RoundWork'
<1> SUFFICES ASSUME RoundWork, TakeHeight PROVE RoundWork'
  OBVIOUS
<1>1. /\ heights # <<>> /\ asking' = asking \cup {Head(heights)} /\ heights' = Tail(heights)
      /\ UNCHANGED <<nodeVars, read, building, blocks, errs, fails, pc>>
  BY DEF TakeHeight
<1>2. heights \in Seq(Int) /\ Low \in Nat /\ High \in Nat /\ Len(heights) <= High - Low
  BY PlaceFacts DEF RoundWork, RoundTypeOK, LastOnes
<1>3. Len(heights) \in Nat /\ Len(heights) # 0
  BY <1>1, <1>2, LenProperties, EmptySeq
<1>4. /\ heights' \in Seq(Int) /\ Len(heights') = Len(heights) - 1
      /\ \A i \in 1..Len(heights') : heights'[i] = heights[i + 1]
  BY <1>1, <1>2, <1>3, HeadTailProperties
<1>5. Head(heights) = High - Len(heights)
  BY <1>1, <1>2, <1>3, HeadTailProperties DEF RoundWork, LastOnes
<1>6. LastOnes'
  BY <1>2, <1>3, <1>4 DEF RoundWork, LastOnes
<1>7. Low..(High - Len(heights') - 1)
         = Low..(High - Len(heights) - 1) \cup {High - Len(heights)}
  <2>1. ASSUME NEW i \in Int, NEW j \in Int, i <= j
        PROVE  i..j = i..(j - 1) \cup {j}
    <3>1. \A k \in Int : k \in i..j <=> (k \in i..(j - 1) \/ k = j)
      BY <2>1
    <3>2. QED
      BY <2>1, <3>1
  <2>2. High - Len(heights) \in Int /\ Low <= High - Len(heights)
    BY <1>2, <1>3
  <2>3. High - Len(heights') - 1 = High - Len(heights)
    BY <1>2, <1>3, <1>4
  <2>4. QED
    BY <1>2, <2>1, <2>2, <2>3
<1>8. High - Len(heights) \notin Low..(High - Len(heights) - 1)
  BY <1>2, <1>3
<1>9. OnePlace'
  BY <1>1, <1>5, <1>7, <1>8 DEF RoundWork, OnePlace
<1>10. ChainOK' /\ BlocksHeld' /\ RoundTypeOK'
  BY <1>1, <1>4 DEF RoundWork, ChainOK, NodeTypeOK, BlocksHeld, Held, RoundTypeOK, nodeVars, Tip
<1>11. QED
  BY <1>6, <1>9, <1>10 DEF RoundWork

LEMMA getBlockByNumKeeps ==
    ASSUME RoundWork, NEW n, getBlockByNum(n)
    PROVE  RoundWork'
<1>1. /\ pc = "running" /\ n \in asking /\ n <= Tip
      /\ asking' = asking \ {n} /\ read' = Put(read, n, BlockAt(n))
      /\ UNCHANGED <<nodeVars, heights, building, blocks, errs, fails, pc>>
  BY DEF getBlockByNum
<1>2. n \in Nat /\ n \notin DOMAIN read
  BY <1>1, PlaceFacts DEF RoundWork, OnePlace
<1>3. Held(BlockAt(n), n) /\ BlockAt(n) \in Block
  BY <1>1, <1>2, BlockAtHeld DEF RoundWork, Held
<1>4. /\ read' \in FunsTo(Block) /\ DOMAIN read' = DOMAIN read \cup {n} /\ read'[n] = BlockAt(n)
      /\ \A i \in DOMAIN read : read'[i] = read[i]
  <2>1. read \in FunsTo(Block)
    BY DEF RoundWork, RoundTypeOK
  <2>2. QED
    BY <1>1, <1>2, <1>3, <2>1, PutFacts
<1>5. OnePlace'
  BY <1>1, <1>4 DEF RoundWork, OnePlace
<1>6. BlocksHeld'
  BY <1>1, <1>3, <1>4 DEF RoundWork, BlocksHeld, Held, nodeVars, Tip
<1>7. ChainOK' /\ LastOnes' /\ RoundTypeOK'
  BY <1>1, <1>4 DEF RoundWork, ChainOK, NodeTypeOK, LastOnes, RoundTypeOK, nodeVars, Tip
<1>8. QED
  BY <1>5, <1>6, <1>7 DEF RoundWork

\* A step that works on a block keeps the places.
LEMMA WorkOnKeeps ==
    ASSUME RoundWork, NEW n \in DOMAIN building, NEW b \in Building, b.blk = building[n].blk,
           building' = [building EXCEPT ![n] = b],
           UNCHANGED <<nodeVars, heights, asking, read, blocks, errs, pc>>
    PROVE  RoundWork'
<1>1. /\ building' \in FunsTo(Building) /\ DOMAIN building' = DOMAIN building
      /\ \A i \in DOMAIN building : building'[i].blk = building[i].blk
  BY ExceptFacts DEF RoundWork, RoundTypeOK
<1>2. OnePlace'
  BY <1>1 DEF RoundWork, OnePlace
<1>3. BlocksHeld'
  BY <1>1 DEF RoundWork, BlocksHeld, Held, nodeVars, Tip
<1>4. ChainOK' /\ LastOnes' /\ RoundTypeOK'
  BY <1>1 DEF RoundWork, ChainOK, NodeTypeOK, LastOnes, RoundTypeOK, nodeVars, Tip
<1>5. QED
  BY <1>2, <1>3, <1>4 DEF RoundWork

LEMMA BlockFailsKeeps ==
    ASSUME RoundWork, NEW n, BlockFails(n)
    PROVE  RoundWork'
<1>1. /\ n \in DOMAIN building /\ errs' = errs \cup {n} /\ building' = Without(building, n)
      /\ UNCHANGED <<nodeVars, heights, asking, read, blocks, fails, pc>>
  BY DEF BlockFails
<1>2. /\ building' \in FunsTo(Building) /\ DOMAIN building' = DOMAIN building \ {n}
      /\ \A i \in DOMAIN building' : building'[i] = building[i]
  BY <1>1, WithoutFacts DEF RoundWork, RoundTypeOK
<1>3. OnePlace'
  BY <1>1, <1>2 DEF RoundWork, OnePlace
<1>4. BlocksHeld'
  BY <1>1, <1>2 DEF RoundWork, BlocksHeld, Held, nodeVars, Tip
<1>5. ChainOK' /\ LastOnes' /\ RoundTypeOK'
  BY <1>1, <1>2 DEF RoundWork, ChainOK, NodeTypeOK, LastOnes, RoundTypeOK, nodeVars, Tip
<1>6. QED
  BY <1>3, <1>4, <1>5 DEF RoundWork

LEMMA SendBlockKeeps ==
    ASSUME RoundWork, NEW n, SendBlock(n)
    PROVE  /\ RoundWork' /\ n \in DOMAIN building /\ n \notin DOMAIN blocks
           /\ DOMAIN building' = DOMAIN building \ {n}
           /\ \A i \in DOMAIN building' : building'[i] = building[i]
           /\ DOMAIN blocks' = DOMAIN blocks \cup {n}
           /\ \A i \in DOMAIN blocks : blocks'[i] = blocks[i]
           /\ blocks'[n] = [blk |-> building[n].blk, txs |-> building[n].txs,
                            traces |-> building[n].traces]
<1> DEFINE b == [blk |-> building[n].blk, txs |-> building[n].txs,
                 traces |-> building[n].traces]
<1>1. /\ n \in DOMAIN building /\ blocks' = Put(blocks, n, b) /\ building' = Without(building, n)
      /\ UNCHANGED <<nodeVars, heights, asking, read, errs, fails, pc>>
  BY DEF SendBlock
<1>2. /\ building' \in FunsTo(Building) /\ DOMAIN building' = DOMAIN building \ {n}
      /\ \A i \in DOMAIN building' : building'[i] = building[i]
  BY <1>1, WithoutFacts DEF RoundWork, RoundTypeOK
<1>3. n \in Nat /\ n \notin DOMAIN blocks /\ building[n] \in Building
  BY <1>1, PlaceFacts DEF RoundWork, OnePlace
<1>4. b \in Saved
  BY <1>3 DEF Saved, Building
<1>5. /\ blocks' \in FunsTo(Saved) /\ DOMAIN blocks' = DOMAIN blocks \cup {n} /\ blocks'[n] = b
      /\ \A i \in DOMAIN blocks : blocks'[i] = blocks[i]
  <2> HIDE DEF b
  <2>1. blocks \in FunsTo(Saved)
    BY DEF RoundWork, RoundTypeOK
  <2>2. ASSUME NEW x \in Saved, blocks' = Put(blocks, n, x)
        PROVE  /\ blocks' \in FunsTo(Saved) /\ DOMAIN blocks' = DOMAIN blocks \cup {n}
               /\ blocks'[n] = x
               /\ \A i \in DOMAIN blocks : blocks'[i] = blocks[i]
    BY <1>3, <2>1, <2>2, PutFacts
  <2>3. QED
    BY <1>1, <1>4, <2>2
<1>6. OnePlace'
  BY <1>1, <1>2, <1>5 DEF RoundWork, OnePlace
<1>7. BlocksHeld'
  BY <1>1, <1>2, <1>5 DEF RoundWork, BlocksHeld, Held, nodeVars, Tip
<1>8. ChainOK' /\ LastOnes' /\ RoundTypeOK'
  BY <1>1, <1>2, <1>5 DEF RoundWork, ChainOK, NodeTypeOK, LastOnes, RoundTypeOK, nodeVars, Tip
<1>9. QED
  BY <1>1, <1>2, <1>3, <1>5, <1>6, <1>7, <1>8 DEF RoundWork

LEMMA NodeStepKeeps ==
    ASSUME RoundWork, [NodeStep]_nodeVars, UNCHANGED workVars
    PROVE  RoundWork'
<1>1. ChainOK' /\ Tip <= Tip' /\ branch <= branch'
  BY NodeKeeps DEF RoundWork
<1>2. /\ DOMAIN read \subseteq Nat /\ DOMAIN building \subseteq Nat /\ DOMAIN blocks \subseteq Nat
      /\ ChainOK /\ NodeTypeOK'
  BY <1>1, PlaceFacts DEF RoundWork, ChainOK
<1>3. /\ \A n \in DOMAIN read : Held(read[n], n)'
      /\ \A n \in DOMAIN building : Held(building[n].blk, n)'
      /\ \A n \in DOMAIN blocks : Held(blocks[n].blk, n)'
  <2>1. \A n \in Nat : \A b \in Block : Held(b, n) => (n <= Tip' /\ b.hash[2] <= branch')
    BY <1>1, <1>2, HeldStays DEF Held
  <2>2. QED
    BY <1>2, <2>1 DEF RoundWork, BlocksHeld, Held, workVars
<1>4. OnePlace' /\ LastOnes' /\ RoundTypeOK' /\ BlocksHeld'
  BY <1>3 DEF RoundWork, OnePlace, LastOnes, RoundTypeOK, BlocksHeld, workVars
<1>5. QED
  BY <1>1, <1>4 DEF RoundWork

----------------------------------------------------------------------------
(* The groups of the transactions of a block. *)

LEMMA MinOfTwo == ASSUME NEW a \in Int, NEW b \in Int
                  PROVE  Min({a, b}) = IF a <= b THEN a ELSE b
<1>1. \E x \in {a, b} : \A y \in {a, b} : x <= y
  BY a <= b \/ b <= a
<1>2. Min({a, b}) \in {a, b} /\ \A y \in {a, b} : Min({a, b}) <= y
  BY <1>1 DEF Min
<1>3. QED
  BY <1>2

LEMMA MaxOfTwo == ASSUME NEW a \in Int, NEW b \in Int
                  PROVE  Max({a, b}) = IF b > a THEN b ELSE a
<1>1. \E x \in {a, b} : \A y \in {a, b} : x >= y
  BY a >= b \/ b >= a
<1>2. Max({a, b}) \in {a, b} /\ \A y \in {a, b} : Max({a, b}) >= y
  BY <1>1 DEF Max
<1>3. QED
  BY <1>2

LEMMA AtLeastOne == Batch \in Nat \ {0} /\ Workers \in Nat \ {0}
<1>1. TxBatch \in Nat /\ TxWorker \in Nat
  BY GetBlocksAssumption
<1>2. QED
  BY <1>1, MaxOfTwo DEF Batch, Workers

\* How many transactions the groups before group k have.
Start(k) == (k - 1) * Batch

LEMMA Starts ==
    /\ Start(1) = 0
    /\ \A k \in Nat \ {0} : Start(k) \in Nat /\ Start(k + 1) = Start(k) + Batch
                            /\ k * Batch = Start(k + 1)
    /\ \A k, l \in Nat \ {0} : k < l => Start(k) + Batch <= Start(l)
<1>0. Batch \in Nat /\ Batch >= 1
  BY AtLeastOne
<1> HIDE DEF Batch
<1>1. Start(1) = 0
  BY <1>0 DEF Start
<1>2. ASSUME NEW k \in Nat \ {0}
      PROVE  Start(k) \in Nat /\ Start(k + 1) = Start(k) + Batch /\ k * Batch = Start(k + 1)
  <2>1. k - 1 \in Nat
    BY <1>2
  <2>2. (k - 1) * Batch \in Nat
    BY <1>0, <2>1
  <2>3. k * Batch = (k - 1) * Batch + Batch
    BY <1>0, <1>2
  <2>4. (k + 1) - 1 = k
    BY <1>2
  <2>5. QED
    BY <2>2, <2>3, <2>4 DEF Start
<1>3. ASSUME NEW k \in Nat \ {0}, NEW l \in Nat \ {0}, k < l
      PROVE  Start(k) + Batch <= Start(l)
  <2>1. (l - k - 1) * Batch >= 0
    BY <1>0, <1>3
  <2>2. (l - k - 1) * Batch = (l - 1) * Batch - (k - 1) * Batch - Batch
    BY <1>0, <1>3
  <2>3. (l - 1) * Batch \in Int /\ (k - 1) * Batch \in Int
    BY <1>0, <1>3
  <2>4. QED
    BY <1>0, <2>1, <2>2, <2>3 DEF Start
<1>4. QED
  BY <1>1, <1>2, <1>3

LEMMA Division ==
    ASSUME NEW n \in Nat, NEW m \in Nat \ {0}
    PROVE  n \div m \in Nat /\ (n \div m) * m <= n /\ n < (n \div m) * m + m
  OBVIOUS

\* There are as many groups as it takes, each has the next Batch transactions.
LEMMA GroupFacts ==
    ASSUME NEW S, NEW ts \in Seq(S), NEW g, g = groupTxs(ts)
    PROVE  /\ g \in Seq(Seq(S)) /\ Len(g) \in Nat /\ Len(ts) \in Nat
           /\ Len(ts) <= Start(Len(g) + 1)
           /\ \A k \in 1..Len(g) :
                 /\ g[k] \in Seq(S) /\ Len(g[k]) \in Nat /\ Start(k) < Len(ts)
                 /\ Len(g[k]) = IF Start(k) + Batch <= Len(ts) THEN Batch
                                ELSE Len(ts) - Start(k)
                 /\ \A i \in 1..Len(g[k]) : g[k][i] = ts[Start(k) + i]
<1> DEFINE L == Len(ts)
           K == (L + Batch - 1) \div Batch
<1>0. /\ L \in Nat /\ \A i \in 1..L : ts[i] \in S
      /\ Batch \in Nat \ {0} /\ L + Batch - 1 \in Nat
  BY AtLeastOne, LenProperties, ElementOfSeq
<1>1. K \in Nat /\ K * Batch <= L + Batch - 1 /\ L + Batch - 1 < K * Batch + Batch
  BY <1>0, Division
<1>2. g = [k \in 1..K |-> SubSeq(ts, Start(k) + 1, Min({k * Batch, L}))]
  BY DEF groupTxs, Start
<1> HIDE DEF L, K
<1>3. L <= Start(K + 1) /\ Start(K + 1) < L + Batch /\ Start(K + 1) \in Nat
  <2>1. (K + 1) - 1 = K /\ K + 1 \in Nat \ {0}
    BY <1>1
  <2>2. Start(K + 1) = K * Batch /\ Start(K + 1) \in Nat
    BY <2>1, Starts DEF Start
  <2>3. QED
    BY <1>0, <1>1, <2>2
<1>4. ASSUME NEW k \in 1..K
      PROVE  /\ g[k] \in Seq(S) /\ Start(k) < L
             /\ Len(g[k]) = IF Start(k) + Batch <= L THEN Batch ELSE L - Start(k)
             /\ \A i \in 1..Len(g[k]) : g[k][i] = ts[Start(k) + i]
  <2>0. k \in Nat \ {0} /\ K + 1 \in Nat \ {0} /\ k < K + 1
    BY <1>1, <1>4
  <2>1. /\ k \in Nat \ {0} /\ K + 1 \in Nat \ {0} /\ Start(k) \in Nat
        /\ Start(k) + Batch <= Start(K + 1) /\ k * Batch = Start(k) + Batch
    BY <2>0, Starts
  <2>2. Start(k) < L
    BY <1>0, <1>3, <2>1
  <2> DEFINE e == Min({k * Batch, L})
  <2>3. e = IF Start(k) + Batch <= L THEN Start(k) + Batch ELSE L
    BY <1>0, <2>1, MinOfTwo
  <2>4. g[k] = SubSeq(ts, Start(k) + 1, e)
    BY <1>2, <1>4
  <2> HIDE DEF e
  <2>5. e \in Nat /\ Start(k) + 1 <= e /\ e <= L
    BY <1>0, <2>1, <2>2, <2>3
  <2>6. \A i \in (Start(k) + 1)..e : ts[i] \in S
    BY <1>0, <2>1, <2>5
  <2>7. /\ g[k] \in Seq(S) /\ Len(g[k]) = e - (Start(k) + 1) + 1
        /\ \A i \in 1..(e - (Start(k) + 1) + 1) : g[k][i] = ts[(Start(k) + 1) + i - 1]
    BY <2>1, <2>4, <2>5, <2>6, SubSeqProperties
  <2>8. Len(g[k]) = e - Start(k) /\ \A i \in 1..Len(g[k]) : g[k][i] = ts[Start(k) + i]
    <3>1. e - (Start(k) + 1) + 1 = e - Start(k)
      BY <2>1, <2>5
    <3>2. \A i \in 1..(e - Start(k)) : (Start(k) + 1) + i - 1 = Start(k) + i
      BY <2>1, <2>5
    <3>3. QED
      BY <2>7, <3>1, <3>2
  <2>9. QED
    BY <1>0, <2>1, <2>2, <2>3, <2>7, <2>8
<1>5. g \in Seq(Seq(S)) /\ Len(g) = K
  <2>1. g \in [1..K -> Seq(S)]
    BY <1>2, <1>4
  <2>2. QED
    BY <1>1, <2>1, FunIsSeq
<1>6. \A k \in 1..K : Len(g[k]) \in Nat
  BY <1>4, LenProperties
<1>7. QED
  BY <1>0, <1>1, <1>3, <1>4, <1>5, <1>6 DEF L

LEMMA OneGroup ==
    ASSUME NEW S, NEW ts \in Seq(S), NEW g, g = groupTxs(ts), NEW k \in 1..Len(g)
    PROVE  /\ k \in Nat \ {0} /\ Start(k) \in Nat /\ Len(g[k]) \in Nat /\ Len(ts) \in Nat
           /\ Len(g[k]) <= Batch /\ Start(k) + Len(g[k]) <= Len(ts) /\ g[k] \in Seq(S)
           /\ \A i \in 1..Len(g[k]) : /\ i \in Nat /\ Start(k) + i \in 1..Len(ts)
                                      /\ g[k][i] = ts[Start(k) + i]
<1>1. /\ g[k] \in Seq(S) /\ Start(k) < Len(ts) /\ Len(g) \in Nat
      /\ Len(g[k]) = IF Start(k) + Batch <= Len(ts) THEN Batch ELSE Len(ts) - Start(k)
      /\ \A i \in 1..Len(g[k]) : g[k][i] = ts[Start(k) + i]
  BY GroupFacts
<1>2. k \in Nat \ {0}
  BY <1>1
<1>3. Start(k) \in Nat /\ Batch \in Nat \ {0} /\ Len(g[k]) \in Nat /\ Len(ts) \in Nat
  BY <1>1, <1>2, Starts, AtLeastOne, LenProperties
<1>4. Len(g[k]) <= Batch /\ Start(k) + Len(g[k]) <= Len(ts)
  BY <1>1, <1>3
<1>5. \A i \in 1..Len(g[k]) : i \in Nat /\ Start(k) + i \in 1..Len(ts)
  BY <1>3, <1>4
<1>6. QED
  BY <1>1, <1>2, <1>3, <1>4, <1>5

\* Every transaction is in a group, at one place of it.
LEMMA GroupsCover ==
    ASSUME NEW S, NEW ts \in Seq(S), NEW g, g = groupTxs(ts)
    PROVE  UNION {ToSet(g[k]) : k \in DOMAIN g} = ToSet(ts)
<1>0. /\ DOMAIN g = 1..Len(g) /\ DOMAIN ts = 1..Len(ts) /\ Batch \in Nat \ {0}
      /\ Len(g) \in Nat /\ Len(ts) \in Nat /\ Len(ts) <= Start(Len(g) + 1)
  BY AtLeastOne, GroupFacts, LenProperties
<1>1. \A k \in DOMAIN g : DOMAIN g[k] = 1..Len(g[k])
  BY <1>0, GroupFacts, LenProperties
<1>2. ASSUME NEW k \in DOMAIN g
      PROVE  ToSet(g[k]) \subseteq ToSet(ts)
  <2>1. k \in 1..Len(g)
    BY <1>0
  <2>2. \A i \in 1..Len(g[k]) : g[k][i] = ts[Start(k) + i] /\ Start(k) + i \in 1..Len(ts)
    BY <2>1, OneGroup
  <2>3. QED
    BY <1>0, <1>1, <2>2 DEF ToSet
<1>3. ASSUME NEW j \in 1..Len(ts)
      PROVE  \E k \in DOMAIN g : ts[j] \in ToSet(g[k])
  <2> DEFINE q == (j - 1) \div Batch
             k == q + 1
  <2>1. q \in Nat /\ q * Batch <= j - 1 /\ j - 1 < q * Batch + Batch
    BY <1>0, Division
  <2> HIDE DEF q
  <2>2. Start(k) = q * Batch /\ Start(k) \in Nat /\ k \in Nat \ {0}
    <3>1. k \in Nat \ {0} /\ k - 1 = q
      BY <2>1
    <3>2. QED
      BY <3>1, Starts DEF Start
  <2> HIDE DEF k
  <2>3. k <= Len(g)
    <3>1. CASE Len(g) + 1 <= k
      <4>1. Start(Len(g) + 1) <= Start(k)
        <5>1. CASE Len(g) + 1 = k
          BY <2>2, <5>1
        <5>2. CASE Len(g) + 1 < k
          <6>1. Len(g) + 1 \in Nat \ {0}
            BY <1>0
          <6>2. Start(Len(g) + 1) + Batch <= Start(k) /\ Start(Len(g) + 1) \in Nat
            BY <2>2, <5>2, <6>1, Starts
          <6>3. QED
            BY <1>0, <2>2, <6>2
        <5>3. QED
          BY <1>0, <2>2, <3>1, <5>1, <5>2
      <4>2. Start(Len(g) + 1) \in Nat
        BY <1>0, Starts
      <4>3. FALSE
        BY <1>0, <2>1, <2>2, <4>1, <4>2
      <4>4. QED
        BY <4>3
    <3>2. QED
      BY <1>0, <2>2, <3>1
  <2>4. k \in 1..Len(g) /\ j - Start(k) \in Int
    BY <1>0, <2>2, <2>3
  <2>5. j - Start(k) \in 1..Len(g[k])
    BY <1>0, <2>1, <2>2, <2>4, GroupFacts
  <2>6. g[k][j - Start(k)] = ts[j]
    <3>1. PICK i : i = j - Start(k)
      OBVIOUS
    <3>2. i \in 1..Len(g[k]) /\ Start(k) + i = j
      BY <2>2, <2>5, <3>1
    <3>3. g[k][i] = ts[Start(k) + i]
      BY <2>4, <3>2, OneGroup
    <3>4. QED
      BY <3>1, <3>2, <3>3
  <2>7. QED
    BY <1>0, <1>1, <2>4, <2>5, <2>6 DEF ToSet
<1>4. ToSet(ts) \subseteq UNION {ToSet(g[k]) : k \in DOMAIN g}
  BY <1>0, <1>3 DEF ToSet
<1>5. QED
  BY <1>2, <1>4

\* No transaction is in two groups, or twice in one.
Apart(g) ==
    \A k, l \in 1..Len(g) : \A i \in 1..Len(g[k]), j \in 1..Len(g[l]) :
        g[k][i] = g[l][j] => k = l /\ i = j

LEMMA GroupsApart ==
    ASSUME NEW S, NEW ts \in Seq(S), IsInjective(ts), NEW g, g = groupTxs(ts)
    PROVE  Apart(g)
<1>0. /\ DOMAIN ts = 1..Len(ts) /\ Batch \in Nat \ {0} /\ Len(g) \in Nat /\ Len(ts) \in Nat
  BY AtLeastOne, GroupFacts, LenProperties
<1> SUFFICES ASSUME NEW k \in 1..Len(g), NEW l \in 1..Len(g),
                    NEW i \in 1..Len(g[k]), NEW j \in 1..Len(g[l]), g[k][i] = g[l][j]
             PROVE  k = l /\ i = j
  BY DEF Apart
<1>1. /\ k \in Nat \ {0} /\ Start(k) \in Nat /\ Len(g[k]) <= Batch /\ Len(g[k]) \in Nat
      /\ i \in Nat /\ Start(k) + i \in 1..Len(ts) /\ g[k][i] = ts[Start(k) + i]
  BY OneGroup
<1>2. /\ l \in Nat \ {0} /\ Start(l) \in Nat /\ Len(g[l]) <= Batch /\ Len(g[l]) \in Nat
      /\ j \in Nat /\ Start(l) + j \in 1..Len(ts) /\ g[l][j] = ts[Start(l) + j]
  BY OneGroup
<1>3. (k < l => Start(k) + Batch <= Start(l)) /\ (l < k => Start(l) + Batch <= Start(k))
  BY <1>1, <1>2, Starts
<1>4. Start(k) + i = Start(l) + j
  BY <1>0, <1>1, <1>2 DEF IsInjective
<1>5. 1 <= i /\ i <= Len(g[k]) /\ 1 <= j /\ j <= Len(g[l])
  BY <1>1, <1>2
<1>6. PICK s, t, w, m, n : s = Start(k) /\ t = Start(l) /\ w = Batch
                           /\ m = Len(g[k]) /\ n = Len(g[l])
  OBVIOUS
<1>7. /\ s \in Nat /\ t \in Nat /\ w \in Nat /\ m \in Nat /\ n \in Nat
      /\ i \in Nat /\ j \in Nat /\ s + i = t + j
      /\ 1 <= i /\ i <= m /\ m <= w /\ 1 <= j /\ j <= n /\ n <= w
  BY <1>0, <1>1, <1>2, <1>4, <1>5, <1>6
<1>8. ~(s + w <= t) /\ ~(t + w <= s)
  BY ONLY <1>7
<1>9. ~(k < l) /\ ~(l < k)
  BY <1>3, <1>6, <1>8
<1>10. k \in Nat /\ l \in Nat
  BY <1>1, <1>2
<1>11. k = l
  BY ONLY <1>9, <1>10
<1>12. QED
  BY <1>6, <1>7, <1>11

----------------------------------------------------------------------------
(* The steps that put a block together. *)

LEMMA TxsFacts ==
    ASSUME NEW h \in Hashes
    PROVE  Txs[h] \in Seq(Tx) /\ IsInjective(Txs[h]) /\ groupTxs(Txs[h]) \in Seq(Seq(Tx))
<1>1. Txs[h] \in Seq(ToSet(Txs[h])) /\ IsInjective(Txs[h])
  BY TxsAssumption
<1>2. \A i \in 1..Len(Txs[h]) : Txs[h][i] \in Tx
  <2>1. DOMAIN Txs[h] = 1..Len(Txs[h])
    BY <1>1, LenProperties
  <2>2. QED
    BY <2>1 DEF Tx, ToSet
<1>3. Txs[h] \in Seq(Tx)
  <2>1. Txs[h] \in [1..Len(Txs[h]) -> Tx] /\ Len(Txs[h]) \in Nat
    BY <1>1, <1>2, LenProperties
  <2>2. QED
    BY <2>1, FunIsSeq
<1>4. QED
  BY <1>1, <1>3, GroupFacts

\* The block a worker takes, before anything is asked for it.
Fresh(b) == [blk |-> b, groups |-> groupTxs(Txs[b.hash]), left |-> DOMAIN groupTxs(Txs[b.hash]),
             receipts |-> <<>>, txs |-> <<>>, failed |-> FALSE, traces |-> <<>>]

LEMMA FreshType == ASSUME NEW b \in Block, b.hash \in Hashes PROVE Fresh(b) \in Building
<1>1. groupTxs(Txs[b.hash]) \in Seq(Seq(Tx))
  BY TxsFacts
<1>2. DOMAIN groupTxs(Txs[b.hash]) \in SUBSET Nat
  BY <1>1, LenProperties
<1>3. <<>> \in FunsTo(Reports)
  <2>1. <<>> \in [{} -> Reports]
    OBVIOUS
  <2>2. QED
    BY <2>1 DEF FunsTo
<1>4. <<>> \in Seq(Ran) /\ <<>> \in Seq(Hash)
  BY EmptySeq
<1>5. QED
  BY <1>1, <1>2, <1>3, <1>4 DEF Fresh, Building

LEMMA TakeBlockKeeps ==
    ASSUME RoundWork, NEW n, TakeBlock(n)
    PROVE  /\ RoundWork' /\ n \in DOMAIN read /\ n \notin DOMAIN building \cup DOMAIN blocks
           /\ DOMAIN read' = DOMAIN read \ {n} /\ \A i \in DOMAIN read' : read'[i] = read[i]
           /\ DOMAIN building' = DOMAIN building \cup {n}
           /\ \A i \in DOMAIN building : building'[i] = building[i]
           /\ building'[n] = Fresh(read[n])
<1>1. /\ n \in DOMAIN read /\ building' = Put(building, n, Fresh(read[n]))
      /\ read' = Without(read, n)
      /\ UNCHANGED <<nodeVars, heights, asking, blocks, errs, fails, pc>>
  BY DEF TakeBlock, Fresh
<1>2. n \in Nat /\ n \notin DOMAIN building \cup DOMAIN blocks
  BY <1>1, PlaceFacts DEF RoundWork, OnePlace
<1>3. read[n] \in Block /\ Held(read[n], n) /\ Fresh(read[n]) \in Building
  BY <1>1, FreshType DEF RoundWork, BlocksHeld, Held
<1>4. read \in FunsTo(Block) /\ building \in FunsTo(Building)
  BY DEF RoundWork, RoundTypeOK
<1>5. /\ read' \in FunsTo(Block) /\ DOMAIN read' = DOMAIN read \ {n}
      /\ \A i \in DOMAIN read' : read'[i] = read[i]
  BY <1>1, <1>4, WithoutFacts
<1>6. /\ building' \in FunsTo(Building) /\ DOMAIN building' = DOMAIN building \cup {n}
      /\ building'[n] = Fresh(read[n])
      /\ \A i \in DOMAIN building : building'[i] = building[i]
  <2>1. ASSUME NEW x \in Building, building' = Put(building, n, x)
        PROVE  /\ building' \in FunsTo(Building) /\ DOMAIN building' = DOMAIN building \cup {n}
               /\ building'[n] = x
               /\ \A i \in DOMAIN building : building'[i] = building[i]
    BY <1>2, <1>4, <2>1, PutFacts
  <2>2. QED
    BY <1>1, <1>3, <2>1
<1>7. building'[n].blk = read[n]
  BY <1>6 DEF Fresh
<1>8. OnePlace'
  BY <1>1, <1>5, <1>6 DEF RoundWork, OnePlace
<1>9. BlocksHeld'
  BY <1>1, <1>3, <1>5, <1>6, <1>7 DEF RoundWork, BlocksHeld, Held, nodeVars, Tip
<1>10. ChainOK' /\ LastOnes' /\ RoundTypeOK'
  BY <1>1, <1>5, <1>6 DEF RoundWork, ChainOK, NodeTypeOK, LastOnes, RoundTypeOK, nodeVars, Tip
<1>11. QED
  BY <1>1, <1>2, <1>5, <1>6, <1>8, <1>9, <1>10 DEF RoundWork

\* What the receipts of a group say.
Receipts(g) == [i \in DOMAIN g |-> Receipt(g[i])]

LEMMA ReceiptsType ==
    ASSUME ChainOK, NEW g \in Seq(Tx)
    PROVE  /\ Receipts(g) \in Seq(Ran) /\ Len(Receipts(g)) = Len(g)
           /\ \A i \in 1..Len(g) : Receipts(g)[i] = [tx |-> g[i], at |-> Holder(g[i])]
<1>1. DOMAIN g = 1..Len(g) /\ Len(g) \in Nat /\ \A i \in 1..Len(g) : g[i] \in Tx
  BY LenProperties, ElementOfSeq
<1>2. ASSUME NEW t PROVE Holder(t) \in SUBSET Hash
  <2>1. \A m \in 1..Tip : BlockAt(m).hash \in Hash
    <3>1. \A m \in 1..Tip : m \in Nat /\ m <= Tip
      BY ChainFacts DEF ChainOK
    <3>2. \A m \in 1..Tip : BlockAt(m) \in Block
      BY <3>1, BlockAtHeld DEF Held
    <3>3. QED
      BY <3>2 DEF Block
  <2>2. QED
    BY <2>1 DEF Holder
<1>3. Receipts(g) \in [1..Len(g) -> Ran]
  BY <1>1, <1>2 DEF Receipts, Receipt, Ran
<1>4. Receipts(g) \in Seq(Ran) /\ Len(Receipts(g)) = Len(g)
  BY <1>1, <1>3, FunIsSeq
<1>5. QED
  BY <1>1, <1>4 DEF Receipts, Receipt

\* The steps change nothing but the record of one block; its new value is given.
Answered(b, k) == [b EXCEPT !.receipts = Put(@, k, Receipts(b.groups[k]))]
Appended(b, k) == [b EXCEPT !.txs = @ \o b.receipts[k], !.receipts = Without(@, k),
                            !.left = @ \ {k}]
GivenUp(b, k) == [b EXCEPT !.failed = TRUE, !.left = @ \ {k}]
Traced(b, n) == [b EXCEPT !.traces = <<BlockAt(n).hash>>]

LEMMA AnsweredFacts ==
    ASSUME ChainOK, NEW b \in Building, NEW k \in DOMAIN b.groups
    PROVE  /\ Answered(b, k) \in Building
           /\ \A f \in {"blk", "groups", "left", "txs", "failed", "traces"} :
                 Answered(b, k)[f] = b[f]
           /\ DOMAIN Answered(b, k).receipts = DOMAIN b.receipts \cup {k}
           /\ Answered(b, k).receipts[k] = Receipts(b.groups[k])
           /\ \A j \in DOMAIN b.receipts : j # k => Answered(b, k).receipts[j] = b.receipts[j]
<1>1. /\ b.groups \in Seq(Seq(Tx)) /\ b.receipts \in FunsTo(Reports) /\ k \in Nat
      /\ b.groups[k] \in Seq(Tx)
  <2>1. b.groups \in Seq(Seq(Tx)) /\ b.receipts \in FunsTo(Reports)
    BY DEF Building
  <2>2. DOMAIN b.groups = 1..Len(b.groups) /\ Len(b.groups) \in Nat
    BY <2>1, LenProperties
  <2>3. QED
    BY <2>1, <2>2, ElementOfSeq
<1>2. Receipts(b.groups[k]) \in Reports
  BY <1>1, ReceiptsType DEF Reports
<1>3. PICK r : r = b.receipts
  OBVIOUS
<1>4. PICK x : x = Receipts(b.groups[k])
  OBVIOUS
<1>5. PICK p : p = Put(r, k, x)
  OBVIOUS
<1>6. /\ p \in FunsTo(Reports) /\ DOMAIN p = DOMAIN r \cup {k} /\ p[k] = x
      /\ \A j \in DOMAIN r : j # k => p[j] = r[j]
  <2>1. r \in FunsTo(Reports) /\ x \in Reports /\ k \in Nat
    BY <1>1, <1>2, <1>3, <1>4
  <2>2. p \in FunsTo(Reports)
    BY <1>5, <2>1, PutFacts
  <2>3. DOMAIN p = DOMAIN r \cup {k} /\ p[k] = x /\ \A j \in DOMAIN r : j # k => p[j] = r[j]
    BY <1>5 DEF Put
  <2>4. QED
    BY <2>2, <2>3
<1>7. Answered(b, k) = [b EXCEPT !.receipts = p]
  BY <1>3, <1>4, <1>5 DEF Answered
<1>8. QED
  BY <1>3, <1>4, <1>6, <1>7 DEF Building

LEMMA AppendedFacts ==
    ASSUME NEW b \in Building, NEW k \in DOMAIN b.receipts
    PROVE  /\ Appended(b, k) \in Building
           /\ \A f \in {"blk", "groups", "failed", "traces"} : Appended(b, k)[f] = b[f]
           /\ Appended(b, k).left = b.left \ {k}
           /\ Appended(b, k).txs = b.txs \o b.receipts[k]
           /\ DOMAIN Appended(b, k).receipts = DOMAIN b.receipts \ {k}
           /\ \A j \in DOMAIN b.receipts \ {k} : Appended(b, k).receipts[j] = b.receipts[j]
<1>1. b.receipts \in FunsTo(Reports) /\ b.txs \in Seq(Ran) /\ b.receipts[k] \in Seq(Ran)
  <2>1. b.receipts \in FunsTo(Reports) /\ b.txs \in Seq(Ran)
    BY DEF Building
  <2>2. b.receipts[k] \in Reports
    BY <2>1, FunToFacts
  <2>3. QED
    BY <2>1, <2>2 DEF Reports
<1>2. b.txs \o b.receipts[k] \in Seq(Ran)
  BY <1>1, ConcatProperties
<1> DEFINE w == Without(b.receipts, k)
           c == b.txs \o b.receipts[k]
<1>3. /\ w \in FunsTo(Reports) /\ DOMAIN w = DOMAIN b.receipts \ {k}
      /\ \A j \in DOMAIN b.receipts \ {k} : w[j] = b.receipts[j]
  BY <1>1, WithoutFacts
<1>4. Appended(b, k) = [b EXCEPT !.txs = c, !.receipts = w, !.left = b.left \ {k}]
  BY DEF Appended, Building
<1>5. c \in Seq(Ran)
  BY <1>2
<1>6. b.txs \o b.receipts[k] = c
  OBVIOUS
<1> HIDE DEF w, c
<1>7. QED
  BY <1>3, <1>4, <1>5, <1>6 DEF Building

LEMMA GivenUpFacts ==
    ASSUME NEW b \in Building, NEW k
    PROVE  /\ GivenUp(b, k) \in Building /\ GivenUp(b, k).failed
           /\ \A f \in {"blk", "groups", "receipts", "txs", "traces"} : GivenUp(b, k)[f] = b[f]
  BY DEF GivenUp, Building

LEMMA TracedFacts ==
    ASSUME ChainOK, NEW b \in Building, NEW n \in Nat, n <= Tip
    PROVE  /\ Traced(b, n) \in Building /\ Traced(b, n).traces = <<BlockAt(n).hash>>
           /\ \A f \in {"blk", "groups", "left", "receipts", "txs", "failed"} :
                 Traced(b, n)[f] = b[f]
<1>1. BlockAt(n).hash \in Hash
  BY BlockAtHeld DEF Held, Block
<1>2. <<BlockAt(n).hash>> \in Seq(Hash)
  BY <1>1, OneIsSeq
<1>3. QED
  BY <1>2 DEF Traced, Building

\* What a step on block n leaves alone.
Beside == <<nodeVars, heights, asking, read, blocks, errs, pc>>

LEMMA createTxBatchFacts ==
    ASSUME RoundWork, NEW n, NEW k \in DOMAIN building[n].groups, createTxBatch(n, k)
    PROVE  /\ n \in DOMAIN building /\ k \in InHand(building[n])
           /\ k \notin DOMAIN building[n].receipts /\ Answered(building[n], k) \in Building
           /\ Answered(building[n], k).blk = building[n].blk
           /\ building' = [building EXCEPT ![n] = Answered(building[n], k)] /\ UNCHANGED Beside
<1>1. /\ n \in DOMAIN building /\ k \in InHand(building[n])
      /\ k \notin DOMAIN building[n].receipts
      /\ building' = [building EXCEPT ![n] = Answered(building[n], k)] /\ UNCHANGED Beside
  BY DEF createTxBatch, AsksReceipts, Beside, Answered, Receipts
<1>2. building[n] \in Building
  BY <1>1, PlaceFacts
<1>3. Answered(building[n], k) \in Building /\ Answered(building[n], k).blk = building[n].blk
  BY <1>2, AnsweredFacts DEF RoundWork
<1>4. QED
  BY <1>1, <1>3

LEMMA AppendTxsFacts ==
    ASSUME RoundWork, NEW n, NEW k, AppendTxs(n, k)
    PROVE  /\ n \in DOMAIN building /\ k \in DOMAIN building[n].receipts
           /\ Appended(building[n], k) \in Building
           /\ Appended(building[n], k).blk = building[n].blk
           /\ building' = [building EXCEPT ![n] = Appended(building[n], k)] /\ UNCHANGED Beside
<1>1. /\ n \in DOMAIN building /\ k \in DOMAIN building[n].receipts
      /\ building' = [building EXCEPT ![n] = Appended(building[n], k)] /\ UNCHANGED Beside
  BY DEF AppendTxs, Beside, Appended
<1>2. building[n] \in Building
  BY <1>1, PlaceFacts
<1>3. Appended(building[n], k) \in Building /\ Appended(building[n], k).blk = building[n].blk
  BY <1>1, <1>2, AppendedFacts
<1>4. QED
  BY <1>1, <1>3

LEMMA GroupFailsFacts ==
    ASSUME RoundWork, NEW n, NEW k, GroupFails(n, k)
    PROVE  /\ n \in DOMAIN building /\ k \notin DOMAIN building[n].receipts
           /\ GivenUp(building[n], k) \in Building
           /\ GivenUp(building[n], k).blk = building[n].blk
           /\ building' = [building EXCEPT ![n] = GivenUp(building[n], k)] /\ UNCHANGED Beside
<1>1. /\ n \in DOMAIN building /\ UNCHANGED Beside /\ k \notin DOMAIN building[n].receipts
      /\ building' = [building EXCEPT ![n] = SetFailed([building[n] EXCEPT !.left = @ \ {k}])]
  BY DEF GroupFails, AsksReceipts, Beside
<1>2. building[n] \in Building
  BY <1>1, PlaceFacts
<1>3. SetFailed([building[n] EXCEPT !.left = @ \ {k}]) = GivenUp(building[n], k)
  BY <1>2 DEF SetFailed, GivenUp, Building
<1>4. GivenUp(building[n], k) \in Building /\ GivenUp(building[n], k).blk = building[n].blk
  BY <1>2, GivenUpFacts
<1>5. QED
  BY <1>1, <1>3, <1>4

LEMMA TracesFacts ==
    ASSUME RoundWork, NEW n, GetTxInternalsByBlock(n)
    PROVE  /\ n \in DOMAIN building /\ n \in Nat /\ n <= Tip
           /\ Traced(building[n], n) \in Building
           /\ Traced(building[n], n).blk = building[n].blk
           /\ building' = [building EXCEPT ![n] = Traced(building[n], n)] /\ UNCHANGED Beside
<1>1. /\ n \in DOMAIN building /\ UNCHANGED Beside
      /\ building' = [building EXCEPT ![n] = Traced(building[n], n)]
  BY DEF GetTxInternalsByBlock, Beside, Traced
<1>2. building[n] \in Building /\ n \in Nat
  BY <1>1, PlaceFacts
<1>3. n <= Tip
  BY <1>1 DEF RoundWork, BlocksHeld, Held
<1>4. Traced(building[n], n) \in Building /\ Traced(building[n], n).blk = building[n].blk
  BY <1>2, <1>3, TracedFacts DEF RoundWork
<1>5. QED
  BY <1>1, <1>2, <1>3, <1>4

\* The steps that work on a block keep its header, and who has it.
WorksOn(n) ==
    \/ \E k \in DOMAIN building[n].groups : createTxBatch(n, k) \/ AppendTxs(n, k)
                                            \/ GroupFails(n, k)
    \/ GetTxInternalsByBlock(n)

LEMMA WorksOnFacts ==
    ASSUME RoundWork, NEW n \in DOMAIN building, WorksOn(n)
    PROVE  \E b \in Building : /\ b.blk = building[n].blk
                               /\ building' = [building EXCEPT ![n] = b] /\ UNCHANGED Beside
<1>1. ASSUME NEW k \in DOMAIN building[n].groups, createTxBatch(n, k)
      PROVE  \E b \in Building : /\ b.blk = building[n].blk
                                 /\ building' = [building EXCEPT ![n] = b] /\ UNCHANGED Beside
  BY <1>1, createTxBatchFacts
<1>2. ASSUME NEW k \in DOMAIN building[n].groups, AppendTxs(n, k)
      PROVE  \E b \in Building : /\ b.blk = building[n].blk
                                 /\ building' = [building EXCEPT ![n] = b] /\ UNCHANGED Beside
  BY <1>2, AppendTxsFacts
<1>3. ASSUME NEW k \in DOMAIN building[n].groups, GroupFails(n, k)
      PROVE  \E b \in Building : /\ b.blk = building[n].blk
                                 /\ building' = [building EXCEPT ![n] = b] /\ UNCHANGED Beside
  BY <1>3, GroupFailsFacts
<1>4. CASE GetTxInternalsByBlock(n)
  BY <1>4, TracesFacts
<1>5. QED
  BY <1>1, <1>2, <1>3, <1>4 DEF WorksOn

LEMMA NextSteps ==
    ASSUME [Next]_vars
    PROVE  \/ TakeHeight \/ Return
           \/ \E n \in asking : getBlockByNum(n) \/ NoBlock(n)
           \/ \E n \in DOMAIN read : TakeBlock(n)
           \/ \E n \in DOMAIN building : BlockFails(n) \/ SendBlock(n) \/ WorksOn(n)
           \/ [NodeStep]_nodeVars /\ UNCHANGED workVars
  BY DEF Next, Works, Fails, WorksOn, vars, NoReceipts, NullReceipt

LEMMA WorkKept == RoundWork /\ [Next]_vars => RoundWork'
<1> SUFFICES ASSUME RoundWork, [Next]_vars PROVE RoundWork'
  OBVIOUS
<1>1. CASE TakeHeight
  BY <1>1, TakeHeightKeeps
<1>2. CASE Return
  BY <1>2 DEF Return, RoundWork, ChainOK, NodeTypeOK, RoundTypeOK, LastOnes, OnePlace, BlocksHeld,
     Held, nodeVars, Tip
<1>3. ASSUME NEW n \in asking, getBlockByNum(n) PROVE RoundWork'
  BY <1>3, getBlockByNumKeeps
<1>4. ASSUME NEW n \in asking, NoBlock(n) PROVE RoundWork'
  BY <1>4 DEF NoBlock, RoundWork, ChainOK, NodeTypeOK, RoundTypeOK, LastOnes, OnePlace, BlocksHeld,
     Held, nodeVars, Tip
<1>5. ASSUME NEW n \in DOMAIN read, TakeBlock(n) PROVE RoundWork'
  BY <1>5, TakeBlockKeeps
<1>6. ASSUME NEW n \in DOMAIN building, BlockFails(n) PROVE RoundWork'
  BY <1>6, BlockFailsKeeps
<1>7. ASSUME NEW n \in DOMAIN building, SendBlock(n) PROVE RoundWork'
  BY <1>7, SendBlockKeeps
<1>8. ASSUME NEW n \in DOMAIN building, WorksOn(n) PROVE RoundWork'
  <2>1. PICK b \in Building : /\ b.blk = building[n].blk
                              /\ building' = [building EXCEPT ![n] = b] /\ UNCHANGED Beside
    BY <1>8, WorksOnFacts
  <2>2. UNCHANGED <<nodeVars, heights, asking, read, blocks, errs, pc>>
    BY <2>1 DEF Beside
  <2>3. QED
    BY <2>1, <2>2, WorkOnKeeps
<1>9. CASE [NodeStep]_nodeVars /\ UNCHANGED workVars
  BY <1>9, NodeStepKeeps
<1>10. QED
  BY <1>1, <1>2, <1>3, <1>4, <1>5, <1>6, <1>7, <1>8, <1>9, NextSteps

LEMMA WorkInvariant == Spec => []RoundWork
  BY InitWork, WorkKept, PTL DEF Spec

\* The types of the round: every height is in the range, every block is
\* numbered by its height.  (GetBlocks, src/fetch/fetch.go)
THEOREM RoundTypesHold == Spec => []TypeOK
  BY WorkInvariant, TypesFollow, PTL

----------------------------------------------------------------------------
(* The workers make one round: FetchRound. *)

\* The blocks read so far, as Run would see them.
Got == IF errs # {} \/ pc = "exited" THEN <<>> ELSE Headers

Outcome == IF errs # {} \/ pc = "exited" THEN "error"
           ELSE IF pc = "returned" THEN "blocks" ELSE "running"

LEMMA SameRound ==
    ASSUME UNCHANGED <<nodeVars, errs, pc, Headers>>
    PROVE  UNCHANGED Round!roundVars
  BY DEF Round!roundVars, Round!nodeVars, nodeVars

LEMMA RoundVars ==
    /\ Round!roundVars = <<<<chain, branch>>, Got, Outcome>>
    /\ Round!roundVars' = <<<<chain, branch>>', Got', Outcome'>>
  BY DEF Round!roundVars, Round!nodeVars, Got, Outcome

LEMMA HeadersFacts ==
    /\ DOMAIN Headers = DOMAIN read \cup DOMAIN building \cup DOMAIN blocks
    /\ \A n \in DOMAIN Headers :
          Headers[n] = IF n \in DOMAIN read THEN read[n]
                       ELSE IF n \in DOMAIN building THEN building[n].blk ELSE blocks[n].blk
  BY DEF Headers

\* A block that passes from one worker to another is the same block.
LEMMA HeadersSame ==
    ASSUME DOMAIN Headers' = DOMAIN Headers, \A n \in DOMAIN Headers : Headers'[n] = Headers[n]
    PROVE  Headers' = Headers
<1>1. Headers = [n \in DOMAIN Headers |-> Headers[n]]
  BY DEF Headers
<1>2. Headers' = [n \in DOMAIN Headers' |-> Headers'[n]]
  BY DEF Headers
<1>3. QED
  BY <1>1, <1>2

LEMMA ReadIsReadBlock ==
    ASSUME RoundWork, NEW n \in asking, getBlockByNum(n)
    PROVE  [Round!RoundNext]_Round!roundVars
<1>1. /\ pc = "running" /\ n <= Tip /\ read' = Put(read, n, BlockAt(n))
      /\ UNCHANGED <<nodeVars, heights, building, blocks, errs, fails, pc>>
  BY DEF getBlockByNum
<1>2. /\ n \in Low..(High - 1) /\ n \in Nat
      /\ n \notin DOMAIN read /\ n \notin DOMAIN building /\ n \notin DOMAIN blocks
  BY PlaceFacts DEF RoundWork, OnePlace
<1>3. CASE errs # {}
  <2>1. Got = <<>> /\ Got' = <<>> /\ Outcome = "error" /\ Outcome' = "error"
    BY <1>1, <1>3 DEF Got, Outcome
  <2>2. QED
    BY <1>1, <2>1, RoundVars DEF nodeVars
<1>4. CASE errs = {}
  <2>1. Headers' = [i \in DOMAIN Headers \cup {n} |-> IF i = n THEN BlockAt(n) ELSE Headers[i]]
    <3>1. /\ DOMAIN read' = DOMAIN read \cup {n}
          /\ \A i \in DOMAIN read' : read'[i] = IF i = n THEN BlockAt(n) ELSE read[i]
      BY <1>1 DEF Put
    <3>2. building' = building /\ blocks' = blocks
      BY <1>1
    <3>3. /\ DOMAIN Headers' = DOMAIN read' \cup DOMAIN building' \cup DOMAIN blocks'
          /\ \A i \in DOMAIN Headers' :
                Headers'[i] = IF i \in DOMAIN read' THEN read'[i]
                              ELSE IF i \in DOMAIN building' THEN building'[i].blk
                              ELSE blocks'[i].blk
          /\ Headers' = [i \in DOMAIN Headers' |-> Headers'[i]]
      BY DEF Headers
    <3>4. DOMAIN Headers' = DOMAIN Headers \cup {n}
      BY <3>1, <3>2, <3>3, HeadersFacts
    <3>5. \A i \in DOMAIN Headers' : Headers'[i] = IF i = n THEN BlockAt(n) ELSE Headers[i]
      BY <1>2, <3>1, <3>2, <3>3, <3>4, HeadersFacts
    <3>6. QED
      BY <3>3, <3>4, <3>5
  <2>2. Got = Headers /\ Got' = Headers' /\ Outcome = "running" /\ Outcome' = "running"
    BY <1>1, <1>4 DEF Got, Outcome
  <2>3. Round!Tip = Tip /\ Round!BlockAt(n) = BlockAt(n) /\ Round!nodeVars' = Round!nodeVars
    BY <1>1 DEF Round!Tip, Tip, Round!BlockAt, BlockAt, Round!BranchAt, BranchAt, Round!Genesis,
       Genesis, Round!NoHash, NoHash, Round!nodeVars, nodeVars
  <2>4. n \notin DOMAIN Headers
    BY <1>2, HeadersFacts
  <2>5. Round!ReadBlock(n)
    BY <1>1, <1>2, <2>1, <2>2, <2>3, <2>4 DEF Round!ReadBlock, Got, Outcome
  <2>6. QED
    BY <1>2, <2>5 DEF Round!RoundNext
<1>5. QED
  BY <1>3, <1>4

\* The first error ends the round, those after it change nothing.
LEMMA ErrorIsRoundFails ==
    ASSUME pc = "running", UNCHANGED nodeVars, errs' # {} \/ pc' = "exited"
    PROVE  [Round!RoundNext]_Round!roundVars
<1>1. Got' = <<>> /\ Outcome' = "error"
  BY DEF Got, Outcome
<1>2. CASE errs # {}
  <2>1. Got = <<>> /\ Outcome = "error"
    BY <1>2 DEF Got, Outcome
  <2>2. QED
    BY <1>1, <2>1, RoundVars DEF nodeVars
<1>3. CASE errs = {}
  <2>1. Outcome = "running"
    BY <1>3 DEF Outcome
  <2>2. Round!RoundFails
    BY <1>1, <2>1 DEF Round!RoundFails, Got, Outcome, Round!nodeVars, nodeVars
  <2>3. QED
    BY <2>2 DEF Round!RoundNext
<1>4. QED
  BY <1>2, <1>3

LEMMA ReturnIsRoundEnds ==
    ASSUME RoundWork, Return
    PROVE  [Round!RoundNext]_Round!roundVars
<1>1. /\ pc = "running" /\ NothingLeft /\ pc' = "returned"
      /\ UNCHANGED <<nodeVars, heights, asking, read, building, blocks, errs, fails>>
  BY DEF Return
<1>2. Headers' = Headers
  BY <1>1 DEF Headers
<1>3. CASE errs # {}
  <2>1. Got = <<>> /\ Got' = <<>> /\ Outcome = "error" /\ Outcome' = "error"
    BY <1>1, <1>3 DEF Got, Outcome
  <2>2. QED
    BY <1>1, <2>1, RoundVars DEF nodeVars
<1>4. CASE errs = {}
  <2>1. Got = Headers /\ Got' = Headers /\ Outcome = "running" /\ Outcome' = "blocks"
    BY <1>1, <1>2, <1>4 DEF Got, Outcome
  <2>2. DOMAIN Headers = Low..(High - 1)
    <3>1. Len(heights) = 0 /\ asking = {} /\ DOMAIN read = {} /\ DOMAIN building = {}
      BY <1>1 DEF NothingLeft
    <3>2. Low..(High - Len(heights) - 1) = Low..(High - 1)
      BY <3>1, PlaceFacts
    <3>3. QED
      BY <1>4, <3>1, <3>2, HeadersFacts DEF RoundWork, OnePlace
  <2>3. Round!RoundEnds
    BY <1>1, <2>1, <2>2 DEF Round!RoundEnds, Got, Outcome, Round!nodeVars, nodeVars
  <2>4. QED
    BY <2>3 DEF Round!RoundNext
<1>5. QED
  BY <1>3, <1>4

LEMMA PassedOn ==
    ASSUME RoundWork, NEW n,
           TakeBlock(n) \/ SendBlock(n) \/ (n \in DOMAIN building /\ WorksOn(n))
    PROVE  UNCHANGED <<nodeVars, errs, pc, Headers>>
<1> DEFINE Same == DOMAIN Headers' = DOMAIN Headers
                   /\ \A i \in DOMAIN Headers : Headers'[i] = Headers[i]
<1>0. /\ DOMAIN Headers' = DOMAIN read' \cup DOMAIN building' \cup DOMAIN blocks'
      /\ \A i \in DOMAIN Headers' :
            Headers'[i] = IF i \in DOMAIN read' THEN read'[i]
                          ELSE IF i \in DOMAIN building' THEN building'[i].blk
                          ELSE blocks'[i].blk
  BY DEF Headers
<1>1. CASE TakeBlock(n)
  <2>1. UNCHANGED <<nodeVars, blocks, errs, pc>>
    BY <1>1 DEF TakeBlock
  <2>2. /\ n \in DOMAIN read /\ n \notin DOMAIN building \cup DOMAIN blocks
        /\ DOMAIN read' = DOMAIN read \ {n} /\ \A i \in DOMAIN read' : read'[i] = read[i]
        /\ DOMAIN building' = DOMAIN building \cup {n}
        /\ \A i \in DOMAIN building : building'[i] = building[i]
        /\ building'[n] = Fresh(read[n])
    BY <1>1, TakeBlockKeeps
  <2>3. building'[n].blk = read[n]
    BY <2>2 DEF Fresh
  <2>4. \A i \in DOMAIN read : i \notin DOMAIN building
    BY DEF RoundWork, OnePlace
  <2>5. Same
    BY <1>0, <2>1, <2>2, <2>3, <2>4, HeadersFacts
  <2>6. QED
    BY <2>1, <2>5, HeadersSame
<1>2. CASE SendBlock(n)
  <2>1. UNCHANGED <<nodeVars, read, errs, pc>>
    BY <1>2 DEF SendBlock
  <2>2. /\ n \in DOMAIN building /\ n \notin DOMAIN blocks
        /\ DOMAIN building' = DOMAIN building \ {n}
        /\ \A i \in DOMAIN building' : building'[i] = building[i]
        /\ DOMAIN blocks' = DOMAIN blocks \cup {n}
        /\ \A i \in DOMAIN blocks : blocks'[i] = blocks[i]
        /\ blocks'[n] = [blk |-> building[n].blk, txs |-> building[n].txs,
                         traces |-> building[n].traces]
    BY <1>2, SendBlockKeeps
  <2>3. blocks'[n].blk = building[n].blk
    BY <2>2
  <2>4. n \notin DOMAIN read /\ \A i \in DOMAIN building : i \notin DOMAIN blocks
    BY <2>2 DEF RoundWork, OnePlace
  <2>5. Same
    BY <1>0, <2>1, <2>2, <2>3, <2>4, HeadersFacts
  <2>6. QED
    BY <2>1, <2>5, HeadersSame
<1>3. CASE n \in DOMAIN building /\ WorksOn(n)
  <2>1. PICK b \in Building : /\ b.blk = building[n].blk
                              /\ building' = [building EXCEPT ![n] = b] /\ UNCHANGED Beside
    BY <1>3, WorksOnFacts
  <2>2. /\ UNCHANGED <<nodeVars, read, blocks, errs, pc>>
        /\ DOMAIN building' = DOMAIN building
        /\ \A i \in DOMAIN building : building'[i].blk = building[i].blk
    <3>1. building \in FunsTo(Building)
      BY DEF RoundWork, RoundTypeOK
    <3>2. QED
      BY <1>3, <2>1, <3>1, ExceptFacts DEF Beside
  <2>3. Same
    BY <1>0, <2>2, HeadersFacts
  <2>4. QED
    BY <2>2, <2>3, HeadersSame
<1>4. QED
  BY <1>1, <1>2, <1>3

LEMMA StepsOfRound == RoundWork /\ [Next]_vars => [Round!RoundNext]_Round!roundVars
<1> SUFFICES ASSUME RoundWork, [Next]_vars PROVE [Round!RoundNext]_Round!roundVars
  OBVIOUS
<1>1. CASE TakeHeight
  <2>1. UNCHANGED <<nodeVars, errs, pc, Headers>>
    BY <1>1 DEF TakeHeight, Headers
  <2>2. QED
    BY <2>1, SameRound
<1>2. CASE Return
  BY <1>2, ReturnIsRoundEnds
<1>3. ASSUME NEW n \in asking, getBlockByNum(n) PROVE [Round!RoundNext]_Round!roundVars
  BY <1>3, ReadIsReadBlock
<1>4. ASSUME NEW n \in asking, NoBlock(n) PROVE [Round!RoundNext]_Round!roundVars
  <2>1. pc = "running" /\ UNCHANGED nodeVars /\ pc' = "exited"
    BY <1>4 DEF NoBlock
  <2>2. QED
    BY <2>1, ErrorIsRoundFails
<1>5. ASSUME NEW n \in DOMAIN building, BlockFails(n) PROVE [Round!RoundNext]_Round!roundVars
  <2>1. pc = "running" /\ UNCHANGED nodeVars /\ errs' # {}
    BY <1>5 DEF BlockFails
  <2>2. QED
    BY <2>1, ErrorIsRoundFails
<1>6. ASSUME NEW n, TakeBlock(n) \/ SendBlock(n) \/ (n \in DOMAIN building /\ WorksOn(n))
      PROVE  [Round!RoundNext]_Round!roundVars
  BY <1>6, PassedOn, SameRound
<1>7. CASE [NodeStep]_nodeVars /\ UNCHANGED workVars
  <2>1. Got' = Got /\ Outcome' = Outcome
    BY <1>7 DEF Got, Outcome, Headers, workVars
  <2>2. CASE NodeStep
    <3>1. Round!NodeStep
      BY <2>2 DEF Round!NodeStep, NodeStep, Round!Extend, Extend, Round!Reorg, Reorg, Round!Tip, Tip
    <3>2. Round!NodeMoves
      BY <2>1, <3>1 DEF Round!NodeMoves, Got, Outcome
    <3>3. QED
      BY <3>2 DEF Round!RoundNext
  <2>3. CASE UNCHANGED nodeVars
    BY <2>1, <2>3, RoundVars DEF nodeVars
  <2>4. QED
    BY <1>7, <2>2, <2>3
<1>8. \/ TakeHeight \/ Return
      \/ \E n \in asking : getBlockByNum(n) \/ NoBlock(n)
      \/ \E n \in DOMAIN building : BlockFails(n)
      \/ \E n : TakeBlock(n) \/ SendBlock(n) \/ (n \in DOMAIN building /\ WorksOn(n))
      \/ [NodeStep]_nodeVars /\ UNCHANGED workVars
  BY NextSteps
<1>9. QED
  BY <1>1, <1>2, <1>3, <1>4, <1>5, <1>6, <1>7, <1>8

\* To Run, the workers are one read of each block of the range, at some time:
\* it gets all blocks or, with the first error, none.  What module Fetcher
\* assumes of GetBlocks is FetchRound.  (GetBlocks, getBlocks, batchDealBlock)
THEOREM WorkersMakeOneRound == Spec => IsOneRound
<1>1. Init => Round!RoundInit
  <2> SUFFICES ASSUME Init PROVE Round!RoundInit
    OBVIOUS
  <2>1. Headers = <<>>
    BY DEF Init, Headers
  <2>2. errs = {} /\ pc = "running"
    BY DEF Init
  <2>3. QED
    BY <2>1, <2>2 DEF Round!RoundInit
<1>2. QED
  BY <1>1, WorkInvariant, StepsOfRound, PTL DEF Spec, IsOneRound, Round!RoundSpec

----------------------------------------------------------------------------
(* What a block being completed has of its transactions. *)

Names(s) == {s[i].tx : i \in DOMAIN s}

\* The transactions of the groups that are done, each once.
Collected(b) ==
    /\ Names(b.txs) = UNION {ToSet(b.groups[k]) : k \in DOMAIN b.groups \ b.left}
    /\ \A i, j \in DOMAIN b.txs : b.txs[i].tx = b.txs[j].tx => i = j

Filled(b) ==
    /\ b.groups = groupTxs(Txs[b.blk.hash])
    /\ b.left \subseteq DOMAIN b.groups /\ DOMAIN b.receipts \subseteq b.left
    /\ \A k \in DOMAIN b.receipts :
          /\ Len(b.receipts[k]) = Len(b.groups[k])
          /\ \A i \in 1..Len(b.groups[k]) : b.receipts[k][i].tx = b.groups[k][i]
    /\ ~b.failed => Collected(b)

LEMMA GroupTypes ==
    ASSUME NEW b \in Building, NEW k \in DOMAIN b.groups
    PROVE  /\ b.groups[k] \in Seq(Tx) /\ Len(b.groups[k]) \in Nat /\ k \in 1..Len(b.groups)
           /\ DOMAIN b.groups[k] = 1..Len(b.groups[k])
<1>1. b.groups \in Seq(Seq(Tx))
  BY DEF Building
<1>2. DOMAIN b.groups = 1..Len(b.groups) /\ Len(b.groups) \in Nat
  BY <1>1, LenProperties
<1>3. b.groups[k] \in Seq(Tx)
  BY <1>1, <1>2, ElementOfSeq
<1>4. QED
  BY <1>2, <1>3, LenProperties

LEMMA FreshFilled ==
    ASSUME NEW b \in Block, b.hash \in Hashes
    PROVE  Filled(Fresh(b))
<1> DEFINE f == Fresh(b)
<1>1. /\ f.blk = b /\ f.groups = groupTxs(Txs[b.hash]) /\ f.left = DOMAIN f.groups
      /\ f.receipts = <<>> /\ f.txs = <<>> /\ ~f.failed
  BY DEF Fresh
<1> HIDE DEF f
<1>2. DOMAIN f.txs = {} /\ DOMAIN f.receipts = {}
  BY <1>1
<1>3. Collected(f)
  BY <1>1, <1>2 DEF Collected, Names
<1>4. Filled(f)
  BY <1>1, <1>2, <1>3 DEF Filled
<1>5. QED
  BY <1>4 DEF f

LEMMA AnsweredFilled ==
    ASSUME ChainOK, NEW b \in Building, Filled(b), NEW k \in b.left
    PROVE  Filled(Answered(b, k))
<1>1. k \in DOMAIN b.groups
  BY DEF Filled
<1>2. PICK f : f = Answered(b, k)
  OBVIOUS
<1>3. /\ f.blk = b.blk /\ f.groups = b.groups /\ f.left = b.left /\ f.txs = b.txs
      /\ f.failed = b.failed
      /\ DOMAIN f.receipts = DOMAIN b.receipts \cup {k}
      /\ f.receipts[k] = Receipts(b.groups[k])
      /\ \A j \in DOMAIN b.receipts : j # k => f.receipts[j] = b.receipts[j]
  <2>1. \A x \in {"blk", "groups", "left", "txs", "failed", "traces"} : f[x] = b[x]
    BY <1>1, <1>2, AnsweredFacts
  <2>2. /\ DOMAIN f.receipts = DOMAIN b.receipts \cup {k}
        /\ f.receipts[k] = Receipts(b.groups[k])
        /\ \A j \in DOMAIN b.receipts : j # k => f.receipts[j] = b.receipts[j]
    BY <1>1, <1>2, AnsweredFacts
  <2>3. QED
    BY <2>1, <2>2
<1>4. /\ Len(f.receipts[k]) = Len(f.groups[k])
      /\ \A i \in 1..Len(f.groups[k]) : f.receipts[k][i].tx = f.groups[k][i]
  <2>1. b.groups[k] \in Seq(Tx)
    BY <1>1, GroupTypes
  <2>2. /\ Len(f.receipts[k]) = Len(f.groups[k])
        /\ \A i \in 1..Len(f.groups[k]) :
              f.receipts[k][i] = [tx |-> f.groups[k][i], at |-> Holder(f.groups[k][i])]
    BY <1>3, <2>1, ReceiptsType
  <2>3. ASSUME NEW i \in 1..Len(f.groups[k])
        PROVE  f.receipts[k][i].tx = f.groups[k][i]
    <3>1. f.receipts[k][i] = [tx |-> f.groups[k][i], at |-> Holder(f.groups[k][i])]
      BY <2>2
    <3>2. QED
      BY <3>1
  <2>4. QED
    BY <2>2, <2>3
<1>5. ~f.failed => Collected(f)
  BY <1>3 DEF Filled, Collected
<1>6. Filled(f)
  BY <1>3, <1>4, <1>5 DEF Filled
<1>7. QED
  BY <1>2, <1>6

LEMMA GivenUpFilled ==
    ASSUME NEW b \in Building, Filled(b), NEW k, k \notin DOMAIN b.receipts
    PROVE  Filled(GivenUp(b, k))
<1>1. PICK f : f = GivenUp(b, k)
  OBVIOUS
<1>2. /\ f.blk = b.blk /\ f.groups = b.groups /\ f.left = b.left \ {k} /\ f.failed = TRUE
      /\ f.receipts = b.receipts
  BY <1>1 DEF GivenUp, Building
<1>3. Filled(f)
  BY <1>2 DEF Filled
<1>4. QED
  BY <1>1, <1>3

LEMMA TracedFilled ==
    ASSUME NEW b \in Building, Filled(b), NEW n
    PROVE  Filled(Traced(b, n))
<1>1. PICK f : f = Traced(b, n)
  OBVIOUS
<1>2. /\ f.blk = b.blk /\ f.groups = b.groups /\ f.left = b.left /\ f.failed = b.failed
      /\ f.receipts = b.receipts /\ f.txs = b.txs
  BY <1>1 DEF Traced, Building
<1>3. Filled(f)
  BY <1>2 DEF Filled, Collected
<1>4. QED
  BY <1>1, <1>3

\* The receipts of a group, put behind the transactions that are there.
IsAppended(f, b, k) ==
    /\ f.blk = b.blk /\ f.groups = b.groups /\ f.left = b.left \ {k}
    /\ f.failed = b.failed /\ DOMAIN f.receipts = DOMAIN b.receipts \ {k}
    /\ \A j \in DOMAIN f.receipts : f.receipts[j] = b.receipts[j]
    /\ k \in DOMAIN b.groups /\ f.traces = b.traces
    /\ Len(b.txs) \in Nat /\ DOMAIN b.txs = 1..Len(b.txs) /\ f.txs \in Seq(Ran)
    /\ Len(f.txs) = Len(b.txs) + Len(b.groups[k]) /\ DOMAIN f.txs = 1..Len(f.txs)
    /\ \A i \in 1..Len(b.txs) : f.txs[i] = b.txs[i]
    /\ \A i \in 1..Len(b.groups[k]) : /\ f.txs[Len(b.txs) + i].tx = b.groups[k][i]
                                      /\ f.txs[Len(b.txs) + i] = b.receipts[k][i]

LEMMA AppendedParts ==
    ASSUME NEW b \in Building, Filled(b), NEW k \in DOMAIN b.receipts
    PROVE  IsAppended(Appended(b, k), b, k)
<1>0. PICK f : f = Appended(b, k)
  OBVIOUS
<1>1. k \in DOMAIN b.groups
  BY DEF Filled
<1>2. /\ \A x \in {"blk", "groups", "failed", "traces"} : f[x] = b[x]
      /\ f.left = b.left \ {k} /\ f.txs = b.txs \o b.receipts[k]
      /\ DOMAIN f.receipts = DOMAIN b.receipts \ {k}
      /\ \A j \in DOMAIN f.receipts : f.receipts[j] = b.receipts[j]
  BY <1>0, AppendedFacts
<1>3. b.txs \in Seq(Ran) /\ b.receipts[k] \in Seq(Ran)
  <2>1. b.receipts \in FunsTo(Reports) /\ b.txs \in Seq(Ran)
    BY DEF Building
  <2>2. b.receipts[k] \in Reports
    BY <2>1, FunToFacts
  <2>3. QED
    BY <2>1, <2>2 DEF Reports
<1>4. /\ Len(b.receipts[k]) = Len(b.groups[k])
      /\ \A i \in 1..Len(b.groups[k]) : b.receipts[k][i].tx = b.groups[k][i]
  BY DEF Filled
<1>5. PICK m : m = Len(b.txs)
  OBVIOUS
<1>6. PICK p : p = Len(b.groups[k])
  OBVIOUS
<1>7. PICK r : r = b.receipts[k]
  OBVIOUS
<1>8. m \in Nat /\ DOMAIN b.txs = 1..m /\ p \in Nat
  BY <1>1, <1>3, <1>5, <1>6, LenProperties, GroupTypes
<1>9. /\ f.txs \in Seq(Ran) /\ Len(f.txs) = m + p
      /\ \A i \in 1..(m + p) : f.txs[i] = IF i <= m THEN b.txs[i] ELSE r[i - m]
  <2>1. ASSUME NEW s \in Seq(Ran), NEW u \in Seq(Ran)
        PROVE  /\ s \o u \in Seq(Ran) /\ Len(s \o u) = Len(s) + Len(u)
               /\ \A i \in 1..(Len(s) + Len(u)) :
                     (s \o u)[i] = IF i <= Len(s) THEN s[i] ELSE u[i - Len(s)]
    BY ConcatProperties
  <2>2. r \in Seq(Ran) /\ Len(r) = p /\ f.txs = b.txs \o r
    BY <1>2, <1>3, <1>4, <1>6, <1>7
  <2>3. /\ b.txs \o r \in Seq(Ran) /\ Len(b.txs \o r) = Len(b.txs) + Len(r)
        /\ \A i \in 1..(Len(b.txs) + Len(r)) :
               (b.txs \o r)[i] = IF i <= Len(b.txs) THEN b.txs[i] ELSE r[i - Len(b.txs)]
    BY <1>3, <2>1, <2>2
  <2>4. QED
    BY <1>5, <2>2, <2>3
<1>10. \A i \in 1..m : f.txs[i] = b.txs[i]
  BY <1>8, <1>9
<1>11. ASSUME NEW i \in 1..p
       PROVE  f.txs[m + i] = r[i]
  <2>1. m + i \in 1..(m + p) /\ ~(m + i <= m) /\ (m + i) - m = i
    BY <1>8
  <2>2. QED
    BY <1>9, <2>1
<1>12. DOMAIN f.txs = 1..Len(f.txs)
  BY <1>9, LenProperties
<1>13. f.blk = b.blk /\ f.groups = b.groups /\ f.failed = b.failed /\ f.traces = b.traces
  BY <1>2
<1>14. \A i \in 1..p : f.txs[m + i].tx = b.groups[k][i] /\ f.txs[m + i] = b.receipts[k][i]
  BY <1>4, <1>6, <1>7, <1>11
<1>15. /\ f.txs \in Seq(Ran) /\ Len(f.txs) = Len(b.txs) + Len(b.groups[k])
       /\ Len(b.txs) \in Nat /\ DOMAIN b.txs = 1..Len(b.txs)
  BY <1>5, <1>6, <1>8, <1>9
<1>16. IsAppended(f, b, k)
  BY <1>1, <1>2, <1>5, <1>6, <1>10, <1>12, <1>13, <1>14, <1>15 DEF IsAppended
<1>17. QED
  BY <1>0, <1>16

LEMMA AppendedFilled ==
    ASSUME NEW b \in Building, b.blk.hash \in Hashes, Filled(b), NEW k \in DOMAIN b.receipts
    PROVE  Filled(Appended(b, k))
<1>1. PICK f : f = Appended(b, k)
  OBVIOUS
<1>a. PICK m : m = Len(b.txs)
  OBVIOUS
<1>b. PICK p : p = Len(b.groups[k])
  OBVIOUS
<1>c. IsAppended(f, b, k)
  BY <1>1, AppendedParts
<1>2. /\ f.blk = b.blk /\ f.groups = b.groups /\ f.left = b.left \ {k} /\ k \in DOMAIN b.groups
      /\ f.failed = b.failed /\ DOMAIN f.receipts = DOMAIN b.receipts \ {k} /\ k \in b.left
      /\ \A j \in DOMAIN f.receipts : f.receipts[j] = b.receipts[j]
  <2>1. /\ f.blk = b.blk /\ f.groups = b.groups /\ f.left = b.left \ {k}
        /\ f.failed = b.failed /\ DOMAIN f.receipts = DOMAIN b.receipts \ {k}
    BY <1>c DEF IsAppended
  <2>2. k \in DOMAIN b.groups /\ \A j \in DOMAIN f.receipts : f.receipts[j] = b.receipts[j]
    BY <1>c DEF IsAppended
  <2>3. k \in b.left
    BY DEF Filled
  <2>4. QED
    BY <2>1, <2>2, <2>3
<1>3. /\ m \in Nat /\ DOMAIN b.txs = 1..m /\ DOMAIN f.txs = 1..(m + p)
      /\ \A i \in 1..m : f.txs[i] = b.txs[i]
      /\ \A i \in 1..p : f.txs[m + i].tx = b.groups[k][i]
  <2>1. Len(b.txs) \in Nat /\ DOMAIN b.txs = 1..Len(b.txs)
    BY <1>c DEF IsAppended
  <2>2. DOMAIN f.txs = 1..Len(f.txs) /\ Len(f.txs) = Len(b.txs) + Len(b.groups[k])
    BY <1>c DEF IsAppended
  <2>3. \A i \in 1..Len(b.txs) : f.txs[i] = b.txs[i]
    BY <1>c DEF IsAppended
  <2>4. \A i \in 1..Len(b.groups[k]) : f.txs[Len(b.txs) + i].tx = b.groups[k][i]
    BY <1>c DEF IsAppended
  <2>5. QED
    BY <1>a, <1>b, <2>1, <2>2, <2>3, <2>4
<1>4. p \in Nat /\ DOMAIN b.groups[k] = 1..p
  BY <1>2, <1>b, GroupTypes
<1>5. \A i \in 1..(m + p) : i \in 1..m \/ (i - m \in 1..p /\ i = m + (i - m))
  BY <1>3, <1>4
<1>6. \A i \in 1..p : m + i \in 1..(m + p)
  BY <1>3, <1>4
<1>7. \A i \in 1..m : i \in 1..(m + p)
  BY <1>3, <1>4
<1>8. ASSUME ~b.failed PROVE Collected(f)
  <2>0. Collected(b)
    BY <1>8 DEF Filled
  <2>1. Names(f.txs) = Names(b.txs) \cup ToSet(b.groups[k])
    <3>1. Names(f.txs) \subseteq Names(b.txs) \cup ToSet(b.groups[k])
      <4> SUFFICES ASSUME NEW i \in 1..(m + p)
                   PROVE  f.txs[i].tx \in Names(b.txs) \cup ToSet(b.groups[k])
        BY <1>3 DEF Names
      <4>1. CASE i \in 1..m
        BY <1>3, <4>1 DEF Names
      <4>2. CASE i - m \in 1..p /\ i = m + (i - m)
        <5>1. f.txs[i].tx = b.groups[k][i - m]
          BY <1>3, <4>2
        <5>2. QED
          BY <1>4, <4>2, <5>1 DEF ToSet
      <4>3. QED
        BY <1>5, <4>1, <4>2
    <3>2. Names(b.txs) \subseteq Names(f.txs)
      BY <1>3, <1>7 DEF Names
    <3>3. ToSet(b.groups[k]) \subseteq Names(f.txs)
      BY <1>3, <1>4, <1>6 DEF Names, ToSet
    <3>4. QED
      BY <3>1, <3>2, <3>3
  <2>2. DOMAIN f.groups \ f.left = (DOMAIN b.groups \ b.left) \cup {k}
    BY <1>2
  <2>3. Names(f.txs) = UNION {ToSet(f.groups[j]) : j \in DOMAIN f.groups \ f.left}
    BY <1>2, <2>0, <2>1, <2>2 DEF Collected
  <2>4. \A i \in 1..m, j \in 1..p : b.txs[i].tx # b.groups[k][j]
    <3> SUFFICES ASSUME NEW i \in 1..m, NEW j \in 1..p, b.txs[i].tx = b.groups[k][j]
                 PROVE  FALSE
      OBVIOUS
    <3>1. b.groups[k][j] \in UNION {ToSet(b.groups[l]) : l \in DOMAIN b.groups \ b.left}
      BY <1>3, <2>0 DEF Collected, Names
    <3>2. PICK l \in DOMAIN b.groups \ b.left : b.groups[k][j] \in ToSet(b.groups[l])
      BY <3>1
    <3>3. PICK q \in DOMAIN b.groups[l] : b.groups[k][j] = b.groups[l][q]
      BY <3>2 DEF ToSet
    <3>4. q \in 1..Len(b.groups[l]) /\ l \in 1..Len(b.groups) /\ k \in 1..Len(b.groups)
      BY <1>2, <3>3, GroupTypes
    <3>5. j \in 1..Len(b.groups[k])
      BY <1>b
    <3>6. k = l
      <4>1. Txs[b.blk.hash] \in Seq(Tx) /\ IsInjective(Txs[b.blk.hash])
        BY TxsFacts
      <4>2. b.groups = groupTxs(Txs[b.blk.hash])
        BY DEF Filled
      <4>3. Apart(b.groups)
        BY <4>1, <4>2, GroupsApart
      <4>4. QED
        BY <3>3, <3>4, <3>5, <4>3 DEF Apart
    <3>7. QED
      BY <1>2, <3>6
  <2>5. \A i, j \in 1..p : b.groups[k][i] = b.groups[k][j] => i = j
    <3>1. Txs[b.blk.hash] \in Seq(Tx) /\ IsInjective(Txs[b.blk.hash])
      BY TxsFacts
    <3>2. b.groups = groupTxs(Txs[b.blk.hash])
      BY DEF Filled
    <3>3. k \in 1..Len(b.groups)
      BY <1>2, GroupTypes
    <3>4. Apart(b.groups)
      BY <3>1, <3>2, GroupsApart
    <3>5. QED
      BY <1>b, <3>3, <3>4 DEF Apart
  <2>6. ASSUME NEW i \in DOMAIN f.txs, NEW j \in DOMAIN f.txs, f.txs[i].tx = f.txs[j].tx
        PROVE  i = j
    <3>1. CASE i \in 1..m /\ j \in 1..m
      BY <1>3, <2>0, <2>6, <3>1 DEF Collected
    <3>2. CASE i \in 1..m /\ j \notin 1..m
      <4>1. j - m \in 1..p /\ f.txs[j].tx = b.groups[k][j - m] /\ f.txs[i] = b.txs[i]
        BY <1>3, <1>5, <3>2
      <4>2. QED
        BY <2>4, <2>6, <3>2, <4>1
    <3>3. CASE i \notin 1..m /\ j \in 1..m
      <4>1. i - m \in 1..p /\ f.txs[i].tx = b.groups[k][i - m] /\ f.txs[j] = b.txs[j]
        BY <1>3, <1>5, <3>3
      <4>2. QED
        BY <2>4, <2>6, <3>3, <4>1
    <3>4. CASE i \notin 1..m /\ j \notin 1..m
      <4>1. /\ i - m \in 1..p /\ f.txs[i].tx = b.groups[k][i - m]
            /\ j - m \in 1..p /\ f.txs[j].tx = b.groups[k][j - m]
        BY <1>3, <1>5, <3>4
      <4>2. i - m = j - m
        BY <2>5, <2>6, <4>1
      <4>3. i \in Int /\ j \in Int /\ m \in Int
        BY <1>3
      <4>4. QED
        BY <4>2, <4>3
    <3>5. QED
      BY <3>1, <3>2, <3>3, <3>4
  <2>7. QED
    BY <2>3, <2>6 DEF Collected
<1>9. Filled(f)
  BY <1>2, <1>8 DEF Filled
<1>10. QED
  BY <1>1, <1>9

----------------------------------------------------------------------------
(* One worker for the receipts: the transactions stay in order. *)

\* The first d groups are done, and at most the next one is waiting.
OrderedAt(b, d) ==
    /\ d \in 0..Len(b.groups)
    /\ b.left = (d + 1)..Len(b.groups) /\ DOMAIN b.receipts \subseteq {d + 1}
    /\ Len(b.txs) = IF d = Len(b.groups) THEN Len(Txs[b.blk.hash]) ELSE Start(d + 1)
    /\ \A i \in 1..Len(b.txs) : b.txs[i].tx = Txs[b.blk.hash][i]

Ordered(b) == ~b.failed => \E d \in 0..Len(b.groups) : OrderedAt(b, d)

LEMMA FreshOrdered ==
    ASSUME NEW b \in Block, b.hash \in Hashes
    PROVE  Ordered(Fresh(b))
<1>1. PICK f : f = Fresh(b)
  OBVIOUS
<1>2. PICK ts : ts = Txs[b.hash]
  OBVIOUS
<1>3. /\ f.blk = b /\ f.groups = groupTxs(ts) /\ f.left = DOMAIN f.groups
      /\ f.receipts = <<>> /\ f.txs = <<>>
  BY <1>1, <1>2 DEF Fresh
<1>4. ts \in Seq(Tx)
  BY <1>2, TxsFacts
<1>5. /\ f.groups \in Seq(Seq(Tx)) /\ Len(f.groups) \in Nat /\ Len(ts) \in Nat
      /\ Len(ts) <= Start(Len(f.groups) + 1)
  BY <1>3, <1>4, GroupFacts
<1>6. DOMAIN f.groups = 1..Len(f.groups)
  BY <1>5, LenProperties
<1>7. Len(f.txs) = 0 /\ DOMAIN f.receipts = {} /\ Start(1) = 0
  BY <1>3, Starts
<1>8. Len(f.groups) = 0 => Len(ts) = 0
  BY <1>5, <1>7
<1>9. OrderedAt(f, 0)
  BY <1>2, <1>3, <1>5, <1>6, <1>7, <1>8 DEF OrderedAt
<1>10. QED
  BY <1>1, <1>5, <1>9 DEF Ordered

\* The one worker has the first group that is not done.
LEMMA FirstInHand ==
    ASSUME Workers = 1, NEW b \in Building, NEW d, OrderedAt(b, d), NEW k \in InHand(b)
    PROVE  k = d + 1
<1>1. b.groups \in Seq(Seq(Tx)) /\ Len(b.groups) \in Nat
  BY LenProperties DEF Building
<1>2. /\ d \in Nat /\ d <= Len(b.groups) /\ b.left = (d + 1)..Len(b.groups) /\ k \in b.left
      /\ Cardinality({j \in b.left : j < k}) < 1
  BY <1>1 DEF OrderedAt, InHand
<1> DEFINE T == {j \in b.left : j < k}
<1>3. IsFiniteSet(T)
  <2>0. d + 1 \in Int /\ Len(b.groups) \in Int
    BY <1>1, <1>2
  <2>1. IsFiniteSet((d + 1)..Len(b.groups))
    BY <2>0, FS_Interval
  <2>2. T \subseteq (d + 1)..Len(b.groups)
    BY <1>2
  <2>3. QED
    BY <2>1, <2>2, FS_Subset
<1>4. Cardinality(T) \in Nat /\ Cardinality(T) < 1
  BY <1>2, <1>3, FS_CardinalityType
<1>5. T = {}
  <2>1. Cardinality(T) = 0
    BY <1>4
  <2>2. QED
    BY <1>3, <2>1, FS_EmptySet
<1>6. k \in Int /\ d + 1 <= k /\ k <= Len(b.groups)
  BY <1>1, <1>2
<1>7. d + 1 \in b.left
  BY <1>1, <1>2, <1>6
<1>8. ~(d + 1 < k)
  BY <1>5, <1>7
<1>9. QED
  BY <1>2, <1>6, <1>8

LEMMA AnsweredOrdered ==
    ASSUME Workers = 1, ChainOK, NEW b \in Building, Ordered(b), NEW k \in InHand(b),
           k \in DOMAIN b.groups
    PROVE  Ordered(Answered(b, k))
<1>1. PICK f : f = Answered(b, k)
  OBVIOUS
<1>2. /\ f.blk = b.blk /\ f.groups = b.groups /\ f.left = b.left /\ f.txs = b.txs
      /\ f.failed = b.failed /\ DOMAIN f.receipts = DOMAIN b.receipts \cup {k}
  <2>1. \A x \in {"blk", "groups", "left", "txs", "failed", "traces"} : f[x] = b[x]
    BY <1>1, AnsweredFacts
  <2>2. DOMAIN f.receipts = DOMAIN b.receipts \cup {k}
    BY <1>1, AnsweredFacts
  <2>3. QED
    BY <2>1, <2>2
<1>3. ASSUME NEW d \in 0..Len(b.groups), OrderedAt(b, d) PROVE OrderedAt(f, d)
  <2>1. k = d + 1
    BY <1>3, FirstInHand
  <2>2. QED
    BY <1>2, <1>3, <2>1 DEF OrderedAt
<1>4. Ordered(f)
  BY <1>2, <1>3 DEF Ordered
<1>5. QED
  BY <1>1, <1>4

LEMMA AppendedOrdered ==
    ASSUME NEW b \in Building, b.blk.hash \in Hashes, Filled(b), Ordered(b),
           NEW k \in DOMAIN b.receipts
    PROVE  Ordered(Appended(b, k))
<1>1. PICK f : f = Appended(b, k)
  OBVIOUS
<1>2. IsAppended(f, b, k)
  BY <1>1, AppendedParts
<1>3. PICK ts : ts = Txs[b.blk.hash]
  OBVIOUS
<1>4. PICK g : g = b.groups
  OBVIOUS
<1>5. ts \in Seq(Tx) /\ g = groupTxs(ts)
  BY <1>3, <1>4, TxsFacts DEF Filled
<1>6. /\ Len(g) \in Nat /\ Len(ts) \in Nat /\ Len(ts) <= Start(Len(g) + 1)
      /\ DOMAIN g = 1..Len(g) /\ Batch \in Nat \ {0}
  BY <1>5, GroupFacts, LenProperties, AtLeastOne
<1>7. ASSUME NEW d \in 0..Len(g), OrderedAt(b, d), ~b.failed
      PROVE  \E e \in 0..Len(g) : OrderedAt(f, e)
  <2>1. k = d + 1 /\ k \in DOMAIN g /\ d \in Nat
    BY <1>2, <1>4, <1>6, <1>7 DEF OrderedAt, IsAppended
  <2>a. PICK K : K = Len(g)
    OBVIOUS
  <2>b. K \in Nat /\ d \in 0..K /\ k \in 1..K
    BY <1>6, <1>7, <2>1, <2>a
  <2>c. d # K /\ k \in Nat \ {0} /\ (k < K => k + 1 \in 1..K) /\ (k # K => k < K)
    BY <2>1, <2>b
  <2>2. k \in 1..Len(g) /\ d # Len(g) /\ k \in Nat \ {0}
    BY <2>a, <2>b, <2>c
  <2>3. PICK m : m = Len(b.txs)
    OBVIOUS
  <2>4. PICK p : p = Len(g[k])
    OBVIOUS
  <2>5. /\ m = Start(k) /\ m \in Nat
        /\ \A i \in 1..m : b.txs[i].tx = ts[i]
    <3>1. m = Start(k) /\ \A i \in 1..m : b.txs[i].tx = ts[i]
      BY <1>3, <1>4, <1>7, <2>1, <2>2, <2>3 DEF OrderedAt
    <3>2. QED
      BY <2>2, <3>1, Starts
  <2>6. /\ p \in Nat /\ \A i \in 1..p : g[k][i] = ts[m + i]
        /\ p = IF m + Batch <= Len(ts) THEN Batch ELSE Len(ts) - m
    BY <1>5, <2>2, <2>4, <2>5, GroupFacts
  <2>7. /\ Len(f.txs) = m + p /\ \A i \in 1..m : f.txs[i] = b.txs[i]
        /\ \A i \in 1..p : f.txs[m + i].tx = g[k][i]
    BY <1>2, <1>4, <2>3, <2>4 DEF IsAppended
  <2>8. \A i \in 1..(m + p) : f.txs[i].tx = ts[i]
    <3> SUFFICES ASSUME NEW i \in 1..(m + p) PROVE f.txs[i].tx = ts[i]
      OBVIOUS
    <3>1. CASE i \in 1..m
      BY <2>5, <2>7, <3>1
    <3>2. CASE i \notin 1..m
      <4>1. i - m \in 1..p /\ m + (i - m) = i
        BY <2>5, <2>6, <3>2
      <4>2. f.txs[m + (i - m)].tx = g[k][i - m] /\ g[k][i - m] = ts[m + (i - m)]
        BY <2>6, <2>7, <4>1
      <4>3. QED
        BY <4>1, <4>2
    <3>3. QED
      BY <3>1, <3>2
  <2>9. Start(k + 1) = m + Batch /\ (k < Len(g) => Start(k + 1) < Len(ts))
    <3>1. Start(k + 1) = m + Batch
      BY <2>2, <2>5, Starts
    <3>2. ASSUME k < Len(g) PROVE Start(k + 1) < Len(ts)
      <4>1. k + 1 \in 1..Len(g)
        BY <2>a, <2>c, <3>2
      <4>2. QED
        BY <1>5, <4>1, GroupFacts
    <3>3. QED
      BY <3>1, <3>2
  <2>10. m + p = IF k = Len(g) THEN Len(ts) ELSE Start(k + 1)
    <3>1. CASE k = Len(g)
      <4>1. Len(ts) <= m + Batch
        BY <1>6, <2>9, <3>1
      <4>2. QED
        BY <1>6, <2>5, <2>6, <3>1, <4>1
    <3>2. CASE k # Len(g)
      <4>1. k < Len(g)
        BY <2>a, <2>c, <3>2
      <4>2. m + Batch < Len(ts)
        BY <2>9, <4>1
      <4>3. QED
        BY <1>6, <2>5, <2>6, <2>9, <3>2, <4>2
    <3>3. QED
      BY <3>1, <3>2
  <2>11. f.left = (k + 1)..Len(g) /\ DOMAIN f.receipts = {}
    <3>1. f.left = ((d + 1)..Len(g)) \ {k} /\ DOMAIN f.receipts = DOMAIN b.receipts \ {k}
      BY <1>2, <1>4, <1>7 DEF IsAppended, OrderedAt
    <3>2. DOMAIN b.receipts \subseteq {k}
      BY <1>7, <2>1 DEF OrderedAt
    <3>3. (d + 1)..Len(g) \ {k} = (k + 1)..Len(g)
      BY <1>6, <2>1
    <3>4. QED
      BY <3>1, <3>2, <3>3
  <2>12. f.groups = g /\ f.blk = b.blk /\ k \in 0..Len(g)
    BY <1>2, <1>4, <1>6, <2>2 DEF IsAppended
  <2>13. OrderedAt(f, k)
    BY <1>3, <2>7, <2>8, <2>10, <2>11, <2>12 DEF OrderedAt
  <2>14. QED
    BY <2>12, <2>13
<1>8. f.failed = b.failed /\ f.groups = g
  BY <1>2, <1>4 DEF IsAppended
<1>9. Ordered(f)
  BY <1>4, <1>7, <1>8 DEF Ordered
<1>10. QED
  BY <1>1, <1>9

LEMMA GivenUpOrdered == ASSUME NEW b \in Building, NEW k PROVE Ordered(GivenUp(b, k))
  BY GivenUpFacts DEF Ordered

LEMMA TracedOrdered ==
    ASSUME NEW b \in Building, Ordered(b), NEW n
    PROVE  Ordered(Traced(b, n))
<1>1. PICK f : f = Traced(b, n)
  OBVIOUS
<1>2. /\ f.blk = b.blk /\ f.groups = b.groups /\ f.left = b.left /\ f.failed = b.failed
      /\ f.receipts = b.receipts /\ f.txs = b.txs
  BY <1>1 DEF Traced, Building
<1>3. Ordered(f)
  BY <1>2 DEF Ordered, OrderedAt
<1>4. QED
  BY <1>1, <1>3

\* When no group is left, they are the transactions of the block.
LEMMA OrderedAtTheEnd ==
    ASSUME NEW b \in Building, b.blk.hash \in Hashes, Ordered(b), b.left = {}, ~b.failed
    PROVE  [i \in DOMAIN b.txs |-> b.txs[i].tx] = Txs[b.blk.hash]
<1>1. PICK ts : ts = Txs[b.blk.hash]
  OBVIOUS
<1>2. ts \in Seq(Tx)
  BY <1>1, TxsFacts
<1>3. b.groups \in Seq(Seq(Tx)) /\ Len(b.groups) \in Nat /\ b.txs \in Seq(Ran)
  BY LenProperties DEF Building
<1>4. PICK d \in 0..Len(b.groups) : OrderedAt(b, d)
  BY DEF Ordered
<1>5. d = Len(b.groups)
  <2>1. (d + 1)..Len(b.groups) = {}
    BY <1>4 DEF OrderedAt
  <2>2. PICK K : K = Len(b.groups)
    OBVIOUS
  <2>3. K \in Nat /\ d \in 0..K /\ (d + 1)..K = {}
    BY <1>3, <2>1, <2>2
  <2>4. d = K
    BY <2>3
  <2>5. QED
    BY <2>2, <2>4
<1>6. Len(b.txs) = Len(ts) /\ \A i \in 1..Len(b.txs) : b.txs[i].tx = ts[i]
  BY <1>1, <1>4, <1>5 DEF OrderedAt
<1>7. DOMAIN b.txs = 1..Len(ts) /\ ts \in [1..Len(ts) -> Tx]
  BY <1>2, <1>3, <1>6, LenProperties
<1>8. \A i \in 1..Len(ts) : b.txs[i].tx = ts[i]
  BY <1>6
<1>9. [i \in DOMAIN b.txs |-> b.txs[i].tx] = [i \in 1..Len(ts) |-> ts[i]]
  BY <1>7, <1>8
<1>10. QED
  BY <1>1, <1>7, <1>9

----------------------------------------------------------------------------
(* Each step keeps what is being put together. *)

AllFilled == \A n \in DOMAIN building : Filled(building[n])

AllOrdered ==
    Workers = 1 => /\ \A n \in DOMAIN building : Ordered(building[n])
                   /\ TxsInOrder

LEMMA OneChanged ==
    ASSUME RoundWork, NEW n \in DOMAIN building, NEW b \in Building,
           building' = [building EXCEPT ![n] = b]
    PROVE  /\ DOMAIN building' = DOMAIN building /\ building'[n] = b
           /\ \A i \in DOMAIN building : i # n => building'[i] = building[i]
<1>1. building \in FunsTo(Building)
  BY DEF RoundWork, RoundTypeOK
<1>2. QED
  BY <1>1, ExceptFacts

LEMMA InHandLeft == ASSUME NEW b, NEW k \in InHand(b) PROVE k \in b.left
  BY DEF InHand

LEMMA HashKnown ==
    ASSUME RoundWork, NEW n \in DOMAIN building
    PROVE  building[n] \in Building /\ building[n].blk.hash \in Hashes
  BY PlaceFacts DEF RoundWork, BlocksHeld, Held

LEMMA WorksOnKeepsContent ==
    ASSUME RoundWork, AllFilled, AllOrdered, NEW n \in DOMAIN building, WorksOn(n)
    PROVE  AllFilled' /\ AllOrdered'
<1>0. building[n] \in Building /\ building[n].blk.hash \in Hashes /\ Filled(building[n])
      /\ (Workers = 1 => Ordered(building[n])) /\ ChainOK
  BY HashKnown DEF AllFilled, AllOrdered, RoundWork
<1>1. ASSUME NEW b \in Building, building' = [building EXCEPT ![n] = b], UNCHANGED Beside,
             Filled(b), Workers = 1 => Ordered(b)
      PROVE  AllFilled' /\ AllOrdered'
  <2>1. /\ DOMAIN building' = DOMAIN building /\ building'[n] = b
        /\ \A i \in DOMAIN building : i # n => building'[i] = building[i]
    BY <1>1, OneChanged
  <2>2. blocks' = blocks
    BY <1>1 DEF Beside
  <2>3. AllFilled'
    BY <1>1, <2>1 DEF AllFilled
  <2>4. \A i \in DOMAIN building' : building'[i] = b \/ (i \in DOMAIN building
                                                         /\ building'[i] = building[i])
    BY <2>1
  <2>5. Workers = 1 => \A i \in DOMAIN building' : Ordered(building'[i])
    BY <1>1, <2>4 DEF AllOrdered
  <2>6. Workers = 1 => TxsInOrder'
    BY <2>2 DEF AllOrdered, TxsInOrder
  <2>7. QED
    BY <2>3, <2>5, <2>6 DEF AllOrdered
<1>2. ASSUME NEW k \in DOMAIN building[n].groups, createTxBatch(n, k)
      PROVE  AllFilled' /\ AllOrdered'
  <2>1. /\ k \in InHand(building[n]) /\ Answered(building[n], k) \in Building
        /\ building' = [building EXCEPT ![n] = Answered(building[n], k)] /\ UNCHANGED Beside
    BY <1>2, createTxBatchFacts
  <2>2. Filled(Answered(building[n], k))
    BY <1>0, <2>1, InHandLeft, AnsweredFilled
  <2>3. Workers = 1 => Ordered(Answered(building[n], k))
    BY <1>0, <2>1, AnsweredOrdered
  <2>4. QED
    BY <1>1, <2>1, <2>2, <2>3
<1>3. ASSUME NEW k \in DOMAIN building[n].groups, AppendTxs(n, k)
      PROVE  AllFilled' /\ AllOrdered'
  <2>1. /\ k \in DOMAIN building[n].receipts /\ Appended(building[n], k) \in Building
        /\ building' = [building EXCEPT ![n] = Appended(building[n], k)] /\ UNCHANGED Beside
    BY <1>3, AppendTxsFacts
  <2>2. Filled(Appended(building[n], k))
    BY <1>0, <2>1, AppendedFilled
  <2>3. Workers = 1 => Ordered(Appended(building[n], k))
    BY <1>0, <2>1, AppendedOrdered
  <2>4. QED
    BY <1>1, <2>1, <2>2, <2>3
<1>4. ASSUME NEW k \in DOMAIN building[n].groups, GroupFails(n, k)
      PROVE  AllFilled' /\ AllOrdered'
  <2>1. /\ k \notin DOMAIN building[n].receipts /\ GivenUp(building[n], k) \in Building
        /\ building' = [building EXCEPT ![n] = GivenUp(building[n], k)] /\ UNCHANGED Beside
    BY <1>4, GroupFailsFacts
  <2>2. Filled(GivenUp(building[n], k))
    BY <1>0, <2>1, GivenUpFilled
  <2>3. Ordered(GivenUp(building[n], k))
    BY <1>0, GivenUpOrdered
  <2>4. QED
    BY <1>1, <2>1, <2>2, <2>3
<1>5. CASE GetTxInternalsByBlock(n)
  <2>1. /\ Traced(building[n], n) \in Building
        /\ building' = [building EXCEPT ![n] = Traced(building[n], n)] /\ UNCHANGED Beside
    BY <1>5, TracesFacts
  <2>2. Filled(Traced(building[n], n))
    BY <1>0, TracedFilled
  <2>3. Workers = 1 => Ordered(Traced(building[n], n))
    BY <1>0, TracedOrdered
  <2>4. QED
    BY <1>1, <2>1, <2>2, <2>3
<1>6. QED
  BY <1>2, <1>3, <1>4, <1>5 DEF WorksOn

LEMMA TakeBlockKeepsContent ==
    ASSUME RoundWork, AllFilled, AllOrdered, NEW n \in DOMAIN read, TakeBlock(n)
    PROVE  AllFilled' /\ AllOrdered'
<1>1. /\ DOMAIN building' = DOMAIN building \cup {n} /\ building'[n] = Fresh(read[n])
      /\ \A i \in DOMAIN building : building'[i] = building[i]
  BY TakeBlockKeeps
<1>2. read[n] \in Block /\ read[n].hash \in Hashes
  BY DEF RoundWork, BlocksHeld, Held
<1>3. Filled(building'[n]) /\ Ordered(building'[n])
  BY <1>1, <1>2, FreshFilled, FreshOrdered
<1>4. blocks' = blocks
  BY DEF TakeBlock
<1>5. \A i \in DOMAIN building' : i = n \/ (i \in DOMAIN building /\ building'[i] = building[i])
  BY <1>1
<1>6. \A i \in DOMAIN building' : Filled(building'[i])
  BY <1>3, <1>5 DEF AllFilled
<1>7. Workers = 1 => \A i \in DOMAIN building' : Ordered(building'[i])
  BY <1>3, <1>5 DEF AllOrdered
<1>8. Workers = 1 => TxsInOrder'
  BY <1>4 DEF AllOrdered, TxsInOrder
<1>9. QED
  BY <1>6, <1>7, <1>8 DEF AllFilled, AllOrdered

LEMMA SendBlockKeepsContent ==
    ASSUME RoundWork, AllFilled, AllOrdered, NEW n \in DOMAIN building, SendBlock(n)
    PROVE  AllFilled' /\ AllOrdered'
<1>1. /\ DOMAIN building' = DOMAIN building \ {n}
      /\ \A i \in DOMAIN building' : building'[i] = building[i]
      /\ DOMAIN blocks' = DOMAIN blocks \cup {n}
      /\ \A i \in DOMAIN blocks : blocks'[i] = blocks[i]
      /\ blocks'[n] = [blk |-> building[n].blk, txs |-> building[n].txs,
                       traces |-> building[n].traces]
  BY SendBlockKeeps
<1>2. building[n].left = {} /\ ~building[n].failed
  BY DEF SendBlock
<1>3. building[n] \in Building /\ building[n].blk.hash \in Hashes
  BY HashKnown
<1>4. AllFilled'
  BY <1>1 DEF AllFilled
<1>5. ASSUME Workers = 1 PROVE (\A i \in DOMAIN building' : Ordered(building'[i])) /\ TxsInOrder'
  <2>1. \A i \in DOMAIN building' : Ordered(building'[i])
    BY <1>1, <1>5 DEF AllOrdered
  <2>2. [i \in DOMAIN building[n].txs |-> building[n].txs[i].tx] = Txs[building[n].blk.hash]
    BY <1>2, <1>3, <1>5, OrderedAtTheEnd DEF AllOrdered
  <2>3. blocks'[n].txs = building[n].txs /\ blocks'[n].blk = building[n].blk
    BY <1>1
  <2>4. [i \in DOMAIN blocks'[n].txs |-> blocks'[n].txs[i].tx] = Txs[blocks'[n].blk.hash]
    BY <2>2, <2>3
  <2>5. \A m \in DOMAIN blocks' :
           [i \in DOMAIN blocks'[m].txs |-> blocks'[m].txs[i].tx] = Txs[blocks'[m].blk.hash]
    BY <1>1, <1>5, <2>4 DEF AllOrdered, TxsInOrder
  <2>6. QED
    BY <2>1, <2>5 DEF TxsInOrder
<1>6. QED
  BY <1>4, <1>5 DEF AllOrdered

LEMMA ContentKept ==
    RoundWork /\ AllFilled /\ AllOrdered /\ [Next]_vars => AllFilled' /\ AllOrdered'
<1> SUFFICES ASSUME RoundWork, AllFilled, AllOrdered, [Next]_vars PROVE AllFilled' /\ AllOrdered'
  OBVIOUS
<1>1. ASSUME UNCHANGED <<building, blocks>> PROVE AllFilled' /\ AllOrdered'
  BY <1>1 DEF AllFilled, AllOrdered, TxsInOrder
<1>2. ASSUME NEW n \in DOMAIN building, BlockFails(n) PROVE AllFilled' /\ AllOrdered'
  <2>1. building' = Without(building, n) /\ blocks' = blocks
    BY <1>2 DEF BlockFails
  <2>2. DOMAIN building' \subseteq DOMAIN building
        /\ \A i \in DOMAIN building' : building'[i] = building[i]
    BY <2>1 DEF Without
  <2>3. QED
    BY <2>1, <2>2 DEF AllFilled, AllOrdered, TxsInOrder
<1>3. ASSUME TakeHeight \/ Return PROVE UNCHANGED <<building, blocks>>
  BY <1>3 DEF TakeHeight, Return
<1>4. ASSUME NEW n \in asking, getBlockByNum(n) \/ NoBlock(n) PROVE UNCHANGED <<building, blocks>>
  BY <1>4 DEF getBlockByNum, NoBlock
<1>5. ASSUME UNCHANGED workVars PROVE UNCHANGED <<building, blocks>>
  BY <1>5 DEF workVars
<1>6. QED
  BY <1>1, <1>2, <1>3, <1>4, <1>5, NextSteps, TakeBlockKeepsContent, SendBlockKeepsContent,
     WorksOnKeepsContent

LEMMA ContentInvariant == Spec => [](RoundWork /\ AllFilled /\ AllOrdered)
<1>1. Init => AllFilled /\ AllOrdered
  <2> SUFFICES ASSUME Init PROVE AllFilled /\ AllOrdered
    OBVIOUS
  <2>1. DOMAIN building = {} /\ DOMAIN blocks = {}
    BY DEF Init
  <2>2. QED
    BY <2>1 DEF AllFilled, AllOrdered, TxsInOrder
<1>2. QED
  BY <1>1, InitWork, WorkKept, ContentKept, PTL DEF Spec

\* With one worker for the receipts, a block is handed over with its
\* transactions in their order, in whatever groups they were asked for; the
\* owner of a token depends on it.  (multiExecCreateTxBatch, groupTxs)
THEOREM OneWorkerKeepsOrder == Spec => []TxsInOrder
<1>1. AllOrdered => TxsInOrder
  BY DEF AllOrdered, TxsInOrder
<1>2. QED
  BY <1>1, ContentInvariant, PTL

----------------------------------------------------------------------------
(* Where the transactions ran. *)

\* As long as a block is in the chain, all that was read of it is of it.
AsRun(b) ==
    Canonical(b.blk) =>
        /\ \A k \in DOMAIN b.receipts : \A i \in 1..Len(b.groups[k]) :
              b.receipts[k][i].at = {b.blk.hash}
        /\ \A i \in 1..Len(b.txs) : b.txs[i].at = {b.blk.hash}
        /\ b.traces # <<>> => b.traces = <<b.blk.hash>>

LEMMA HolderIsBlock ==
    ASSUME ChainOK, NoTxTwice, NEW n \in Nat, NEW b, Held(b, n), Canonical(b),
           NEW t \in ToSet(Txs[b.hash])
    PROVE  Holder(t) = {b.hash}
<1>0. /\ Tip \in Nat /\ DOMAIN chain = 1..Tip /\ n <= Tip
      /\ \A m \in 1..Tip : BlockAt(m).hash = <<m, chain[m]>> /\ BlockAt(m).hash \in Hashes
  <2>1. Tip \in Nat /\ DOMAIN chain = 1..Tip /\ n <= Tip
    BY ChainFacts DEF ChainOK, Held
  <2>2. \A m \in 1..Tip : m \in Nat /\ m <= Tip /\ m # 0
    BY <2>1
  <2>3. \A m \in 1..Tip : BlockAt(m).hash = <<m, chain[m]>>
    BY <2>2 DEF BlockAt
  <2>4. \A m \in 1..Tip : BlockAt(m).hash \in Hashes
    BY <2>2, BlockAtHeld DEF Held
  <2>5. QED
    BY <2>1, <2>3, <2>4
<1>1. n # 0
  <2>1. ToSet(<<>>) = {}
    BY DEF ToSet
  <2>2. QED
    BY <2>1, TxsAssumption DEF Held
<1>2. n \in 1..Tip /\ b.hash = <<n, chain[n]>> /\ b.hash = BlockAt(n).hash
  BY <1>0, <1>1 DEF Canonical, BranchAt, Held
<1>3. ASSUME NEW m \in 1..Tip, t \in ToSet(Txs[BlockAt(m).hash]) PROVE m = n
  <2>1. t \in ToSet(Txs[<<m, chain[m]>>]) /\ t \in ToSet(Txs[<<n, chain[n]>>])
    BY <1>0, <1>2, <1>3
  <2>2. QED
    BY <1>2, <2>1 DEF NoTxTwice
<1>4. t \in ToSet(Txs[BlockAt(n).hash])
  BY <1>2
<1>5. {m \in 1..Tip : t \in ToSet(Txs[BlockAt(m).hash])} = {n}
  BY <1>2, <1>3, <1>4
<1>6. QED
  BY <1>2, <1>5 DEF Holder

LEMMA AnsweredAsRun ==
    ASSUME ChainOK, NoTxTwice, NEW n \in Nat, NEW b \in Building, Held(b.blk, n), Filled(b),
           AsRun(b), NEW k \in b.left
    PROVE  AsRun(Answered(b, k))
<1>0. k \in DOMAIN b.groups
  BY DEF Filled
<1>1. PICK f : f = Answered(b, k)
  OBVIOUS
<1>2. /\ f.blk = b.blk /\ f.groups = b.groups /\ f.txs = b.txs /\ f.traces = b.traces
      /\ DOMAIN f.receipts = DOMAIN b.receipts \cup {k}
      /\ f.receipts[k] = Receipts(b.groups[k])
      /\ \A j \in DOMAIN b.receipts : j # k => f.receipts[j] = b.receipts[j]
  <2>1. \A x \in {"blk", "groups", "left", "txs", "failed", "traces"} : f[x] = b[x]
    BY <1>0, <1>1, AnsweredFacts
  <2>2. /\ DOMAIN f.receipts = DOMAIN b.receipts \cup {k}
        /\ f.receipts[k] = Receipts(b.groups[k])
        /\ \A j \in DOMAIN b.receipts : j # k => f.receipts[j] = b.receipts[j]
    BY <1>0, <1>1, AnsweredFacts
  <2>3. QED
    BY <2>1, <2>2
<1>3. ASSUME Canonical(b.blk), NEW i \in 1..Len(b.groups[k])
      PROVE  f.receipts[k][i].at = {b.blk.hash}
  <2>1. b.groups[k] \in Seq(Tx) /\ DOMAIN b.groups[k] = 1..Len(b.groups[k])
    BY <1>0, GroupTypes
  <2>2. f.receipts[k][i] = [tx |-> b.groups[k][i], at |-> Holder(b.groups[k][i])]
    BY <1>2, <2>1, ReceiptsType
  <2>3. b.groups[k][i] \in ToSet(Txs[b.blk.hash])
    <3>1. b.blk.hash \in Hashes
      BY DEF Held
    <3>2. b.groups[k][i] \in ToSet(b.groups[k])
      BY <2>1 DEF ToSet
    <3>3. Txs[b.blk.hash] \in Seq(Tx) /\ b.groups = groupTxs(Txs[b.blk.hash])
      BY <3>1, TxsFacts DEF Filled
    <3>4. UNION {ToSet(b.groups[j]) : j \in DOMAIN b.groups} = ToSet(Txs[b.blk.hash])
      BY <3>3, GroupsCover
    <3>5. QED
      BY <1>0, <3>2, <3>4
  <2>4. Holder(b.groups[k][i]) = {b.blk.hash}
    BY <1>3, <2>3, HolderIsBlock
  <2>5. QED
    BY <2>2, <2>4
<1>4. AsRun(f)
  BY <1>2, <1>3 DEF AsRun
<1>5. QED
  BY <1>1, <1>4

LEMMA AppendedAsRun ==
    ASSUME NEW b \in Building, Filled(b), AsRun(b), NEW k \in DOMAIN b.receipts
    PROVE  AsRun(Appended(b, k))
<1>1. PICK f : f = Appended(b, k)
  OBVIOUS
<1>2. IsAppended(f, b, k)
  BY <1>1, AppendedParts
<1>3. PICK m : m = Len(b.txs)
  OBVIOUS
<1>4. PICK p : p = Len(b.groups[k])
  OBVIOUS
<1>5. /\ m \in Nat /\ Len(f.txs) = m + p /\ \A i \in 1..m : f.txs[i] = b.txs[i]
      /\ \A i \in 1..p : f.txs[m + i] = b.receipts[k][i]
      /\ f.blk = b.blk /\ f.groups = b.groups /\ f.traces = b.traces /\ k \in DOMAIN b.groups
      /\ DOMAIN f.receipts = DOMAIN b.receipts \ {k}
      /\ \A j \in DOMAIN f.receipts : f.receipts[j] = b.receipts[j]
  BY <1>2, <1>3, <1>4 DEF IsAppended
<1>6. p \in Nat
  BY <1>4, <1>5, GroupTypes
<1>7. ASSUME Canonical(b.blk), NEW i \in 1..(m + p) PROVE f.txs[i].at = {b.blk.hash}
  <2>1. CASE i \in 1..m
    BY <1>3, <1>5, <1>7, <2>1 DEF AsRun
  <2>2. CASE i \notin 1..m
    <3>1. i - m \in 1..p /\ m + (i - m) = i
      BY <1>5, <1>6, <2>2
    <3>2. f.txs[m + (i - m)] = b.receipts[k][i - m]
      BY <1>5, <3>1
    <3>3. b.receipts[k][i - m].at = {b.blk.hash}
      BY <1>4, <1>7, <3>1 DEF AsRun
    <3>4. QED
      BY <3>1, <3>2, <3>3
  <2>3. QED
    BY <2>1, <2>2
<1>8. AsRun(f)
  BY <1>5, <1>7 DEF AsRun
<1>9. QED
  BY <1>1, <1>8

LEMMA GivenUpAsRun ==
    ASSUME NEW b \in Building, AsRun(b), NEW k
    PROVE  AsRun(GivenUp(b, k))
<1>1. PICK f : f = GivenUp(b, k)
  OBVIOUS
<1>2. /\ f.blk = b.blk /\ f.groups = b.groups /\ f.receipts = b.receipts /\ f.txs = b.txs
      /\ f.traces = b.traces
  BY <1>1 DEF GivenUp, Building
<1>3. AsRun(f)
  BY <1>2 DEF AsRun
<1>4. QED
  BY <1>1, <1>3

LEMMA TracedAsRun ==
    ASSUME ChainOK, NEW n \in Nat, NEW b \in Building, Held(b.blk, n), AsRun(b)
    PROVE  AsRun(Traced(b, n))
<1>1. PICK f : f = Traced(b, n)
  OBVIOUS
<1>2. /\ f.blk = b.blk /\ f.groups = b.groups /\ f.receipts = b.receipts /\ f.txs = b.txs
      /\ f.traces = <<BlockAt(n).hash>>
  BY <1>1 DEF Traced, Building
<1>3. Canonical(b.blk) => BlockAt(n).hash = b.blk.hash
  BY DEF Canonical, Held, BlockAt, BranchAt, Genesis
<1>4. AsRun(f)
  BY <1>2, <1>3 DEF AsRun
<1>5. QED
  BY <1>1, <1>4

LEMMA FreshAsRun == ASSUME NEW b PROVE AsRun(Fresh(b))
<1>1. PICK f : f = Fresh(b)
  OBVIOUS
<1>2. f.receipts = <<>> /\ f.txs = <<>> /\ f.traces = <<>>
  BY <1>1 DEF Fresh
<1>3. DOMAIN f.receipts = {} /\ Len(f.txs) = 0
  BY <1>2
<1>4. AsRun(f)
  BY <1>2, <1>3 DEF AsRun
<1>5. QED
  BY <1>1, <1>4

LEMMA UpToCount ==
    ASSUME NEW p \in Nat PROVE IsFiniteSet(1..p) /\ Cardinality(1..p) = p
<1>1. 1 \in Int /\ p \in Int
  OBVIOUS
<1>2. IsFiniteSet(1..p) /\ Cardinality(1..p) = (IF 1 > p THEN 0 ELSE p - 1 + 1)
  BY <1>1, FS_Interval
<1>3. QED
  BY <1>2

\* Two lists of the same transactions, each once, are as long as each other.
LEMMA SameLength ==
    ASSUME NEW s \in Seq(Ran), NEW ts \in Seq(Tx), IsInjective(ts), Names(s) = ToSet(ts),
           \A i, j \in DOMAIN s : s[i].tx = s[j].tx => i = j
    PROVE  Len(s) = Len(ts)
<1>1. /\ Len(s) \in Nat /\ DOMAIN s = 1..Len(s) /\ Len(ts) \in Nat /\ DOMAIN ts = 1..Len(ts)
      /\ ts \in [1..Len(ts) -> Tx]
  BY LenProperties
<1>2. PICK f : f = [i \in 1..Len(s) |-> s[i].tx]
  OBVIOUS
<1>3. f \in Bijection(1..Len(s), Names(s))
  <2>1. f \in [1..Len(s) -> Names(s)]
    BY <1>1, <1>2 DEF Names
  <2>2. IsInjective(f)
    BY <1>1, <1>2 DEF IsInjective
  <2>3. \A x \in Names(s) : \E i \in 1..Len(s) : f[i] = x
    BY <1>1, <1>2 DEF Names
  <2>4. QED
    BY <2>1, <2>2, <2>3 DEF Bijection, Injection, Surjection
<1>4. ts \in Bijection(1..Len(ts), Names(s))
  <2>1. ts \in [1..Len(ts) -> Names(s)]
    BY <1>1 DEF ToSet
  <2>2. \A x \in Names(s) : \E i \in 1..Len(ts) : ts[i] = x
    BY <1>1 DEF ToSet
  <2>3. QED
    BY <2>1, <2>2 DEF Bijection, Injection, Surjection
<1>5. IsFiniteSet(1..Len(s)) /\ Cardinality(1..Len(s)) = Len(s)
  <2>1. PICK p : p = Len(s)
    OBVIOUS
  <2>2. IsFiniteSet(1..p) /\ Cardinality(1..p) = p
    BY <1>1, <2>1, UpToCount
  <2>3. QED
    BY <2>1, <2>2
<1>6. IsFiniteSet(1..Len(ts)) /\ Cardinality(1..Len(ts)) = Len(ts)
  <2>1. PICK p : p = Len(ts)
    OBVIOUS
  <2>2. IsFiniteSet(1..p) /\ Cardinality(1..p) = p
    BY <1>1, <2>1, UpToCount
  <2>3. QED
    BY <2>1, <2>2
<1>7. Cardinality(Names(s)) = Len(s) /\ Cardinality(Names(s)) = Len(ts)
  BY <1>3, <1>4, <1>5, <1>6, FS_Bijection DEF ExistsBijection
<1>8. QED
  BY <1>7

LEMMA WholeAtTheEnd ==
    ASSUME NEW b \in Building, b.blk.hash \in Hashes, Filled(b), AsRun(b), Canonical(b.blk),
           b.left = {}, ~b.failed, ~NeedsTraces(b),
           NEW w, w.txs = b.txs, w.blk = b.blk, w.traces = b.traces
    PROVE  Whole(w)
<1>1. PICK ts : ts = Txs[b.blk.hash]
  OBVIOUS
<1>2. ts \in Seq(Tx) /\ IsInjective(ts) /\ b.groups = groupTxs(ts)
  BY <1>1, TxsFacts DEF Filled
<1>3. b.txs \in Seq(Ran) /\ DOMAIN b.txs = 1..Len(b.txs)
  BY LenProperties DEF Building
<1>4. Names(b.txs) = ToSet(ts)
  <2>1. UNION {ToSet(b.groups[k]) : k \in DOMAIN b.groups} = ToSet(ts)
    BY <1>2, GroupsCover
  <2>2. QED
    BY <2>1 DEF Filled, Collected
<1>5. Len(b.txs) = Len(ts)
  BY <1>2, <1>3, <1>4, SameLength DEF Filled, Collected
<1>6. \A i \in DOMAIN b.txs : b.txs[i] = [tx |-> b.txs[i].tx, at |-> {b.blk.hash}]
  <2>1. \A i \in DOMAIN b.txs : b.txs[i] \in Ran
    BY <1>3, ElementOfSeq
  <2>2. \A i \in DOMAIN b.txs : b.txs[i].at = {b.blk.hash}
    BY <1>3 DEF AsRun
  <2>3. QED
    BY <2>1, <2>2 DEF Ran
<1>7. ToSet(b.txs) = {[tx |-> t, at |-> {b.blk.hash}] : t \in ToSet(ts)}
  <2>1. ToSet(b.txs) = {b.txs[i] : i \in DOMAIN b.txs}
    BY DEF ToSet
  <2>2. ToSet(b.txs) = {[tx |-> b.txs[i].tx, at |-> {b.blk.hash}] : i \in DOMAIN b.txs}
    BY <1>6, <2>1
  <2>3. QED
    BY <1>4, <2>2 DEF Names
<1>8. ASSUME IsDealInternal, b.txs # <<>> PROVE b.traces = <<b.blk.hash>>
  <2>1. b.groups # <<>>
    <3>1. ASSUME b.groups = <<>> PROVE FALSE
      <4>1. Names(b.txs) = {}
        BY <3>1, <1>4 DEF Filled, Collected
      <4>2. DOMAIN b.txs = {}
        BY <4>1 DEF Names
      <4>3. PICK m : m = Len(b.txs)
        OBVIOUS
      <4>4. m \in Nat /\ DOMAIN b.txs = 1..m
        BY <1>3, <4>3, LenProperties
      <4>5. m = 0
        <5>1. 1 \notin 1..m
          BY <4>2, <4>4
        <5>2. QED
          BY <4>4, <5>1
      <4>6. b.txs = <<>>
        BY <1>3, <4>3, <4>5, EmptySeq
      <4>7. QED
        BY <1>8, <4>6
    <3>2. QED
      BY <3>1
  <2>2. b.traces # <<>>
    BY <1>8, <2>1 DEF NeedsTraces
  <2>3. QED
    BY <2>2 DEF AsRun
<1>9. QED
  BY <1>1, <1>5, <1>7, <1>8 DEF Whole

----------------------------------------------------------------------------
(* What was read stays good. *)

AllAsRun == \A n \in DOMAIN building : AsRun(building[n])

Settled(w) == Whole(w) \/ ~Canonical(w.blk)

LEMMA AsRunStays ==
    ASSUME ChainOK, [NodeStep]_nodeVars, NEW n \in Nat, NEW b, Held(b.blk, n), AsRun(b)
    PROVE  AsRun(b)'
<1>1. PICK h : h = b.blk
  OBVIOUS
<1>2. Held(h, n)
  BY <1>1
<1>3. Canonical(h)' => Canonical(h)
  BY <1>2, OrphanStays
<1>4. QED
  BY <1>1, <1>3 DEF AsRun

LEMMA SettledStays ==
    ASSUME ChainOK, [NodeStep]_nodeVars, NEW n \in Nat, NEW w, Held(w.blk, n), Settled(w)
    PROVE  Settled(w)'
<1>1. PICK h : h = w.blk
  OBVIOUS
<1>2. Held(h, n)
  BY <1>1
<1>3. Canonical(h)' => Canonical(h)
  BY <1>2, OrphanStays
<1>4. QED
  BY <1>1, <1>3 DEF Settled, Whole

LEMMA SameChain ==
    ASSUME NEW b, UNCHANGED nodeVars
    PROVE  (AsRun(b) => AsRun(b)') /\ (Settled(b) => Settled(b)')
<1>1. PICK h : h = b.blk
  OBVIOUS
<1>2. Canonical(h)' <=> Canonical(h)
  BY DEF Canonical, Tip, BranchAt, nodeVars
<1>3. QED
  BY <1>1, <1>2 DEF AsRun, Settled, Whole

\* A step keeps the two when it keeps them for the records it changes.
LEMMA OthersStay ==
    ASSUME RoundWork, AllAsRun, WholeOrOrphan, [NodeStep]_nodeVars,
           \A i \in DOMAIN building' : \A b : b = building'[i] =>
              (i \in DOMAIN building /\ b = building[i]) \/ AsRun(b)',
           \A i \in DOMAIN blocks' : \A w : w = blocks'[i] =>
              (i \in DOMAIN blocks /\ w = blocks[i]) \/ Settled(w)'
    PROVE  AllAsRun' /\ WholeOrOrphan'
<1>0. /\ ChainOK
      /\ \A n \in DOMAIN building : n \in Nat /\ Held(building[n].blk, n)
      /\ \A n \in DOMAIN blocks : n \in Nat /\ Held(blocks[n].blk, n)
  BY PlaceFacts DEF RoundWork, BlocksHeld
<1>1. ASSUME NEW i \in DOMAIN building', NEW b, b = building'[i] PROVE AsRun(b)'
  <2>1. CASE i \in DOMAIN building /\ b = building[i]
    <3>1. i \in Nat /\ Held(b.blk, i) /\ AsRun(b)
      BY <1>0, <2>1 DEF AllAsRun
    <3>2. QED
      BY <1>0, <3>1, AsRunStays
  <2>2. CASE AsRun(b)'
    BY <2>2
  <2>3. QED
    BY <1>1, <2>1, <2>2
<1>2. ASSUME NEW i \in DOMAIN blocks', NEW w, w = blocks'[i] PROVE Settled(w)'
  <2>1. CASE i \in DOMAIN blocks /\ w = blocks[i]
    <3>1. i \in Nat /\ Held(w.blk, i) /\ Settled(w)
      BY <1>0, <2>1 DEF WholeOrOrphan, Settled
    <3>2. QED
      BY <1>0, <3>1, SettledStays
  <2>2. CASE Settled(w)'
    BY <2>2
  <2>3. QED
    BY <1>2, <2>1, <2>2
<1>3. AllAsRun'
  BY <1>1 DEF AllAsRun, AsRun, Canonical, Tip, BranchAt
<1>4. WholeOrOrphan'
  BY <1>2 DEF WholeOrOrphan, Settled, Whole, Canonical, Tip, BranchAt
<1>5. QED
  BY <1>3, <1>4

LEMMA WorksOnKeepsRuns ==
    ASSUME RoundWork, NoTxTwice, AllFilled, AllAsRun, WholeOrOrphan, NEW n \in DOMAIN building,
           WorksOn(n)
    PROVE  AllAsRun' /\ WholeOrOrphan'
<1>0. /\ building[n] \in Building /\ Filled(building[n]) /\ AsRun(building[n]) /\ ChainOK
      /\ n \in Nat /\ Held(building[n].blk, n)
  BY HashKnown, PlaceFacts DEF AllFilled, AllAsRun, RoundWork, BlocksHeld
<1>1. ASSUME NEW b \in Building, building' = [building EXCEPT ![n] = b], UNCHANGED Beside,
             AsRun(b)
      PROVE  AllAsRun' /\ WholeOrOrphan'
  <2>1. /\ DOMAIN building' = DOMAIN building /\ building'[n] = b
        /\ \A i \in DOMAIN building : i # n => building'[i] = building[i]
    BY <1>1, OneChanged
  <2>2. blocks' = blocks /\ UNCHANGED nodeVars
    BY <1>1 DEF Beside
  <2>3. AsRun(b)'
    BY <1>1, <2>2, SameChain
  <2>4. \A i \in DOMAIN building' : \A c : c = building'[i] =>
           (i \in DOMAIN building /\ c = building[i]) \/ AsRun(c)'
    <3>1. ASSUME NEW i \in DOMAIN building', NEW c, c = building'[i]
          PROVE  (i \in DOMAIN building /\ c = building[i]) \/ AsRun(c)'
      <4>1. CASE i = n
        <5>1. c = b
          BY <2>1, <3>1, <4>1
        <5>2. QED
          BY <2>3, <5>1
      <4>2. CASE i # n
        BY <2>1, <3>1, <4>2
      <4>3. QED
        BY <4>1, <4>2
    <3>2. QED
      BY <3>1
  <2>5. QED
    BY <2>2, <2>4, OthersStay
<1>2. ASSUME NEW k \in DOMAIN building[n].groups, createTxBatch(n, k)
      PROVE  AllAsRun' /\ WholeOrOrphan'
  <2>1. /\ k \in InHand(building[n]) /\ Answered(building[n], k) \in Building
        /\ building' = [building EXCEPT ![n] = Answered(building[n], k)] /\ UNCHANGED Beside
    BY <1>2, createTxBatchFacts
  <2>2. AsRun(Answered(building[n], k))
    BY <1>0, <2>1, InHandLeft, AnsweredAsRun
  <2>3. QED
    BY <1>1, <2>1, <2>2
<1>3. ASSUME NEW k \in DOMAIN building[n].groups, AppendTxs(n, k)
      PROVE  AllAsRun' /\ WholeOrOrphan'
  <2>1. /\ k \in DOMAIN building[n].receipts /\ Appended(building[n], k) \in Building
        /\ building' = [building EXCEPT ![n] = Appended(building[n], k)] /\ UNCHANGED Beside
    BY <1>3, AppendTxsFacts
  <2>2. AsRun(Appended(building[n], k))
    BY <1>0, <2>1, AppendedAsRun
  <2>3. QED
    BY <1>1, <2>1, <2>2
<1>4. ASSUME NEW k \in DOMAIN building[n].groups, GroupFails(n, k)
      PROVE  AllAsRun' /\ WholeOrOrphan'
  <2>1. /\ GivenUp(building[n], k) \in Building
        /\ building' = [building EXCEPT ![n] = GivenUp(building[n], k)] /\ UNCHANGED Beside
    BY <1>4, GroupFailsFacts
  <2>2. AsRun(GivenUp(building[n], k))
    BY <1>0, GivenUpAsRun
  <2>3. QED
    BY <1>1, <2>1, <2>2
<1>5. CASE GetTxInternalsByBlock(n)
  <2>1. /\ Traced(building[n], n) \in Building
        /\ building' = [building EXCEPT ![n] = Traced(building[n], n)] /\ UNCHANGED Beside
    BY <1>5, TracesFacts
  <2>2. AsRun(Traced(building[n], n))
    BY <1>0, TracedAsRun
  <2>3. QED
    BY <1>1, <2>1, <2>2
<1>6. QED
  BY <1>2, <1>3, <1>4, <1>5 DEF WorksOn

LEMMA TakeBlockKeepsRuns ==
    ASSUME RoundWork, AllAsRun, WholeOrOrphan, NEW n \in DOMAIN read, TakeBlock(n)
    PROVE  AllAsRun' /\ WholeOrOrphan'
<1>1. /\ DOMAIN building' = DOMAIN building \cup {n} /\ building'[n] = Fresh(read[n])
      /\ \A i \in DOMAIN building : building'[i] = building[i]
  BY TakeBlockKeeps
<1>2. blocks' = blocks /\ UNCHANGED nodeVars
  BY DEF TakeBlock
<1>3. PICK c : c = Fresh(read[n])
  OBVIOUS
<1>4. AsRun(c)'
  BY <1>2, <1>3, FreshAsRun, SameChain
<1>5. ASSUME NEW i \in DOMAIN building', NEW b, b = building'[i]
      PROVE  (i \in DOMAIN building /\ b = building[i]) \/ AsRun(b)'
  <2>1. b = c \/ (i \in DOMAIN building /\ b = building[i])
    BY <1>1, <1>3, <1>5
  <2>2. QED
    BY <1>4, <2>1
<1>6. QED
  BY <1>2, <1>5, OthersStay

LEMMA SendBlockKeepsRuns ==
    ASSUME RoundWork, AllFilled, AllAsRun, WholeOrOrphan, NEW n \in DOMAIN building, SendBlock(n)
    PROVE  AllAsRun' /\ WholeOrOrphan'
<1>1. /\ DOMAIN building' = DOMAIN building \ {n}
      /\ \A i \in DOMAIN building' : building'[i] = building[i]
      /\ DOMAIN blocks' = DOMAIN blocks \cup {n}
      /\ \A i \in DOMAIN blocks : blocks'[i] = blocks[i]
      /\ blocks'[n] = [blk |-> building[n].blk, txs |-> building[n].txs,
                       traces |-> building[n].traces]
  BY SendBlockKeeps
<1>2. /\ building[n].left = {} /\ ~building[n].failed /\ ~NeedsTraces(building[n])
      /\ UNCHANGED nodeVars
  BY DEF SendBlock
<1>3. PICK b : b = building[n]
  OBVIOUS
<1>4. b \in Building /\ b.blk.hash \in Hashes /\ Filled(b) /\ AsRun(b)
  BY <1>3, HashKnown DEF AllFilled, AllAsRun
<1>5. PICK c : c = [blk |-> b.blk, txs |-> b.txs, traces |-> b.traces]
  OBVIOUS
<1>6. c.blk = b.blk /\ c.txs = b.txs /\ c.traces = b.traces
  BY <1>5
<1>7. Settled(c)
  BY <1>2, <1>3, <1>4, <1>6, WholeAtTheEnd DEF Settled
<1>8. Settled(c)'
  BY <1>2, <1>7, SameChain
<1>9. ASSUME NEW i \in DOMAIN blocks', NEW w, w = blocks'[i]
      PROVE  (i \in DOMAIN blocks /\ w = blocks[i]) \/ Settled(w)'
  <2>1. w = c \/ (i \in DOMAIN blocks /\ w = blocks[i])
    BY <1>1, <1>3, <1>5, <1>9
  <2>2. QED
    BY <1>8, <2>1
<1>10. \A i \in DOMAIN building' : \A d : d = building'[i] =>
          (i \in DOMAIN building /\ d = building[i]) \/ AsRun(d)'
  BY <1>1
<1>11. QED
  BY <1>2, <1>9, <1>10, OthersStay

LEMMA RunsKept ==
    ASSUME RoundWork, NoTxTwice, AllFilled, AllAsRun, WholeOrOrphan, [Next]_vars
    PROVE  AllAsRun' /\ WholeOrOrphan'
<1>1. ASSUME UNCHANGED <<building, blocks>>, [NodeStep]_nodeVars PROVE AllAsRun' /\ WholeOrOrphan'
  BY <1>1, OthersStay
<1>2. ASSUME NEW n \in DOMAIN building, BlockFails(n) PROVE AllAsRun' /\ WholeOrOrphan'
  <2>1. building' = Without(building, n) /\ blocks' = blocks /\ UNCHANGED nodeVars
    BY <1>2 DEF BlockFails
  <2>2. DOMAIN building' \subseteq DOMAIN building
        /\ \A i \in DOMAIN building' : building'[i] = building[i]
    BY <2>1 DEF Without
  <2>3. QED
    BY <2>1, <2>2, OthersStay
<1>3. ASSUME TakeHeight \/ Return PROVE UNCHANGED <<building, blocks, nodeVars>>
  BY <1>3 DEF TakeHeight, Return
<1>4. ASSUME NEW n \in asking, getBlockByNum(n) \/ NoBlock(n)
      PROVE  UNCHANGED <<building, blocks, nodeVars>>
  BY <1>4 DEF getBlockByNum, NoBlock
<1>5. ASSUME UNCHANGED workVars PROVE UNCHANGED <<building, blocks>>
  BY <1>5 DEF workVars
<1>6. QED
  BY <1>1, <1>2, <1>3, <1>4, <1>5, NextSteps, TakeBlockKeepsRuns, SendBlockKeepsRuns,
     WorksOnKeepsRuns

LEMMA NoTxTwiceKept == NoTxTwice /\ [Next]_vars => NoTxTwice'
<1> SUFFICES ASSUME NoTxTwice, [Next]_vars PROVE NoTxTwice'
  OBVIOUS
<1>1. NoTxTwice' \/ UNCHANGED chain
  BY DEF Next, Works, Fails, vars, nodeVars, TakeHeight, Return, getBlockByNum, NoBlock,
     TakeBlock, BlockFails, GetTxInternalsByBlock, SendBlock, createTxBatch, AppendTxs,
     GroupFails, NoReceipts, NullReceipt
<1>2. QED
  BY <1>1 DEF NoTxTwice, Tip

LEMMA RunsInvariant ==
    Spec => [](RoundWork /\ NoTxTwice /\ AllFilled /\ AllOrdered /\ AllAsRun /\ WholeOrOrphan)
<1>1. Init => NoTxTwice /\ AllAsRun /\ WholeOrOrphan
  <2> SUFFICES ASSUME Init PROVE NoTxTwice /\ AllAsRun /\ WholeOrOrphan
    OBVIOUS
  <2>1. DOMAIN building = {} /\ DOMAIN blocks = {} /\ NoTxTwice
    BY DEF Init
  <2>2. QED
    BY <2>1 DEF AllAsRun, WholeOrOrphan
<1>2. RoundWork /\ NoTxTwice /\ AllFilled /\ AllAsRun /\ WholeOrOrphan /\ [Next]_vars
         => AllAsRun' /\ WholeOrOrphan'
  BY RunsKept
<1>3. QED
  BY <1>1, <1>2, NoTxTwiceKept, ContentInvariant, PTL DEF Spec

\* A block handed over has all its transactions, each as it ran in that block,
\* and its own traces, or the node has abandoned it since its header was read
\* and its revert will follow.  (batchDealBlock, createBlockInfo)
THEOREM HandedOverWhole == Spec => []WholeOrOrphan
  BY RunsInvariant, PTL

----------------------------------------------------------------------------
(* The multicall, its state beside that of the round. *)

CONSTANTS Inputs, Bad, MinHeight, FirstHead, LastHead, MaxLost, FetchRetryTimes

VARIABLES multiPc, groups, returnData, blockNumber, head, multiTries, lost

Multi == INSTANCE MultiCall WITH MaxHead <- LastHead, pc <- multiPc, tries <- multiTries

\* What is returned stands at the place of its call, and an accepted result has
\* an output for every call.
OutputsInPlace ==
    /\ \A i \in DOMAIN returnData : returnData[i].call = Inputs[i]
    /\ multiPc = "accepted" => Len(returnData) = Len(Inputs)

Calls == Multi!ToSet(Inputs)

Out == [call : Calls, at : Int, ok : BOOLEAN]

\* The groups gs are the inputs after the first d, cut at the places f.
Cuts(f, gs, d) ==
    /\ gs \in Seq(Seq(Calls)) /\ d \in Nat
    /\ f \in [1..(Len(gs) + 1) -> Nat] /\ f[1] = d /\ f[Len(gs) + 1] = Len(Inputs)
    /\ \A k \in 1..Len(gs) :
          /\ Len(gs[k]) > 0 /\ f[k + 1] = f[k] + Len(gs[k])
          /\ \A i \in 1..Len(gs[k]) : gs[k][i] = Inputs[f[k] + i]

MultiTypes ==
    /\ multiPc \in {"aggregate", "accepted", "exited"}
    /\ returnData \in Seq(Out) /\ head \in Nat
    /\ blockNumber \in Int /\ blockNumber <= Multi!MaxInt64
    /\ lost \in Seq(SUBSET Calls)

Placed ==
    /\ \E f : Cuts(f, groups, Len(returnData))
    /\ \A i \in 1..Len(returnData) : returnData[i].call = Inputs[i]

NoneOlder ==
    /\ \A i \in 1..Len(returnData) : returnData[i].at >= blockNumber
    /\ multiPc = "accepted" => groups = <<>> /\ blockNumber >= MinHeight

MultiInv == MultiTypes /\ Placed /\ NoneOlder /\ Multi!OnlyFailedMissing

LEMMA InputsFacts ==
    ASSUME Multi!MultiCallConstants
    PROVE  /\ Inputs \in Seq(Calls) /\ Inputs # <<>> /\ Len(Inputs) \in Nat /\ Len(Inputs) > 0
           /\ DOMAIN Inputs = 1..Len(Inputs) /\ LastHead \in Nat
           /\ Multi!MaxInt64 \in Int /\ Multi!MaxInt64 = LastHead + 1 /\ FirstHead \in Nat
<1>1. /\ Inputs \in Seq(Calls) /\ Inputs # <<>> /\ LastHead \in Nat /\ FirstHead \in Nat
      /\ Multi!MaxInt64 = LastHead + 1
  BY DEF Multi!MultiCallConstants, Calls, Multi!MaxInt64
<1>2. Len(Inputs) \in Nat /\ DOMAIN Inputs = 1..Len(Inputs)
  BY <1>1, LenProperties
<1>3. Len(Inputs) # 0
  BY <1>1, EmptySeq
<1>4. QED
  BY <1>1, <1>2, <1>3

LEMMA CutsFirst ==
    ASSUME Multi!MultiCallConstants
    PROVE  \E f : Cuts(f, <<Inputs>>, 0)
<1>1. PICK n : n = Len(Inputs)
  OBVIOUS
<1>2. Inputs \in Seq(Calls) /\ n \in Nat /\ n > 0
  BY <1>1, InputsFacts
<1>3. PICK gs : gs = <<Inputs>>
  OBVIOUS
<1>4. gs \in Seq(Seq(Calls)) /\ Len(gs) = 1 /\ gs[1] = Inputs
  BY <1>2, <1>3
<1>5. PICK f : f = [k \in 1..2 |-> IF k = 1 THEN 0 ELSE n]
  OBVIOUS
<1>6. f \in [1..2 -> Nat] /\ f[1] = 0 /\ f[2] = n
  BY <1>2, <1>5
<1>7. Cuts(f, gs, 0)
  BY <1>1, <1>2, <1>4, <1>6 DEF Cuts
<1>8. QED
  BY <1>3, <1>7

LEMMA CutsHead ==
    ASSUME NEW gs, NEW d, NEW f, Cuts(f, gs, d), gs # <<>>
    PROVE  /\ Len(gs) \in Nat /\ Len(gs) >= 1 /\ Head(gs) = gs[1] /\ Head(gs) \in Seq(Calls)
           /\ Len(Head(gs)) \in Nat /\ Len(Head(gs)) > 0
           /\ Tail(gs) \in Seq(Seq(Calls)) /\ Len(Tail(gs)) = Len(gs) - 1
           /\ \A k \in 1..(Len(gs) - 1) : Tail(gs)[k] = gs[k + 1]
           /\ \A i \in 1..Len(Head(gs)) : Head(gs)[i] = Inputs[d + i]
<1>1. gs \in Seq(Seq(Calls)) /\ f[1] = d
  BY DEF Cuts
<1>2. Len(gs) \in Nat /\ Len(gs) >= 1 /\ Head(gs) = gs[1]
  BY <1>1, LenProperties, EmptySeq
<1>3. /\ Head(gs) \in Seq(Calls) /\ Tail(gs) \in Seq(Seq(Calls)) /\ Len(Tail(gs)) = Len(gs) - 1
      /\ \A k \in 1..(Len(gs) - 1) : Tail(gs)[k] = gs[k + 1]
  BY <1>1, HeadTailProperties
<1>4. 1 \in 1..Len(gs)
  BY <1>2
<1>5. Len(gs[1]) > 0 /\ \A i \in 1..Len(gs[1]) : gs[1][i] = Inputs[f[1] + i]
  BY <1>4 DEF Cuts
<1>6. Len(Head(gs)) \in Nat
  BY <1>3, LenProperties
<1>7. QED
  BY <1>1, <1>2, <1>3, <1>5, <1>6

LEMMA CutsTail ==
    ASSUME NEW gs, NEW d, NEW f, Cuts(f, gs, d), gs # <<>>
    PROVE  \E h : Cuts(h, Tail(gs), d + Len(Head(gs)))
<1>1. PICK n : n = Len(gs)
  OBVIOUS
<1>2. PICK t : t = Tail(gs)
  OBVIOUS
<1>3. PICK p : p = Len(Head(gs))
  OBVIOUS
<1>4. /\ n \in Nat /\ n >= 1 /\ p \in Nat /\ p = Len(gs[1]) /\ t \in Seq(Seq(Calls))
      /\ Len(t) = n - 1 /\ \A k \in 1..(n - 1) : t[k] = gs[k + 1]
  BY <1>1, <1>2, <1>3, CutsHead
<1>5. /\ f \in [1..(n + 1) -> Nat] /\ f[1] = d /\ f[n + 1] = Len(Inputs) /\ d \in Nat
      /\ \A k \in 1..n :
            /\ Len(gs[k]) > 0 /\ f[k + 1] = f[k] + Len(gs[k])
            /\ \A i \in 1..Len(gs[k]) : gs[k][i] = Inputs[f[k] + i]
  BY <1>1 DEF Cuts
<1>6. PICK h : h = [k \in 1..n |-> f[k + 1]]
  OBVIOUS
<1>7. h \in [1..n -> Nat] /\ \A k \in 1..n : h[k] = f[k + 1]
  BY <1>4, <1>5, <1>6
<1>8. h[1] = d + p /\ h[n] = Len(Inputs)
  <2>1. 1 \in 1..n /\ n \in 1..n /\ f[1 + 1] = f[1] + Len(gs[1])
    BY <1>4, <1>5
  <2>2. QED
    BY <1>4, <1>5, <1>7, <2>1
<1>9. ASSUME NEW k \in 1..(n - 1)
      PROVE  /\ Len(t[k]) > 0 /\ h[k + 1] = h[k] + Len(t[k])
             /\ \A i \in 1..Len(t[k]) : t[k][i] = Inputs[h[k] + i]
  <2>1. k + 1 \in 1..n /\ k \in 1..n /\ t[k] = gs[k + 1]
    BY <1>4
  <2>2. h[k] = f[k + 1] /\ h[k + 1] = f[(k + 1) + 1]
    BY <1>7, <2>1
  <2>3. QED
    BY <1>5, <2>1, <2>2
<1>10. PICK m : m = Len(t)
  OBVIOUS
<1>11. m = n - 1 /\ m + 1 = n
  BY <1>4, <1>10
<1>12. /\ t \in Seq(Seq(Calls)) /\ d + p \in Nat /\ h \in [1..(m + 1) -> Nat]
       /\ h[1] = d + p /\ h[m + 1] = Len(Inputs)
  BY <1>4, <1>5, <1>7, <1>8, <1>11
<1>13. \A k \in 1..m : /\ Len(t[k]) > 0 /\ h[k + 1] = h[k] + Len(t[k])
                       /\ \A i \in 1..Len(t[k]) : t[k][i] = Inputs[h[k] + i]
  BY <1>9, <1>11
<1>14. Cuts(h, t, d + p)
  BY <1>10, <1>12, <1>13 DEF Cuts
<1>15. QED
  BY <1>2, <1>3, <1>14

\* A group that is halved is cut once more.
LEMMA CutsHalved ==
    ASSUME NEW gs, NEW d, NEW f, Cuts(f, gs, d), gs # <<>>, Len(Head(gs)) > 1
    PROVE  \E h : Cuts(h, Multi!Halves(Head(gs)) \o Tail(gs), d)
<1>1. PICK n : n = Len(gs)
  OBVIOUS
<1>2. PICK t : t = Tail(gs)
  OBVIOUS
<1>3. PICK g : g = Head(gs)
  OBVIOUS
<1>4. PICK p : p = Len(g)
  OBVIOUS
<1>5. PICK q : q = p \div 2
  OBVIOUS
<1>6. /\ n \in Nat /\ n >= 1 /\ g = gs[1] /\ g \in Seq(Calls) /\ p \in Nat /\ p > 1
      /\ t \in Seq(Seq(Calls)) /\ Len(t) = n - 1 /\ \A k \in 1..(n - 1) : t[k] = gs[k + 1]
      /\ \A i \in 1..p : g[i] = Inputs[d + i] /\ g[i] \in Calls
  <2>1. \A i \in 1..p : g[i] \in Calls
    BY <1>3, <1>4, CutsHead, ElementOfSeq
  <2>2. QED
    BY <1>1, <1>2, <1>3, <1>4, <2>1, CutsHead
<1>7. q \in Nat /\ q >= 1 /\ q < p
  BY <1>5, <1>6
<1>8. PICK a : a = SubSeq(g, 1, q)
  OBVIOUS
<1>9. PICK b : b = SubSeq(g, q + 1, p)
  OBVIOUS
<1>10. /\ a \in Seq(Calls) /\ Len(a) = q /\ \A i \in 1..q : a[i] = g[i]
       /\ b \in Seq(Calls) /\ Len(b) = p - q /\ \A i \in 1..(p - q) : b[i] = g[q + i]
  <2>1. \A i \in 1..q : g[i] \in Calls
    BY <1>6, <1>7
  <2>2. a \in Seq(Calls) /\ Len(a) = q /\ \A i \in 1..q : a[i] = g[i]
    BY <1>7, <1>8, <2>1, SubSeqProperties
  <2>3. \A i \in (q + 1)..p : g[i] \in Calls
    BY <1>6, <1>7
  <2>4. /\ b \in Seq(Calls) /\ Len(b) = (IF q + 1 <= p THEN p - (q + 1) + 1 ELSE 0)
        /\ \A i \in 1..(p - (q + 1) + 1) : b[i] = g[(q + 1) + i - 1]
    BY <1>6, <1>7, <1>9, <2>3, SubSeqProperties
  <2>5. Len(b) = p - q
    BY <1>6, <1>7, <2>4
  <2>6. ASSUME NEW i \in 1..(p - q) PROVE b[i] = g[q + i]
    <3>1. i \in 1..(p - (q + 1) + 1) /\ (q + 1) + i - 1 = q + i
      BY <1>6, <1>7
    <3>2. QED
      BY <2>4, <3>1
  <2>7. QED
    BY <2>2, <2>4, <2>5, <2>6
<1>11. PICK w : w = <<a, b>>
  OBVIOUS
<1>12. w \in Seq(Seq(Calls)) /\ Len(w) = 2 /\ w[1] = a /\ w[2] = b
  BY <1>10, <1>11
<1>13. PICK r : r = w \o t
  OBVIOUS
<1>14. r = Multi!Halves(Head(gs)) \o Tail(gs)
  BY <1>2, <1>3, <1>4, <1>5, <1>8, <1>9, <1>11, <1>13 DEF Multi!Halves
<1>15. /\ r \in Seq(Seq(Calls)) /\ Len(r) = n + 1 /\ r[1] = a /\ r[2] = b
       /\ \A k \in 3..(n + 1) : r[k] = gs[k - 1]
  <2>0. /\ r \in Seq(Seq(Calls)) /\ Len(r) = Len(w) + Len(t)
        /\ \A i \in 1..(Len(w) + Len(t)) : r[i] = IF i <= Len(w) THEN w[i] ELSE t[i - Len(w)]
    BY <1>6, <1>12, <1>13, ConcatProperties
  <2>1. /\ r \in Seq(Seq(Calls)) /\ Len(r) = n + 1
        /\ \A i \in 1..(n + 1) : r[i] = IF i <= 2 THEN w[i] ELSE t[i - 2]
    <3>1. Len(w) = 2 /\ Len(t) = n - 1 /\ 2 + (n - 1) = n + 1
      BY <1>6, <1>12
    <3>2. QED
      BY <2>0, <3>1
  <2>2. r[1] = a /\ r[2] = b
    BY <1>6, <1>12, <2>1
  <2>3. ASSUME NEW k \in 3..(n + 1) PROVE r[k] = gs[k - 1]
    <3>1. k \in 1..(n + 1) /\ ~(k <= 2)
      BY <1>6
    <3>2. PICK l : l = k - 2
      OBVIOUS
    <3>3. l \in 1..(n - 1) /\ l + 1 = k - 1
      BY <1>6, <3>2
    <3>4. r[k] = t[l]
      BY <2>1, <3>1, <3>2
    <3>5. QED
      BY <1>6, <3>3, <3>4
  <2>4. QED
    BY <1>6, <2>1, <2>2, <2>3
<1>16. /\ f \in [1..(n + 1) -> Nat] /\ f[1] = d /\ f[n + 1] = Len(Inputs) /\ d \in Nat
       /\ \A k \in 1..n :
             /\ Len(gs[k]) > 0 /\ f[k + 1] = f[k] + Len(gs[k])
             /\ \A i \in 1..Len(gs[k]) : gs[k][i] = Inputs[f[k] + i]
  BY <1>1 DEF Cuts
<1>17. f[2] = d + p
  <2>1. 1 \in 1..n /\ f[1 + 1] = f[1] + Len(gs[1])
    BY <1>6, <1>16
  <2>2. QED
    BY <1>4, <1>6, <1>16, <2>1
<1>18. PICK h : h = [k \in 1..(n + 2) |-> IF k = 1 THEN d ELSE IF k = 2 THEN d + q ELSE f[k - 1]]
  OBVIOUS
<1>19. /\ h \in [1..(n + 2) -> Nat] /\ h[1] = d /\ h[2] = d + q
       /\ \A k \in 3..(n + 2) : h[k] = f[k - 1]
  <2>1. \A k \in 1..(n + 2) : k = 1 \/ k = 2 \/ (k \in 3..(n + 2) /\ k - 1 \in 1..(n + 1))
    BY <1>6
  <2>2. \A k \in 3..(n + 2) : k \in 1..(n + 2) /\ k # 1 /\ k # 2
    BY <1>6
  <2>3. 1 \in 1..(n + 2) /\ 2 \in 1..(n + 2) /\ 2 # 1
    BY <1>6
  <2>4. h \in [1..(n + 2) -> Nat]
    BY <1>7, <1>16, <1>18, <2>1
  <2>5. QED
    BY <1>18, <2>2, <2>3, <2>4
<1>20. ASSUME NEW k \in 1..(n + 1)
       PROVE  /\ Len(r[k]) > 0 /\ h[k + 1] = h[k] + Len(r[k])
              /\ \A i \in 1..Len(r[k]) : r[k][i] = Inputs[h[k] + i]
  <2>1. CASE k = 1
    <3>1. r[k] = a /\ h[k] = d /\ h[k + 1] = d + q
      BY <1>15, <1>19, <2>1
    <3>2. ASSUME NEW i \in 1..q PROVE a[i] = Inputs[d + i]
      <4>1. i \in 1..p
        BY <1>6, <1>7
      <4>2. QED
        BY <1>6, <1>10, <4>1
    <3>3. QED
      BY <1>7, <1>10, <3>1, <3>2
  <2>2. CASE k = 2
    <3>1. h[3] = f[2] /\ d + p = (d + q) + (p - q)
      <4>1. 3 \in 3..(n + 2) /\ 3 - 1 = 2
        BY <1>6
      <4>2. QED
        BY <1>6, <1>7, <1>16, <1>19, <4>1
    <3>2. \A i \in 1..(p - q) : q + i \in 1..p /\ d + (q + i) = (d + q) + i
      BY <1>6, <1>7, <1>16
    <3>3. ASSUME NEW i \in 1..(p - q) PROVE b[i] = Inputs[(d + q) + i]
      <4>1. PICK j : j = q + i
        OBVIOUS
      <4>2. j \in 1..p /\ d + j = (d + q) + i
        BY <3>2, <4>1
      <4>3. b[i] = g[j] /\ g[j] = Inputs[d + j]
        BY <1>6, <1>10, <4>1, <4>2
      <4>4. QED
        BY <4>2, <4>3
    <3>4. PICK e : e = p - q
      OBVIOUS
    <3>5. r[k] = b /\ Len(b) = e /\ e > 0 /\ h[k] = d + q /\ h[k + 1] = (d + q) + e
      <4>1. r[k] = b /\ h[k] = d + q /\ k + 1 = 3
        BY <1>15, <1>19, <2>2
      <4>2. Len(b) = e /\ e > 0
        BY <1>6, <1>7, <1>10, <3>4
      <4>3. h[3] = (d + q) + e
        BY <1>17, <3>1, <3>4
      <4>4. QED
        BY <4>1, <4>2, <4>3
    <3>6. QED
      BY <3>3, <3>4, <3>5
  <2>3. CASE k # 1 /\ k # 2
    <3>1. /\ k \in 3..(n + 1) /\ k \in 3..(n + 2) /\ k + 1 \in 3..(n + 2) /\ k - 1 \in 1..n
          /\ (k + 1) - 1 = (k - 1) + 1
      BY <1>6, <2>3
    <3>2. r[k] = gs[k - 1] /\ h[k] = f[k - 1] /\ h[k + 1] = f[(k - 1) + 1]
      BY <1>15, <1>19, <3>1
    <3>3. QED
      BY <1>16, <3>1, <3>2
  <2>4. QED
    BY <2>1, <2>2, <2>3
<1>21. h[n + 2] = Len(Inputs)
  <2>1. CASE n = 0
    BY <1>6, <2>1
  <2>2. CASE n # 0
    <3>1. n + 2 \in 3..(n + 2) /\ (n + 2) - 1 = n + 1
      BY <1>6, <2>2
    <3>2. QED
      BY <1>16, <1>19, <3>1
  <2>3. QED
    BY <2>1, <2>2
<1>22. PICK m : m = Len(r)
  OBVIOUS
<1>23. m = n + 1 /\ m + 1 = n + 2
  BY <1>6, <1>15, <1>22
<1>24. /\ r \in Seq(Seq(Calls)) /\ d \in Nat /\ h \in [1..(m + 1) -> Nat] /\ h[1] = d
       /\ h[m + 1] = Len(Inputs)
  BY <1>15, <1>16, <1>19, <1>21, <1>23
<1>25. Cuts(h, r, d)
  BY <1>20, <1>22, <1>23, <1>24 DEF Cuts
<1>26. QED
  BY <1>14, <1>25

\* What is returned for the first group comes after what was returned, and
\* stands at its place.
LEMMA ReturnedInPlace ==
    ASSUME Placed, returnData \in Seq(Out), groups # <<>>,
           NEW outs \in Seq(Out), Len(outs) = Len(Head(groups)),
           \A i \in 1..Len(outs) : outs[i].call = Head(groups)[i],
           groups' = Tail(groups), returnData' = returnData \o outs
    PROVE  /\ Placed' /\ returnData' \in Seq(Out)
           /\ \A i \in 1..Len(returnData') :
                 \/ i \in 1..Len(returnData) /\ returnData'[i] = returnData[i]
                 \/ \E j \in 1..Len(outs) : returnData'[i] = outs[j]
<1>1. PICK d : d = Len(returnData)
  OBVIOUS
<1>2. PICK p : p = Len(outs)
  OBVIOUS
<1>3. PICK s : s = returnData'
  OBVIOUS
<1>4. PICK f : Cuts(f, groups, d)
  BY <1>1 DEF Placed
<1>5. /\ d \in Nat /\ p \in Nat /\ p = Len(Head(groups))
      /\ \A i \in 1..p : Head(groups)[i] = Inputs[d + i]
  <2>1. d \in Nat /\ p \in Nat
    BY <1>1, <1>2, LenProperties
  <2>2. QED
    BY <1>2, <1>4, <2>1, CutsHead
<1>6. /\ s \in Seq(Out) /\ Len(s) = d + p
      /\ \A i \in 1..(d + p) : s[i] = IF i <= d THEN returnData[i] ELSE outs[i - d]
  <2>1. PICK u : u = returnData
    OBVIOUS
  <2>2. u \in Seq(Out) /\ Len(u) = d /\ s = u \o outs
    BY <1>1, <1>3, <2>1
  <2>3. /\ u \o outs \in Seq(Out) /\ Len(u \o outs) = Len(u) + Len(outs)
        /\ \A i \in 1..(Len(u) + Len(outs)) :
              (u \o outs)[i] = IF i <= Len(u) THEN u[i] ELSE outs[i - Len(u)]
    <3>1. u \in Seq(Out) /\ outs \in Seq(Out)
      BY <2>2
    <3>2. QED
      BY ONLY <3>1, ConcatProperties
  <2>4. QED
    BY <1>2, <2>1, <2>2, <2>3
<1>7. \E h : Cuts(h, groups', d + p)
  BY <1>4, <1>5, CutsTail
<1>8. ASSUME NEW i \in 1..(d + p)
      PROVE  /\ s[i].call = Inputs[i]
             /\ \/ i \in 1..d /\ s[i] = returnData[i]
                \/ \E j \in 1..p : s[i] = outs[j]
  <2>1. CASE i <= d
    <3>1. i \in 1..d /\ s[i] = returnData[i]
      BY <1>5, <1>6, <2>1
    <3>2. QED
      BY <1>1, <3>1 DEF Placed
  <2>2. CASE i > d
    <3>1. PICK j : j = i - d
      OBVIOUS
    <3>2. j \in 1..p /\ d + j = i /\ s[i] = outs[j]
      BY <1>5, <1>6, <2>2, <3>1
    <3>3. outs[j].call = Inputs[d + j]
      BY <1>2, <1>5, <3>2
    <3>4. QED
      BY <3>2, <3>3
  <2>3. QED
    BY <1>5, <2>1, <2>2
<1>9. Placed'
  BY <1>3, <1>6, <1>7, <1>8 DEF Placed
<1>10. QED
  BY <1>1, <1>2, <1>3, <1>6, <1>8, <1>9

LEMMA LowerIs ==
    ASSUME NEW n \in Int, blockNumber \in Int
    PROVE  Multi!Lower(n) = IF blockNumber <= n THEN blockNumber ELSE n
<1>1. Multi!Lower(n) = Min({blockNumber, n})
  BY DEF Multi!Lower, Multi!Min, Min
<1>2. QED
  BY <1>1, MinOfTwo

\* The whole begins again.
LEMMA BeginKeeps ==
    ASSUME Multi!MultiCallConstants, MultiTypes, groups' = <<Inputs>>, returnData' = <<>>,
           blockNumber' = Multi!MaxInt64, head' \in Nat, lost' \in Seq(SUBSET Calls),
           multiPc' \in {"aggregate", "exited"}
    PROVE  MultiInv'
<1>1. returnData' \in Seq(Out) /\ Len(returnData') = 0 /\ DOMAIN returnData' = {}
  OBVIOUS
<1>2. Multi!MaxInt64' = Multi!MaxInt64 /\ Multi!MaxInt64 \in Int
  BY InputsFacts DEF Multi!MaxInt64
<1>3. MultiTypes'
  BY <1>1, <1>2 DEF MultiTypes
<1>4. \E f : Cuts(f, groups', Len(returnData'))
  BY <1>1, CutsFirst
<1>5. Placed' /\ NoneOlder'
  BY <1>1, <1>4 DEF Placed, NoneOlder
<1>6. Multi!OnlyFailedMissing'
  BY <1>1 DEF Multi!OnlyFailedMissing
<1>7. QED
  BY <1>3, <1>5, <1>6 DEF MultiInv

\* The first group has its outputs, none older than what is said of the whole.
LEMMA GroupReturned ==
    ASSUME Multi!MultiCallConstants, MultiInv, multiPc = "aggregate", groups # <<>>,
           NEW outs \in Seq(Out), Len(outs) = Len(Head(groups)),
           \A i \in 1..Len(outs) : outs[i].call = Head(groups)[i],
           groups' = Tail(groups), returnData' = returnData \o outs, multiPc' = multiPc,
           blockNumber' \in Int, blockNumber' <= blockNumber, head' \in Nat,
           \A i \in 1..Len(outs) : outs[i].at >= blockNumber',
           lost' \in Seq(SUBSET Calls), Multi!ToSet(lost) \subseteq Multi!ToSet(lost'),
           \A i \in 1..Len(outs) : ~outs[i].ok =>
              outs[i].call \in Bad \/ {outs[i].call} \in Multi!ToSet(lost')
    PROVE  MultiInv'
<1>0. MultiTypes /\ Placed /\ NoneOlder /\ Multi!OnlyFailedMissing /\ returnData \in Seq(Out)
      /\ DOMAIN returnData = 1..Len(returnData)
  BY LenProperties DEF MultiInv, MultiTypes
<1>1. /\ Placed' /\ returnData' \in Seq(Out) /\ DOMAIN returnData' = 1..Len(returnData')
      /\ \A i \in 1..Len(returnData') :
            \/ i \in 1..Len(returnData) /\ returnData'[i] = returnData[i]
            \/ \E j \in 1..Len(outs) : returnData'[i] = outs[j]
  BY <1>0, ReturnedInPlace, LenProperties
<1>2. MultiTypes'
  <2>1. Multi!MaxInt64' = Multi!MaxInt64 /\ Multi!MaxInt64 \in Int
    BY InputsFacts DEF Multi!MaxInt64
  <2>2. QED
    BY <1>0, <1>1, <2>1 DEF MultiTypes
<1>3. NoneOlder'
  <2>1. ASSUME NEW i \in 1..Len(returnData') PROVE returnData'[i].at >= blockNumber'
    <3>1. CASE i \in 1..Len(returnData) /\ returnData'[i] = returnData[i]
      <4>1. returnData[i].at >= blockNumber /\ returnData[i] \in Out
        BY <1>0, <3>1, ElementOfSeq DEF NoneOlder
      <4>2. returnData[i].at \in Int /\ blockNumber \in Int
        BY <1>0, <4>1 DEF Out, MultiTypes
      <4>3. QED
        BY <3>1, <4>1, <4>2
    <3>2. CASE \E j \in 1..Len(outs) : returnData'[i] = outs[j]
      BY <3>2
    <3>3. QED
      BY <1>1, <3>1, <3>2
  <2>2. QED
    BY <2>1 DEF NoneOlder
<1>4. Multi!OnlyFailedMissing'
  BY <1>0, <1>1 DEF Multi!OnlyFailedMissing
<1>5. QED
  BY <1>1, <1>2, <1>3, <1>4 DEF MultiInv

LEMMA AnswerKeeps ==
    ASSUME Multi!MultiCallConstants, MultiInv, Multi!Answer
    PROVE  MultiInv'
<1>0. MultiTypes /\ Placed
  BY DEF MultiInv
<1>1. PICK g : g = Head(groups)
  OBVIOUS
<1>2. /\ multiPc = "aggregate" /\ groups # <<>> /\ groups' = Tail(groups)
      /\ multiPc' = multiPc /\ lost' = lost
      /\ head' \in head..LastHead
      /\ returnData' = returnData \o [i \in DOMAIN g |-> [call |-> g[i], at |-> head, ok |-> TRUE]]
      /\ blockNumber' = Multi!Lower(head)
  BY <1>1 DEF Multi!Answer, Multi!Aggregate, Multi!Returned
<1>3. PICK p : p = Len(g)
  OBVIOUS
<1>4. g \in Seq(Calls) /\ p \in Nat /\ DOMAIN g = 1..p /\ \A i \in 1..p : g[i] \in Calls
  <2>1. g \in Seq(Calls)
    BY <1>0, <1>1, <1>2, CutsHead DEF Placed
  <2>2. QED
    BY <1>3, <2>1, LenProperties, ElementOfSeq
<1>5. PICK outs : outs = [i \in DOMAIN g |-> [call |-> g[i], at |-> head, ok |-> TRUE]]
  OBVIOUS
<1>6. head \in Nat /\ blockNumber \in Int /\ LastHead \in Nat
  BY <1>0, InputsFacts DEF MultiTypes
<1>7. \A i \in 1..p : outs[i].call = g[i] /\ outs[i].at = head /\ outs[i].ok = TRUE
  BY <1>4, <1>5
<1>8. outs \in Seq(Out) /\ Len(outs) = p
  <2>1. outs \in [1..p -> Out]
    BY <1>4, <1>5, <1>6 DEF Out
  <2>2. QED
    BY <1>4, <2>1, FunIsSeq
<1>9. blockNumber' \in Int /\ blockNumber' <= blockNumber /\ blockNumber' <= head
  BY <1>2, <1>6, LowerIs
<1>10. head' \in Nat
  BY <1>2, <1>6
<1>11. lost' \in Seq(SUBSET Calls)
  BY <1>0, <1>2 DEF MultiTypes
<1>12. Multi!ToSet(lost) \subseteq Multi!ToSet(lost')
  BY <1>2
<1>13. Len(outs) = Len(Head(groups)) /\ \A i \in 1..Len(outs) : outs[i].call = Head(groups)[i]
  BY <1>1, <1>3, <1>7, <1>8
<1>14. \A i \in 1..Len(outs) : outs[i].at >= blockNumber'
  BY <1>6, <1>7, <1>8, <1>9
<1>15. \A i \in 1..Len(outs) : ~outs[i].ok =>
          outs[i].call \in Bad \/ {outs[i].call} \in Multi!ToSet(lost')
  BY <1>7, <1>8
<1>16. returnData' = returnData \o outs
  BY <1>2, <1>5
<1>17. QED
  BY <1>2, <1>8, <1>9, <1>10, <1>11, <1>12, <1>13, <1>14, <1>15, <1>16, GroupReturned

\* Which calls an Aggregate that failed by chance had.
LEMMA FailsFacts ==
    ASSUME MultiTypes, NEW g \in Seq(Calls), Multi!Fails(g)
    PROVE  /\ lost' \in Seq(SUBSET Calls) /\ Multi!ToSet(lost) \subseteq Multi!ToSet(lost')
           /\ \/ Multi!ToSet(g) \cap Bad # {}
              \/ Multi!ToSet(g) \in Multi!ToSet(lost')
<1>1. lost \in Seq(SUBSET Calls)
  BY DEF MultiTypes
<1>2. PICK c : c = Multi!ToSet(g)
  OBVIOUS
<1>3. c \in SUBSET Calls
  BY <1>2, ElementOfSeq, LenProperties DEF Multi!ToSet
<1>4. CASE lost' = lost /\ c \cap Bad # {}
  BY <1>1, <1>2, <1>4
<1>5. CASE lost' = Append(lost, c)
  <2>1. PICK n : n = Len(lost)
    OBVIOUS
  <2>2. /\ lost' \in Seq(SUBSET Calls) /\ Len(lost') = n + 1 /\ n \in Nat
        /\ DOMAIN lost = 1..n /\ DOMAIN lost' = 1..(n + 1)
        /\ \A i \in 1..n : lost'[i] = lost[i]
        /\ lost'[n + 1] = c
    BY <1>1, <1>3, <1>5, <2>1, AppendProperties, LenProperties
  <2>3. Multi!ToSet(lost) \subseteq Multi!ToSet(lost') /\ c \in Multi!ToSet(lost')
    BY <2>2 DEF Multi!ToSet
  <2>4. QED
    BY <1>2, <2>2, <2>3
<1>6. QED
  BY <1>2, <1>4, <1>5 DEF Multi!Fails

LEMMA GiveUpKeeps ==
    ASSUME Multi!MultiCallConstants, MultiInv, Multi!GiveUp
    PROVE  MultiInv'
<1>0. MultiTypes /\ Placed
  BY DEF MultiInv
<1>1. PICK g : g = Head(groups)
  OBVIOUS
<1>2. PICK x : x = [call |-> g[1], at |-> Multi!MaxInt64, ok |-> FALSE]
  OBVIOUS
<1>3. PICK outs : outs = <<x>>
  OBVIOUS
<1>4. /\ multiPc = "aggregate" /\ groups # <<>> /\ groups' = Tail(groups) /\ Len(g) = 1
      /\ multiPc' = multiPc /\ head' = head /\ blockNumber' = blockNumber
      /\ returnData' = returnData \o outs /\ Multi!Fails(g)
  BY <1>1, <1>2, <1>3 DEF Multi!GiveUp, Multi!Returned
<1>5. g \in Seq(Calls) /\ DOMAIN g = 1..1 /\ g[1] \in Calls
  <2>1. g \in Seq(Calls)
    BY <1>0, <1>1, <1>4, CutsHead DEF Placed
  <2>2. DOMAIN g = 1..Len(g)
    BY <2>1, LenProperties
  <2>3. \A i \in 1..Len(g) : g[i] \in Calls
    BY <2>1, ElementOfSeq
  <2>4. 1 \in 1..Len(g)
    BY <1>4
  <2>5. QED
    BY <1>4, <2>1, <2>2, <2>3, <2>4
<1>6. Multi!ToSet(g) = {g[1]}
  BY <1>5 DEF Multi!ToSet
<1>7. /\ head \in Nat /\ blockNumber \in Int /\ blockNumber <= Multi!MaxInt64
      /\ Multi!MaxInt64 \in Int
  BY <1>0, InputsFacts DEF MultiTypes
<1>8. x \in Out /\ x.call = g[1] /\ x.at = Multi!MaxInt64 /\ x.ok = FALSE
  BY <1>2, <1>5, <1>7 DEF Out
<1>9. outs \in Seq(Out) /\ Len(outs) = 1 /\ outs[1] = x
  BY <1>3, <1>8, OneIsSeq
<1>10. /\ lost' \in Seq(SUBSET Calls) /\ Multi!ToSet(lost) \subseteq Multi!ToSet(lost')
       /\ x.call \in Bad \/ {x.call} \in Multi!ToSet(lost')
  BY <1>0, <1>4, <1>5, <1>6, <1>8, FailsFacts
<1>11. \A i \in 1..Len(outs) : i = 1
  BY <1>9
<1>12. Len(outs) = Len(Head(groups)) /\ \A i \in 1..Len(outs) : outs[i].call = Head(groups)[i]
  BY <1>1, <1>4, <1>8, <1>9, <1>11
<1>13. \A i \in 1..Len(outs) : outs[i].at >= blockNumber'
  BY <1>4, <1>7, <1>8, <1>9, <1>11
<1>14. \A i \in 1..Len(outs) : ~outs[i].ok =>
          outs[i].call \in Bad \/ {outs[i].call} \in Multi!ToSet(lost')
  BY <1>9, <1>10, <1>11
<1>15. blockNumber' \in Int /\ blockNumber' <= blockNumber /\ head' \in Nat
  BY <1>4, <1>7
<1>16. QED
  BY <1>4, <1>9, <1>10, <1>12, <1>13, <1>14, <1>15, GroupReturned

LEMMA SplitKeeps ==
    ASSUME Multi!MultiCallConstants, MultiInv, Multi!Split
    PROVE  MultiInv'
<1>0. MultiTypes /\ Placed /\ NoneOlder /\ Multi!OnlyFailedMissing
  BY DEF MultiInv
<1>1. /\ multiPc = "aggregate" /\ groups # <<>> /\ Len(Head(groups)) > 1
      /\ groups' = Multi!Halves(Head(groups)) \o Tail(groups) /\ Multi!Fails(Head(groups))
      /\ UNCHANGED <<multiPc, returnData, blockNumber, head>>
  BY DEF Multi!Split
<1>2. PICK f : Cuts(f, groups, Len(returnData))
  BY <1>0 DEF Placed
<1>3. Head(groups) \in Seq(Calls)
  BY <1>1, <1>2, CutsHead
<1>4. lost' \in Seq(SUBSET Calls) /\ Multi!ToSet(lost) \subseteq Multi!ToSet(lost')
  BY <1>0, <1>1, <1>3, FailsFacts
<1>5. \E h : Cuts(h, groups', Len(returnData))
  BY <1>1, <1>2, CutsHalved
<1>6. Placed'
  BY <1>0, <1>1, <1>5 DEF Placed
<1>7. MultiTypes'
  BY <1>0, <1>1, <1>4 DEF MultiTypes, Multi!MaxInt64
<1>8. NoneOlder'
  BY <1>0, <1>1 DEF NoneOlder
<1>9. Multi!OnlyFailedMissing'
  BY <1>0, <1>1, <1>4 DEF Multi!OnlyFailedMissing
<1>10. QED
  BY <1>6, <1>7, <1>8, <1>9 DEF MultiInv

LEMMA MultiKept ==
    ASSUME Multi!MultiCallConstants, MultiInv, [Multi!Next]_Multi!vars
    PROVE  MultiInv'
<1>0. MultiTypes
  BY DEF MultiInv
<1>1. CASE Multi!Mined
  BY <1>1 DEF Multi!Mined, MultiInv, MultiTypes, Placed, NoneOlder, Multi!OnlyFailedMissing,
     Multi!MaxInt64
<1>2. CASE Multi!Accept
  BY <1>2 DEF Multi!Accept, MultiInv, MultiTypes, Placed, NoneOlder, Multi!OnlyFailedMissing,
     Multi!MaxInt64
<1>3. CASE Multi!Refuse
  <2>1. /\ groups' = <<Inputs>> /\ returnData' = <<>> /\ blockNumber' = Multi!MaxInt64
        /\ head' = head /\ lost' = lost /\ multiPc' \in {"aggregate", "exited"}
    BY <1>3 DEF Multi!Refuse, Multi!Begin
  <2>2. head' \in Nat /\ lost' \in Seq(SUBSET Calls)
    BY <1>0, <2>1 DEF MultiTypes
  <2>3. QED
    BY <1>0, <2>1, <2>2, BeginKeeps
<1>4. CASE UNCHANGED Multi!vars
  BY <1>4 DEF Multi!vars, MultiInv, MultiTypes, Placed, NoneOlder, Multi!OnlyFailedMissing,
     Multi!MaxInt64
<1>5. QED
  BY <1>1, <1>2, <1>3, <1>4, AnswerKeeps, SplitKeeps, GiveUpKeeps DEF Multi!Next

LEMMA MultiBegins ==
    ASSUME Multi!MultiCallConstants, Multi!Init
    PROVE  MultiInv
<1>1. /\ multiPc = "aggregate" /\ groups = <<Inputs>> /\ returnData = <<>>
      /\ blockNumber = Multi!MaxInt64 /\ head = FirstHead /\ lost = <<>>
  BY DEF Multi!Init
<1>2. returnData \in Seq(Out) /\ Len(returnData) = 0 /\ DOMAIN returnData = {}
  BY <1>1
<1>3. lost \in Seq(SUBSET Calls)
  BY <1>1
<1>4. MultiTypes
  BY <1>1, <1>2, <1>3, InputsFacts DEF MultiTypes
<1>5. \E f : Cuts(f, groups, Len(returnData))
  BY <1>1, <1>2, CutsFirst
<1>6. Placed /\ NoneOlder
  BY <1>1, <1>2, <1>5 DEF Placed, NoneOlder
<1>7. Multi!OnlyFailedMissing
  BY <1>2 DEF Multi!OnlyFailedMissing
<1>8. QED
  BY <1>4, <1>6, <1>7 DEF MultiInv

LEMMA MultiInvariant == ASSUME Multi!MultiCallConstants PROVE Multi!Spec => []MultiInv
<1>1. Multi!Init => MultiInv
  BY MultiBegins
<1>2. MultiInv /\ [Multi!Next]_Multi!vars => MultiInv'
  BY MultiKept
<1>3. QED
  BY <1>1, <1>2, PTL DEF Multi!Spec

\* The caller matches outputs and balances by position: output i is that of
\* input i, however the calls were halved, and an accepted result has as many.
\* (AggregateWithRetry)
THEOREM OutputsMatchInputs ==
    ASSUME Multi!MultiCallConstants
    PROVE  Multi!Spec => []OutputsInPlace
<1>1. MultiInv => OutputsInPlace
  <2> SUFFICES ASSUME MultiInv PROVE OutputsInPlace
    OBVIOUS
  <2>1. DOMAIN returnData = 1..Len(returnData)
    BY LenProperties DEF MultiInv, MultiTypes
  <2>2. \A i \in DOMAIN returnData : returnData[i].call = Inputs[i]
    BY <2>1 DEF MultiInv, Placed
  <2>3. ASSUME multiPc = "accepted" PROVE Len(returnData) = Len(Inputs)
    <3>1. groups = <<>>
      BY <2>3 DEF MultiInv, NoneOlder
    <3>2. PICK f : Cuts(f, groups, Len(returnData))
      BY DEF MultiInv, Placed
    <3>3. Len(groups) = 0
      BY <3>1
    <3>4. f[1] = Len(returnData) /\ f[0 + 1] = Len(Inputs)
      BY <3>2, <3>3 DEF Cuts
    <3>5. QED
      BY <3>4
  <2>4. QED
    BY <2>2, <2>3 DEF OutputsInPlace
<1>2. QED
  BY <1>1, MultiInvariant, PTL

\* Without an output there are only the calls that fail, and those whose own
\* Aggregate failed by chance.  (AggregateWithRetry)
THEOREM FailuresStayAlone ==
    ASSUME Multi!MultiCallConstants
    PROVE  Multi!Spec => []Multi!OnlyFailedMissing
<1>1. MultiInv => Multi!OnlyFailedMissing
  BY DEF MultiInv
<1>2. QED
  BY <1>1, MultiInvariant, PTL

\* No output of an accepted result is older than the block it is saved with,
\* or than the caller asked for.  (getBalanceByMultiCall)
THEOREM NoneIsOlder ==
    ASSUME Multi!MultiCallConstants
    PROVE  Multi!Spec => []Multi!AcceptedHeight
<1>1. MultiInv => Multi!AcceptedHeight
  <2> SUFFICES ASSUME MultiInv PROVE Multi!AcceptedHeight
    OBVIOUS
  <2>1. DOMAIN returnData = 1..Len(returnData)
    BY LenProperties DEF MultiInv, MultiTypes
  <2>2. QED
    BY <2>1 DEF MultiInv, NoneOlder, Multi!AcceptedHeight
<1>2. QED
  BY <1>1, MultiInvariant, PTL

----------------------------------------------------------------------------
(* The inserts, TableWriter.                                                *)

CONSTANTS Rows, Before, MaxRows, SqlBatch, RetryTimes

VARIABLES savePc, op, saveRows, inserted, draft, table, saveTries, before, saveLost

Writer == INSTANCE TableWriter
    WITH pc <- savePc, rows <- saveRows, i <- inserted, tries <- saveTries, first <- before,
         lost <- saveLost

Total == Len(saveRows)

\* t is the table s, and after it the first n of the rows to save.
Grown(t, s, n) ==
    /\ t \in Seq(Rows) /\ Len(t) = Len(s) + n
    /\ \A j \in 1..Len(s) : t[j] = s[j]
    /\ \A j \in 1..n : t[Len(s) + j] = saveRows[j]

WriterTypes ==
    /\ saveRows \in Seq(Rows) /\ table \in Seq(Rows) /\ before \in Seq(Rows)
    /\ inserted \in 0..Total
    /\ savePc \in {"begin", "write", "commit", "saved", "exited"}

\* A plain insert goes on where the last one ended; nothing else writes.
PlainWrites ==
    /\ savePc = "write" => Grown(draft, table, inserted)
    /\ savePc = "commit" => Grown(draft, table, Total)
    /\ ~saveLost => IF savePc = "saved" THEN Grown(table, before, Total) ELSE table = before

WriterInv == op \in Writer!PlainOps => WriterTypes /\ PlainWrites

----------------------------------------------------------------------------
LEMMA InitWriter ==
    ASSUME Writer!TableWriterConstants, Writer!Init
    PROVE  WriterInv
<1>1. /\ savePc = "begin" /\ inserted = 0 /\ saveLost = FALSE
      /\ saveRows \in UNION {[1..n -> Rows] : n \in 0..MaxRows}
      /\ table \in Before /\ before = table
  BY DEF Writer!Init
<1>2. saveRows \in Seq(Rows)
  BY <1>1 DEF Writer!TableWriterConstants
<1>3. table \in Seq(Rows)
  BY <1>1 DEF Writer!TableWriterConstants
<1>4. Total \in Nat
  BY <1>2, LenProperties DEF Total
<1>5. WriterTypes
  BY <1>1, <1>2, <1>3, <1>4 DEF WriterTypes
<1>6. PlainWrites
  BY <1>1 DEF PlainWrites
<1>7. QED
  BY <1>5, <1>6 DEF WriterInv

LEMMA GrownNothing ==
    ASSUME NEW t \in Seq(Rows)
    PROVE  Grown(t, t, 0)
<1>1. Len(t) \in Nat
  BY LenProperties
<1>2. QED
  BY <1>1 DEF Grown

\* The rows from n + 1 to e, after the first n.
LEMMA GrownFurther ==
    ASSUME NEW t, NEW s \in Seq(Rows), NEW n \in Nat, NEW e \in Nat, saveRows \in Seq(Rows),
           n < e, e <= Len(saveRows), Grown(t, s, n)
    PROVE  Grown(t \o SubSeq(saveRows, n + 1, e), s, e)
<1>1. PICK l : l = Len(s)
  OBVIOUS
<1>2. /\ l \in Nat /\ t \in Seq(Rows) /\ Len(t) = l + n
      /\ \A j \in 1..l : t[j] = s[j]
      /\ \A j \in 1..n : t[l + j] = saveRows[j]
  BY <1>1, LenProperties DEF Grown
<1>3. \A j \in (n + 1)..e : saveRows[j] \in Rows
  <2>1. \A j \in (n + 1)..e : j \in 1..Len(saveRows)
    BY LenProperties
  <2>2. QED
    BY <2>1, ElementOfSeq
<1>4. PICK b : b = SubSeq(saveRows, n + 1, e)
  OBVIOUS
<1>5. /\ b \in Seq(Rows) /\ Len(b) = IF n + 1 <= e THEN e - (n + 1) + 1 ELSE 0
      /\ \A j \in 1..(e - (n + 1) + 1) : b[j] = saveRows[(n + 1) + j - 1]
  <2>1. n + 1 \in Int /\ e \in Int
    OBVIOUS
  <2>2. QED
    BY <1>3, <1>4, <2>1, SubSeqProperties
<1>6. b \in Seq(Rows) /\ Len(b) = e - n /\ \A j \in 1..(e - n) : b[j] = saveRows[n + j]
  BY <1>5
<1>7. PICK u : u = t \o b
  OBVIOUS
<1>8. /\ u \in Seq(Rows) /\ Len(u) = Len(t) + Len(b)
      /\ \A j \in 1..(Len(t) + Len(b)) : u[j] = IF j <= Len(t) THEN t[j] ELSE b[j - Len(t)]
  BY <1>2, <1>6, <1>7, ConcatProperties
<1>9. Len(u) = l + e
  BY <1>2, <1>6, <1>8
<1>10. \A j \in 1..l : u[j] = s[j]
  BY <1>2, <1>6, <1>8
<1>11. ASSUME NEW j \in 1..e PROVE u[l + j] = saveRows[j]
  <2>1. l + j \in 1..(Len(t) + Len(b))
    BY <1>2, <1>6
  <2>2. CASE j <= n
    <3>1. u[l + j] = t[l + j]
      BY <1>2, <1>8, <2>1, <2>2
    <3>2. QED
      BY <1>2, <2>2, <3>1
  <2>3. CASE ~(j <= n)
    <3>1. u[l + j] = b[(l + j) - Len(t)] /\ (l + j) - Len(t) = j - n
      BY <1>2, <1>8, <2>1, <2>3
    <3>2. j - n \in 1..(e - n) /\ n + (j - n) = j
      BY <2>3
    <3>3. QED
      BY <1>6, <3>1, <3>2
  <2>4. QED
    BY <2>2, <2>3
<1>12. QED
  BY <1>1, <1>4, <1>7, <1>8, <1>9, <1>10, <1>11 DEF Grown

LEMMA PlainInsert ==
    ASSUME NEW o \in Writer!PlainOps, NEW t, NEW rs
    PROVE  Writer!Insert(o, t, rs) = t \o rs /\ Writer!InSession(o)
BY DEF Writer!PlainOps, Writer!Insert, Writer!InSession, Writer!Plain, Writer!insertTxs,
       Writer!insertTxErc20s, Writer!insertTxErc721s, Writer!insertTxlogs,
       Writer!insertTxInternals, Writer!SaveTxErc1155s

LEMMA NextWriter ==
    ASSUME Writer!TableWriterConstants, WriterInv, [Writer!Next]_Writer!vars
    PROVE  WriterInv'
<1> SUFFICES ASSUME op' \in Writer!PlainOps PROVE (WriterTypes /\ PlainWrites)'
  BY DEF WriterInv, Writer!PlainOps
<1>1. op' = op /\ saveRows' = saveRows /\ before' = before
  BY DEF Writer!Next, Writer!Begin, Writer!InsertBatch, Writer!Inserted, Writer!Fails,
         Writer!Commit, Writer!CommitAnswerLost, Writer!vars
<1>2. op \in Writer!PlainOps /\ WriterTypes /\ PlainWrites
  BY <1>1 DEF WriterInv, Writer!PlainOps
<1>3. Total' = Total /\ Total \in Nat /\ saveRows \in Seq(Rows)
  BY <1>1, <1>2, LenProperties DEF Total, WriterTypes
<1>4. CASE Writer!Begin
  <2>1. /\ savePc = "begin" /\ savePc' = "write" /\ inserted' = 0 /\ draft' = table
        /\ UNCHANGED <<table, saveLost>>
    BY <1>4 DEF Writer!Begin
  <2>2. Grown(table, table, 0)
    BY <1>2, GrownNothing DEF WriterTypes
  <2>3. Grown(draft, table, inserted)'
    BY <1>1, <2>1, <2>2 DEF Grown
  <2>4. PlainWrites'
    BY <1>1, <1>2, <2>1, <2>3 DEF PlainWrites
  <2>5. WriterTypes'
    BY <1>1, <1>2, <1>3, <2>1 DEF WriterTypes
  <2>6. QED
    BY <2>4, <2>5
<1>5. CASE Writer!InsertBatch
  <2>1. /\ savePc = "write" /\ inserted < Total /\ inserted' = Writer!BatchEnd
        /\ draft' = Writer!Insert(op, draft, Writer!Batch)
        /\ IF Writer!InSession(op) THEN table' = table ELSE table' = draft'
        /\ UNCHANGED <<savePc, saveLost>>
    BY <1>5 DEF Writer!InsertBatch, Total
  <2>2. PICK e : e = Writer!BatchEnd
    OBVIOUS
  <2>3. inserted \in Nat /\ e \in Nat /\ inserted < e /\ e <= Total
    <3> DEFINE p == inserted + SqlBatch
    <3>1. inserted \in Nat /\ p \in Nat /\ p > inserted
      BY <1>2, <1>3 DEF WriterTypes, Writer!TableWriterConstants
    <3>2. \E m \in {p, Total} : \A x \in {p, Total} : m <= x
      BY <1>3, <3>1
    <3>3. Writer!Min({p, Total}) \in {p, Total}
          /\ \A x \in {p, Total} : Writer!Min({p, Total}) <= x
      BY <3>2 DEF Writer!Min
    <3>4. e = Writer!Min({p, Total})
      BY <2>2 DEF Writer!BatchEnd, Total
    <3>5. QED
      BY <1>3, <2>1, <3>1, <3>3, <3>4
  <2>4. PICK b : b = Writer!Batch
    OBVIOUS
  <2>5. b = SubSeq(saveRows, inserted + 1, e)
    BY <2>2, <2>4 DEF Writer!Batch
  <2>6. Writer!InSession(op) /\ Writer!Insert(op, draft, b) = draft \o b
    BY <1>2, PlainInsert
  <2>7. draft' = draft \o b /\ table' = table
    BY <2>1, <2>4, <2>6
  <2>8. Grown(draft, table, inserted)
    BY <1>2, <2>1 DEF PlainWrites
  <2>9. table \in Seq(Rows) /\ e <= Len(saveRows)
    BY <1>2, <2>3 DEF WriterTypes, Total
  <2>10. Grown(draft \o SubSeq(saveRows, inserted + 1, e), table, e)
    BY <1>3, <2>3, <2>8, <2>9, GrownFurther
  <2>11. Grown(draft, table, inserted)'
    BY <1>1, <2>1, <2>2, <2>5, <2>7, <2>10 DEF Grown
  <2>12. PlainWrites'
    BY <1>1, <1>2, <2>1, <2>7, <2>11 DEF PlainWrites
  <2>13. WriterTypes'
    BY <1>1, <1>2, <1>3, <2>1, <2>2, <2>3, <2>7 DEF WriterTypes
  <2>14. QED
    BY <2>12, <2>13
<1>6. CASE Writer!Inserted
  <2>1. /\ savePc = "write" /\ inserted >= Total
        /\ savePc' = IF Writer!InSession(op) THEN "commit" ELSE "saved"
        /\ UNCHANGED <<inserted, draft, table, saveLost>>
    BY <1>6 DEF Writer!Inserted, Total
  <2>2. Writer!InSession(op)
    BY <1>2, PlainInsert
  <2>3. savePc' = "commit" /\ inserted = Total
    BY <1>2, <1>3, <2>1, <2>2 DEF WriterTypes
  <2>4. Grown(draft, table, Total)
    BY <1>2, <2>1, <2>3 DEF PlainWrites
  <2>5. Grown(draft, table, Total)'
    BY <1>1, <1>3, <2>1, <2>4 DEF Grown
  <2>6. PlainWrites'
    BY <1>1, <1>2, <2>1, <2>3, <2>5 DEF PlainWrites
  <2>7. WriterTypes'
    BY <1>1, <1>2, <1>3, <2>1, <2>3 DEF WriterTypes
  <2>8. QED
    BY <2>6, <2>7
<1>7. CASE Writer!Fails
  <2>1. /\ savePc \in {"write", "commit"} /\ savePc' \in {"exited", "begin"}
        /\ UNCHANGED <<inserted, draft, table, saveLost>>
    BY <1>7 DEF Writer!Fails, Writer!Retry, Writer!Rollback
  <2>2. PlainWrites'
    BY <1>1, <1>2, <2>1 DEF PlainWrites
  <2>3. WriterTypes'
    BY <1>1, <1>2, <1>3, <2>1 DEF WriterTypes
  <2>4. QED
    BY <2>2, <2>3
<1>8. CASE Writer!Commit
  <2>1. /\ savePc = "commit" /\ table' = draft /\ savePc' = "saved"
        /\ UNCHANGED <<inserted, draft, saveLost>>
    BY <1>8 DEF Writer!Commit
  <2>2. Grown(draft, table, Total) /\ draft \in Seq(Rows)
    BY <1>2, <2>1 DEF PlainWrites, Grown
  <2>3. ~saveLost => Grown(table, before, Total)'
    <3> SUFFICES ASSUME ~saveLost PROVE Grown(table, before, Total)'
      OBVIOUS
    <3>1. table = before
      BY <1>2, <2>1 DEF PlainWrites
    <3>2. QED
      BY <1>1, <1>3, <2>1, <2>2, <3>1 DEF Grown
  <2>4. PlainWrites'
    BY <2>1, <2>3 DEF PlainWrites
  <2>5. WriterTypes'
    BY <1>1, <1>2, <1>3, <2>1, <2>2 DEF WriterTypes
  <2>6. QED
    BY <2>4, <2>5
<1>9. CASE Writer!CommitAnswerLost
  <2>1. /\ savePc = "commit" /\ table' = draft /\ savePc' \in {"exited", "begin"}
        /\ saveLost' = TRUE /\ UNCHANGED <<inserted, draft>>
    BY <1>9 DEF Writer!CommitAnswerLost, Writer!Retry
  <2>2. draft \in Seq(Rows)
    BY <1>2, <2>1 DEF PlainWrites, Grown
  <2>3. PlainWrites'
    BY <2>1 DEF PlainWrites
  <2>4. WriterTypes'
    BY <1>1, <1>2, <1>3, <2>1, <2>2 DEF WriterTypes
  <2>5. QED
    BY <2>3, <2>4
<1>10. CASE UNCHANGED Writer!vars
  <2>1. UNCHANGED <<savePc, inserted, draft, table, saveLost>>
    BY <1>10 DEF Writer!vars
  <2>2. Grown(draft, table, inserted)' = Grown(draft, table, inserted)
    BY <1>1, <2>1 DEF Grown
  <2>3. Grown(draft, table, Total)' = Grown(draft, table, Total)
    BY <1>1, <1>3, <2>1 DEF Grown
  <2>4. Grown(table, before, Total)' = Grown(table, before, Total)
    BY <1>1, <1>3, <2>1 DEF Grown
  <2>5. PlainWrites'
    BY <1>1, <1>2, <2>1, <2>2, <2>3, <2>4 DEF PlainWrites
  <2>6. WriterTypes'
    BY <1>1, <1>2, <1>3, <2>1 DEF WriterTypes
  <2>7. QED
    BY <2>5, <2>6
<1>11. QED
  BY <1>4, <1>5, <1>6, <1>7, <1>8, <1>9, <1>10 DEF Writer!Next

\* What Grown says of all the rows, said with a concatenation.
LEMMA GrownIsWritten ==
    ASSUME NEW t, NEW s \in Seq(Rows), saveRows \in Seq(Rows), Grown(t, s, Total)
    PROVE  t = s \o saveRows
<1>1. PICK u : u = s \o saveRows
  OBVIOUS
<1>2. PICK l : l = Len(s)
  OBVIOUS
<1>3. l \in Nat /\ Total \in Nat
  BY <1>2, LenProperties DEF Total
<1>4. /\ u \in Seq(Rows) /\ Len(u) = l + Total
      /\ \A j \in 1..(l + Total) : u[j] = IF j <= l THEN s[j] ELSE saveRows[j - l]
  BY <1>1, <1>2, ConcatProperties DEF Total
<1>5. /\ t \in Seq(Rows) /\ Len(t) = l + Total
      /\ \A j \in 1..l : t[j] = s[j]
      /\ \A j \in 1..Total : t[l + j] = saveRows[j]
  BY <1>2 DEF Grown
<1>6. ASSUME NEW j \in 1..(l + Total) PROVE t[j] = u[j]
  <2>1. CASE j <= l
    BY <1>3, <1>4, <1>5, <2>1
  <2>2. CASE ~(j <= l)
    <3>1. j - l \in 1..Total /\ l + (j - l) = j
      BY <1>3, <2>2
    <3>2. t[j] = saveRows[j - l]
      BY <1>5, <3>1
    <3>3. QED
      BY <1>4, <2>2, <3>2
  <2>3. QED
    BY <2>1, <2>2
<1>7. \A j \in 1..Len(t) : t[j] = u[j]
  BY <1>5, <1>6
<1>8. t = u
  BY <1>4, <1>5, <1>7, SeqEqual
<1>9. QED
  BY <1>1, <1>8

\* A save with plain inserts that is reported done wrote its rows once, behind
\* those that were there, in INSERTs of whatever size and after however many
\* attempts, unless the answer to a commit was lost.  (SavedIsWritten for the
\* tables without unique key; the others are an induction over the rows.)
THEOREM SavedOncePlainly ==
    ASSUME Writer!TableWriterConstants
    PROVE  Writer!Spec => [](/\ op \in Writer!PlainOps => Writer!SavedIsWritten
                             /\ op \in Writer!PlainOps /\ savePc = "saved" /\ ~saveLost
                                    => table = before \o saveRows)
<1>1. Writer!Init => WriterInv
  BY InitWriter
<1>2. WriterInv /\ [Writer!Next]_Writer!vars => WriterInv'
  BY NextWriter
<1>3. ASSUME WriterInv, op \in Writer!PlainOps, savePc = "saved", ~saveLost
      PROVE  table = before \o saveRows
  <2>1. /\ WriterTypes /\ Grown(table, before, Total)
    BY <1>3 DEF WriterInv, PlainWrites
  <2>2. QED
    BY <2>1, GrownIsWritten DEF WriterTypes
<1>4. ASSUME WriterInv, op \in Writer!PlainOps PROVE Writer!SavedIsWritten
  <2>1. savePc = "saved" /\ ~saveLost => table = before \o saveRows
    BY <1>3, <1>4
  <2>2. savePc = "saved" /\ ~saveLost => Writer!Written
    BY <1>4, <2>1 DEF Writer!Written
  <2>3. QED
    BY <1>4, <2>2 DEF Writer!SavedIsWritten
<1>5. QED
  BY <1>1, <1>2, <1>3, <1>4, PTL DEF Writer!Spec

\* A save in a session that was never committed left nothing behind, whatever
\* way its rows are inserted.
THEOREM NothingIsLeftInPart == Writer!Spec => []Writer!NothingInPart
<1>1. Writer!Init => Writer!NothingInPart
  BY DEF Writer!Init, Writer!NothingInPart
<1>2. ASSUME Writer!NothingInPart, [Writer!Next]_Writer!vars PROVE Writer!NothingInPart'
  <2> USE DEF Writer!NothingInPart, Writer!InSession
  <2>1. CASE Writer!Begin
    BY <1>2, <2>1 DEF Writer!Begin
  <2>2. CASE Writer!InsertBatch
    BY <1>2, <2>2 DEF Writer!InsertBatch
  <2>3. CASE Writer!Inserted
    BY <1>2, <2>3 DEF Writer!Inserted
  <2>4. CASE Writer!Fails
    BY <1>2, <2>4 DEF Writer!Fails, Writer!Rollback
  <2>5. CASE Writer!Commit \/ Writer!CommitAnswerLost
    BY <1>2, <2>5 DEF Writer!Commit, Writer!CommitAnswerLost
  <2>6. CASE UNCHANGED Writer!vars
    BY <1>2, <2>6 DEF Writer!vars
  <2>7. QED
    BY <1>2, <2>1, <2>2, <2>3, <2>4, <2>5, <2>6 DEF Writer!Next
<1>3. QED
  BY <1>1, <1>2, PTL DEF Writer!Spec
=============================================================================

-------------------------- MODULE BaseStorageProof --------------------------
(***************************************************************************)
(* Theorems about BaseStorage, for every value of its constants.            *)
(***************************************************************************)
EXTENDS BaseStorage, SequenceTheorems, WellFoundedInduction, TLAPS

----------------------------------------------------------------------------
(* Induction over 0..n. *)

LEMMA LeastNumber ==
    ASSUME NEW T, T \subseteq Nat, T # {}
    PROVE  \E x \in T : \A y \in T : x <= y
<1>1. IsWellFoundedOn(OpToRel(<, Nat), Nat)
  BY NatLessThanWellFounded
<1>2. PICK x \in T : \A y \in T : ~(<<y, x>> \in OpToRel(<, Nat))
  BY <1>1, WFMin
<1>3. \A y, z \in Nat : y < z => <<y, z>> \in OpToRel(<, Nat)
  BY DEF OpToRel
<1>4. \A y \in T : ~(y < x)
  <2> SUFFICES ASSUME NEW y \in T, y < x PROVE FALSE
    OBVIOUS
  <2>1. <<y, x>> \in OpToRel(<, Nat)
    BY <1>3
  <2>2. QED
    BY <1>2, <2>1
<1>5. QED
  BY <1>4

\* What holds of 0 and goes from each number below n to the next one holds of
\* all the numbers up to n.  (The provers at hand cannot instantiate the operator
\* of NatInduction; to show P(i) for i in 0..n, take G = {i \in 0..n : P(i)}.)
LEMMA UpTo ==
    ASSUME NEW n \in Nat, NEW G, 0 \in G,
           \A i \in 0..(n - 1) : i \in G => i + 1 \in G
    PROVE  0..n \subseteq G
<1> DEFINE T == {i \in 0..n : i \notin G}
<1> SUFFICES ASSUME T # {} PROVE FALSE
  OBVIOUS
<1>1. T \subseteq Nat
  OBVIOUS
<1>2. PICK x \in T : \A y \in T : x <= y
  <2> HIDE DEF T
  <2> QED
    BY <1>1, LeastNumber
<1>3. x # 0 /\ x - 1 \in 0..(n - 1) /\ x - 1 \notin T
  BY <1>2
<1>4. x - 1 \in G
  BY <1>3
<1>5. QED
  BY <1>3, <1>4

----------------------------------------------------------------------------
\* The heights that have a row which is not reverted.
OkNums == {b.num : b \in OkBlocks}

RowsInv == MainBlockNum \in Nat /\ OkNums = 1..MainBlockNum

Working == {"select", "save", "mark"}

\* The height the database has when what was collected is saved.
Top == IF inHand # <<>> /\ inHand[1].state = "ok" THEN inHand[1].blk.num
       ELSE curHeight

\* The collected blocks end at Top, and the database reaches into them at least
\* as far as saveBlocks has gone; while a block is being reverted nothing is
\* collected, and its rows are marked or not.
CollectInv ==
    /\ spc \in {"created", "subscribed"} =>
          blocks = <<>> /\ inHand = <<>> /\ saved = 0
    /\ spc \in Working =>
          /\ Top \in Nat /\ Len(blocks) <= Top
          /\ \A i \in DOMAIN blocks : blocks[i].num = Top - Len(blocks) + i
          /\ MainBlockNum <= Top
    /\ spc = "select" => inHand = <<>> /\ saved = 0
    /\ spc \in {"select", "save"} => Top - Len(blocks) + saved <= MainBlockNum
    /\ spc = "select" => Len(blocks) <= MaxBlockCount
    /\ spc = "mark" => /\ inHand # <<>> /\ inHand[1].state = "revert"
                       /\ blocks = <<>>
                       /\ \/ MainBlockNum = curHeight
                          \/ /\ MainBlockNum = curHeight - 1
                             /\ inHand[1].blk.num = curHeight

TriesInv == spc \in Running => tries <= RetryTimes

SentNumbered == \A n \in DOMAIN sent : sent[n].num = n

SInv == TypeOK /\ SentNumbered /\ RowsInv /\ OneOkRow /\ CollectInv /\ TriesInv

----------------------------------------------------------------------------
(* Lemmas about sets of heights and about the database. *)

LEMMA MaxUpTo ==
    ASSUME NEW h \in Nat
    PROVE  Max((1..h) \cup {0}) = h
<1>1. h \in (1..h) \cup {0} /\ \A y \in (1..h) \cup {0} : h >= y
  OBVIOUS
<1>2. \A x \in (1..h) \cup {0} :
         (\A y \in (1..h) \cup {0} : x >= y) => x = h
  BY <1>1
<1>3. QED
  BY <1>1, <1>2 DEF Max

LEMMA BlockNum == \A b \in Blocks : b.num \in Nat \ {0}
  BY BaseStorageAssumption

LEMMA InsertFacts ==
    ASSUME rows \in Seq(Row), NEW b \in Blocks, Insert(b)
    PROVE  /\ rows' \in Seq(Row)
           /\ OkBlocks' = OkBlocks \cup {b}
           /\ OkNums' = OkNums \cup {b.num}
           /\ OneOkRow /\ b.num \notin OkNums => OneOkRow'
<1> DEFINE r == [blk |-> b, state |-> "ok"]
<1>1. r \in Row
  BY DEF Row
<1>2. rows' = Append(rows, r)
  BY DEF Insert
<1>3. /\ rows' \in Seq(Row)
      /\ Len(rows') = Len(rows) + 1
      /\ \A i \in 1..Len(rows) : rows'[i] = rows[i]
      /\ rows'[Len(rows) + 1] = r
  BY <1>1, <1>2, AppendProperties
<1>4. DOMAIN rows = 1..Len(rows) /\ DOMAIN rows' = 1..(Len(rows) + 1)
      /\ Len(rows) \in Nat
  BY <1>3, LenProperties
<1>5. OkRows' = OkRows \cup {Len(rows) + 1}
  BY <1>3, <1>4 DEF OkRows
<1>6. OkRows \subseteq 1..Len(rows)
  BY <1>4 DEF OkRows
<1>7. OkBlocks' = OkBlocks \cup {b}
  <2>1. \A i \in OkRows : rows'[i] = rows[i]
    BY <1>3, <1>6
  <2>2. rows'[Len(rows) + 1].blk = b
    BY <1>3
  <2>3. QED
    BY <2>1, <2>2, <1>5 DEF OkBlocks
<1>8. OkNums' = OkNums \cup {b.num}
  BY <1>7 DEF OkNums
<1>9. ASSUME OneOkRow, b.num \notin OkNums
      PROVE  OneOkRow'
  <2>1. \A i \in OkRows : rows'[i].blk.num = rows[i].blk.num /\ rows[i].blk.num # b.num
    BY <1>3, <1>6, <1>9 DEF OkNums, OkBlocks
  <2>2. rows'[Len(rows) + 1].blk.num = b.num
    BY <1>3
  <2>3. QED
    BY <1>5, <1>9, <2>1, <2>2 DEF OneOkRow
<1>10. QED
  BY <1>3, <1>7, <1>8, <1>9

LEMMA MarkFacts ==
    ASSUME rows \in Seq(Row), NEW n \in Nat, MarkReverted(n)
    PROVE  /\ rows' \in Seq(Row)
           /\ OkBlocks' = {b \in OkBlocks : b.num # n}
           /\ OkNums' = OkNums \ {n}
           /\ OneOkRow => OneOkRow'
<1>1. rows' = [i \in DOMAIN rows |->
                  IF i \in OkRows /\ rows[i].blk.num = n
                  THEN [rows[i] EXCEPT !.state = "revert"] ELSE rows[i]]
  BY DEF MarkReverted
<1>2. DOMAIN rows = 1..Len(rows) /\ Len(rows) \in Nat
  BY LenProperties
<1>3. \A i \in DOMAIN rows : rows[i] \in Row
  BY ElementOfSeq, <1>2
<1>4. \A i \in DOMAIN rows : rows'[i] \in Row
  BY <1>1, <1>3 DEF Row
<1>5. DOMAIN rows' = DOMAIN rows
  BY <1>1
<1>6. rows' \in Seq(Row)
  BY <1>1, <1>2, <1>4, SeqDef
<1>7. \A i \in DOMAIN rows : rows'[i].blk = rows[i].blk
  BY <1>1, <1>3 DEF Row
<1>8. OkRows' = {i \in OkRows : rows[i].blk.num # n}
  BY <1>1, <1>3, <1>5 DEF OkRows, Row
<1>9. OkNums' = OkNums \ {n}
  <2>1. OkNums' = {rows'[i].blk.num : i \in OkRows'}
    BY DEF OkNums, OkBlocks
  <2>2. OkNums = {rows[i].blk.num : i \in OkRows}
    BY DEF OkNums, OkBlocks
  <2>3. \A i \in OkRows' : rows'[i].blk.num = rows[i].blk.num
    BY <1>7, <1>8 DEF OkRows
  <2>4. QED
    BY <2>1, <2>2, <2>3, <1>8
<1>10. OneOkRow => OneOkRow'
  BY <1>7, <1>8 DEF OneOkRow, OkRows
<1>11. OkBlocks' = {b \in OkBlocks : b.num # n}
  <2>1. OkBlocks' = {rows'[i].blk : i \in OkRows'}
    BY DEF OkBlocks
  <2>2. OkBlocks = {rows[i].blk : i \in OkRows}
    BY DEF OkBlocks
  <2>3. \A i \in OkRows' : rows'[i].blk = rows[i].blk
    BY <1>7, <1>8 DEF OkRows
  <2>4. QED
    BY <2>1, <2>2, <2>3, <1>8
<1>12. QED
  BY <1>6, <1>9, <1>10, <1>11

\* A step that leaves the heights 1..h gives RowsInv and the new MainBlockNum.
LEMMA NewHeight ==
    ASSUME NEW h \in Nat, OkNums' = 1..h
    PROVE  MainBlockNum' = h /\ RowsInv'
<1>1. MainBlockNum' = Max(OkNums' \cup {0})
  BY DEF MainBlockNum, OkNums
<1>2. MainBlockNum' = h
  BY <1>1, MaxUpTo
<1>3. QED
  BY <1>2 DEF RowsInv

LEMMA SameRows ==
    ASSUME rows' = rows
    PROVE  /\ MainBlockNum' = MainBlockNum
           /\ OkNums' = OkNums /\ OkBlocks' = OkBlocks
           /\ RowsInv' = RowsInv /\ OneOkRow' = OneOkRow
           /\ \A b : Exists(b)' = Exists(b)
  BY DEF MainBlockNum, OkNums, OkBlocks, OkRows, RowsInv, OneOkRow, Exists

LEMMA ExistsIs == \A b : Exists(b) <=> b.num \in OkNums
  BY DEF Exists, OkNums, OkBlocks

\* What a restarted fetcher reads is a chain of blocks numbered from 1.
LEMMA DBChainType ==
    ASSUME TypeOK, RowsInv
    PROVE  /\ DBChain \in Seq(Blocks)
           /\ Len(DBChain) = MainBlockNum
           /\ \A n \in 1..MainBlockNum : DBChain[n].num = n
<1>1. OkBlocks \subseteq Blocks
  <2>1. \A i \in DOMAIN rows : rows[i] \in Row
    BY ElementOfSeq, LenProperties DEF TypeOK
  <2>2. QED
    BY <2>1 DEF OkBlocks, OkRows, Row
<1>2. \A n \in 1..MainBlockNum : \E b \in OkBlocks : b.num = n
  BY DEF RowsInv, OkNums
<1>3. \A n \in 1..MainBlockNum : DBChain[n] \in OkBlocks /\ DBChain[n].num = n
  BY <1>2 DEF DBChain
<1>4. DBChain \in [1..MainBlockNum -> Blocks]
  BY <1>1, <1>2 DEF DBChain
<1>5. DBChain \in Seq(Blocks)
  BY <1>4, SeqDef DEF RowsInv
<1>6. QED
  BY <1>3, <1>4, <1>5, LenProperties DEF RowsInv

LEMMA CutType ==
    ASSUME NEW S, NEW s \in Seq(S), NEW n \in Nat, n <= Len(s) + 1, n # 0
    PROVE  /\ SubSeq(s, 1, n - 1) \in Seq(S)
           /\ Len(SubSeq(s, 1, n - 1)) = n - 1
           /\ \A i \in 1..(n - 1) : SubSeq(s, 1, n - 1)[i] = s[i]
  BY SubSeqProperties

----------------------------------------------------------------------------
(* The inductive invariant. *)

LEMMA InitSInv == Init => SInv
<1> SUFFICES ASSUME Init PROVE SInv
  OBVIOUS
<1> USE BaseStorageAssumption DEF Init
<1>1. OkRows = {} /\ OkBlocks = {} /\ OkNums = {}
  BY DEF OkRows, OkBlocks, OkNums
<1>2. MainBlockNum = 0
  <2>1. MainBlockNum = Max(OkNums \cup {0})
    BY DEF MainBlockNum, OkNums
  <2>2. OkNums = 1..0
    BY <1>1
  <2>3. QED
    BY <2>1, <2>2, MaxUpTo
<1>3. RowsInv /\ OneOkRow /\ SentNumbered
  BY <1>1, <1>2 DEF RowsInv, OneOkRow, SentNumbered
<1>4. TypeOK
  <2>1. /\ blockChan \in Seq(Event) /\ blocks \in Seq(Blocks)
        /\ inHand \in Seq(Event) /\ rows \in Seq(Row) /\ sent \in Seq(Blocks)
    BY EmptySeq
  <2>2. /\ Len(blockChan) <= BufferSize /\ Len(blocks) <= MaxBlockCount + 1
        /\ Len(inHand) <= 1 /\ saved \in 0..Len(blocks)
    BY EmptySeq
  <2>3. \A a \in DOMAIN contracts : contracts[a] \in Nat
    OBVIOUS
  <2>4. /\ tries \in 0..(RetryTimes + 1) /\ events \in 0..MaxEvents
        /\ restarts \in 0..MaxRestarts /\ curHeight \in Nat
    OBVIOUS
  <2>5. QED
    BY <2>1, <2>2, <2>3, <2>4 DEF TypeOK, Running
<1>5. CollectInv /\ TriesInv
  BY DEF CollectInv, TriesInv, Working
<1>6. QED
  BY <1>3, <1>4, <1>5 DEF SInv

\* The feed stays numbered, and an event says which height it makes.
LEMMA PublishFacts ==
    ASSUME TypeOK, SentNumbered, NEW e \in Event, Publish(e)
    PROVE  /\ sent' \in Seq(Blocks) /\ SentNumbered'
           /\ e.state = "ok" => e.blk.num = Len(sent) + 1
                               /\ Len(sent') = Len(sent) + 1
           /\ e.state = "revert" => e.blk.num = Len(sent)
                                   /\ Len(sent') = Len(sent) - 1
<1>1. e.blk \in Blocks /\ e.state \in {"ok", "revert"}
  BY DEF Event
<1>2. sent \in Seq(Blocks) /\ Len(sent) \in Nat /\ DOMAIN sent = 1..Len(sent)
  BY LenProperties DEF TypeOK
<1>3. CASE e.state = "ok"
  <2>1. e.blk.num = Len(sent) + 1
    <3>1. CASE sent = <<>>
      BY <3>1, <1>1, <1>3, BaseStorageAssumption DEF Publish, Follows
    <3>2. CASE sent # <<>>
      <4>1. Len(sent) \in DOMAIN sent
        BY <1>2, <3>2, EmptySeq
      <4>2. sent[Len(sent)] \in Blocks /\ sent[Len(sent)].num = Len(sent)
        BY <4>1, <1>2, ElementOfSeq DEF SentNumbered
      <4>3. e.blk.parent = sent[Len(sent)].hash
        BY <1>3, <3>2 DEF Publish, Follows
      <4>4. QED
        BY <1>1, <4>2, <4>3, BaseStorageAssumption
    <3>3. QED
      BY <3>1, <3>2
  <2>2. sent' = Append(sent, e.blk)
    BY <1>3 DEF Publish, Applied
  <2>3. /\ sent' \in Seq(Blocks) /\ Len(sent') = Len(sent) + 1
        /\ \A i \in 1..Len(sent) : sent'[i] = sent[i]
        /\ sent'[Len(sent) + 1] = e.blk
    BY <1>1, <1>2, <2>2, AppendProperties
  <2>4. SentNumbered'
    <3>1. DOMAIN sent' = 1..(Len(sent) + 1)
      BY <2>3, LenProperties
    <3>2. QED
      BY <1>2, <2>1, <2>3, <3>1 DEF SentNumbered
  <2>5. QED
    BY <1>3, <2>1, <2>3, <2>4
<1>4. CASE e.state = "revert"
  <2>1. sent # <<>> /\ e.blk = sent[Len(sent)]
    BY <1>4 DEF Publish, Follows
  <2>2. Len(sent) \in DOMAIN sent
    BY <1>2, <2>1, EmptySeq
  <2>3. e.blk.num = Len(sent)
    BY <2>1, <2>2 DEF SentNumbered
  <2>4. sent' = SubSeq(sent, 1, Len(sent) - 1)
    BY <1>4, <2>3 DEF Publish, Applied
  <2>5. /\ sent' \in Seq(Blocks) /\ Len(sent') = Len(sent) - 1
        /\ \A i \in 1..(Len(sent) - 1) : sent'[i] = sent[i]
    BY <1>2, <2>2, <2>4, CutType
  <2>6. SentNumbered'
    <3>1. DOMAIN sent' = 1..(Len(sent) - 1)
      BY <2>5, LenProperties
    <3>2. QED
      BY <1>2, <2>5, <3>1 DEF SentNumbered
  <2>7. QED
    BY <1>4, <2>3, <2>5, <2>6
<1>5. QED
  BY <1>1, <1>3, <1>4

\* The steps that leave the task alone.
LEMMA EnvKeepsSInv ==
    ASSUME SInv,
           (\E e \in Event : Publish(e)) \/ Signal \/ Crash
    PROVE  SInv'
<1> USE DEF SInv
<1>1. rows' = rows /\ UNCHANGED <<blocks, curHeight, inHand, saved, tries>>
  BY DEF Publish, Signal, Crash, taskVars, dbVars
<1>2. RowsInv' /\ OneOkRow' /\ MainBlockNum' = MainBlockNum
  BY <1>1, SameRows
<1>3. Top' = Top /\ (spc' = spc \/ spc' = "down")
  BY <1>1 DEF Top, Publish, Signal, Crash, taskVars
<1>4. CollectInv' /\ TriesInv'
  BY <1>1, <1>2, <1>3 DEF CollectInv, TriesInv, Working, Running
<1>5. TypeOK' /\ SentNumbered'
  <2>1. CASE \E e \in Event : Publish(e)
    <3>1. PICK e \in Event : Publish(e)
      BY <2>1
    <3>2. sent' \in Seq(Blocks) /\ SentNumbered'
      BY <3>1, PublishFacts
    <3>4. blockChan' \in Seq(Event) /\ Len(blockChan') <= BufferSize
      <4>1. CASE spc = "created"
        BY <4>1, <3>1 DEF Publish, TypeOK
      <4>2. CASE spc # "created"
        <5>1. Len(blockChan) < BufferSize /\ blockChan' = Append(blockChan, e)
          BY <4>2, <3>1 DEF Publish
        <5>2. blockChan' \in Seq(Event) /\ Len(blockChan') = Len(blockChan) + 1
          BY <5>1, AppendProperties DEF TypeOK
        <5>3. Len(blockChan) \in Nat
          BY LenProperties DEF TypeOK
        <5>4. QED
          BY <5>1, <5>2, <5>3, BaseStorageAssumption
      <4>3. QED
        BY <4>1, <4>2
    <3>5. events' \in 0..MaxEvents
      BY <3>1, BaseStorageAssumption DEF Publish, TypeOK
    <3>6. UNCHANGED <<taskVars, dbVars, stopping, restarts>>
      BY <3>1 DEF Publish
    <3>7. late' \in BOOLEAN
      BY <3>1 DEF Publish, TypeOK
    <3>8. QED
      BY <3>2, <3>4, <3>5, <3>6, <3>7 DEF TypeOK, taskVars, dbVars
  <2>2. CASE Signal \/ Crash
    BY <2>2 DEF Signal, Crash, TypeOK, taskVars, dbVars, envVars, Running,
                SentNumbered
  <2>3. QED
    BY <2>1, <2>2
<1>6. QED
  BY <1>2, <1>4, <1>5

LEMMA RestartKeepsSInv == SInv /\ Restart => SInv'
<1> SUFFICES ASSUME SInv, Restart PROVE SInv'
  OBVIOUS
<1> USE DEF SInv, Restart, Fresh
<1>1. rows' = rows
  BY DEF dbVars
<1>2. RowsInv' /\ OneOkRow' /\ MainBlockNum' = MainBlockNum
  BY <1>1, SameRows
<1>3. sent' \in Seq(Blocks) /\ SentNumbered'
  <2>1. sent' \in Seq(Blocks) /\ Len(sent') = MainBlockNum
        /\ \A n \in 1..MainBlockNum : sent'[n].num = n
    BY DBChainType
  <2>2. QED
    BY <2>1, LenProperties DEF SentNumbered
<1>4. CollectInv' /\ TriesInv'
  BY BaseStorageAssumption DEF CollectInv, TriesInv, Working, Running
<1>5. TypeOK'
  <2>1. /\ blockChan' \in Seq(Event) /\ blocks' \in Seq(Blocks)
        /\ inHand' \in Seq(Event)
    BY EmptySeq
  <2>2. /\ Len(blockChan') <= BufferSize /\ Len(blocks') <= MaxBlockCount + 1
        /\ Len(inHand') <= 1 /\ saved' \in 0..Len(blocks')
    BY EmptySeq, BaseStorageAssumption
  <2>3. tries' \in 0..(RetryTimes + 1) /\ restarts' \in 0..MaxRestarts
    BY BaseStorageAssumption DEF TypeOK
  <2>4. QED
    BY <1>3, <2>1, <2>2, <2>3 DEF TypeOK, Running, dbVars
<1>6. QED
  BY <1>2, <1>3, <1>4, <1>5

LEMMA Received ==
    ASSUME TypeOK, blockChan # <<>>, blockChan' = Tail(blockChan)
    PROVE  /\ Head(blockChan) \in Event
           /\ Head(blockChan).blk \in Blocks
           /\ Head(blockChan).blk.num \in Nat \ {0}
           /\ blockChan' \in Seq(Event) /\ Len(blockChan') <= BufferSize
<1>1. /\ Head(blockChan) \in Event /\ Tail(blockChan) \in Seq(Event)
      /\ Len(Tail(blockChan)) = Len(blockChan) - 1
  BY HeadTailProperties DEF TypeOK
<1>2. Len(blockChan) \in Nat /\ BufferSize \in Nat
  BY LenProperties, BaseStorageAssumption DEF TypeOK
<1>3. Head(blockChan).blk \in Blocks
  BY <1>1 DEF Event
<1>4. QED
  BY <1>1, <1>2, <1>3, BlockNum DEF TypeOK

\* The steps of Start that do not touch the database.
QuietStep == \/ Subscribe \/ LoadHeight \/ Stop \/ Timer
             \/ ReceiveUnexpected \/ MarkUnexpected

LEMMA QuietKeepsSInv == SInv /\ QuietStep => SInv'
<1> SUFFICES ASSUME SInv, QuietStep PROVE SInv'
  OBVIOUS
<1> USE DEF SInv
<1>1. /\ rows' = rows
      /\ UNCHANGED <<blocks, inHand, saved, tries, contracts, sent, events,
                     stopping, restarts, late>>
  BY DEF QuietStep, Subscribe, LoadHeight, Stop, Timer, ReceiveUnexpected,
         MarkUnexpected, dbVars, envVars
<1>2. RowsInv' /\ OneOkRow' /\ MainBlockNum' = MainBlockNum
  BY <1>1, SameRows
<1>3. blockChan' \in Seq(Event) /\ Len(blockChan') <= BufferSize
  BY Received DEF QuietStep, Subscribe, LoadHeight, Stop, Timer,
                  ReceiveUnexpected, MarkUnexpected, TypeOK
<1>4. spc' \in Running \cup {"stopped", "exited", "fatal"} /\ curHeight' \in Nat
  BY DEF QuietStep, Subscribe, LoadHeight, Stop, Timer, ReceiveUnexpected,
         MarkUnexpected, TypeOK, Running, RowsInv
<1>5. TypeOK' /\ SentNumbered'
  BY <1>1, <1>3, <1>4 DEF TypeOK, SentNumbered
<1>6. TriesInv'
  BY <1>1 DEF TriesInv, Running, QuietStep, Subscribe, LoadHeight, Stop, Timer,
              ReceiveUnexpected, MarkUnexpected
<1>7. CollectInv'
  <2>1. CASE LoadHeight /\ spc' = "select"
    <3>1. /\ curHeight' = MainBlockNum /\ blocks' = <<>> /\ inHand' = <<>>
          /\ saved' = 0 /\ Len(blocks') = 0
      BY <1>1, <2>1, EmptySeq DEF LoadHeight, CollectInv
    <3>2. Top' = MainBlockNum
      BY <3>1 DEF Top
    <3>3. QED
      BY <1>2, <2>1, <3>1, <3>2, BaseStorageAssumption
      DEF CollectInv, Working, RowsInv
  <2>2. CASE Timer
    <3>1. Top' = Top
      BY <1>1, <2>2 DEF Top, Timer
    <3>2. QED
      BY <1>1, <1>2, <2>2, <3>1 DEF CollectInv, Working, Timer
  <2>3. CASE Subscribe
    BY <1>1, <2>3 DEF CollectInv, Working, Subscribe
  <2>4. CASE spc' \notin Running
    BY <2>4 DEF CollectInv, Working, Running
  <2>5. QED
    BY <2>1, <2>2, <2>3, <2>4 DEF QuietStep, LoadHeight, Stop,
       ReceiveUnexpected, MarkUnexpected, Running
<1>8. QED
  BY <1>2, <1>5, <1>6, <1>7

LEMMA ReceiveRevertKeepsSInv == SInv /\ ReceiveRevert => SInv'
<1> SUFFICES ASSUME SInv, ReceiveRevert PROVE SInv'
  OBVIOUS
<1> USE DEF SInv
<1> DEFINE e == Head(blockChan)
<1>1. /\ spc = "select" /\ blockChan # <<>> /\ blockChan' = Tail(blockChan)
      /\ e.state = "revert" /\ inHand' = <<e>>
      /\ spc' = NextAfterRevert
      /\ UNCHANGED <<blocks, curHeight, saved, tries, dbVars, envVars>>
  BY DEF ReceiveRevert
<1>2. /\ e \in Event /\ blockChan' \in Seq(Event) /\ Len(blockChan') <= BufferSize
  BY <1>1, Received
<1>3. rows' = rows /\ contracts' = contracts
  BY <1>1 DEF dbVars
<1>4. RowsInv' /\ OneOkRow' /\ MainBlockNum' = MainBlockNum
  BY <1>3, SameRows
<1>5. inHand' \in Seq(Event) /\ Len(inHand') = 1 /\ inHand'[1] = e
      /\ inHand' # <<>>
  BY <1>1, <1>2
<1>6. spc' \in {"save", "mark"} /\ (spc' = "mark" => blocks = <<>>)
  BY <1>1 DEF NextAfterRevert
<1>7. TypeOK' /\ SentNumbered'
  <2> HIDE DEF e
  <2>1. QED
    BY <1>1, <1>2, <1>3, <1>5, <1>6 DEF TypeOK, SentNumbered, Running, envVars
<1>8. Top' = Top /\ Top = curHeight
  BY <1>1, <1>5 DEF Top, CollectInv
<1>9. CollectInv'
  <2>1. blocks = <<>> => Len(blocks) = 0
    BY EmptySeq
  <2>2. saved = 0
    BY <1>1 DEF CollectInv
  <2>3. Top - Len(blocks) + saved <= MainBlockNum /\ MainBlockNum <= Top
    BY <1>1 DEF CollectInv, Working
  <2>4. MainBlockNum \in Nat /\ curHeight \in Nat
    BY DEF RowsInv, TypeOK
  <2>5. spc' = "mark" => MainBlockNum = curHeight
    BY <1>6, <1>8, <2>1, <2>2, <2>3, <2>4
  <2> HIDE DEF e
  <2>6. QED
    BY <1>1, <1>4, <1>5, <1>6, <1>8, <2>5 DEF CollectInv, Working
<1>10. TriesInv'
  BY <1>1, <1>6 DEF TriesInv, Running
<1>11. QED
  BY <1>4, <1>7, <1>9, <1>10

LEMMA ReceiveBlockKeepsSInv == SInv /\ ReceiveBlock => SInv'
<1> SUFFICES ASSUME SInv, ReceiveBlock PROVE SInv'
  OBVIOUS
<1> USE DEF SInv
<1> DEFINE e == Head(blockChan)
<1>1. /\ spc = "select" /\ blockChan # <<>> /\ blockChan' = Tail(blockChan)
      /\ e.state = "ok" /\ ~Unexpected(e) /\ blocks' = Append(blocks, e.blk)
      /\ UNCHANGED <<saved, tries, dbVars, envVars>>
  BY DEF ReceiveBlock
<1>2. \/ spc' = "save" /\ inHand' = <<e>> /\ curHeight' = curHeight
      \/ /\ Fits(Append(blocks, e.blk)) /\ curHeight' = e.blk.num
         /\ spc' = spc /\ inHand' = inHand
  BY DEF ReceiveBlock
<1>3. /\ e \in Event /\ e.blk \in Blocks /\ e.blk.num \in Nat \ {0}
      /\ blockChan' \in Seq(Event) /\ Len(blockChan') <= BufferSize
  BY <1>1, Received
<1>4. e.blk.num = curHeight + 1
  BY <1>1 DEF Unexpected
<1>5. rows' = rows /\ contracts' = contracts
  BY <1>1 DEF dbVars
<1>6. RowsInv' /\ OneOkRow' /\ MainBlockNum' = MainBlockNum
  BY <1>5, SameRows
<1> HIDE DEF e
<1>7. /\ blocks' \in Seq(Blocks) /\ Len(blocks') = Len(blocks) + 1
      /\ \A i \in 1..Len(blocks) : blocks'[i] = blocks[i]
      /\ blocks'[Len(blocks) + 1] = e.blk
      /\ Len(blocks) \in Nat /\ DOMAIN blocks = 1..Len(blocks)
      /\ DOMAIN blocks' = 1..(Len(blocks) + 1)
  <2>1. /\ blocks' \in Seq(Blocks) /\ Len(blocks') = Len(blocks) + 1
        /\ \A i \in 1..Len(blocks) : blocks'[i] = blocks[i]
        /\ blocks'[Len(blocks) + 1] = e.blk
    BY <1>1, <1>3, AppendProperties DEF TypeOK
  <2>2. QED
    BY <2>1, LenProperties DEF TypeOK
<1>8. /\ Top = curHeight /\ curHeight \in Nat /\ Len(blocks) <= curHeight
      /\ saved = 0 /\ inHand = <<>> /\ Len(blocks) <= MaxBlockCount
      /\ curHeight - Len(blocks) + saved <= MainBlockNum
      /\ MainBlockNum <= curHeight /\ MainBlockNum \in Nat
      /\ \A i \in DOMAIN blocks : blocks[i].num = curHeight - Len(blocks) + i
  BY <1>1 DEF CollectInv, Working, Top, RowsInv, TypeOK
<1>9. /\ inHand' \in Seq(Event) /\ Len(inHand') <= 1
      /\ spc' \in {"select", "save"} /\ curHeight' \in Nat
      /\ Top' = curHeight + 1
      /\ spc' = "select" => inHand' = <<>> /\ Len(blocks') <= MaxBlockCount
  <2>1. CASE spc' = "save" /\ inHand' = <<e>> /\ curHeight' = curHeight
    <3>1. inHand' \in Seq(Event) /\ Len(inHand') = 1 /\ inHand'[1] = e
          /\ inHand' # <<>>
      BY <2>1, <1>3
    <3>2. QED
      BY <2>1, <3>1, <1>1, <1>4, <1>8 DEF Top
  <2>2. CASE /\ Fits(Append(blocks, e.blk)) /\ curHeight' = e.blk.num
             /\ spc' = spc /\ inHand' = inHand
    <3>1. Len(blocks') <= MaxBlockCount
      BY <2>2, <1>1 DEF Fits
    <3>2. Top' = curHeight + 1
      BY <2>2, <1>4, <1>8 DEF Top
    <3>3. QED
      BY <2>2, <3>1, <3>2, <1>1, <1>3, <1>8 DEF TypeOK
  <2>3. QED
    BY <1>2, <2>1, <2>2
<1>10. TypeOK' /\ SentNumbered'
  <2>1. saved' \in 0..Len(blocks') /\ Len(blocks') <= MaxBlockCount + 1
    BY <1>1, <1>7, <1>8, BaseStorageAssumption
  <2>2. QED
    BY <2>1, <1>1, <1>3, <1>5, <1>7, <1>9
    DEF TypeOK, SentNumbered, Running, envVars
<1>11. CollectInv'
  <2>1. \A i \in DOMAIN blocks' :
           blocks'[i].num = (curHeight + 1) - Len(blocks') + i
    <3>1. \A i \in 1..Len(blocks) :
             blocks'[i].num = (curHeight + 1) - Len(blocks') + i
      BY <1>7, <1>8
    <3>2. blocks'[Len(blocks) + 1].num
             = (curHeight + 1) - Len(blocks') + (Len(blocks) + 1)
      BY <1>4, <1>7, <1>8
    <3>3. QED
      BY <3>1, <3>2, <1>7
  <2>2. /\ Top' \in Nat /\ Len(blocks') <= Top' /\ MainBlockNum' <= Top'
        /\ Top' - Len(blocks') + saved' <= MainBlockNum' /\ saved' = 0
    BY <1>1, <1>6, <1>7, <1>8, <1>9
  <2>3. QED
    BY <2>1, <2>2, <1>9 DEF CollectInv, Working
<1>12. TriesInv'
  BY <1>1, <1>9 DEF TriesInv, Running
<1>13. QED
  BY <1>6, <1>10, <1>11, <1>12

\* Another attempt, whatever the last one left in the database.
LEMMA RetryKeepsSInv ==
    ASSUME SInv, Retry, spc \in {"save", "mark"},
           rows' \in Seq(Row), \A a \in DOMAIN contracts' : contracts'[a] \in Nat,
           RowsInv', OneOkRow',
           spc = "save" => MainBlockNum <= MainBlockNum' /\ MainBlockNum' <= Top,
           spc = "mark" => \/ MainBlockNum' = curHeight
                           \/ /\ MainBlockNum' = curHeight - 1
                              /\ inHand[1].blk.num = curHeight
    PROVE  SInv'
<1> USE DEF SInv
<1>1. /\ tries' = tries + 1 /\ saved' = 0
      /\ spc' = IF tries' > RetryTimes THEN "exited" ELSE spc
      /\ UNCHANGED <<blocks, curHeight, inHand, blockChan, envVars>>
  BY DEF Retry, Resume
<1>2. tries <= RetryTimes /\ tries \in Nat /\ RetryTimes \in Nat
  BY BaseStorageAssumption DEF TriesInv, Running, TypeOK
<1>3. TypeOK' /\ SentNumbered'
  <2>1. saved' \in 0..Len(blocks') /\ tries' \in 0..(RetryTimes + 1)
    BY <1>1, <1>2, LenProperties DEF TypeOK
  <2>2. spc' \in Running \cup {"stopped", "exited", "fatal", "down"}
    BY <1>1 DEF Running
  <2>3. QED
    BY <2>1, <2>2, <1>1 DEF TypeOK, SentNumbered, envVars
<1>4. TriesInv'
  BY <1>1, <1>2 DEF TriesInv, Running
<1>5. CollectInv'
  <2>1. Top' = Top
    BY <1>1 DEF Top
  <2>2. CASE spc' = "exited"
    BY <2>2 DEF CollectInv, Working
  <2>3. CASE spc' = spc /\ spc = "save"
    <3>1. /\ Top \in Nat /\ Len(blocks) <= Top /\ Len(blocks) \in Nat
          /\ \A i \in DOMAIN blocks : blocks[i].num = Top - Len(blocks) + i
          /\ Top - Len(blocks) + saved <= MainBlockNum
          /\ saved \in Nat /\ MainBlockNum \in Nat /\ MainBlockNum' \in Nat
      BY <2>3, LenProperties DEF CollectInv, Working, TypeOK, RowsInv
    <3>2. Top' - Len(blocks') + saved' <= MainBlockNum'
      BY <1>1, <2>1, <2>3, <3>1
    <3>3. QED
      BY <1>1, <2>1, <2>3, <3>1, <3>2 DEF CollectInv, Working
  <2>4. CASE spc' = spc /\ spc = "mark"
    <3>1. /\ inHand # <<>> /\ inHand[1].state = "revert" /\ blocks = <<>>
          /\ Top \in Nat /\ Len(blocks) <= Top
          /\ \A i \in DOMAIN blocks : blocks[i].num = Top - Len(blocks) + i
      BY <2>4 DEF CollectInv, Working
    <3>2. Top = curHeight /\ curHeight \in Nat
      BY <3>1 DEF Top, TypeOK
    <3>3. QED
      BY <1>1, <2>1, <2>4, <3>1, <3>2 DEF CollectInv, Working
  <2>5. QED
    BY <1>1, <2>2, <2>3, <2>4
<1>6. QED
  BY <1>3, <1>4, <1>5

\* What the database has after blocks[saved + 1] is saved.
LEMMA SaveFacts ==
    ASSUME SInv, Saving
    PROVE  /\ blocks[saved + 1] \in Blocks
           /\ Top - Len(blocks) + saved + 1 = blocks[saved + 1].num
           /\ blocks[saved + 1].num <= Top
           /\ Exists(blocks[saved + 1]) <=> blocks[saved + 1].num <= MainBlockNum
           /\ ~Exists(blocks[saved + 1]) =>
                 blocks[saved + 1].num = MainBlockNum + 1
<1> USE DEF SInv
<1> DEFINE b == blocks[saved + 1]
<1>1. /\ spc = "save" /\ saved \in Nat /\ saved < Len(blocks)
      /\ Len(blocks) \in Nat /\ DOMAIN blocks = 1..Len(blocks)
  BY LenProperties DEF Saving, TypeOK
<1>2. saved + 1 \in DOMAIN blocks
  BY <1>1
<1>3. b \in Blocks
  BY <1>2, ElementOfSeq, LenProperties DEF TypeOK
<1>4. /\ Top \in Nat /\ Len(blocks) <= Top
      /\ b.num = Top - Len(blocks) + (saved + 1)
      /\ Top - Len(blocks) + saved <= MainBlockNum
      /\ MainBlockNum \in Nat /\ OkNums = 1..MainBlockNum
  BY <1>1, <1>2 DEF CollectInv, Working, RowsInv
<1>5. b.num \in Nat \ {0}
  BY <1>3, BlockNum
<1>6. Exists(b) <=> b.num <= MainBlockNum
  BY <1>4, <1>5, ExistsIs
<1> HIDE DEF b
<1>7. b.num = Top - Len(blocks) + saved + 1 /\ b.num <= Top
  BY <1>1, <1>4
<1>8. ~Exists(b) => b.num = MainBlockNum + 1
  <2>1. b.num <= MainBlockNum + 1 /\ b.num \in Nat /\ MainBlockNum \in Nat
    <3>1. /\ Top \in Nat /\ Len(blocks) \in Nat /\ saved \in Nat
          /\ MainBlockNum \in Nat /\ Top - Len(blocks) + saved <= MainBlockNum
      BY <1>1, <1>4
    <3>2. b.num \in Nat
      BY <1>5
    <3>3. b.num = (Top - Len(blocks) + saved) + 1
      BY <3>1, <1>7
    <3>4. QED
      BY <3>1, <3>2, <3>3
  <2>2. ASSUME ~Exists(b) PROVE b.num = MainBlockNum + 1
    <3>1. ~(b.num <= MainBlockNum)
      BY <1>6, <2>2
    <3>2. QED
      BY <2>1, <3>1
  <2>3. QED
    BY <2>2
<1>9. QED
  BY <1>3, <1>6, <1>7, <1>8 DEF b

LEMMA SaveInsert ==
    ASSUME SInv, Saving, ~Exists(blocks[saved + 1]), Insert(blocks[saved + 1])
    PROVE  /\ rows' \in Seq(Row) /\ RowsInv' /\ OneOkRow'
           /\ \A a \in DOMAIN contracts' : contracts'[a] \in Nat
           /\ MainBlockNum' = MainBlockNum + 1
           /\ MainBlockNum' = blocks[saved + 1].num
<1> USE DEF SInv
<1> DEFINE b == blocks[saved + 1]
<1>1. b \in Blocks /\ b.num = MainBlockNum + 1 /\ b.num \in Nat
  BY SaveFacts, BlockNum
<1>2. MainBlockNum \in Nat /\ OkNums = 1..MainBlockNum
  BY DEF RowsInv
<1> HIDE DEF b
<1>3. b.num \notin OkNums
  BY <1>1, <1>2
<1>4. rows' \in Seq(Row) /\ OkNums' = OkNums \cup {b.num} /\ OneOkRow'
  BY <1>1, <1>3, InsertFacts DEF b, TypeOK
<1>5. OkNums' = 1..(MainBlockNum + 1) /\ MainBlockNum + 1 \in Nat
  BY <1>1, <1>2, <1>4
<1>6. RowsInv' /\ MainBlockNum' = MainBlockNum + 1
  BY <1>5, NewHeight
<1>7. \A a \in DOMAIN contracts' : contracts'[a] \in Nat
  <2>1. contracts' = [a \in DOMAIN contracts \cup b.creates |->
                         IF a \in DOMAIN contracts THEN contracts[a] ELSE b.num]
    BY DEF Insert, b
  <2>2. QED
    BY <2>1, <1>1 DEF TypeOK
<1>8. QED
  BY <1>1, <1>4, <1>6, <1>7 DEF b

LEMMA SaveBlockKeepsSInv == SInv /\ SaveBlock => SInv'
<1> SUFFICES ASSUME SInv, SaveBlock PROVE SInv'
  OBVIOUS
<1> USE DEF SInv
<1>1. /\ Saving /\ spc = "save" /\ saved < Len(blocks) /\ saved' = saved + 1
      /\ UNCHANGED <<spc, blocks, curHeight, inHand, tries, blockChan, envVars>>
  BY DEF SaveBlock, Saving
<1>2. /\ rows' \in Seq(Row) /\ RowsInv' /\ OneOkRow'
      /\ \A a \in DOMAIN contracts' : contracts'[a] \in Nat
      /\ blocks[saved + 1].num <= MainBlockNum' /\ MainBlockNum' <= Top
  <2>1. CASE Exists(blocks[saved + 1])
    <3>1. rows' = rows /\ contracts' = contracts
      BY <2>1 DEF SaveBlock, dbVars
    <3>2. MainBlockNum' = MainBlockNum /\ RowsInv' /\ OneOkRow'
      BY <3>1, SameRows
    <3>3. blocks[saved + 1].num <= MainBlockNum /\ MainBlockNum <= Top
      BY <1>1, <2>1, SaveFacts DEF CollectInv, Working
    <3>4. QED
      BY <3>1, <3>2, <3>3 DEF TypeOK
  <2>2. CASE ~Exists(blocks[saved + 1])
    <3>1. Insert(blocks[saved + 1])
      BY <2>2 DEF SaveBlock
    <3>2. blocks[saved + 1].num <= Top /\ blocks[saved + 1].num \in Nat
      BY <1>1, SaveFacts, BlockNum
    <3>3. QED
      BY <1>1, <2>2, <3>1, <3>2, SaveInsert
  <2>3. QED
    BY <2>1, <2>2
<1>3. saved \in Nat /\ Len(blocks) \in Nat
  BY LenProperties DEF TypeOK
<1>4. TypeOK' /\ SentNumbered'
  <2>1. saved' \in 0..Len(blocks')
    BY <1>1, <1>3
  <2>2. QED
    BY <2>1, <1>1, <1>2 DEF TypeOK, SentNumbered, envVars
<1>5. TriesInv'
  BY <1>1 DEF TriesInv
<1>6. Top' = Top
  BY <1>1 DEF Top
<1>7. CollectInv'
  <2>1. /\ Top \in Nat /\ Len(blocks) <= Top
        /\ \A i \in DOMAIN blocks : blocks[i].num = Top - Len(blocks) + i
    BY <1>1 DEF CollectInv, Working
  <2>2. blocks[saved + 1].num = Top - Len(blocks) + saved + 1
    BY <1>1, SaveFacts
  <2>3. Top' - Len(blocks') + saved' <= MainBlockNum'
    BY <1>1, <1>2, <1>3, <1>6, <2>1, <2>2
  <2>4. QED
    BY <1>1, <1>2, <1>6, <2>1, <2>3 DEF CollectInv, Working
<1>8. QED
  BY <1>2, <1>4, <1>5, <1>7

LEMMA SaveFailsKeepsSInv == SInv /\ (SaveFails \/ SaveAnswerLost) => SInv'
<1> SUFFICES ASSUME SInv, SaveFails \/ SaveAnswerLost PROVE SInv'
  OBVIOUS
<1> USE DEF SInv
<1>1. Saving /\ Retry /\ spc = "save"
  BY DEF SaveFails, SaveAnswerLost, Saving
<1>2. MainBlockNum \in Nat /\ MainBlockNum <= Top
  BY <1>1 DEF CollectInv, Working, RowsInv
<1>3. CASE SaveFails
  <2>1. rows' = rows /\ contracts' = contracts
    BY <1>3 DEF SaveFails, dbVars
  <2>2. MainBlockNum' = MainBlockNum /\ RowsInv' /\ OneOkRow'
    BY <2>1, SameRows
  <2>3. rows' \in Seq(Row) /\ \A a \in DOMAIN contracts' : contracts'[a] \in Nat
    BY <2>1 DEF TypeOK
  <2>4. MainBlockNum <= MainBlockNum' /\ MainBlockNum' <= Top
    BY <1>2, <2>2
  <2>5. QED
    BY <1>1, <2>2, <2>3, <2>4, RetryKeepsSInv
<1>4. CASE SaveAnswerLost
  <2>1. ~Exists(blocks[saved + 1]) /\ Insert(blocks[saved + 1])
    BY <1>4 DEF SaveAnswerLost
  <2>2. /\ rows' \in Seq(Row) /\ RowsInv' /\ OneOkRow'
        /\ \A a \in DOMAIN contracts' : contracts'[a] \in Nat
        /\ MainBlockNum' = MainBlockNum + 1
        /\ MainBlockNum' = blocks[saved + 1].num
    BY <1>1, <2>1, SaveInsert
  <2>3. blocks[saved + 1].num <= Top
    BY <1>1, SaveFacts
  <2>4. MainBlockNum <= MainBlockNum' /\ MainBlockNum' <= Top
    BY <1>2, <2>2, <2>3
  <2>5. QED
    BY <1>1, <2>2, <2>4, RetryKeepsSInv
<1>5. QED
  BY <1>3, <1>4

LEMMA SaveDoneKeepsSInv == SInv /\ SaveDone => SInv'
<1> SUFFICES ASSUME SInv, SaveDone PROVE SInv'
  OBVIOUS
<1> USE DEF SInv
<1>1. /\ spc = "save" /\ saved = Len(blocks)
      /\ blocks' = <<>> /\ saved' = 0 /\ tries' = 0
      /\ UNCHANGED <<blockChan, dbVars, envVars>>
  BY DEF SaveDone
<1>2. rows' = rows /\ contracts' = contracts
  BY <1>1 DEF dbVars
<1>3. RowsInv' /\ OneOkRow' /\ MainBlockNum' = MainBlockNum
  BY <1>2, SameRows
<1>4. MainBlockNum = Top /\ Top \in Nat
  <2>1. /\ Top \in Nat /\ Len(blocks) \in Nat /\ MainBlockNum \in Nat
        /\ Top - Len(blocks) + saved <= MainBlockNum /\ MainBlockNum <= Top
    BY <1>1, LenProperties DEF CollectInv, Working, RowsInv, TypeOK
  <2>2. QED
    BY <1>1, <2>1
<1>5. blocks' \in Seq(Blocks) /\ Len(blocks') = 0 /\ DOMAIN blocks' = {}
  BY <1>1, EmptySeq
<1>6. inHand # <<>> => inHand[1] \in Event /\ inHand[1].blk.num \in Nat
  <2>1. inHand # <<>> => 1 \in 1..Len(inHand)
    BY EmptySeq, LenProperties DEF TypeOK
  <2>2. inHand # <<>> => inHand[1] \in Event
    BY <2>1, ElementOfSeq DEF TypeOK
  <2>3. QED
    BY <2>2, BlockNum DEF Event
<1>7. /\ spc' \in {"select", "mark"} /\ curHeight' = Top /\ Top' = Top
      /\ inHand' \in Seq(Event) /\ Len(inHand') <= 1
      /\ spc' = "select" => inHand' = <<>>
      /\ spc' = "mark" => inHand' # <<>> /\ inHand'[1].state = "revert"
  <2>1. CASE inHand = <<>>
    BY <2>1 DEF SaveDone, Top, TypeOK
  <2>2. CASE inHand # <<>> /\ inHand[1].state = "ok"
    <3>1. spc' = "select" /\ curHeight' = inHand[1].blk.num /\ inHand' = <<>>
      BY <2>2 DEF SaveDone
    <3>2. inHand' \in Seq(Event) /\ Len(inHand') <= 1
      BY <3>1, EmptySeq
    <3>3. QED
      BY <2>2, <3>1, <3>2 DEF Top
  <2>3. CASE inHand # <<>> /\ inHand[1].state # "ok"
    <3>1. spc' = "mark" /\ curHeight' = curHeight /\ inHand' = inHand
      BY <2>3 DEF SaveDone
    <3>2. inHand[1].state = "revert"
      BY <1>6, <2>3 DEF Event
    <3>3. QED
      BY <2>3, <3>1, <3>2 DEF Top, TypeOK
  <2>4. QED
    BY <2>1, <2>2, <2>3
<1>8. TypeOK' /\ SentNumbered'
  <2>1. saved' \in 0..Len(blocks') /\ tries' \in 0..(RetryTimes + 1)
        /\ Len(blocks') <= MaxBlockCount + 1
    BY <1>1, <1>5, BaseStorageAssumption
  <2>2. QED
    BY <2>1, <1>1, <1>2, <1>4, <1>5, <1>7 DEF TypeOK, SentNumbered, Running, envVars
<1>9. TriesInv'
  BY <1>1, BaseStorageAssumption DEF TriesInv
<1>10. CollectInv'
  <2>1. /\ Top' \in Nat /\ Len(blocks') <= Top' /\ MainBlockNum' <= Top'
        /\ Top' - Len(blocks') + saved' <= MainBlockNum'
        /\ MainBlockNum' = curHeight' /\ Len(blocks') <= MaxBlockCount
    BY <1>1, <1>3, <1>4, <1>5, <1>7, BaseStorageAssumption
  <2>2. QED
    BY <2>1, <1>1, <1>5, <1>7 DEF CollectInv, Working
<1>11. QED
  BY <1>3, <1>8, <1>9, <1>10

\* What marking the block in hand does to the heights in the database, at the
\* first attempt or after one whose answer was lost.
LEMMA MarkedHeight ==
    ASSUME SInv, Marking, MarkReverted(inHand[1].blk.num)
    PROVE  /\ rows' \in Seq(Row) /\ RowsInv' /\ OneOkRow'
           /\ contracts' = contracts
           /\ inHand[1].blk.num = curHeight /\ curHeight \in Nat \ {0}
           /\ MainBlockNum' = curHeight - 1
<1> USE DEF SInv
<1>1. spc = "mark" /\ inHand[1].blk.num = curHeight /\ inHand # <<>>
  BY DEF Marking, CollectInv
<1>2. curHeight \in Nat \ {0}
  <2>1. 1 \in 1..Len(inHand)
    BY <1>1, EmptySeq, LenProperties DEF TypeOK
  <2>2. inHand[1] \in Event
    BY <2>1, ElementOfSeq DEF TypeOK
  <2>3. QED
    BY <1>1, <2>2, BlockNum DEF Event
<1>3. /\ rows' \in Seq(Row) /\ OkNums' = OkNums \ {curHeight} /\ OneOkRow'
  BY <1>1, <1>2, MarkFacts DEF TypeOK
<1>4. MainBlockNum = curHeight \/ MainBlockNum = curHeight - 1
  BY <1>1 DEF CollectInv
<1>5. OkNums = 1..MainBlockNum
  BY DEF RowsInv
<1>6. OkNums' = 1..(curHeight - 1) /\ curHeight - 1 \in Nat
  <2>1. CASE MainBlockNum = curHeight
    BY <2>1, <1>2, <1>3, <1>5
  <2>2. CASE MainBlockNum = curHeight - 1
    BY <2>2, <1>2, <1>3, <1>5
  <2>3. QED
    BY <1>4, <2>1, <2>2
<1>7. RowsInv' /\ MainBlockNum' = curHeight - 1
  BY <1>6, NewHeight
<1>8. QED
  BY <1>1, <1>2, <1>3, <1>7 DEF MarkReverted

LEMMA MarkKeepsSInv == SInv /\ Mark => SInv'
<1> SUFFICES ASSUME SInv, Mark PROVE SInv'
  OBVIOUS
<1> USE DEF SInv
<1>1. /\ Marking /\ spc = "mark" /\ MarkReverted(inHand[1].blk.num)
      /\ spc' = "select" /\ inHand' = <<>> /\ tries' = 0
      /\ curHeight' = inHand[1].blk.num - 1
      /\ UNCHANGED <<blocks, saved, blockChan, envVars>>
  BY DEF Mark, Marking, AfterRevert
<1>2. /\ rows' \in Seq(Row) /\ RowsInv' /\ OneOkRow' /\ contracts' = contracts
      /\ curHeight' = curHeight - 1 /\ curHeight \in Nat \ {0}
      /\ MainBlockNum' = curHeight'
  BY <1>1, MarkedHeight
<1>3. blocks = <<>> /\ Len(blocks) = 0 /\ DOMAIN blocks = {} /\ saved = 0
  <2>1. blocks = <<>>
    BY <1>1 DEF CollectInv
  <2>2. Len(blocks) = 0 /\ DOMAIN blocks = {}
    BY <2>1, EmptySeq
  <2>3. QED
    BY <2>1, <2>2 DEF TypeOK
<1>4. curHeight' \in Nat /\ Top' = curHeight'
  BY <1>1, <1>2 DEF Top
<1>5. TypeOK' /\ SentNumbered'
  <2>1. tries' \in 0..(RetryTimes + 1) /\ inHand' \in Seq(Event) /\ Len(inHand') <= 1
    BY <1>1, EmptySeq, BaseStorageAssumption
  <2>2. QED
    BY <2>1, <1>1, <1>2, <1>4 DEF TypeOK, SentNumbered, Running, envVars
<1>6. TriesInv'
  BY <1>1, BaseStorageAssumption DEF TriesInv
<1>7. CollectInv'
  <2>1. /\ Len(blocks') <= Top' /\ MainBlockNum' <= Top'
        /\ Top' - Len(blocks') + saved' <= MainBlockNum'
        /\ Len(blocks') <= MaxBlockCount
    BY <1>1, <1>2, <1>3, <1>4, BaseStorageAssumption
  <2>2. QED
    BY <2>1, <1>1, <1>3, <1>4 DEF CollectInv, Working
<1>8. QED
  BY <1>2, <1>5, <1>6, <1>7

LEMMA MarkFailsKeepsSInv == SInv /\ (MarkFails \/ MarkAnswerLost) => SInv'
<1> SUFFICES ASSUME SInv, MarkFails \/ MarkAnswerLost PROVE SInv'
  OBVIOUS
<1> USE DEF SInv
<1>1. Marking /\ Retry /\ spc = "mark"
  BY DEF MarkFails, MarkAnswerLost, Marking
<1>2. CASE MarkFails
  <2>1. rows' = rows /\ contracts' = contracts
    BY <1>2 DEF MarkFails, dbVars
  <2>2. MainBlockNum' = MainBlockNum /\ RowsInv' /\ OneOkRow'
    BY <2>1, SameRows
  <2>3. rows' \in Seq(Row) /\ \A a \in DOMAIN contracts' : contracts'[a] \in Nat
    BY <2>1 DEF TypeOK
  <2>4. \/ MainBlockNum' = curHeight
        \/ MainBlockNum' = curHeight - 1 /\ inHand[1].blk.num = curHeight
    BY <1>1, <2>2 DEF CollectInv
  <2>5. QED
    BY <1>1, <2>2, <2>3, <2>4, RetryKeepsSInv
<1>3. CASE MarkAnswerLost
  <2>1. MarkReverted(inHand[1].blk.num)
    BY <1>3 DEF MarkAnswerLost
  <2>2. /\ rows' \in Seq(Row) /\ RowsInv' /\ OneOkRow' /\ contracts' = contracts
        /\ MainBlockNum' = curHeight - 1 /\ inHand[1].blk.num = curHeight
    BY <1>1, <2>1, MarkedHeight
  <2>3. \A a \in DOMAIN contracts' : contracts'[a] \in Nat
    BY <2>2 DEF TypeOK
  <2>4. QED
    BY <1>1, <2>2, <2>3, RetryKeepsSInv
<1>4. QED
  BY <1>2, <1>3

LEMMA StepKeepsSInv == SInv /\ [Next]_vars => SInv'
<1> SUFFICES ASSUME SInv, [Next]_vars PROVE SInv'
  OBVIOUS
<1>1. CASE \/ \E e \in Event : Publish(e)
           \/ Signal \/ Crash
  BY <1>1, EnvKeepsSInv
<1>2. CASE Restart
  BY <1>2, RestartKeepsSInv
<1>3. CASE QuietStep
  BY <1>3, QuietKeepsSInv
<1>4. CASE ReceiveBlock \/ ReceiveRevert
  BY <1>4, ReceiveBlockKeepsSInv, ReceiveRevertKeepsSInv
<1>5. CASE SaveBlock \/ SaveFails \/ SaveAnswerLost \/ SaveDone
  BY <1>5, SaveBlockKeepsSInv, SaveFailsKeepsSInv, SaveDoneKeepsSInv
<1>6. CASE Mark \/ MarkFails \/ MarkAnswerLost
  BY <1>6, MarkKeepsSInv, MarkFailsKeepsSInv
<1>7. CASE UNCHANGED vars
  <2>1. UNCHANGED <<taskVars, blockChan, rows, contracts, envVars>>
    BY <1>7 DEF vars, dbVars
  <2>2. MainBlockNum' = MainBlockNum /\ RowsInv' = RowsInv /\ OneOkRow' = OneOkRow
    BY <2>1, SameRows
  <2>3. QED
    BY <2>1, <2>2 DEF SInv, TypeOK, SentNumbered, CollectInv, TriesInv, Top,
                      taskVars, envVars
<1>8. QED
  BY <1>1, <1>2, <1>3, <1>4, <1>5, <1>6, <1>7
  DEF Next, Step, Failure, QuietStep

LEMMA AlwaysSInv == Spec => []SInv
  BY InitSInv, StepKeepsSInv, PTL DEF Spec

\* Type correctness of base_data and its database.
THEOREM StorageTypes == Spec => []TypeOK
<1>1. SInv => TypeOK
  BY DEF SInv
<1>2. QED
  BY <1>1, AlwaysSInv, PTL

\* However saves and reverts are retried, interrupted or answered, and whether
\* or not the task subscribes in time, saveBlocks leaves one row per height
\* that is not reverted.
THEOREM OneRowPerHeight == Spec => []OneOkRow
<1>1. SInv => OneOkRow
  BY DEF SInv
<1>2. QED
  BY <1>1, AlwaysSInv, PTL

\* The heights in the database have no gap: GetCurrentMainBlockNum, from which
\* a restart goes on, has everything below it.
THEOREM HeightsAreDense == Spec => []NoGaps
<1>1. SInv => NoGaps
  <2> SUFFICES ASSUME SInv, NEW b \in OkBlocks, NEW n \in 1..b.num
               PROVE  \E c \in OkBlocks : c.num = n
    BY DEF NoGaps
  <2>1. OkNums = 1..MainBlockNum /\ MainBlockNum \in Nat
    BY DEF SInv, RowsInv
  <2>2. b.num \in OkNums
    BY DEF OkNums
  <2>3. n \in OkNums
    BY <2>1, <2>2
  <2>4. QED
    BY <2>3 DEF OkNums
<1>2. QED
  BY <1>1, AlwaysSInv, PTL

----------------------------------------------------------------------------
(* The task's own height and the feed, when the task subscribes in time.    *)

\* The height the task has when it is done with the event in hand.
From == IF spc \in {"created", "subscribed"} THEN MainBlockNum
        ELSE IF inHand = <<>> THEN curHeight
        ELSE IF inHand[1].state = "ok" THEN inHand[1].blk.num
        ELSE inHand[1].blk.num - 1

\* Event e is the right one at height a and leads to height b.
Leads(a, e, b) == \/ e.state = "ok" /\ e.blk.num = a + 1 /\ b = a + 1
                  \/ e.state = "revert" /\ e.blk.num = a /\ b = a - 1

\* The events in the channel lead from the task's height to the feed's.
ChanLeads ==
    \E g \in [0..Len(blockChan) -> Int] :
        /\ g[0] = From /\ g[Len(blockChan)] = Len(sent)
        /\ \A i \in 1..Len(blockChan) : Leads(g[i - 1], blockChan[i], g[i])

FeedInv ==
    /\ spc # "fatal"
    /\ spc = "created" => blockChan = <<>>
    /\ spc \in Running =>
          /\ ChanLeads
          /\ inHand # <<>> /\ inHand[1].state = "revert" =>
                inHand[1].blk.num = curHeight

LEMMA SameLeads ==
    ASSUME blockChan' = blockChan, sent' = sent, From' = From
    PROVE  ChanLeads' = ChanLeads
  BY DEF ChanLeads

LEMMA NoEventsLead ==
    ASSUME blockChan' = <<>>, From' = Len(sent'), Len(sent') \in Nat
    PROVE  ChanLeads'
<1> DEFINE g == [i \in 0..0 |-> Len(sent')]
<1>1. Len(blockChan') = 0
  BY EmptySeq
<1>2. g \in [0..Len(blockChan') -> Int] /\ g[0] = From'
      /\ g[Len(blockChan')] = Len(sent')
  BY <1>1
<1>3. \A i \in 1..Len(blockChan') : Leads(g[i - 1], blockChan'[i], g[i])
  BY <1>1
<1>4. QED
  BY <1>2, <1>3 DEF ChanLeads, Leads

LEMMA PublishLeads ==
    ASSUME SInv, FeedInv, NEW e \in Event, Publish(e), ~late'
    PROVE  FeedInv'
<1> USE DEF SInv
<1>1. /\ spc \in Running /\ spc # "created"
      /\ blockChan' = Append(blockChan, e)
      /\ UNCHANGED <<taskVars, dbVars, stopping, restarts>>
  BY DEF Publish
<1>2. From' = From
  <2>1. MainBlockNum' = MainBlockNum
    BY <1>1, SameRows DEF dbVars
  <2>2. QED
    BY <1>1, <2>1 DEF From, taskVars
<1>3. /\ Len(blockChan) \in Nat /\ Len(blockChan') = Len(blockChan) + 1
      /\ \A i \in 1..Len(blockChan) : blockChan'[i] = blockChan[i]
      /\ blockChan'[Len(blockChan) + 1] = e
  BY <1>1, AppendProperties, LenProperties DEF TypeOK
<1>4. /\ Leads(Len(sent), e, Len(sent'))
      /\ Len(sent') \in Nat
  <2>1. e.state \in {"ok", "revert"}
    BY DEF Event
  <2>2. sent' \in Seq(Blocks)
    BY PublishFacts
  <2>3. QED
    BY <2>1, <2>2, PublishFacts, LenProperties DEF Leads
<1>5. PICK g \in [0..Len(blockChan) -> Int] :
         /\ g[0] = From /\ g[Len(blockChan)] = Len(sent)
         /\ \A i \in 1..Len(blockChan) : Leads(g[i - 1], blockChan[i], g[i])
  BY <1>1 DEF FeedInv, ChanLeads
<1> DEFINE h == [i \in 0..(Len(blockChan) + 1) |->
                    IF i <= Len(blockChan) THEN g[i] ELSE Len(sent')]
<1>6. h \in [0..Len(blockChan') -> Int]
  BY <1>3, <1>4, <1>5
<1>7. h[0] = From' /\ h[Len(blockChan')] = Len(sent')
  BY <1>2, <1>3, <1>5
<1>8. \A i \in 1..Len(blockChan') : Leads(h[i - 1], blockChan'[i], h[i])
  <2> SUFFICES ASSUME NEW i \in 1..Len(blockChan')
               PROVE  Leads(h[i - 1], blockChan'[i], h[i])
    OBVIOUS
  <2>1. CASE i \in 1..Len(blockChan)
    <3>1. h[i - 1] = g[i - 1] /\ h[i] = g[i] /\ blockChan'[i] = blockChan[i]
      BY <2>1, <1>3
    <3>2. QED
      BY <2>1, <3>1, <1>5
  <2>2. CASE i = Len(blockChan) + 1
    <3>1. h[i - 1] = Len(sent) /\ h[i] = Len(sent') /\ blockChan'[i] = e
      BY <2>2, <1>3, <1>5
    <3>2. QED
      BY <3>1, <1>4
  <2>3. QED
    BY <2>1, <2>2, <1>3
<1>9. ChanLeads'
  <2> HIDE DEF h
  <2>1. QED
    BY <1>6, <1>7, <1>8 DEF ChanLeads
<1>10. QED
  BY <1>1, <1>9 DEF FeedInv, taskVars

\* The first event of the channel is the right one, and the others go on from
\* the height it leads to.
LEMMA FirstLeads ==
    ASSUME SInv, ChanLeads, blockChan # <<>>, blockChan' = Tail(blockChan),
           sent' = sent
    PROVE  \E b \in Int : /\ Leads(From, Head(blockChan), b)
                          /\ From' = b => ChanLeads'
<1> USE DEF SInv
<1>1. PICK g \in [0..Len(blockChan) -> Int] :
         /\ g[0] = From /\ g[Len(blockChan)] = Len(sent)
         /\ \A i \in 1..Len(blockChan) : Leads(g[i - 1], blockChan[i], g[i])
  BY DEF ChanLeads
<1>2. /\ Len(blockChan) \in Nat \ {0} /\ Head(blockChan) = blockChan[1]
      /\ Len(blockChan') = Len(blockChan) - 1
      /\ \A i \in 1..(Len(blockChan) - 1) : blockChan'[i] = blockChan[i + 1]
  BY HeadTailProperties, EmptySeq, LenProperties DEF TypeOK
<1>3. g[1] \in Int /\ Leads(From, Head(blockChan), g[1])
  <2>1. 1 \in 1..Len(blockChan) /\ 1 \in 0..Len(blockChan) /\ 1 - 1 = 0
    BY <1>2
  <2>2. Leads(g[1 - 1], blockChan[1], g[1])
    BY <1>1, <2>1
  <2>3. QED
    BY <1>1, <1>2, <2>1, <2>2
<1>4. ASSUME From' = g[1] PROVE ChanLeads'
  <2> DEFINE h == [i \in 0..(Len(blockChan) - 1) |-> g[i + 1]]
  <2>1. h \in [0..Len(blockChan') -> Int]
    BY <1>1, <1>2
  <2>2. h[0] = From' /\ h[Len(blockChan')] = Len(sent')
    BY <1>1, <1>2, <1>4
  <2>3. \A i \in 1..Len(blockChan') : Leads(h[i - 1], blockChan'[i], h[i])
    <3> SUFFICES ASSUME NEW i \in 1..Len(blockChan')
                 PROVE  Leads(h[i - 1], blockChan'[i], h[i])
      OBVIOUS
    <3>1. i + 1 \in 1..Len(blockChan) /\ (i + 1) - 1 = i
      BY <1>2
    <3>2. Leads(g[(i + 1) - 1], blockChan[i + 1], g[i + 1])
      BY <1>1, <3>1
    <3>3. h[i - 1] = g[i] /\ h[i] = g[i + 1] /\ blockChan'[i] = blockChan[i + 1]
      BY <1>2
    <3>4. QED
      BY <3>1, <3>2, <3>3
  <2> HIDE DEF h
  <2>4. QED
    BY <2>1, <2>2, <2>3 DEF ChanLeads
<1>5. QED
  BY <1>3, <1>4

LEMMA InitFeedInv == Init => FeedInv
<1> SUFFICES ASSUME Init PROVE FeedInv
  OBVIOUS
<1>1. spc = "created" /\ blockChan = <<>> /\ inHand = <<>> /\ Len(sent) = 0
  BY EmptySeq DEF Init
<1>2. MainBlockNum = 0
  <2>1. OkNums = 1..0
    BY DEF Init, OkNums, OkBlocks, OkRows
  <2>2. MainBlockNum = Max(OkNums \cup {0})
    BY DEF MainBlockNum, OkNums
  <2>3. QED
    BY <2>1, <2>2, MaxUpTo
<1>3. ChanLeads
  <2> DEFINE g == [i \in 0..0 |-> 0]
  <2>1. Len(blockChan) = 0
    BY <1>1, EmptySeq
  <2>2. g \in [0..Len(blockChan) -> Int] /\ g[0] = From
        /\ g[Len(blockChan)] = Len(sent)
    BY <1>1, <1>2, <2>1 DEF From
  <2>3. \A i \in 1..Len(blockChan) : Leads(g[i - 1], blockChan[i], g[i])
    BY <2>1
  <2> HIDE DEF g
  <2>4. QED
    BY <2>2, <2>3 DEF ChanLeads
<1>4. QED
  BY <1>1, <1>3 DEF FeedInv

LEMMA RestartFeedInv == SInv /\ Restart => FeedInv'
<1> SUFFICES ASSUME SInv, Restart PROVE FeedInv'
  OBVIOUS
<1>1. /\ spc' = "created" /\ blockChan' = <<>> /\ inHand' = <<>>
      /\ sent' = DBChain /\ rows' = rows
  BY DEF Restart, Fresh, dbVars
<1>2. MainBlockNum' = MainBlockNum
  BY <1>1, SameRows
<1>3. Len(sent') = MainBlockNum /\ MainBlockNum \in Nat
  BY <1>1, DBChainType DEF SInv, RowsInv
<1>4. From' = MainBlockNum
  BY <1>1, <1>2 DEF From
<1>5. ChanLeads'
  BY <1>1, <1>3, <1>4, NoEventsLead
<1>6. QED
  BY <1>1, <1>5 DEF FeedInv

LEMMA ReceiveFeedInv ==
    ASSUME SInv, FeedInv, ReceiveUnexpected \/ ReceiveBlock \/ ReceiveRevert
    PROVE  FeedInv'
<1> DEFINE e == Head(blockChan)
<1>1. /\ spc = "select" /\ blockChan # <<>> /\ blockChan' = Tail(blockChan)
      /\ sent' = sent
  BY DEF ReceiveUnexpected, ReceiveBlock, ReceiveRevert, envVars
<1>2. inHand = <<>> /\ ChanLeads /\ From = curHeight /\ curHeight \in Nat
  BY <1>1 DEF SInv, CollectInv, FeedInv, Running, From, TypeOK
<1>3. e \in Event /\ e.blk.num \in Nat
  BY <1>1, Received DEF SInv
<1>4. PICK b \in Int : Leads(curHeight, e, b) /\ (From' = b => ChanLeads')
  BY <1>1, <1>2, FirstLeads
<1> HIDE DEF e
<1>5. ~Unexpected(e)
  BY <1>2, <1>3, <1>4 DEF Leads, Unexpected
<1>6. CASE ReceiveBlock
  <2>1. /\ e.state = "ok" /\ spc' \in {"save", "select"}
        /\ \/ inHand' = <<e>>
           \/ inHand' = <<>> /\ curHeight' = e.blk.num
    BY <1>1, <1>2, <1>6 DEF ReceiveBlock, e
  <2>2. b = e.blk.num
    BY <1>4, <2>1 DEF Leads
  <2>3. inHand' = <<e>> => inHand' # <<>> /\ inHand'[1] = e
    OBVIOUS
  <2>4. From' = e.blk.num
    BY <2>1, <2>3 DEF From
  <2>5. inHand' # <<>> => inHand'[1].state = "ok"
    BY <2>1, <2>3
  <2>6. QED
    BY <1>4, <2>1, <2>2, <2>4, <2>5 DEF FeedInv
<1>7. CASE ReceiveRevert
  <2>1. /\ e.state = "revert" /\ spc' \in {"save", "mark"} /\ inHand' = <<e>>
        /\ curHeight' = curHeight
    BY <1>7 DEF ReceiveRevert, NextAfterRevert, e
  <2>2. inHand' # <<>> /\ inHand'[1] = e
    BY <2>1
  <2>3. From' = e.blk.num - 1
    BY <2>1, <2>2 DEF From
  <2>4. b = e.blk.num - 1 /\ e.blk.num = curHeight
    BY <1>4, <2>1 DEF Leads
  <2>5. QED
    BY <1>4, <2>1, <2>2, <2>3, <2>4 DEF FeedInv
<1>8. CASE ReceiveUnexpected
  BY <1>5, <1>8 DEF ReceiveUnexpected, e
<1>9. QED
  BY <1>6, <1>7, <1>8

\* The steps that leave the feed and the channel alone.
LEMMA WorkFeedInv ==
    ASSUME SInv, FeedInv,
           \/ Subscribe \/ LoadHeight \/ Stop \/ Timer \/ MarkUnexpected
           \/ SaveBlock \/ SaveDone \/ Mark \/ Failure \/ Signal \/ Crash
    PROVE  FeedInv'
<1>1. blockChan' = blockChan /\ sent' = sent
  BY DEF Subscribe, LoadHeight, Stop, Timer, MarkUnexpected, SaveBlock, SaveDone,
         Mark, Failure, SaveFails, SaveAnswerLost, MarkFails, MarkAnswerLost,
         Retry, Signal, Crash, taskVars, envVars
<1>2. spc' # "created" \/ spc' = spc
  BY DEF Subscribe, LoadHeight, Stop, Timer, MarkUnexpected, SaveBlock, SaveDone,
         Mark, Failure, SaveFails, SaveAnswerLost, MarkFails, MarkAnswerLost,
         Retry, Signal, Crash, taskVars
<1>3. CASE spc' \notin Running /\ spc' # "fatal"
  BY <1>3 DEF FeedInv, Running
<1>4. CASE Subscribe \/ LoadHeight \/ Timer \/ Signal
  <2>1. CASE spc' \in Running
    <3>1. rows' = rows /\ inHand' = inHand /\ spc \in Running /\ spc' # "fatal"
      BY <1>4, <2>1 DEF Subscribe, LoadHeight, Timer, Signal, Running, dbVars,
                        taskVars
    <3>2. MainBlockNum' = MainBlockNum
      BY <3>1, SameRows
    <3>3. From' = From /\ (inHand # <<>> => curHeight' = curHeight)
      BY <1>4, <2>1, <3>1, <3>2
      DEF From, Subscribe, LoadHeight, Timer, Signal, Running, taskVars, SInv,
          CollectInv
    <3>4. ChanLeads'
      BY <1>1, <3>1, <3>3, SameLeads DEF FeedInv
    <3>5. QED
      BY <1>1, <1>2, <3>1, <3>3, <3>4 DEF FeedInv
  <2>2. CASE spc' \notin Running
    BY <1>3, <1>4, <2>2 DEF Subscribe, LoadHeight, Timer, Signal, taskVars, FeedInv
  <2>3. QED
    BY <2>1, <2>2
<1>5. CASE MarkUnexpected
  BY <1>5 DEF MarkUnexpected, FeedInv, Running, SInv, CollectInv
<1>6. CASE (SaveBlock \/ Failure) /\ spc' \in Running
  <2>1. /\ spc' = spc /\ inHand' = inHand /\ curHeight' = curHeight
        /\ spc \in {"save", "mark"}
    BY <1>6 DEF SaveBlock, Failure, SaveFails, SaveAnswerLost, MarkFails,
                MarkAnswerLost, Retry, Running, Saving, Marking
  <2>2. From' = From
    BY <2>1 DEF From
  <2>3. QED
    BY <1>1, <2>1, <2>2, SameLeads DEF FeedInv
<1>7. CASE SaveDone
  <2>1. /\ spc = "save" /\ spc' \in {"select", "mark"} /\ From' = From
        /\ inHand' # <<>> => inHand' = inHand /\ curHeight' = curHeight
    BY <1>7 DEF SaveDone, From
  <2>2. ChanLeads'
    BY <1>1, <2>1, SameLeads DEF FeedInv, Running
  <2>3. QED
    BY <2>1, <2>2 DEF FeedInv, Running
<1>8. CASE Mark
  <2>1. /\ spc = "mark" /\ spc' = "select" /\ inHand' = <<>>
        /\ curHeight' = inHand[1].blk.num - 1
    BY <1>8 DEF Mark, Marking, AfterRevert
  <2>2. From' = From
    BY <2>1 DEF From, SInv, CollectInv
  <2>3. ChanLeads'
    BY <1>1, <2>1, <2>2, SameLeads DEF FeedInv, Running
  <2>4. QED
    BY <2>1, <2>3 DEF FeedInv
<1>9. CASE Stop \/ Crash \/ ((SaveBlock \/ Failure) /\ spc' \notin Running)
  <2>1. spc' \notin Running /\ spc' # "fatal"
    BY <1>9 DEF Stop, Crash, SaveBlock, Failure, SaveFails, SaveAnswerLost,
                MarkFails, MarkAnswerLost, Retry, Running, FeedInv
  <2>2. QED
    BY <1>3, <2>1
<1>10. QED
  BY <1>4, <1>5, <1>6, <1>7, <1>8, <1>9

\* Only a lost event sets late, and only a restart takes it back.
LEMMA StaysLate == late /\ [Next]_vars => late' \/ Restart
<1> SUFFICES ASSUME late, [Next]_vars, ~Restart PROVE late'
  OBVIOUS
<1>1. CASE \E e \in Event : Publish(e)
  BY <1>1 DEF Publish
<1>2. CASE Signal \/ Crash \/ UNCHANGED vars
  BY <1>2 DEF Signal, Crash, vars, envVars
<1>3. CASE \/ Subscribe \/ LoadHeight \/ Stop \/ Timer
           \/ ReceiveUnexpected \/ ReceiveBlock \/ ReceiveRevert
  BY <1>3 DEF Subscribe, LoadHeight, Stop, Timer, ReceiveUnexpected, ReceiveBlock,
              ReceiveRevert, envVars
<1>4. CASE MarkUnexpected \/ SaveBlock \/ SaveDone \/ Mark \/ Failure
  BY <1>4 DEF MarkUnexpected, SaveBlock, SaveDone, Mark, Failure, SaveFails,
              SaveAnswerLost, MarkFails, MarkAnswerLost, Retry, envVars
<1>5. QED
  BY <1>1, <1>2, <1>3, <1>4 DEF Next, Step

LEMMA StepKeepsFeedInv ==
    SInv /\ (late \/ FeedInv) /\ [Next]_vars => late' \/ FeedInv'
<1>0. SInv /\ Restart => FeedInv'
  BY RestartFeedInv
<1> SUFFICES ASSUME SInv, FeedInv, [Next]_vars, ~late' PROVE FeedInv'
  BY <1>0, StaysLate
<1>1. CASE \E e \in Event : Publish(e)
  BY <1>1, PublishLeads
<1>2. CASE Restart
  BY <1>0, <1>2
<1>3. CASE ReceiveUnexpected \/ ReceiveBlock \/ ReceiveRevert
  BY <1>3, ReceiveFeedInv
<1>4. CASE \/ Subscribe \/ LoadHeight \/ Stop \/ Timer \/ MarkUnexpected
           \/ SaveBlock \/ SaveDone \/ Mark \/ Failure \/ Signal \/ Crash
  BY <1>4, WorkFeedInv
<1>5. CASE UNCHANGED vars
  <2>1. UNCHANGED <<taskVars, blockChan, rows, sent>>
    BY <1>5 DEF vars, dbVars, envVars
  <2>2. From' = From
    BY <2>1, SameRows DEF From, taskVars
  <2>3. ChanLeads' = ChanLeads
    BY <2>1, <2>2, SameLeads
  <2>4. QED
    BY <2>1, <2>3 DEF FeedInv, taskVars
<1>6. QED
  BY <1>1, <1>2, <1>3, <1>4, <1>5 DEF Next, Step

\* A task that was subscribed before every event never ends the process over a
\* height it did not expect, through every retry, crash and restart: its own
\* height, the events in the channel and the database agree.
THEOREM HeightsAgree == Spec => []NeverUnexpected
<1>1. SInv /\ (late \/ FeedInv) /\ [Next]_vars => late' \/ FeedInv'
  BY StepKeepsFeedInv
<1>2. late \/ FeedInv => NeverUnexpected
  BY DEF FeedInv, NeverUnexpected
<1>3. QED
  BY <1>1, <1>2, InitFeedInv, AlwaysSInv, PTL DEF Spec

----------------------------------------------------------------------------
(* The chain of blocks: the chain in the database follows the feed, and it  *)
(* changes as a ChainLog does.                                              *)

\* The height under the collected blocks.
Base == Top - Len(blocks)

\* The block the task has at height n when the events in hand are done, stored
\* or collected, and the chain of these blocks.
KeptAt(n) == IF n <= MainBlockNum THEN DBChain[n] ELSE blocks[n - Base]
Kept == [n \in 1..From |-> KeptAt(n)]

\* The collected blocks that are stored are the ones in the database.
Stored == \A i \in DOMAIN blocks : Base + i <= MainBlockNum =>
             DBChain[Base + i] = blocks[i]

\* Each collected block was built on the one under it.
Below(i) == IF i = 1 THEN DBChain[Base] ELSE blocks[i - 1]
BatchLinked == \A i \in DOMAIN blocks : Base + i # 1 =>
                  blocks[i].parent = Below(i).hash

\* Event e makes the chain t of the chain s, as the feed may.
Makes(s, e, t) == Follows(e, s) /\ t = Applied(s, e)

\* The events in the channel make the feed's chain of the task's.
ChanMakes ==
    \E p \in [0..Len(blockChan) -> Seq(Blocks)] :
        /\ p[0] = Kept /\ p[Len(blockChan)] = sent
        /\ \A i \in 1..Len(blockChan) : Makes(p[i - 1], blockChan[i], p[i])

ChainsInv ==
    /\ spc \in Working => Stored /\ BatchLinked
    /\ spc \in Running => ChanMakes

----------------------------------------------------------------------------
(* What the steps of the database do to the chain in it. *)

LEMMA TheChosen ==
    ASSUME NEW S, NEW b \in S, \A c \in S : c.num = b.num => c = b
    PROVE  (CHOOSE c \in S : c.num = b.num) = b
<1> DEFINE d == CHOOSE c \in S : c.num = b.num
<1>1. d \in S /\ d.num = b.num
  OBVIOUS
<1>2. QED
  BY <1>1

LEMMA OneOkBlock ==
    ASSUME OneOkRow, NEW b \in OkBlocks, NEW c \in OkBlocks, b.num = c.num
    PROVE  b = c
  BY DEF OneOkRow, OkBlocks

\* One row that is not reverted has the height of a block in the database.
LEMMA OneOkBlockNext ==
    ASSUME OneOkRow', NEW b \in OkBlocks', NEW c \in OkBlocks', b.num = c.num
    PROVE  b = c
  BY DEF OneOkRow, OkBlocks

LEMMA ChainAt ==
    ASSUME SInv, NEW n \in 1..MainBlockNum
    PROVE  DBChain[n] \in OkBlocks /\ DBChain[n].num = n
<1>1. \E b \in OkBlocks : b.num = n
  BY DEF SInv, RowsInv, OkNums
<1>2. DBChain[n] = CHOOSE b \in OkBlocks : b.num = n
  BY DEF DBChain
<1>3. QED
  BY <1>1, <1>2

\* A stored block of height n is the one the next chain has there.
LEMMA ChainAtNext ==
    ASSUME OneOkRow', NEW b \in OkBlocks', b.num \in 1..MainBlockNum'
    PROVE  DBChain'[b.num] = b
<1>1. DBChain'[b.num] = CHOOSE c \in OkBlocks' : c.num = b.num
  BY DEF DBChain
<1>2. \A c \in OkBlocks' : c.num = b.num => c = b
  BY OneOkBlockNext
<1>3. (CHOOSE c \in OkBlocks' : c.num = b.num) = b
  BY <1>2, TheChosen
<1>4. QED
  BY <1>1, <1>3

LEMMA SameChain ==
    ASSUME rows' = rows
    PROVE  DBChain' = DBChain
<1>1. MainBlockNum' = MainBlockNum /\ OkBlocks' = OkBlocks
  BY SameRows
<1>2. QED
  BY <1>1 DEF DBChain

\* Saving the next block of the batch puts it on top of the chain.
LEMMA InsertOnTop ==
    ASSUME SInv, Saving, ~Exists(blocks[saved + 1]), Insert(blocks[saved + 1])
    PROVE  /\ MainBlockNum' = MainBlockNum + 1
           /\ \A n \in 1..MainBlockNum : DBChain'[n] = DBChain[n]
           /\ DBChain'[MainBlockNum + 1] = blocks[saved + 1]
<1> DEFINE b == blocks[saved + 1]
<1>1. /\ rows' \in Seq(Row) /\ RowsInv' /\ OneOkRow'
      /\ MainBlockNum' = MainBlockNum + 1 /\ MainBlockNum' = b.num
      /\ MainBlockNum \in Nat
  BY SaveInsert DEF SInv, RowsInv
<1>2. OkBlocks' = OkBlocks \cup {b}
  BY SaveFacts, InsertFacts DEF SInv, TypeOK
<1> HIDE DEF b
<1>3. ASSUME NEW n \in 1..MainBlockNum PROVE DBChain'[n] = DBChain[n]
  <2> DEFINE c == DBChain[n]
  <2>1. c \in OkBlocks' /\ c.num = n
    BY <1>2, <1>3, ChainAt
  <2>2. c.num \in 1..MainBlockNum'
    BY <2>1, <1>1
  <2> HIDE DEF c
  <2>3. DBChain'[c.num] = c
    BY <1>1, <2>1, <2>2, ChainAtNext
  <2>4. QED
    BY <2>1, <2>3 DEF c
<1>4. DBChain'[b.num] = b
  <2>1. b \in OkBlocks' /\ b.num \in 1..MainBlockNum'
    BY <1>1, <1>2
  <2>2. QED
    BY <1>1, <2>1, ChainAtNext
<1>5. QED
  BY <1>1, <1>3, <1>4 DEF b

\* Marking the block in hand leaves the chain under it, at the first attempt
\* or after one whose answer was lost.
LEMMA MarkCuts ==
    ASSUME SInv, Marking, MarkReverted(inHand[1].blk.num)
    PROVE  /\ MainBlockNum' = curHeight - 1 /\ curHeight \in Nat \ {0}
           /\ inHand[1].blk.num = curHeight
           /\ MainBlockNum = curHeight \/ MainBlockNum = curHeight - 1
           /\ \A n \in 1..(curHeight - 1) : DBChain'[n] = DBChain[n]
<1>1. /\ OneOkRow' /\ MainBlockNum' = curHeight - 1
      /\ curHeight \in Nat \ {0} /\ inHand[1].blk.num = curHeight
  BY MarkedHeight
<1>2. MainBlockNum = curHeight \/ MainBlockNum = curHeight - 1
  BY DEF Marking, SInv, CollectInv
<1>3. OkBlocks' = {b \in OkBlocks : b.num # curHeight}
  BY <1>1, MarkFacts DEF SInv, TypeOK
<1>4. ASSUME NEW n \in 1..(curHeight - 1) PROVE DBChain'[n] = DBChain[n]
  <2> DEFINE c == DBChain[n]
  <2>1. n \in 1..MainBlockNum /\ n # curHeight
    BY <1>1, <1>2
  <2>2. c \in OkBlocks /\ c.num = n
    BY <2>1, ChainAt
  <2>3. c \in OkBlocks' /\ c.num \in 1..MainBlockNum'
    BY <1>1, <1>3, <2>1, <2>2
  <2> HIDE DEF c
  <2>4. DBChain'[c.num] = c
    BY <1>1, <2>3, ChainAtNext
  <2>5. QED
    BY <2>2, <2>4 DEF c
<1>5. QED
  BY <1>1, <1>2, <1>4

----------------------------------------------------------------------------
(* The chain the task keeps. *)

\* Where the collected blocks and the task's height are.
LEMMA Places ==
    ASSUME SInv, FeedInv, spc \in Running
    PROVE  /\ From \in Nat /\ MainBlockNum \in Nat
           /\ Len(blocks) \in Nat /\ DOMAIN blocks = 1..Len(blocks)
           /\ spc \in Working => /\ Top \in Nat /\ Base \in Nat
                                 /\ MainBlockNum <= Top
                                 /\ Top = Base + Len(blocks) /\ From <= Top
           /\ spc \in {"select", "save"} => Base + saved <= MainBlockNum
           /\ spc = "mark" => From <= MainBlockNum
           /\ spc \in {"created", "subscribed"} => From = MainBlockNum
<1> USE DEF SInv
<1>1. /\ MainBlockNum \in Nat /\ curHeight \in Nat
      /\ Len(blocks) \in Nat /\ DOMAIN blocks = 1..Len(blocks)
  BY LenProperties DEF RowsInv, TypeOK
<1>2. inHand # <<>> => /\ inHand[1].blk.num \in Nat \ {0}
                       /\ inHand[1].state \in {"ok", "revert"}
  <2> SUFFICES ASSUME inHand # <<>>
               PROVE  /\ inHand[1].blk.num \in Nat \ {0}
                      /\ inHand[1].state \in {"ok", "revert"}
    OBVIOUS
  <2>1. 1 \in 1..Len(inHand)
    BY EmptySeq, LenProperties DEF TypeOK
  <2>2. inHand[1] \in Event
    BY <2>1, ElementOfSeq DEF TypeOK
  <2>3. QED
    BY <2>2, BlockNum DEF Event
<1>3. inHand # <<>> /\ inHand[1].state = "revert" =>
         inHand[1].blk.num = curHeight
  BY DEF FeedInv
<1>4. CASE spc \in {"created", "subscribed"}
  BY <1>1, <1>4 DEF From, Working
<1>5. CASE spc \in Working
  <2>1. /\ Top \in Nat /\ Len(blocks) <= Top /\ MainBlockNum <= Top
        /\ Base = Top - Len(blocks)
    BY <1>5 DEF CollectInv, Base
  <2>2. Base \in Nat /\ Top = Base + Len(blocks)
    BY <1>1, <2>1
  <2>3. From \in Nat /\ From <= Top
    BY <1>1, <1>2, <1>3, <1>5 DEF From, Top, Working
  <2>4. spc \in {"select", "save"} => Base + saved <= MainBlockNum
    <3>1. saved \in Nat
      BY DEF TypeOK
    <3>2. spc \in {"select", "save"} => Top - Len(blocks) + saved <= MainBlockNum
      BY DEF CollectInv
    <3>3. QED
      BY <1>1, <2>1, <3>1, <3>2
  <2>5. spc = "mark" => From <= MainBlockNum
    <3> SUFFICES ASSUME spc = "mark" PROVE From <= MainBlockNum
      OBVIOUS
    <3>1. /\ inHand # <<>> /\ inHand[1].state = "revert"
          /\ MainBlockNum = curHeight \/ MainBlockNum = curHeight - 1
      BY DEF CollectInv
    <3>2. From = curHeight - 1
      BY <1>3, <3>1 DEF From
    <3>3. QED
      BY <1>1, <3>1, <3>2
  <2>6. QED
    BY <1>1, <1>5, <2>1, <2>2, <2>3, <2>4, <2>5 DEF Working
<1>6. QED
  BY <1>4, <1>5 DEF Running, Working

LEMMA KeptType ==
    ASSUME SInv, FeedInv, spc \in Running
    PROVE  Kept \in Seq(Blocks) /\ Len(Kept) = From
<1>1. From \in Nat /\ MainBlockNum \in Nat
  BY Places
<1>2. ASSUME NEW n \in 1..From PROVE KeptAt(n) \in Blocks
  <2>1. CASE n <= MainBlockNum
    <3>1. DBChain \in Seq(Blocks) /\ Len(DBChain) = MainBlockNum
      BY DBChainType DEF SInv
    <3>2. n \in 1..Len(DBChain)
      BY <1>1, <2>1, <3>1
    <3>3. DBChain[n] \in Blocks
      BY <3>1, <3>2, ElementOfSeq
    <3>4. QED
      BY <2>1, <3>3 DEF KeptAt
  <2>2. CASE ~(n <= MainBlockNum)
    <3>1. spc \in {"select", "save"}
      BY <1>1, <2>2, Places DEF Running
    <3>2. /\ Top \in Nat /\ Base \in Nat /\ Len(blocks) \in Nat
          /\ Top = Base + Len(blocks) /\ From <= Top
          /\ Base + saved <= MainBlockNum /\ saved \in Nat
      BY <3>1, Places DEF Working, SInv, TypeOK
    <3>3. n - Base \in 1..Len(blocks)
      BY <1>1, <2>2, <3>2
    <3>4. blocks[n - Base] \in Blocks
      BY <3>3, ElementOfSeq DEF SInv, TypeOK
    <3>5. QED
      BY <2>2, <3>4 DEF KeptAt
  <2>3. QED
    BY <2>1, <2>2
<1>3. Kept \in [1..From -> Blocks]
  BY <1>2 DEF Kept
<1>4. Kept \in Seq(Blocks)
  BY <1>1, <1>3, SeqDef
<1>5. DOMAIN Kept = 1..From
  BY DEF Kept
<1>6. QED
  BY <1>1, <1>4, <1>5, LenProperties

LEMMA SameKept ==
    ASSUME From' = From, \A n \in 1..From : KeptAt(n)' = KeptAt(n)
    PROVE  Kept' = Kept
  BY DEF Kept

LEMMA SameKeptAt ==
    ASSUME rows' = rows, blocks' = blocks, Base' = Base, NEW n
    PROVE  KeptAt(n)' = KeptAt(n)
<1>1. MainBlockNum' = MainBlockNum /\ DBChain' = DBChain
  BY SameRows, SameChain
<1>2. QED
  BY <1>1 DEF KeptAt

----------------------------------------------------------------------------
(* The events in the channel. *)

LEMMA SameMakes ==
    ASSUME blockChan' = blockChan, sent' = sent, Kept' = Kept
    PROVE  ChanMakes' = ChanMakes
  BY DEF ChanMakes

LEMMA NoEventsMake ==
    ASSUME blockChan' = <<>>, Kept' = sent', sent' \in Seq(Blocks)
    PROVE  ChanMakes'
<1> DEFINE p == [i \in 0..0 |-> sent']
<1>1. Len(blockChan') = 0
  BY EmptySeq
<1>2. p \in [0..Len(blockChan') -> Seq(Blocks)] /\ p[0] = Kept'
      /\ p[Len(blockChan')] = sent'
  BY <1>1
<1>3. \A i \in 1..Len(blockChan') : Makes(p[i - 1], blockChan'[i], p[i])
  BY <1>1
<1> HIDE DEF p
<1>4. QED
  BY <1>2, <1>3 DEF ChanMakes

LEMMA PublishMakes ==
    ASSUME SInv, ChanMakes, NEW e \in Event, Publish(e),
           blockChan' = Append(blockChan, e), Kept' = Kept
    PROVE  ChanMakes'
<1>1. /\ Len(blockChan) \in Nat /\ Len(blockChan') = Len(blockChan) + 1
      /\ \A i \in 1..Len(blockChan) : blockChan'[i] = blockChan[i]
      /\ blockChan'[Len(blockChan) + 1] = e
  BY AppendProperties, LenProperties DEF SInv, TypeOK
<1>2. Makes(sent, e, sent') /\ sent' \in Seq(Blocks)
  BY PublishFacts DEF Publish, Makes, SInv
<1>3. PICK p \in [0..Len(blockChan) -> Seq(Blocks)] :
         /\ p[0] = Kept /\ p[Len(blockChan)] = sent
         /\ \A i \in 1..Len(blockChan) : Makes(p[i - 1], blockChan[i], p[i])
  BY DEF ChanMakes
<1> DEFINE q == [i \in 0..(Len(blockChan) + 1) |->
                    IF i <= Len(blockChan) THEN p[i] ELSE sent']
<1>4. q \in [0..Len(blockChan') -> Seq(Blocks)]
  BY <1>1, <1>2, <1>3
<1>5. q[0] = Kept' /\ q[Len(blockChan')] = sent'
  BY <1>1, <1>3
<1>6. \A i \in 1..Len(blockChan') : Makes(q[i - 1], blockChan'[i], q[i])
  <2> SUFFICES ASSUME NEW i \in 1..Len(blockChan')
               PROVE  Makes(q[i - 1], blockChan'[i], q[i])
    OBVIOUS
  <2>1. CASE i \in 1..Len(blockChan)
    <3>1. q[i - 1] = p[i - 1] /\ q[i] = p[i] /\ blockChan'[i] = blockChan[i]
      BY <2>1, <1>1
    <3>2. QED
      BY <2>1, <3>1, <1>3
  <2>2. CASE i = Len(blockChan) + 1
    <3>1. q[i - 1] = sent /\ q[i] = sent' /\ blockChan'[i] = e
      BY <2>2, <1>1, <1>3
    <3>2. QED
      BY <3>1, <1>2
  <2>3. QED
    BY <2>1, <2>2, <1>1
<1> HIDE DEF q
<1>7. QED
  BY <1>4, <1>5, <1>6 DEF ChanMakes

\* The first event of the channel fits the task's chain, and the others go on
\* from the chain it makes.
LEMMA FirstMakes ==
    ASSUME SInv, ChanMakes, blockChan # <<>>, blockChan' = Tail(blockChan),
           sent' = sent
    PROVE  /\ Follows(Head(blockChan), Kept)
           /\ Kept' = Applied(Kept, Head(blockChan)) => ChanMakes'
<1>1. PICK p \in [0..Len(blockChan) -> Seq(Blocks)] :
         /\ p[0] = Kept /\ p[Len(blockChan)] = sent
         /\ \A i \in 1..Len(blockChan) : Makes(p[i - 1], blockChan[i], p[i])
  BY DEF ChanMakes
<1>2. /\ Len(blockChan) \in Nat \ {0} /\ Head(blockChan) = blockChan[1]
      /\ Len(blockChan') = Len(blockChan) - 1
      /\ \A i \in 1..(Len(blockChan) - 1) : blockChan'[i] = blockChan[i + 1]
  BY HeadTailProperties, EmptySeq, LenProperties DEF SInv, TypeOK
<1>3. Makes(Kept, Head(blockChan), p[1])
  <2>1. 1 \in 1..Len(blockChan) /\ 1 - 1 = 0
    BY <1>2
  <2>2. Makes(p[1 - 1], blockChan[1], p[1])
    BY <1>1, <2>1
  <2>3. QED
    BY <1>1, <1>2, <2>1, <2>2
<1>4. ASSUME Kept' = Applied(Kept, Head(blockChan)) PROVE ChanMakes'
  <2>1. Kept' = p[1]
    BY <1>3, <1>4 DEF Makes
  <2> DEFINE q == [i \in 0..(Len(blockChan) - 1) |-> p[i + 1]]
  <2>2. q \in [0..Len(blockChan') -> Seq(Blocks)]
    BY <1>1, <1>2
  <2>3. q[0] = Kept' /\ q[Len(blockChan')] = sent'
    BY <1>1, <1>2, <2>1
  <2>4. \A i \in 1..Len(blockChan') : Makes(q[i - 1], blockChan'[i], q[i])
    <3> SUFFICES ASSUME NEW i \in 1..Len(blockChan')
                 PROVE  Makes(q[i - 1], blockChan'[i], q[i])
      OBVIOUS
    <3>1. i + 1 \in 1..Len(blockChan) /\ (i + 1) - 1 = i
      BY <1>2
    <3>2. Makes(p[(i + 1) - 1], blockChan[i + 1], p[i + 1])
      BY <1>1, <3>1
    <3>3. q[i - 1] = p[i] /\ q[i] = p[i + 1] /\ blockChan'[i] = blockChan[i + 1]
      BY <1>2
    <3>4. QED
      BY <3>1, <3>2, <3>3
  <2> HIDE DEF q
  <2>5. QED
    BY <2>2, <2>3, <2>4 DEF ChanMakes
<1>5. QED
  BY <1>3, <1>4 DEF Makes

----------------------------------------------------------------------------
(* Each step keeps ChainsInv. *)

LEMMA SameBatch ==
    ASSUME rows' = rows, blocks' = blocks, Base' = Base
    PROVE  Stored' = Stored /\ BatchLinked' = BatchLinked
<1>1. MainBlockNum' = MainBlockNum /\ DBChain' = DBChain
  BY SameRows, SameChain
<1>2. QED
  BY <1>1 DEF Stored, BatchLinked, Below

LEMMA EmptyBatch ==
    ASSUME blocks' = <<>>
    PROVE  Stored' /\ BatchLinked'
<1>1. DOMAIN blocks' = {}
  BY EmptySeq
<1>2. QED
  BY <1>1 DEF Stored, BatchLinked

\* When what is kept is all in the database, before and after a step.
LEMMA KeptBelow ==
    ASSUME From' = From, From \in Nat, MainBlockNum \in Nat, MainBlockNum' \in Nat,
           From <= MainBlockNum, From <= MainBlockNum',
           \A n \in 1..From : DBChain'[n] = DBChain[n]
    PROVE  Kept' = Kept
<1>1. \A n \in 1..From : n <= MainBlockNum /\ n <= MainBlockNum'
  OBVIOUS
<1>2. \A n \in 1..From : KeptAt(n) = DBChain[n]
  BY <1>1 DEF KeptAt
<1>3. \A n \in 1..From : KeptAt(n)' = DBChain'[n]
  BY <1>1 DEF KeptAt
<1>4. QED
  BY <1>2, <1>3, SameKept

LEMMA SeqIs ==
    ASSUME NEW S, NEW s \in Seq(S), NEW f, f = [n \in 1..Len(s) |-> f[n]],
           \A n \in 1..Len(s) : f[n] = s[n]
    PROVE  f = s
<1>1. s = [n \in 1..Len(s) |-> s[n]]
  BY LenProperties
<1>2. QED
  BY <1>1

\* A step that leaves the blocks where they are.
LEMMA IdleChains ==
    ASSUME SInv, ChainsInv, rows' = rows, blocks' = blocks, Base' = Base,
           From' = From, blockChan' = blockChan, sent' = sent,
           spc \in Running, spc' \in Working => spc \in Working
    PROVE  ChainsInv'
<1>1. Stored' = Stored /\ BatchLinked' = BatchLinked
  BY SameBatch
<1>2. Kept' = Kept
  BY SameKept, SameKeptAt
<1>3. ChanMakes'
  BY <1>2, SameMakes DEF ChainsInv
<1>4. QED
  BY <1>1, <1>3 DEF ChainsInv

LEMMA PublishChains ==
    ASSUME SInv, FeedInv, ChainsInv, NEW e \in Event, Publish(e), ~late'
    PROVE  ChainsInv'
<1>1. /\ spc \in Running /\ blockChan' = Append(blockChan, e)
      /\ UNCHANGED <<taskVars, rows>>
  BY DEF Publish, dbVars
<1>2. MainBlockNum' = MainBlockNum
  BY <1>1, SameRows
<1>3. Top' = Top /\ Base' = Base /\ From' = From
  BY <1>1, <1>2 DEF Top, Base, From, taskVars
<1>4. Stored' = Stored /\ BatchLinked' = BatchLinked
  BY <1>1, <1>3, SameBatch DEF taskVars
<1>5. Kept' = Kept
  BY <1>1, <1>3, SameKept, SameKeptAt DEF taskVars
<1>6. ChanMakes'
  BY <1>1, <1>5, PublishMakes DEF ChainsInv
<1>7. QED
  BY <1>1, <1>4, <1>6 DEF ChainsInv, taskVars

LEMMA RestartChains == SInv /\ Restart => ChainsInv'
<1> SUFFICES ASSUME SInv, Restart PROVE ChainsInv'
  OBVIOUS
<1>1. /\ spc' = "created" /\ blockChan' = <<>> /\ blocks' = <<>>
      /\ sent' = DBChain /\ rows' = rows
  BY DEF Restart, Fresh, dbVars
<1>2. MainBlockNum' = MainBlockNum /\ DBChain' = DBChain
      /\ MainBlockNum \in Nat
  BY <1>1, SameRows, SameChain DEF SInv, RowsInv
<1>3. From' = MainBlockNum
  BY <1>1, <1>2 DEF From
<1>4. sent' \in Seq(Blocks) /\ Len(sent') = MainBlockNum
  BY <1>1, DBChainType DEF SInv
<1>5. Kept' = sent'
  <2>1. \A n \in 1..MainBlockNum : KeptAt(n)' = DBChain[n]
    BY <1>2 DEF KeptAt
  <2>2. Kept' = [n \in 1..MainBlockNum |-> DBChain[n]]
    BY <1>3, <2>1 DEF Kept
  <2>3. Kept' = [n \in 1..Len(sent') |-> Kept'[n]]
    BY <2>2, <1>4
  <2>4. \A n \in 1..Len(sent') : Kept'[n] = sent'[n]
    BY <2>2, <1>1, <1>4
  <2>5. QED
    BY <2>3, <2>4, <1>4, SeqIs
<1>6. ChanMakes'
  BY <1>1, <1>4, <1>5, NoEventsMake
<1>7. QED
  BY <1>1, <1>6 DEF ChainsInv, Working

\* A block is collected: it was built on the top block of the task's chain.
LEMMA ReceiveBlockChains == SInv /\ FeedInv /\ ChainsInv /\ ReceiveBlock => ChainsInv'
<1> SUFFICES ASSUME SInv, FeedInv, ChainsInv, ReceiveBlock PROVE ChainsInv'
  OBVIOUS
<1> DEFINE e == Head(blockChan)
           l == Len(blocks)
<1>1. /\ spc = "select" /\ blockChan # <<>> /\ blockChan' = Tail(blockChan)
      /\ e.state = "ok" /\ ~Unexpected(e) /\ blocks' = Append(blocks, e.blk)
      /\ \/ spc' = "save" /\ inHand' = <<e>>
         \/ spc' = "select" /\ curHeight' = e.blk.num /\ inHand' = inHand
      /\ rows' = rows /\ sent' = sent
  BY DEF ReceiveBlock, dbVars, envVars
<1>2. e.blk \in Blocks /\ e.blk.num = curHeight + 1
  BY <1>1, Received DEF SInv, Unexpected
<1>3. /\ inHand = <<>> /\ saved = 0 /\ Top = curHeight /\ From = curHeight
  BY <1>1 DEF SInv, CollectInv, Top, From
<1>4. /\ From \in Nat /\ MainBlockNum \in Nat /\ l \in Nat /\ Base \in Nat
      /\ DOMAIN blocks = 1..l
      /\ MainBlockNum <= From /\ From = Base + l /\ Base <= MainBlockNum
  BY <1>1, <1>3, Places DEF Running, Working
<1>5. /\ Len(blocks') = l + 1 /\ DOMAIN blocks' = 1..(l + 1)
      /\ \A i \in 1..l : blocks'[i] = blocks[i]
      /\ blocks'[l + 1] = e.blk
  <2>1. /\ Len(blocks') = l + 1 /\ blocks' \in Seq(Blocks)
        /\ \A i \in 1..l : blocks'[i] = blocks[i]
        /\ blocks'[l + 1] = e.blk
    BY <1>1, <1>2, AppendProperties DEF SInv, TypeOK
  <2>2. QED
    BY <2>1, LenProperties
<1>6. Top' = From + 1 /\ From' = From + 1 /\ Base' = Base
  <2> HIDE DEF e
  <2>1. inHand' = <<e>> => inHand' # <<>> /\ inHand'[1] = e
    OBVIOUS
  <2>2. Top' = e.blk.num /\ From' = e.blk.num
    BY <1>1, <1>3, <2>1 DEF Top, From
  <2>3. QED
    BY <1>2, <1>3, <1>4, <1>5, <2>2 DEF Base
<1>7. MainBlockNum' = MainBlockNum /\ DBChain' = DBChain
  BY <1>1, SameRows, SameChain
<1>8. /\ Follows(e, Kept)
      /\ Kept' = Applied(Kept, e) => ChanMakes'
  BY <1>1, FirstMakes DEF ChainsInv, Running
<1>9. /\ Kept \in Seq(Blocks) /\ Len(Kept) = From
      /\ \A n \in 1..From : Kept[n] = KeptAt(n)
  BY <1>1, KeptType DEF Running, Kept
<1> HIDE DEF e, l
<1>10. Kept' = Append(Kept, e.blk)
  <2> DEFINE s == Append(Kept, e.blk)
  <2>1. /\ s \in Seq(Blocks) /\ Len(s) = From + 1
        /\ \A n \in 1..From : s[n] = KeptAt(n)
        /\ s[From + 1] = e.blk
    BY <1>2, <1>9, AppendProperties
  <2> HIDE DEF s
  <2>2. ASSUME NEW n \in 1..From PROVE KeptAt(n)' = KeptAt(n)
    <3>1. CASE n <= MainBlockNum
      BY <3>1, <1>7 DEF KeptAt
    <3>2. CASE ~(n <= MainBlockNum)
      <4>1. n - Base \in 1..l
        BY <3>2, <1>4
      <4>2. QED
        BY <3>2, <4>1, <1>5, <1>6, <1>7 DEF KeptAt
    <3>3. QED
      BY <3>1, <3>2
  <2>0. PICK h \in Nat : h = From + 1
    BY <1>4
  <2>3. KeptAt(h)' = e.blk
    <3>1. ~(h <= MainBlockNum) /\ h - Base = l + 1
      BY <1>4, <2>0
    <3>2. QED
      BY <3>1, <1>5, <1>6, <1>7 DEF KeptAt
  <2>4. Kept' = [n \in 1..h |-> KeptAt(n)']
    BY <1>6, <2>0 DEF Kept
  <2>5. Kept' = [n \in 1..Len(s) |-> Kept'[n]]
    BY <2>0, <2>1, <2>4
  <2>6. \A n \in 1..Len(s) : Kept'[n] = s[n]
    BY <1>4, <2>0, <2>1, <2>2, <2>3, <2>4
  <2>7. QED
    BY <2>1, <2>5, <2>6, SeqIs DEF s
<1>11. ChanMakes'
  BY <1>1, <1>8, <1>10 DEF Applied
<1>12. Stored'
  <2> SUFFICES ASSUME NEW i \in 1..(l + 1), Base + i <= MainBlockNum
               PROVE  DBChain[Base + i] = blocks'[i]
    BY <1>5, <1>6, <1>7 DEF Stored
  <2>1. i \in 1..l
    BY <1>4
  <2>2. DBChain[Base + i] = blocks[i]
    BY <1>1, <1>4, <2>1 DEF ChainsInv, Working, Stored
  <2>3. QED
    BY <1>5, <2>1, <2>2
<1>13. BatchLinked'
  <2> SUFFICES ASSUME NEW i \in 1..(l + 1), Base + i # 1
               PROVE  blocks'[i].parent = Below(i)'.hash
    BY <1>5, <1>6 DEF BatchLinked
  <2>1. Below(i)' = Below(i)
    <3>1. i # 1 => i - 1 \in 1..l
      BY <1>4
    <3>2. QED
      BY <1>5, <1>6, <1>7, <3>1 DEF Below
  <2>2. CASE i \in 1..l
    BY <1>1, <1>4, <1>5, <2>1, <2>2 DEF ChainsInv, Working, BatchLinked
  <2>3. CASE i = l + 1
    <3>1. From \in 1..From
      BY <1>4, <2>3
    <3>2. e.blk.parent = Kept[From].hash
      <4>1. Kept # <<>>
        BY <1>9, <3>1, EmptySeq
      <4>2. QED
        BY <1>1, <1>8, <1>9, <4>1 DEF Follows
    <3>3. Kept[From] = Below(i)
      <4>1. CASE l = 0
        <5>1. From <= MainBlockNum /\ From = Base /\ i = 1
          BY <1>4, <2>3, <4>1
        <5>2. QED
          BY <1>9, <3>1, <5>1 DEF KeptAt, Below
      <4>2. CASE l # 0 /\ From <= MainBlockNum
        <5>1. l \in 1..l /\ Base + l <= MainBlockNum /\ From = Base + l
          BY <1>4, <4>2
        <5>2. DBChain[From] = blocks[l]
          BY <1>1, <1>4, <5>1 DEF ChainsInv, Working, Stored
        <5>3. Below(i) = blocks[l]
          BY <1>4, <2>3, <4>2 DEF Below
        <5>4. QED
          BY <1>9, <3>1, <4>2, <5>2, <5>3 DEF KeptAt
      <4>3. CASE l # 0 /\ ~(From <= MainBlockNum)
        <5>1. From - Base = l
          BY <1>4
        <5>2. Below(i) = blocks[l]
          BY <1>4, <2>3, <4>3 DEF Below
        <5>3. QED
          BY <1>9, <3>1, <4>3, <5>1, <5>2 DEF KeptAt
      <4>4. QED
        BY <4>1, <4>2, <4>3
    <3>4. QED
      BY <1>5, <2>1, <2>3, <3>2, <3>3
  <2>4. QED
    BY <1>4, <2>2, <2>3
<1>14. QED
  BY <1>11, <1>12, <1>13 DEF ChainsInv

\* A revert is received: the task's chain loses the block it is about.
LEMMA ReceiveRevertChains ==
    ASSUME SInv, FeedInv, FeedInv', ChainsInv, ReceiveRevert
    PROVE  ChainsInv'
<1> DEFINE e == Head(blockChan)
<1>1. /\ spc = "select" /\ blockChan # <<>> /\ blockChan' = Tail(blockChan)
      /\ e.state = "revert" /\ inHand' = <<e>> /\ spc' \in {"save", "mark"}
      /\ rows' = rows /\ sent' = sent /\ blocks' = blocks
      /\ curHeight' = curHeight
  BY DEF ReceiveRevert, NextAfterRevert, dbVars, envVars
<1>2. e.blk.num \in Nat \ {0}
  BY <1>1, Received DEF SInv
<1>3. inHand = <<>> /\ Top = curHeight /\ From = curHeight
  BY <1>1 DEF SInv, CollectInv, Top, From
<1>4. From \in Nat
  BY <1>1, Places DEF Running
<1> HIDE DEF e
<1>5. inHand' # <<>> /\ inHand'[1] = e
  BY <1>1
<1>6. e.blk.num = curHeight
  BY <1>1, <1>5 DEF FeedInv, Running
<1>7. Top' = Top /\ Base' = Base /\ From' = From - 1
  BY <1>1, <1>3, <1>5, <1>6 DEF Top, Base, From
<1>8. Kept' = Applied(Kept, e) => ChanMakes'
  BY <1>1, FirstMakes DEF ChainsInv, Running, e
<1>9. /\ Kept \in Seq(Blocks) /\ Len(Kept) = From
      /\ \A n \in 1..From : Kept[n] = KeptAt(n)
  BY <1>1, KeptType DEF Running, Kept
<1>10. Kept' = SubSeq(Kept, 1, e.blk.num - 1)
  <2> DEFINE s == SubSeq(Kept, 1, e.blk.num - 1)
  <2>1. /\ s \in Seq(Blocks) /\ Len(s) = From - 1
        /\ \A n \in 1..(From - 1) : s[n] = Kept[n]
    BY <1>2, <1>3, <1>4, <1>6, <1>9, CutType
  <2> HIDE DEF s
  <2>2. \A n : KeptAt(n)' = KeptAt(n)
    BY <1>1, <1>7, SameKeptAt
  <2>3. Kept' = [n \in 1..(From - 1) |-> KeptAt(n)]
    BY <1>7, <2>2 DEF Kept
  <2>4. Kept' = [n \in 1..Len(s) |-> Kept'[n]]
    BY <2>1, <2>3
  <2>5. \A n \in 1..Len(s) : Kept'[n] = s[n]
    BY <1>4, <1>9, <2>1, <2>3
  <2>6. QED
    BY <2>1, <2>4, <2>5, SeqIs DEF s
<1>11. ChanMakes'
  BY <1>1, <1>8, <1>10 DEF Applied
<1>12. Stored' /\ BatchLinked'
  BY <1>1, <1>7, SameBatch DEF ChainsInv, Working
<1>13. QED
  BY <1>11, <1>12 DEF ChainsInv

\* A block of the batch reaches the database, whether its answer arrives or not.
LEMMA InsertChains ==
    ASSUME SInv, FeedInv, ChainsInv, Saving, ~Exists(blocks[saved + 1]),
           Insert(blocks[saved + 1]), blocks' = blocks, curHeight' = curHeight,
           inHand' = inHand, spc' = spc, blockChan' = blockChan, sent' = sent
    PROVE  ChainsInv'
<1> DEFINE m == MainBlockNum
           l == Len(blocks)
<1>1. /\ m' = m + 1
      /\ \A n \in 1..m : DBChain'[n] = DBChain[n]
      /\ DBChain'[m + 1] = blocks[saved + 1]
  BY InsertOnTop
<1>2. spc = "save" /\ saved \in Nat
  BY DEF Saving, SInv, TypeOK
<1>3. /\ From \in Nat /\ m \in Nat /\ l \in Nat /\ Base \in Nat /\ Top \in Nat
      /\ DOMAIN blocks = 1..l /\ Top = Base + l /\ Base <= m
  BY <1>2, Places DEF Running, Working
<1>4. m + 1 = Base + (saved + 1)
  <2>1. Top - l + saved + 1 = blocks[saved + 1].num
        /\ blocks[saved + 1].num = m + 1
    BY SaveFacts
  <2>2. QED
    BY <1>2, <1>3, <2>1
<1>5. Base' = Base /\ From' = From
  BY <1>2 DEF Base, Top, From
<1> HIDE DEF m, l
<1>6. ASSUME NEW n \in 1..From PROVE KeptAt(n)' = KeptAt(n)
  <2>1. CASE n <= m
    <3>1. n <= m + 1
      BY <1>3, <2>1
    <3>2. QED
      BY <1>1, <1>3, <2>1, <3>1 DEF KeptAt, m
  <2>2. CASE n = m + 1
    <3>1. ~(n <= m) /\ n - Base = saved + 1
      BY <1>2, <1>3, <1>4, <2>2
    <3>2. n <= m'
      BY <1>1, <1>3, <2>2
    <3>3. QED
      BY <1>1, <2>2, <3>1, <3>2 DEF KeptAt, m
  <2>3. CASE n > m + 1
    <3>1. ~(n <= m) /\ ~(n <= m')
      BY <1>1, <1>3, <2>3
    <3>2. QED
      BY <1>5, <3>1 DEF KeptAt, m
  <2>4. QED
    BY <1>3, <2>1, <2>2, <2>3
<1>7. Kept' = Kept
  BY <1>5, <1>6, SameKept
<1>8. ChanMakes'
  BY <1>2, <1>7, SameMakes DEF ChainsInv, Running
<1>9. Stored'
  <2> SUFFICES ASSUME NEW i \in 1..l, Base + i <= m + 1
               PROVE  DBChain'[Base + i] = blocks[i]
    BY <1>1, <1>3, <1>5 DEF Stored, m
  <2>1. CASE Base + i <= m
    <3>1. DBChain[Base + i] = blocks[i]
      BY <1>2, <1>3, <2>1 DEF ChainsInv, Working, Stored, m
    <3>2. Base + i \in 1..m
      BY <1>3, <2>1
    <3>3. QED
      BY <1>1, <3>1, <3>2
  <2>2. CASE Base + i = m + 1
    <3>1. i = saved + 1
      BY <1>2, <1>3, <1>4, <2>2
    <3>2. QED
      BY <1>1, <2>2, <3>1
  <2>3. QED
    BY <1>3, <2>1, <2>2
<1>10. BatchLinked'
  <2> SUFFICES ASSUME NEW i \in 1..l, Base + i # 1
               PROVE  blocks[i].parent = Below(i)'.hash
    BY <1>3, <1>5 DEF BatchLinked
  <2>1. blocks[i].parent = Below(i).hash
    BY <1>2, <1>3 DEF ChainsInv, Working, BatchLinked
  <2>2. i = 1 => Base \in 1..m
    BY <1>3
  <2>3. Below(i)' = Below(i)
    BY <1>1, <1>5, <2>2 DEF Below
  <2>4. QED
    BY <2>1, <2>3
<1>11. QED
  BY <1>8, <1>9, <1>10 DEF ChainsInv

LEMMA SaveChains ==
    ASSUME SInv, FeedInv, ChainsInv, SaveBlock \/ SaveFails \/ SaveAnswerLost
    PROVE  ChainsInv'
<1>1. /\ Saving /\ spc = "save" /\ blocks' = blocks /\ curHeight' = curHeight
      /\ inHand' = inHand /\ blockChan' = blockChan /\ sent' = sent
      /\ spc' = spc \/ spc' = "exited"
  BY DEF SaveBlock, SaveFails, SaveAnswerLost, Saving, Retry, envVars
<1>2. CASE spc' = "exited"
  BY <1>2 DEF ChainsInv, Working, Running
<1>3. CASE spc' = spc /\ rows' = rows
  <2>1. From' = From /\ Base' = Base
    BY <1>1, <1>3 DEF From, Base, Top
  <2>2. QED
    BY <1>1, <1>3, <2>1, IdleChains DEF Working, Running
<1>4. CASE /\ spc' = spc /\ ~Exists(blocks[saved + 1])
           /\ Insert(blocks[saved + 1])
  BY <1>1, <1>4, InsertChains
<1>5. QED
  BY <1>1, <1>2, <1>3, <1>4 DEF SaveBlock, SaveFails, SaveAnswerLost, dbVars

\* The batch is stored: the chain kept below the event in hand is the database's.
LEMMA SaveDoneChains ==
    ASSUME SInv, FeedInv, ChainsInv, SaveDone
    PROVE  ChainsInv'
<1>1. /\ spc = "save" /\ saved = Len(blocks) /\ blocks' = <<>> /\ rows' = rows
      /\ blockChan' = blockChan /\ sent' = sent
  BY DEF SaveDone, dbVars, envVars
<1>2. From' = From
  BY DEF SaveDone, From
<1>3. /\ From \in Nat /\ MainBlockNum \in Nat /\ From <= MainBlockNum
  <2>1. /\ From \in Nat /\ MainBlockNum \in Nat /\ Len(blocks) \in Nat
        /\ Base \in Nat /\ Top = Base + Len(blocks) /\ From <= Top
        /\ Base + saved <= MainBlockNum
    BY <1>1, Places DEF Running, Working
  <2>2. QED
    BY <1>1, <2>1
<1>4. MainBlockNum' = MainBlockNum /\ DBChain' = DBChain
  BY <1>1, SameRows, SameChain
<1>5. Kept' = Kept
  BY <1>2, <1>3, <1>4, KeptBelow
<1>6. ChanMakes'
  BY <1>1, <1>5, SameMakes DEF ChainsInv, Running
<1>7. QED
  BY <1>1, <1>6, EmptyBatch DEF ChainsInv

LEMMA MarkChains ==
    ASSUME SInv, FeedInv, ChainsInv, Mark \/ MarkFails \/ MarkAnswerLost
    PROVE  ChainsInv'
<1>1. /\ Marking /\ spc = "mark" /\ blocks' = blocks
      /\ blockChan' = blockChan /\ sent' = sent
      /\ \/ spc' = spc /\ inHand' = inHand /\ curHeight' = curHeight
         \/ spc' = "exited"
         \/ /\ spc' = "select" /\ inHand' = <<>>
            /\ curHeight' = inHand[1].blk.num - 1
            /\ MarkReverted(inHand[1].blk.num)
  BY DEF Mark, MarkFails, MarkAnswerLost, Marking, Retry, AfterRevert, envVars
<1>2. /\ inHand # <<>> /\ inHand[1].state = "revert" /\ blocks = <<>>
      /\ inHand[1].blk.num = curHeight
  BY <1>1 DEF SInv, CollectInv, Marking
<1>3. CASE spc' = "exited"
  BY <1>3 DEF ChainsInv, Working, Running
<1>4. CASE spc' = spc /\ rows' = rows /\ inHand' = inHand /\ curHeight' = curHeight
  <2>1. From' = From /\ Base' = Base
    BY <1>1, <1>4 DEF From, Base, Top
  <2>2. QED
    BY <1>1, <1>4, <2>1, IdleChains DEF Working, Running
<1>5. CASE /\ MarkReverted(inHand[1].blk.num) /\ spc' # "exited"
  <2>1. /\ MainBlockNum' = curHeight - 1 /\ curHeight \in Nat \ {0}
        /\ \A n \in 1..(curHeight - 1) : DBChain'[n] = DBChain[n]
    BY <1>1, <1>5, MarkCuts
  <2>2. /\ From = curHeight - 1 /\ From \in Nat /\ MainBlockNum \in Nat
        /\ From <= MainBlockNum
    BY <1>1, <1>2, Places DEF From, Running
  <2>3. From' = From
    BY <1>1, <1>2, <1>5, <2>2 DEF From
  <2>4. Kept' = Kept
    BY <2>1, <2>2, <2>3, KeptBelow
  <2>5. ChanMakes'
    BY <1>1, <2>4, SameMakes DEF ChainsInv, Running
  <2>6. QED
    BY <1>1, <1>2, <2>5, EmptyBatch DEF ChainsInv
<1>6. QED
  BY <1>1, <1>3, <1>4, <1>5 DEF Mark, MarkFails, MarkAnswerLost, dbVars, Retry

\* The steps of Start that neither read the channel nor write the database.
LEMMA QuietChains ==
    ASSUME SInv, FeedInv, ChainsInv,
           \/ Subscribe \/ LoadHeight \/ Stop \/ Timer
           \/ ReceiveUnexpected \/ MarkUnexpected \/ Signal \/ Crash
    PROVE  ChainsInv'
<1>1. rows' = rows /\ blocks' = blocks /\ inHand' = inHand /\ sent' = sent
  BY DEF Subscribe, LoadHeight, Stop, Timer, ReceiveUnexpected, MarkUnexpected,
         Signal, Crash, dbVars, envVars, taskVars
<1>2. MainBlockNum' = MainBlockNum /\ DBChain' = DBChain
  BY <1>1, SameRows, SameChain
<1>3. CASE spc' \notin Running
  BY <1>3 DEF ChainsInv, Working, Running
<1>4. CASE spc' \in Running /\ (Subscribe \/ Timer \/ Signal)
  <2>1. /\ curHeight' = curHeight /\ blockChan' = blockChan /\ spc \in Running
        /\ spc' \in Working => spc \in Working
    BY <1>4 DEF Subscribe, Timer, Signal, taskVars, Running, Working
  <2>2. From' = From /\ Base' = Base
    BY <1>1, <1>2, <1>4, <2>1
    DEF From, Base, Top, Subscribe, Timer, Signal, taskVars
  <2>3. QED
    BY <1>1, <2>1, <2>2, IdleChains
<1>5. CASE LoadHeight /\ spc' \in Running
  <2>1. /\ spc = "subscribed" /\ spc' = "select" /\ curHeight' = MainBlockNum
        /\ blockChan' = blockChan /\ inHand = <<>> /\ blocks = <<>>
    BY <1>5 DEF LoadHeight, Running, SInv, CollectInv
  <2>2. From = MainBlockNum /\ From' = From /\ MainBlockNum \in Nat
    BY <1>1, <2>1 DEF From, SInv, RowsInv
  <2>3. Kept' = Kept
    BY <1>2, <2>2, KeptBelow
  <2>4. ChanMakes'
    BY <1>1, <2>1, <2>3, SameMakes DEF ChainsInv, Running
  <2>5. QED
    BY <1>1, <2>1, <2>4, EmptyBatch DEF ChainsInv
<1>6. QED
  BY <1>3, <1>4, <1>5 DEF Stop, ReceiveUnexpected, MarkUnexpected, Crash, Running

LEMMA StepKeepsChains ==
    ASSUME SInv, late \/ (FeedInv /\ ChainsInv), [Next]_vars
    PROVE  late' \/ ChainsInv'
<1>1. SInv /\ Restart => ChainsInv'
  BY RestartChains
<1> SUFFICES ASSUME FeedInv, ChainsInv, ~late' PROVE ChainsInv'
  BY <1>1, StaysLate
<1>2. FeedInv'
  BY StepKeepsFeedInv
<1>3. CASE \E e \in Event : Publish(e)
  BY <1>3, PublishChains
<1>4. CASE Restart
  BY <1>1, <1>4
<1>5. CASE ReceiveBlock \/ ReceiveRevert
  BY <1>2, <1>5, ReceiveBlockChains, ReceiveRevertChains
<1>6. CASE \/ SaveBlock \/ SaveFails \/ SaveAnswerLost \/ SaveDone
           \/ Mark \/ MarkFails \/ MarkAnswerLost
  BY <1>6, SaveChains, SaveDoneChains, MarkChains
<1>7. CASE \/ Subscribe \/ LoadHeight \/ Stop \/ Timer
           \/ ReceiveUnexpected \/ MarkUnexpected \/ Signal \/ Crash
  BY <1>7, QuietChains
<1>8. CASE UNCHANGED vars
  <2>1. UNCHANGED <<spc, blocks, curHeight, inHand, blockChan, rows, sent>>
    BY <1>8 DEF vars, taskVars, dbVars, envVars
  <2>2. From' = From /\ Base' = Base
    BY <2>1, SameRows DEF From, Base, Top
  <2>3. CASE spc \in Running
    BY <2>1, <2>2, <2>3, IdleChains
  <2>4. CASE spc \notin Running
    BY <2>1, <2>4 DEF ChainsInv, Working, Running
  <2>5. QED
    BY <2>3, <2>4
<1>9. QED
  BY <1>3, <1>4, <1>5, <1>6, <1>7, <1>8 DEF Next, Step, Failure

LEMMA EmptyDB == Init => MainBlockNum = 0 /\ DBChain = <<>>
<1> SUFFICES ASSUME Init PROVE MainBlockNum = 0 /\ DBChain = <<>>
  OBVIOUS
<1>1. SInv
  BY InitSInv
<1>2. MainBlockNum = 0
  <2>1. OkNums = {}
    BY DEF Init, OkNums, OkBlocks, OkRows
  <2>2. MainBlockNum \in Nat /\ 1..MainBlockNum = {}
    BY <1>1, <2>1 DEF SInv, RowsInv
  <2>3. MainBlockNum >= 1 => 1 \in 1..MainBlockNum
    BY <2>2
  <2>4. QED
    BY <2>2, <2>3
<1>3. DBChain \in Seq(Blocks) /\ Len(DBChain) = 0
  BY <1>1, <1>2, DBChainType DEF SInv
<1>4. QED
  BY <1>2, <1>3, EmptySeq

LEMMA InitChains == Init => ChainsInv
<1> SUFFICES ASSUME Init PROVE ChainsInv
  OBVIOUS
<1>1. /\ spc = "created" /\ blockChan = <<>> /\ sent = <<>>
      /\ Len(blockChan) = 0
  BY EmptySeq DEF Init
<1>2. Kept = sent
  <2>1. SInv /\ FeedInv /\ From = 0
    BY <1>1, EmptyDB, InitSInv, InitFeedInv DEF From
  <2>2. Kept \in Seq(Blocks) /\ Len(Kept) = 0
    BY <1>1, <2>1, KeptType DEF Running
  <2>3. QED
    BY <1>1, <2>2, EmptySeq
<1>3. ChanMakes
  <2> DEFINE p == [i \in 0..0 |-> sent]
  <2>1. sent \in Seq(Blocks)
    BY <1>1, EmptySeq
  <2>2. p \in [0..Len(blockChan) -> Seq(Blocks)] /\ p[0] = Kept
        /\ p[Len(blockChan)] = sent
    BY <1>1, <1>2, <2>1
  <2>3. \A i \in 1..Len(blockChan) : Makes(p[i - 1], blockChan[i], p[i])
    BY <1>1
  <2> HIDE DEF p
  <2>4. QED
    BY <2>2, <2>3 DEF ChanMakes
<1>4. QED
  BY <1>1, <1>3 DEF ChainsInv, Working

LEMMA AlwaysChains == Spec => [](SInv /\ (late \/ (FeedInv /\ ChainsInv)))
<1>1. Init => SInv /\ (late \/ (FeedInv /\ ChainsInv))
  BY InitSInv, InitFeedInv, InitChains
<1>2. SInv /\ (late \/ (FeedInv /\ ChainsInv)) /\ [Next]_vars
         => SInv' /\ (late \/ (FeedInv /\ ChainsInv))'
  BY StepKeepsSInv, StepKeepsFeedInv, StepKeepsChains
<1>3. QED
  BY <1>1, <1>2, PTL DEF Spec

----------------------------------------------------------------------------
(* The chain in the database is a ChainLog. *)

LEMMA ChainNumbered ==
    ASSUME SInv
    PROVE  /\ DBChain \in Seq(Blocks) /\ Len(DBChain) = MainBlockNum
           /\ MainBlockNum \in Nat /\ DBLog!Numbered(DBChain)
<1>1. /\ DBChain \in Seq(Blocks) /\ Len(DBChain) = MainBlockNum
      /\ \A n \in 1..MainBlockNum : DBChain[n].num = n /\ MainBlockNum \in Nat
      /\ MainBlockNum \in Nat
  BY DBChainType DEF SInv, RowsInv
<1>2. DBLog!Numbered(DBChain)
  BY <1>1, LenProperties DEF DBLog!Numbered
<1>3. QED
  BY <1>1, <1>2

LEMMA ChainNumberedNext ==
    ASSUME SInv'
    PROVE  /\ DBChain' \in Seq(Blocks) /\ Len(DBChain') = MainBlockNum'
           /\ MainBlockNum' \in Nat /\ DBLog!Numbered(DBChain')
<1>1. \A n \in 1..MainBlockNum' : DBChain'[n] \in Blocks /\ DBChain'[n].num = n
  <2> SUFFICES ASSUME NEW n \in 1..MainBlockNum'
               PROVE  DBChain'[n] \in Blocks /\ DBChain'[n].num = n
    OBVIOUS
  <2>1. PICK b \in OkBlocks' : b.num = n
    BY DEF SInv, RowsInv, OkNums
  <2>2. DBChain'[n] = b
    BY <2>1, ChainAtNext DEF SInv
  <2>3. OkBlocks' \subseteq Blocks
    <3>1. \A i \in DOMAIN rows' : rows'[i] \in Row
      BY ElementOfSeq, LenProperties DEF SInv, TypeOK
    <3>2. QED
      BY <3>1 DEF OkBlocks, OkRows, Row
  <2>4. QED
    BY <2>1, <2>2, <2>3
<1>2. MainBlockNum' \in Nat
  BY DEF SInv, RowsInv
<1>3. DBChain' = [n \in 1..MainBlockNum' |-> DBChain'[n]]
  BY DEF DBChain
<1>4. DBChain' \in [1..MainBlockNum' -> Blocks]
  BY <1>1, <1>3
<1>5. DBChain' \in Seq(Blocks)
  BY <1>2, <1>4, SeqDef
<1>6. Len(DBChain') = MainBlockNum' /\ DOMAIN DBChain' = 1..MainBlockNum'
  BY <1>2, <1>4, <1>5, LenProperties
<1>7. QED
  BY <1>1, <1>2, <1>5, <1>6 DEF DBLog!Numbered

\* The block that is saved next was built on the top of the chain.
LEMMA NextParent ==
    ASSUME SInv, FeedInv, ChainsInv, Saving, ~Exists(blocks[saved + 1])
    PROVE  blocks[saved + 1].parent =
              IF MainBlockNum = 0 THEN GenesisHash ELSE DBChain[MainBlockNum].hash
<1> DEFINE b == blocks[saved + 1]
<1>1. /\ b \in Blocks /\ b.num = MainBlockNum + 1
      /\ Top - Len(blocks) + saved + 1 = b.num
  BY SaveFacts
<1>2. spc = "save" /\ saved \in Nat /\ saved < Len(blocks)
  BY DEF Saving, SInv, TypeOK
<1>3. /\ MainBlockNum \in Nat /\ Len(blocks) \in Nat /\ Base \in Nat
      /\ DOMAIN blocks = 1..Len(blocks) /\ Top = Base + Len(blocks)
  BY <1>2, Places DEF Running, Working
<1>4. Base + saved = MainBlockNum /\ saved + 1 \in 1..Len(blocks)
  BY <1>1, <1>2, <1>3
<1> HIDE DEF b
<1>5. CASE MainBlockNum = 0
  <2>1. b.num = 1
    BY <1>1, <1>5
  <2>2. b.parent = GenesisHash
    BY <1>1, <2>1, BaseStorageAssumption
  <2>3. QED
    BY <1>5, <2>2 DEF b
<1>6. CASE MainBlockNum # 0
  <2>1. b.parent = Below(saved + 1).hash
    <3>1. Base + (saved + 1) # 1
      BY <1>2, <1>3, <1>4, <1>6
    <3>2. QED
      BY <1>2, <1>3, <1>4, <3>1 DEF ChainsInv, Working, BatchLinked, b
  <2>2. Below(saved + 1) = DBChain[MainBlockNum]
    <3>1. CASE saved = 0
      BY <1>3, <1>4, <3>1 DEF Below
    <3>2. CASE saved # 0
      <4>1. saved \in 1..Len(blocks) /\ Base + saved <= MainBlockNum
        BY <1>2, <1>3, <1>4, <3>2
      <4>2. DBChain[Base + saved] = blocks[saved]
        BY <1>2, <1>3, <4>1 DEF ChainsInv, Working, Stored
      <4>3. saved + 1 # 1 /\ (saved + 1) - 1 = saved
        BY <1>2, <3>2
      <4>4. QED
        BY <1>4, <4>2, <4>3 DEF Below
    <3>3. QED
      BY <3>1, <3>2
  <2>3. QED
    BY <1>6, <2>1, <2>2 DEF b
<1>7. QED
  BY <1>5, <1>6

LEMMA InsertPushes ==
    ASSUME SInv, SInv', FeedInv, ChainsInv, DBLog!Linked(DBChain),
           Saving, ~Exists(blocks[saved + 1]), Insert(blocks[saved + 1])
    PROVE  DBLog!Push
<1> DEFINE m == MainBlockNum
           b == blocks[saved + 1]
<1>1. /\ m' = m + 1 /\ DBChain'[m + 1] = b
      /\ \A n \in 1..m : DBChain'[n] = DBChain[n]
  BY InsertOnTop
<1>2. b.parent = IF m = 0 THEN GenesisHash ELSE DBChain[m].hash
  BY NextParent
<1>3. DBChain \in Seq(Blocks) /\ Len(DBChain) = m /\ m \in Nat
  BY ChainNumbered
<1>4. DBChain' \in Seq(Blocks) /\ Len(DBChain') = m' /\ DBLog!Numbered(DBChain')
  BY ChainNumberedNext
<1> HIDE DEF m, b
<1>5. Len(DBChain') = m + 1
  BY <1>1, <1>4
<1>6. SubSeq(DBChain', 1, m) = DBChain
  <2> DEFINE s == SubSeq(DBChain', 1, (m + 1) - 1)
  <2>1. /\ s \in Seq(Blocks) /\ Len(s) = (m + 1) - 1
        /\ \A i \in 1..((m + 1) - 1) : s[i] = DBChain'[i]
    BY <1>3, <1>4, <1>5, CutType
  <2>2. (m + 1) - 1 = m
    BY <1>3
  <2> HIDE DEF s
  <2>3. Len(s) = Len(DBChain) /\ \A i \in 1..Len(s) : s[i] = DBChain[i]
    BY <1>1, <1>3, <2>1, <2>2
  <2>4. s = DBChain
    BY <1>3, <2>1, <2>3, SeqEqual
  <2>5. QED
    BY <2>2, <2>4 DEF s
<1>7. DBLog!Linked(DBChain')
  <2>1. DBChain'[1].parent = GenesisHash
    <3>1. CASE m = 0
      BY <1>1, <1>2, <3>1
    <3>2. CASE m # 0
      <4>1. 1 \in 1..m
        BY <1>3, <3>2
      <4>2. DBChain # <<>>
        BY <1>3, <3>2, EmptySeq
      <4>3. DBChain[1].parent = GenesisHash
        BY <4>2 DEF DBLog!Linked
      <4>4. QED
        BY <1>1, <4>1, <4>3
    <3>3. QED
      BY <3>1, <3>2
  <2>2. ASSUME NEW i \in 1..m PROVE DBChain'[i + 1].parent = DBChain'[i].hash
    <3>1. CASE i = m
      BY <1>1, <1>2, <1>3, <3>1
    <3>2. CASE i # m
      <4>1. i \in 1..(m - 1) /\ i + 1 \in 1..m
        BY <1>3, <3>2
      <4>2. DBChain[i + 1].parent = DBChain[i].hash
        BY <1>3, <4>1 DEF DBLog!Linked
      <4>3. QED
        BY <1>1, <4>1, <4>2
    <3>3. QED
      BY <3>1, <3>2
  <2>3. Len(DBChain') - 1 = m
    BY <1>3, <1>5
  <2>4. QED
    BY <2>1, <2>2, <2>3 DEF DBLog!Linked
<1>8. QED
  BY <1>3, <1>4, <1>5, <1>6, <1>7 DEF DBLog!Push

LEMMA MarkPops ==
    ASSUME SInv, SInv', Marking, MarkReverted(inHand[1].blk.num),
           DBChain' # DBChain
    PROVE  DBLog!Pop
<1> DEFINE m == MainBlockNum
<1>1. /\ m' = curHeight - 1 /\ curHeight \in Nat \ {0}
      /\ m = curHeight \/ m = curHeight - 1
      /\ \A n \in 1..(curHeight - 1) : DBChain'[n] = DBChain[n]
  BY MarkCuts
<1>2. DBChain \in Seq(Blocks) /\ Len(DBChain) = m /\ m \in Nat
  BY ChainNumbered
<1>3. DBChain' \in Seq(Blocks) /\ Len(DBChain') = m'
  BY ChainNumberedNext
<1> HIDE DEF m
<1>4. m = curHeight
  <2>1. CASE m = curHeight - 1
    <3>1. /\ Len(DBChain') = Len(DBChain)
          /\ \A n \in 1..Len(DBChain') : DBChain'[n] = DBChain[n]
      BY <1>1, <1>2, <1>3, <2>1
    <3>2. DBChain' = DBChain
      BY <1>2, <1>3, <3>1, SeqEqual
    <3>3. QED
      BY <3>2
  <2>2. QED
    BY <1>1, <2>1
<1>5. DBChain' = SubSeq(DBChain, 1, m - 1)
  <2> DEFINE s == SubSeq(DBChain, 1, m - 1)
  <2>1. /\ s \in Seq(Blocks) /\ Len(s) = m - 1
        /\ \A i \in 1..(m - 1) : s[i] = DBChain[i]
    BY <1>1, <1>2, <1>4, CutType
  <2> HIDE DEF s
  <2>2. Len(s) = Len(DBChain') /\ \A i \in 1..Len(s) : s[i] = DBChain'[i]
    BY <1>1, <1>3, <1>4, <2>1
  <2>3. s = DBChain'
    BY <1>3, <2>1, <2>2, SeqEqual
  <2>4. QED
    BY <2>3 DEF s
<1>6. DBChain # <<>>
  BY <1>1, <1>2, <1>4, EmptySeq
<1>7. QED
  BY <1>2, <1>5, <1>6 DEF DBLog!Pop

LEMMA DBStep ==
    ASSUME SInv, SInv', late \/ (FeedInv /\ ChainsInv), [Next]_vars
    PROVE  [DBLog!Next \/ late \/ ~DBLog!Linked(DBChain)]_DBChain
<1> SUFFICES ASSUME FeedInv, ChainsInv, DBLog!Linked(DBChain), DBChain' # DBChain
             PROVE  DBLog!Next
  OBVIOUS
<1>1. rows' # rows
  BY SameChain
<1>2. \/ /\ Saving /\ ~Exists(blocks[saved + 1])
         /\ Insert(blocks[saved + 1])
      \/ Marking /\ MarkReverted(inHand[1].blk.num)
  <2>1. CASE SaveBlock \/ SaveAnswerLost
    BY <1>1, <2>1 DEF SaveBlock, SaveAnswerLost, dbVars
  <2>2. CASE Mark \/ MarkAnswerLost
    BY <2>2 DEF Mark, MarkAnswerLost
  <2>3. CASE \/ \E e \in Event : Publish(e)
             \/ Signal \/ Crash \/ Restart \/ UNCHANGED vars
    BY <1>1, <2>3 DEF Publish, Signal, Crash, Restart, vars, dbVars
  <2>4. CASE \/ Subscribe \/ LoadHeight \/ Stop \/ Timer \/ ReceiveUnexpected
             \/ ReceiveBlock \/ ReceiveRevert
    BY <1>1, <2>4 DEF Subscribe, LoadHeight, Stop, Timer, ReceiveUnexpected,
                      ReceiveBlock, ReceiveRevert, dbVars
  <2>5. CASE MarkUnexpected \/ SaveFails \/ SaveDone \/ MarkFails
    BY <1>1, <2>5 DEF MarkUnexpected, SaveFails, SaveDone, MarkFails, dbVars
  <2>6. QED
    BY <2>1, <2>2, <2>3, <2>4, <2>5 DEF Next, Step, Failure
<1>3. QED
  BY <1>2, InsertPushes, MarkPops DEF DBLog!Next

\* Through retries, answers that are lost, stops, crashes and restarts the
\* chain in the database changes as the feed may: a block goes on top of its own
\* parent, one at a time, and only the top block is reverted.  The only process
\* that may break the chain is one that lost events before it subscribed.
THEOREM DatabaseIsChainLog == Spec => DBImplementsChainLog
<1>1. Init => DBLog!Init
  BY EmptyDB, EmptySeq DEF DBLog!Init, DBLog!Linked, DBLog!Numbered
<1>2. SInv /\ (late \/ (FeedInv /\ ChainsInv)) /\ [Next]_vars /\ SInv'
         => [DBLog!Next \/ late \/ ~DBLog!Linked(DBChain)]_DBChain
  BY DBStep
<1>3. QED
  BY <1>1, <1>2, AlwaysChains, PTL DEF Spec, DBImplementsChainLog

----------------------------------------------------------------------------
(* Applying the events of a sequence one after the other. *)

\* g folds the events of the sets of indices in 1..n, the highest one last.
IsFold(g, n, s, es) ==
    g = [t \in SUBSET (1..n) |->
            IF t = {} THEN s ELSE Applied(g[t \ {Max(t)}], es[Max(t)])]

LEMMA FoldLeftIs ==
    ASSUME NEW n \in Nat, NEW s, NEW es, DOMAIN es = 1..n
    PROVE  FoldLeft(Applied, s, es) = (CHOOSE g : IsFold(g, n, s, es))[1..n]
  BY DEF FoldLeft, MapThenFoldSet, IsFold

LEMMA MaxOf ==
    ASSUME NEW n \in Nat, NEW t, t \subseteq 1..n, n \in t
    PROVE  Max(t) = n
<1>1. \A y \in t : n >= y
  OBVIOUS
<1>2. \A x \in t : (\A y \in t : x >= y) => x = n
  BY <1>1
<1>3. QED
  BY <1>1, <1>2 DEF Max

\* There is such a fold: one more index is applied to the fold of the others.
LEMMA FoldExists ==
    ASSUME NEW n \in Nat, NEW s, NEW es
    PROVE  \E g : IsFold(g, n, s, es)
<1> DEFINE G == {i \in 0..n : \E g : IsFold(g, i, s, es)}
<1>1. 0 \in G
  <2> DEFINE g == [t \in SUBSET (1..0) |-> s]
  <2>1. \A t \in SUBSET (1..0) : t = {}
    OBVIOUS
  <2>2. IsFold(g, 0, s, es)
    BY <2>1 DEF IsFold
  <2>3. QED
    BY <2>2
<1>2. \A i \in 0..(n - 1) : i \in G => i + 1 \in G
  <2> SUFFICES ASSUME NEW i \in 0..(n - 1), NEW g, IsFold(g, i, s, es)
               PROVE  \E h : IsFold(h, i + 1, s, es)
    OBVIOUS
  <2> DEFINE h == [t \in SUBSET (1..(i + 1)) |->
                      IF i + 1 \in t THEN Applied(g[t \ {i + 1}], es[i + 1])
                      ELSE g[t]]
  <2>1. ASSUME NEW t \in SUBSET (1..(i + 1))
        PROVE  h[t] = IF t = {} THEN s ELSE Applied(h[t \ {Max(t)}], es[Max(t)])
    <3>1. CASE i + 1 \in t
      <4>1. Max(t) = i + 1
        <5>1. i + 1 \in Nat /\ t \subseteq 1..(i + 1)
          OBVIOUS
        <5> DEFINE k == i + 1
        <5> HIDE DEF k
        <5>2. k \in Nat /\ t \subseteq 1..k /\ k \in t => Max(t) = k
          BY MaxOf
        <5>3. QED
          BY <3>1, <5>1, <5>2 DEF k
      <4>2. t \ {i + 1} \in SUBSET (1..(i + 1)) /\ i + 1 \notin t \ {i + 1}
        OBVIOUS
      <4>3. h[t \ {i + 1}] = g[t \ {i + 1}]
        BY <4>2
      <4>4. h[t] = Applied(g[t \ {i + 1}], es[i + 1])
        BY <3>1
      <4> HIDE DEF h
      <4>5. QED
        BY <3>1, <4>1, <4>3, <4>4
    <3>2. CASE i + 1 \notin t
      <4>1. t \in SUBSET (1..i)
        BY <3>2
      <4>2. g[t] = IF t = {} THEN s ELSE Applied(g[t \ {Max(t)}], es[Max(t)])
        BY <4>1 DEF IsFold
      <4>3. h[t] = g[t]
        BY <3>2
      <4>4. h[t \ {Max(t)}] = g[t \ {Max(t)}]
        <5>1. t \ {Max(t)} \in SUBSET (1..(i + 1)) /\ i + 1 \notin t \ {Max(t)}
          BY <3>2
        <5>2. QED
          BY <5>1
      <4> HIDE DEF h
      <4>5. QED
        BY <4>2, <4>3, <4>4
    <3>3. QED
      BY <3>1, <3>2
  <2>2. h = [t \in SUBSET (1..(i + 1)) |-> h[t]]
    OBVIOUS
  <2> HIDE DEF h
  <2>3. IsFold(h, i + 1, s, es)
    BY <2>1, <2>2 DEF IsFold
  <2>4. QED
    BY <2>3
<1> HIDE DEF G
<1>3. 0..n \subseteq G
  BY <1>1, <1>2, UpTo
<1>4. n \in G
  BY <1>3
<1>5. QED
  BY <1>4 DEF G

\* A path of chains, each made of the one before by an event, ends where the
\* fold of the events does.
LEMMA FoldOfPath ==
    ASSUME NEW n \in Nat, NEW es, DOMAIN es = 1..n, NEW p,
           \A i \in 1..n : p[i] = Applied(p[i - 1], es[i])
    PROVE  FoldLeft(Applied, p[0], es) = p[n]
<1> DEFINE g == CHOOSE g : IsFold(g, n, p[0], es)
           G == {i \in 0..n : g[1..i] = p[i]}
<1>1. IsFold(g, n, p[0], es)
  BY FoldExists
<1>2. FoldLeft(Applied, p[0], es) = g[1..n]
  BY FoldLeftIs
<1> HIDE DEF g
<1>3. 0 \in G
  <2>1. {} \in SUBSET (1..n)
    OBVIOUS
  <2>2. g[{}] = p[0]
    BY <1>1, <2>1 DEF IsFold
  <2>3. 1..0 = {}
    OBVIOUS
  <2>4. QED
    BY <2>2, <2>3
<1>4. \A i \in 0..(n - 1) : i \in G => i + 1 \in G
  <2> SUFFICES ASSUME NEW i \in 0..(n - 1), g[1..i] = p[i]
               PROVE  g[1..(i + 1)] = p[i + 1]
    OBVIOUS
  <2> DEFINE t == 1..(i + 1)
  <2>0. t \ {i + 1} = 1..i
    OBVIOUS
  <2>1. t \in SUBSET (1..n) /\ i + 1 \in t /\ t # {}
    <3>1. i \in Nat /\ i + 1 <= n
      OBVIOUS
    <3>2. i + 1 \in t
      BY <3>1
    <3>3. \A j \in t : j \in 1..n
      BY <3>1
    <3>4. QED
      BY <3>2, <3>3
  <2>2. Max(t) = i + 1
    <3> DEFINE k == i + 1
    <3>1. k \in Nat /\ t \subseteq 1..k /\ k \in t
      OBVIOUS
    <3> HIDE DEF k, t
    <3>2. Max(t) = k
      BY <3>1, MaxOf
    <3>3. QED
      BY <3>2 DEF k
  <2> HIDE DEF t
  <2>3. g[t] = Applied(g[t \ {Max(t)}], es[Max(t)])
    BY <1>1, <2>1 DEF IsFold
  <2>4. g[t] = Applied(p[i], es[i + 1])
    BY <2>0, <2>1, <2>2, <2>3
  <2>5. p[i + 1] = Applied(p[i], es[i + 1])
    <3>1. i + 1 \in 1..n /\ (i + 1) - 1 = i
      OBVIOUS
    <3>2. QED
      BY <3>1
  <2>6. QED
    BY <2>4, <2>5 DEF t
<1> HIDE DEF G
<1>5. 0..n \subseteq G
  BY <1>3, <1>4, UpTo
<1>6. n \in G
  BY <1>5
<1>7. QED
  BY <1>2, <1>6 DEF G

----------------------------------------------------------------------------
(* The chain in the database follows the feed. *)

\* The chain the task has, stored and collected, before the event in hand.
Whole == DBChain \o Unsaved

\* How many of the collected blocks are stored.
LEMMA StoredCount ==
    ASSUME SInv, FeedInv, spc \in Running
    PROVE  \E k \in 0..Len(blocks) :
              /\ Unsaved = SubSeq(blocks, k + 1, Len(blocks))
              /\ spc \in {"select", "save"} => MainBlockNum = Base + k
              /\ spc \notin {"select", "save"} => k = 0 /\ Len(blocks) = 0
<1> DEFINE l == Len(blocks)
           stored == {i \in DOMAIN blocks : blocks[i].num <= MainBlockNum}
<1>1. l \in Nat /\ DOMAIN blocks = 1..l /\ MainBlockNum \in Nat
  BY Places
<1>2. Unsaved = SubSeq(blocks, Max(stored \cup {0}) + 1, l)
  BY DEF Unsaved
<1>3. CASE spc \in {"select", "save"}
  <2> DEFINE k == MainBlockNum - Base
  <2>1. /\ Base \in Nat /\ Top = Base + l /\ MainBlockNum <= Top
        /\ Base + saved <= MainBlockNum /\ saved \in Nat
    BY <1>3, Places DEF Working, SInv, TypeOK
  <2>2. k \in 0..l /\ k \in Nat /\ MainBlockNum = Base + k
    BY <1>1, <2>1
  <2>3. \A i \in 1..l : blocks[i].num = Base + i
    BY <1>1, <1>3 DEF SInv, CollectInv, Working, Base
  <2>4. stored = 1..k
    BY <1>1, <2>1, <2>2, <2>3
  <2> HIDE DEF k, stored
  <2>5. Max(stored \cup {0}) = k
    BY <2>2, <2>4, MaxUpTo
  <2>6. QED
    BY <1>2, <1>3, <2>2, <2>5
<1>4. CASE spc \notin {"select", "save"}
  <2>1. blocks = <<>> /\ l = 0
    BY <1>4, EmptySeq DEF SInv, CollectInv, Running
  <2>2. stored = 1..0
    BY <1>1, <2>1
  <2> HIDE DEF stored
  <2>3. Max(stored \cup {0}) = 0
    BY <2>2, MaxUpTo
  <2>4. QED
    BY <1>2, <1>4, <2>1, <2>3
<1>5. QED
  BY <1>3, <1>4

LEMMA WholeIs ==
    ASSUME SInv, FeedInv, spc \in Running
    PROVE  /\ Whole \in Seq(Blocks) /\ Len(Whole) \in Nat
           /\ From <= Len(Whole)
           /\ \A n \in 1..From : Whole[n] = KeptAt(n)
           /\ inHand = <<>> \/ inHand[1].state # "revert" => Len(Whole) = From
<1> DEFINE m == MainBlockNum
           l == Len(blocks)
<1>1. /\ From \in Nat /\ m \in Nat /\ l \in Nat /\ DOMAIN blocks = 1..l
  BY Places
<1>2. PICK k \in 0..l :
         /\ Unsaved = SubSeq(blocks, k + 1, l)
         /\ spc \in {"select", "save"} => m = Base + k
         /\ spc \notin {"select", "save"} => k = 0 /\ l = 0
  BY StoredCount
<1>3. DBChain \in Seq(Blocks) /\ Len(DBChain) = m
  BY ChainNumbered
<1>4. /\ Unsaved \in Seq(Blocks) /\ Len(Unsaved) = l - k
      /\ \A j \in 1..(l - k) : Unsaved[j] = blocks[k + j]
  <2>1. \A i \in (k + 1)..l : blocks[i] \in Blocks
    BY <1>1, <1>2, ElementOfSeq DEF SInv, TypeOK
  <2>2. /\ Unsaved \in Seq(Blocks)
        /\ Len(Unsaved) = IF k + 1 <= l THEN l - (k + 1) + 1 ELSE 0
        /\ \A j \in 1..(l - (k + 1) + 1) : Unsaved[j] = blocks[(k + 1) + j - 1]
    <3>1. k + 1 \in Int /\ l \in Int
      BY <1>1
    <3>2. QED
      BY <1>2, <2>1, <3>1, SubSeqProperties
  <2>3. \A j \in 1..(l - k) : /\ j \in 1..(l - (k + 1) + 1)
                              /\ (k + 1) + j - 1 = k + j
    BY <1>1
  <2> HIDE DEF l
  <2>4. Len(Unsaved) = l - k
    BY <1>1, <2>2
  <2>5. QED
    BY <2>2, <2>3, <2>4
<1> HIDE DEF m, l
<1>5. /\ Whole \in Seq(Blocks) /\ Len(Whole) = m + (l - k)
      /\ \A n \in 1..(m + (l - k)) :
            Whole[n] = IF n <= m THEN DBChain[n] ELSE Unsaved[n - m]
  <2>1. /\ Whole \in Seq(Blocks) /\ Len(Whole) = Len(DBChain) + Len(Unsaved)
        /\ \A n \in 1..(Len(DBChain) + Len(Unsaved)) :
              Whole[n] = IF n <= Len(DBChain) THEN DBChain[n]
                         ELSE Unsaved[n - Len(DBChain)]
    BY <1>3, <1>4, ConcatProperties DEF Whole
  <2>2. Len(DBChain) = m /\ Len(Unsaved) = l - k
    BY <1>3, <1>4
  <2>3. QED
    BY <2>1, <2>2, Zenon
<1>6. spc \in {"select", "save"} => /\ Base \in Nat /\ From <= Base + l
                                    /\ Top = Base + l
  BY <1>1, Places DEF Running, Working, l
<1>7. From <= m + (l - k)
  <2>1. CASE spc \in {"select", "save"}
    BY <1>1, <1>2, <1>6, <2>1
  <2>2. CASE spc \notin {"select", "save"}
    <3>1. From <= m
      BY <1>1, <2>2, Places DEF Running, m
    <3>2. QED
      BY <1>1, <1>2, <2>2, <3>1
  <2>3. QED
    BY <2>1, <2>2
<1>8. ASSUME NEW n \in 1..From PROVE Whole[n] = KeptAt(n)
  <2>1. n \in 1..(m + (l - k))
    BY <1>1, <1>7
  <2>2. CASE n <= m
    BY <1>5, <2>1, <2>2 DEF KeptAt, m
  <2>3. CASE ~(n <= m)
    <3>1. spc \in {"select", "save"}
      BY <1>1, <1>2, <2>1, <2>3
    <3>2. n - m \in 1..(l - k) /\ k + (n - m) = n - Base
      <4>1. /\ m = Base + k /\ Base \in Nat /\ k \in Nat /\ l \in Nat
            /\ m \in Nat /\ n \in Nat /\ n <= m + (l - k) /\ n > m
        BY <1>1, <1>2, <1>6, <2>1, <2>3, <3>1
      <4>2. QED
        BY <4>1
    <3>3. Whole[n] = blocks[k + (n - m)]
      BY <1>4, <1>5, <2>1, <2>3, <3>2
    <3>4. QED
      BY <2>3, <3>2, <3>3 DEF KeptAt, m
  <2>4. QED
    BY <2>2, <2>3
<1>9. ASSUME inHand = <<>> \/ inHand[1].state # "revert"
      PROVE  m + (l - k) = From
  <2>1. CASE spc \in {"select", "save"}
    <3>1. From = Top
      <4>1. CASE inHand = <<>>
        BY <2>1, <4>1 DEF From, Top
      <4>2. CASE inHand # <<>> /\ inHand[1].state # "revert"
        <5>1. 1 \in 1..Len(inHand)
          BY <4>2, EmptySeq, LenProperties DEF SInv, TypeOK
        <5>2. inHand[1] \in Event
          BY <5>1, ElementOfSeq DEF SInv, TypeOK
        <5>3. inHand[1].state = "ok"
          BY <4>2, <5>2 DEF Event
        <5>4. QED
          BY <2>1, <4>2, <5>3 DEF From, Top
      <4>3. QED
        BY <1>9, <4>1, <4>2
    <3>2. QED
      BY <1>1, <1>2, <1>6, <2>1, <3>1
  <2>2. CASE spc \in {"created", "subscribed"}
    <3>1. From = m
      BY <2>2, Places DEF Running, m
    <3>2. QED
      BY <1>1, <1>2, <2>2, <3>1
  <2>3. CASE spc = "mark"
    BY <1>9, <2>3 DEF SInv, CollectInv
  <2>4. QED
    BY <2>1, <2>2, <2>3 DEF Running
<1>10. m + (l - k) \in Nat
  BY <1>1
<1>11. QED
  BY <1>5, <1>7, <1>8, <1>9, <1>10

\* A revert in hand takes the top block off the task's chain.
LEMMA HandMakes ==
    ASSUME SInv, FeedInv, spc \in Running, inHand # <<>>,
           inHand[1].state = "revert"
    PROVE  /\ Applied(Whole, inHand[1]) = Kept
           /\ inHand \in Seq(Event) /\ Len(inHand) = 1
<1> DEFINE s == SubSeq(Whole, 1, inHand[1].blk.num - 1)
           c == Len(inHand)
<1>1. /\ inHand \in Seq(Event) /\ Len(inHand) = 1 /\ 1 \in 1..Len(inHand)
  <2>1. inHand \in Seq(Event) /\ Len(inHand) <= 1
    BY DEF SInv, TypeOK
  <2>2. Len(inHand) \in Nat /\ Len(inHand) # 0
    BY <2>1, EmptySeq, LenProperties
  <2> HIDE DEF s, c
  <2>3. c = 1
    <3>1. c \in Nat /\ c # 0 /\ c <= 1
      BY <2>1, <2>2, Zenon DEF c
    <3>2. QED
      BY <3>1
  <2>4. 1 \in 1..1
    OBVIOUS
  <2>5. QED
    BY <2>1, <2>3, <2>4, Zenon DEF c
<1>2. inHand[1] \in Event
  BY <1>1, ElementOfSeq
<1>3. inHand[1].blk.num \in Nat \ {0}
  BY <1>2, BlockNum DEF Event
<1>4. From = inHand[1].blk.num - 1
  <2>1. spc \in Working
    BY DEF SInv, CollectInv, Running, Working
  <2>2. QED
    BY <2>1 DEF From, Working
<1>5. /\ Whole \in Seq(Blocks) /\ Len(Whole) \in Nat
      /\ From <= Len(Whole) /\ From \in Nat
      /\ \A n \in 1..From : Whole[n] = KeptAt(n)
  BY WholeIs, Places
<1>6. /\ s \in Seq(Blocks) /\ Len(s) = From
      /\ \A n \in 1..From : s[n] = Whole[n]
  BY <1>3, <1>4, <1>5, CutType
<1>7. Kept \in Seq(Blocks) /\ Len(Kept) = From
      /\ \A n \in 1..From : Kept[n] = KeptAt(n)
  BY KeptType DEF Kept
<1>8. Applied(Whole, inHand[1]) = s
  BY DEF Applied
<1> HIDE DEF s
<1>9. s = Kept
  BY <1>5, <1>6, <1>7, SeqEqual
<1>10. QED
  BY <1>1, <1>8, <1>9

LEMMA WholeIsKept ==
    ASSUME SInv, FeedInv, spc \in Running,
           inHand = <<>> \/ inHand[1].state # "revert"
    PROVE  Whole = Kept
<1>1. /\ Whole \in Seq(Blocks) /\ Len(Whole) = From
      /\ \A n \in 1..From : Whole[n] = KeptAt(n)
  BY WholeIs
<1>2. Kept \in Seq(Blocks) /\ Len(Kept) = From
      /\ \A n \in 1..From : Kept[n] = KeptAt(n)
  BY KeptType DEF Kept
<1>3. QED
  BY <1>1, <1>2, SeqEqual

LEMMA ChainFollows ==
    ASSUME SInv, FeedInv, ChainsInv, spc \in Running
    PROVE  FoldLeft(Applied, DBChain \o Unsaved, ToApply) = sent
<1> DEFINE l == Len(blockChan)
<1>1. PICK p \in [0..l -> Seq(Blocks)] :
         /\ p[0] = Kept /\ p[l] = sent
         /\ \A i \in 1..l : Makes(p[i - 1], blockChan[i], p[i])
  BY DEF ChainsInv, ChanMakes
<1>2. l \in Nat /\ DOMAIN blockChan = 1..l /\ blockChan \in Seq(Event)
  BY LenProperties DEF SInv, TypeOK
<1>3. \A i \in 1..l : p[i] = Applied(p[i - 1], blockChan[i])
  BY <1>1 DEF Makes
<1> HIDE DEF l
<1>4. CASE inHand = <<>> \/ inHand[1].state # "revert"
  <2>1. ToApply = blockChan
    BY <1>4 DEF ToApply
  <2>2. Whole = p[0]
    BY <1>1, <1>4, WholeIsKept
  <2>3. FoldLeft(Applied, p[0], blockChan) = p[l]
    BY <1>2, <1>3, FoldOfPath
  <2>4. QED
    BY <1>1, <2>1, <2>2, <2>3 DEF Whole
<1>5. CASE inHand # <<>> /\ inHand[1].state = "revert"
  <2>1. /\ Applied(Whole, inHand[1]) = Kept
        /\ inHand \in Seq(Event) /\ Len(inHand) = 1
    BY <1>5, HandMakes
  <2> DEFINE es == inHand \o blockChan
             q == [i \in 0..(l + 1) |-> IF i = 0 THEN Whole ELSE p[i - 1]]
  <2>2. ToApply = es
    BY <1>5 DEF ToApply
  <2>3. /\ es \in Seq(Event) /\ Len(es) = 1 + l /\ es[1] = inHand[1]
        /\ \A i \in 2..(l + 1) : es[i] = blockChan[i - 1]
    <3>1. /\ es \in Seq(Event) /\ Len(es) = Len(inHand) + Len(blockChan)
          /\ \A i \in 1..(Len(inHand) + Len(blockChan)) :
                es[i] = IF i <= Len(inHand) THEN inHand[i]
                        ELSE blockChan[i - Len(inHand)]
      BY <1>2, <2>1, ConcatProperties
    <3>2. Len(inHand) = 1 /\ Len(blockChan) = l
      BY <2>1 DEF l
    <3> HIDE DEF es
    <3>3. \A i \in 1..(1 + l) :
             es[i] = IF i <= 1 THEN inHand[i] ELSE blockChan[i - 1]
      BY <3>1, <3>2, Zenon
    <3>4. QED
      BY <1>2, <3>1, <3>2, <3>3
  <2> HIDE DEF es
  <2>4. l + 1 \in Nat /\ DOMAIN es = 1..(l + 1)
    BY <1>2, <2>3, LenProperties
  <2>5. \A i \in 1..(l + 1) : q[i] = Applied(q[i - 1], es[i])
    <3> SUFFICES ASSUME NEW i \in 1..(l + 1)
                 PROVE  q[i] = Applied(q[i - 1], es[i])
      OBVIOUS
    <3>1. CASE i = 1
      <4>1. q[1] = p[0] /\ q[0] = Whole
        BY <1>2
      <4> HIDE DEF q
      <4>2. QED
        BY <1>1, <2>1, <2>3, <3>1, <4>1
    <3>2. CASE i # 1
      <4>1. i - 1 \in 1..l /\ i \in 2..(l + 1)
        BY <1>2, <3>2
      <4>2. q[i] = p[i - 1] /\ q[i - 1] = p[(i - 1) - 1]
        BY <1>2, <4>1
      <4>3. es[i] = blockChan[i - 1]
        BY <2>3, <4>1
      <4> HIDE DEF q
      <4>4. QED
        BY <1>3, <4>1, <4>2, <4>3
    <3>3. QED
      BY <3>1, <3>2
  <2>6. q[0] = Whole /\ q[l + 1] = p[l]
    BY <1>2
  <2> HIDE DEF q
  <2>7. FoldLeft(Applied, q[0], es) = q[l + 1]
    BY <2>4, <2>5, FoldOfPath
  <2>8. QED
    BY <1>1, <2>2, <2>6, <2>7 DEF Whole
<1>6. QED
  BY <1>4, <1>5

\* A contract that a stored block creates has its row.
ContractsInv == \A b \in OkBlocks : b.creates \subseteq DOMAIN contracts

LEMMA StepKeepsContracts ==
    ASSUME SInv, ContractsInv, [Next]_vars
    PROVE  ContractsInv'
<1>1. CASE UNCHANGED dbVars
  BY <1>1, SameRows DEF ContractsInv, dbVars
<1>2. CASE Saving /\ Insert(blocks[saved + 1])
  <2> DEFINE b == blocks[saved + 1]
  <2>1. OkBlocks' = OkBlocks \cup {b}
    BY <1>2, SaveFacts, InsertFacts DEF SInv, TypeOK
  <2>2. DOMAIN contracts' = DOMAIN contracts \cup b.creates
    BY <1>2 DEF Insert
  <2> HIDE DEF b
  <2>3. QED
    BY <2>1, <2>2 DEF ContractsInv
<1>3. CASE Marking /\ MarkReverted(inHand[1].blk.num)
  <2>1. inHand[1].blk.num \in Nat /\ contracts' = contracts
    BY <1>3, MarkedHeight
  <2>2. OkBlocks' \subseteq OkBlocks
    BY <1>3, <2>1, MarkFacts DEF SInv, TypeOK
  <2>3. QED
    BY <2>1, <2>2 DEF ContractsInv
<1>4. \/ UNCHANGED dbVars
      \/ Saving /\ Insert(blocks[saved + 1])
      \/ Marking /\ MarkReverted(inHand[1].blk.num)
  <2>1. CASE SaveBlock \/ SaveAnswerLost \/ Mark \/ MarkAnswerLost
    BY <2>1 DEF SaveBlock, SaveAnswerLost, Mark, MarkAnswerLost
  <2>2. CASE \/ \E e \in Event : Publish(e)
             \/ Signal \/ Crash \/ Restart \/ UNCHANGED vars
    BY <2>2 DEF Publish, Signal, Crash, Restart, vars
  <2>3. CASE \/ Subscribe \/ LoadHeight \/ Stop \/ Timer \/ ReceiveUnexpected
             \/ ReceiveBlock \/ ReceiveRevert
    BY <2>3 DEF Subscribe, LoadHeight, Stop, Timer, ReceiveUnexpected,
                ReceiveBlock, ReceiveRevert
  <2>4. CASE MarkUnexpected \/ SaveFails \/ SaveDone \/ MarkFails
    BY <2>4 DEF MarkUnexpected, SaveFails, SaveDone, MarkFails
  <2>5. QED
    BY <2>1, <2>2, <2>3, <2>4 DEF Next, Step, Failure
<1>5. QED
  BY <1>1, <1>2, <1>3, <1>4

\* Nothing of the feed is lost or doubled on the way to the database: what is
\* stored, what is collected, and the events in hand and in the channel, applied
\* in their order, make the chain the feed describes, between two attempts and
\* after an answer that was lost too; and no stored block lacks its contracts.
THEOREM DatabaseFollowsFeed == Spec => []DBFollowsFeed
<1>1. Init => ContractsInv
  BY DEF Init, ContractsInv, OkBlocks, OkRows
<1>2. SInv /\ ContractsInv /\ [Next]_vars => ContractsInv'
  BY StepKeepsContracts
<1>3. SInv /\ (late \/ (FeedInv /\ ChainsInv)) /\ ContractsInv => DBFollowsFeed
  BY ChainFollows DEF DBFollowsFeed, ContractsInv, OkBlocks
<1>4. QED
  BY <1>1, <1>2, <1>3, AlwaysChains, PTL DEF Spec
=============================================================================

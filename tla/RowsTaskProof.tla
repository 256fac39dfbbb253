--------------------------- MODULE RowsTaskProof ---------------------------
(***************************************************************************)
(* Theorems about RowsTask, Erc20TxTask and Erc721Task for every value of   *)
(* the constants: the rows that count stand (RowsStand), none is missed     *)
(* (NothingMissed, HeightIsWritten), and none is written twice but for what *)
(* the model names (TwiceOnlyUnrecorded, OnlyStraysTwice).  They are proved *)
(* of TransferNext, which has the steps of the three tasks as far as rows   *)
(* and height go.  What erc20_tx keeps besides, the information of tokens   *)
(* (OriginsKept), has an inductive invariant of its own.                    *)
(***************************************************************************)
EXTENDS Erc20TxTask, Erc721Task, TaskFeedProof

Row == [blk : Blocks, state : {"ok", "revert"}]

Reverting(b) == [state |-> "revert", blk |-> b]

----------------------------------------------------------------------------
(* The steps of the three tasks that keep rows, as far as rows and height   *)
(* are concerned.                                                           *)

\* erc20_tx has a step between the blocks it takes and their save.
CutForOrigin == Cut(MaxBlockCount, "origin") /\ UNCHANGED rows

OriginKnown ==
    /\ pc = "origin" /\ pc' = "save"
    /\ UNCHANGED <<loopVars, workVars, feedVars, taskNum, envVars, history, rows>>

Shared == Step \/ Failure \/ (Environment /\ UNCHANGED rows) \/ CutForOrigin \/ OriginKnown

\* Rows and height together, in one transaction.
JointNext == Shared \/ (Restart(OkBlocks \ ToSet(chain), {}) /\ UNCHANGED rows)

JointSpec == RowsInit /\ [][JointNext]_rowsVars

\* erc721_basic saves the rows first, and the height in a step of its own.
WriteRows ==
    /\ pc = "save" /\ InsertRows(batch)
    /\ pc' = "height" /\ tries' = 0
    /\ UNCHANGED <<loopVars, inHand, todo, batch, feedVars, taskNum, envVars, history>>

WriteRowsAnswerLost ==
    /\ LostAnswers /\ pc = "save" /\ Retry /\ InsertRows(batch)
    /\ UNCHANGED <<feedVars, taskNum, envVars, history>>

WriteHeight ==
    /\ pc = "height" /\ taskNum' = Last(batch).num /\ Saved
    /\ UNCHANGED <<rows, cache, latestHeight, compensation, feedVars, envVars, history>>

WriteHeightFails ==
    /\ pc = "height" /\ Retry
    /\ UNCHANGED <<rows, feedVars, taskNum, envVars, history>>

\* A restart finds at least the rows base_data has no block for, and those
\* above the height.
RestartWith(left) ==
    /\ OkBlocks \ ToSet(chain) \subseteq left /\ left \subseteq Blocks
    /\ {b \in OkBlocks : b.num > taskNum} \subseteq left \cup astray
    /\ Restart(left, {}) /\ UNCHANGED rows

TransferNext ==
    \/ Shared
    \/ WriteRows \/ WriteRowsAnswerLost \/ WriteHeight \/ WriteHeightFails
    \/ \E left \in SUBSET Blocks : RestartWith(left)

TransferSpec == RowsInit /\ [][TransferNext]_rowsVars

----------------------------------------------------------------------------
\* Where the task has blocks in hand, and where it has none.
AtWork == {"handle", "origin", "query", "save", "record", "height", "revert"}

Between == Running \ AtWork

USE DEF AtWork

\* The task is at work on the blocks above its height, in their order.
WorkFollows ==
    /\ \A i \in DOMAIN batch : batch[i].num = curHeight + i
    /\ \A i \in DOMAIN todo : todo[i].num = curHeight + Len(batch) + i

\* What is in hand, step by step.
WorkInHand ==
    /\ pc \in Running => tries <= RetryTimes
    /\ pc \in Between => todo = <<>> /\ batch = <<>> /\ inHand = <<>> /\ tries = 0
    /\ pc = "handle" => todo # <<>> /\ batch = <<>> /\ tries = 0
    /\ pc = "origin" => tries = 0
    /\ pc \in {"origin", "save", "height"} => batch # <<>>
    /\ pc \in {"handle", "origin", "save", "height"} =>
          \A i \in DOMAIN inHand : inHand[i].state = "ok"
    /\ pc = "revert" => /\ todo = <<>> /\ batch = <<>>
                        /\ \E b \in gone : inHand = <<Reverting(b)>> /\ curHeight >= b.num

\* The height recorded is not ahead, but after a commit reported as failed.
HeightRecorded ==
    pc \in Running =>
        \/ taskNum <= curHeight
        \/ /\ LostAnswers /\ pc \in {"save", "height"} /\ taskNum = Last(batch).num
           /\ pc = "save" => tries > 0

WorkInv == RowsTypeOK /\ FeedInv /\ WorkFollows /\ WorkInHand /\ HeightRecorded

----------------------------------------------------------------------------
(* The operators of the task. *)

\* saveBlocks adds the rows of the batch behind the others.
LEMMA InsertFacts ==
    ASSUME rows \in Seq(Row), NEW bs \in Seq(Blocks), InsertRows(bs)
    PROVE  /\ rows' \in Seq(Row) /\ Len(rows') = Len(rows) + Len(bs)
           /\ Len(rows) \in Nat /\ Len(bs) \in Nat
           /\ \A i \in 1..Len(rows) : rows'[i] = rows[i]
           /\ \A k \in 1..Len(bs) :
                 rows'[Len(rows) + k] = [blk |-> bs[k], state |-> "ok"]
           /\ OkRows' = OkRows \cup {Len(rows) + k : k \in 1..Len(bs)}
           /\ OkBlocks' = OkBlocks \cup {bs[k] : k \in 1..Len(bs)}
<1> DEFINE n == Len(rows)
           m == Len(bs)
           new == [i \in DOMAIN bs |-> [blk |-> bs[i], state |-> "ok"]]
<1>1. /\ n \in Nat /\ DOMAIN rows = 1..n
      /\ m \in Nat /\ DOMAIN bs = 1..m /\ \A k \in 1..m : bs[k] \in Blocks
  BY LenProperties, ElementOfSeq
<1>2. new \in [1..m -> Row]
  BY <1>1 DEF Row
<1>3. /\ new \in Seq(Row) /\ DOMAIN new = 1..m
      /\ \A k \in 1..m : new[k] = [blk |-> bs[k], state |-> "ok"]
  BY <1>1, <1>2
<1>4. Len(new) = m
  BY <1>1, <1>3, LenProperties
<1>5. rows' = rows \o new
  BY DEF InsertRows
<1> HIDE DEF n, m, new
<1>6. /\ rows' \in Seq(Row) /\ Len(rows') = n + m
      /\ \A i \in 1..(n + m) : rows'[i] = IF i <= n THEN rows[i] ELSE new[i - n]
  BY <1>3, <1>4, <1>5, ConcatProperties DEF n
<1>7. DOMAIN rows' = 1..(n + m)
  BY <1>6, LenProperties
<1>8. \A i \in 1..n : i \in 1..(n + m) /\ rows'[i] = rows[i]
  BY <1>1, <1>6
<1>9. \A k \in 1..m : /\ n + k \in 1..(n + m) /\ n + k > n
                      /\ rows'[n + k] = [blk |-> bs[k], state |-> "ok"]
  <2> SUFFICES ASSUME NEW k \in 1..m
               PROVE  /\ n + k \in 1..(n + m) /\ n + k > n
                      /\ rows'[n + k] = [blk |-> bs[k], state |-> "ok"]
    OBVIOUS
  <2>1. n + k \in 1..(n + m) /\ n + k > n /\ (n + k) - n = k
    BY <1>1
  <2>2. rows'[n + k] = new[(n + k) - n]
    BY <1>1, <1>6, <2>1
  <2>3. QED
    BY <1>3, <2>1, <2>2
<1>10. \A i \in 1..(n + m) : i \in 1..n \/ \E k \in 1..m : i = n + k
  <2> SUFFICES ASSUME NEW i \in 1..(n + m), i \notin 1..n
               PROVE  \E k \in 1..m : i = n + k
    OBVIOUS
  <2>1. i - n \in 1..m /\ i = n + (i - n)
    BY <1>1
  <2>2. QED
    BY <2>1
<1>11. OkRows' = OkRows \cup {n + k : k \in 1..m}
  <2>1. \A i \in 1..n : i \in OkRows' <=> i \in OkRows
    BY <1>1, <1>7, <1>8 DEF OkRows
  <2>2. \A k \in 1..m : n + k \in OkRows'
    <3> SUFFICES ASSUME NEW k \in 1..m PROVE n + k \in OkRows'
      OBVIOUS
    <3>1. n + k \in DOMAIN rows' /\ rows'[n + k] = [blk |-> bs[k], state |-> "ok"]
      BY <1>7, <1>9
    <3>2. rows'[n + k].state = "ok"
      BY <3>1
    <3>3. QED
      BY <3>1, <3>2 DEF OkRows
  <2>3. OkRows \subseteq 1..n /\ OkRows' \subseteq 1..(n + m)
    BY <1>1, <1>7 DEF OkRows
  <2> HIDE DEF OkRows
  <2>4. QED
    BY <1>10, <2>1, <2>2, <2>3
<1>12. OkBlocks' = OkBlocks \cup {bs[k] : k \in 1..m}
  <2>1. \A i \in OkRows : rows'[i].blk = rows[i].blk
    BY <1>1, <1>8 DEF OkRows
  <2>2. \A k \in 1..m : rows'[n + k].blk = bs[k]
    <3> SUFFICES ASSUME NEW k \in 1..m PROVE rows'[n + k].blk = bs[k]
      OBVIOUS
    <3>1. rows'[n + k] = [blk |-> bs[k], state |-> "ok"]
      BY <1>9
    <3>2. QED
      BY <3>1
  <2>3. QED
    BY <1>11, <2>1, <2>2 DEF OkBlocks
<1>13. QED
  BY <1>1, <1>6, <1>8, <1>9, <1>11, <1>12 DEF n, m

\* doRevert marks the rows of one height.
LEMMA MarkFacts ==
    ASSUME rows \in Seq(Row), NEW n, MarkRows(n)
    PROVE  /\ rows' \in Seq(Row) /\ DOMAIN rows' = DOMAIN rows
           /\ \A i \in DOMAIN rows : rows'[i].blk = rows[i].blk
           /\ OkRows' = {i \in OkRows : rows[i].blk.num # n}
           /\ OkBlocks' = {b \in OkBlocks : b.num # n}
<1> DEFINE m == Len(rows)
<1>1. m \in Nat /\ DOMAIN rows = 1..m /\ \A i \in 1..m : rows[i] \in Row
  BY LenProperties, ElementOfSeq
<1>2. rows' = [i \in 1..m |-> IF rows[i].blk.num = n
                              THEN [rows[i] EXCEPT !.state = "revert"]
                              ELSE rows[i]]
  BY <1>1 DEF MarkRows
<1> HIDE DEF m
<1>3. \A i \in 1..m : /\ rows'[i] \in Row
                      /\ rows'[i].blk = rows[i].blk
                      /\ rows'[i].state = IF rows[i].blk.num = n THEN "revert"
                                          ELSE rows[i].state
  BY <1>1, <1>2 DEF Row
<1>4. rows' \in [1..m -> Row] /\ DOMAIN rows' = 1..m
  BY <1>2, <1>3
<1>5. rows' \in Seq(Row)
  BY <1>1, <1>4
<1>6. OkRows' = {i \in OkRows : rows[i].blk.num # n}
  BY <1>1, <1>3, <1>4 DEF OkRows
<1>7. OkBlocks' = {b \in OkBlocks : b.num # n}
  <2>1. \A i \in OkRows : rows'[i].blk = rows[i].blk
    BY <1>1, <1>3 DEF OkRows
  <2>2. QED
    BY <1>6, <2>1 DEF OkBlocks
<1>8. QED
  BY <1>1, <1>3, <1>4, <1>5, <1>6, <1>7

\* getBlkFromCache finds the block asked for, and leaves a part of the cache.
LEMMA CachedFacts ==
    ASSUME cache \in Seq(Blocks), NEW h \in Nat
    PROVE  LET c == Cached(h)
           IN  /\ c.found \in Seq(Blocks) /\ c.rest \in Seq(Blocks)
               /\ Len(c.found) <= 1 /\ Len(c.rest) <= Len(cache)
               /\ \A i \in DOMAIN c.found : /\ c.found[i].num = h
                                            /\ \E j \in DOMAIN cache : c.found[i] = cache[j]
               /\ \A i \in DOMAIN c.rest : \E j \in DOMAIN cache : c.rest[i] = cache[j]
<1> DEFINE n == Len(cache)
           at == {i \in DOMAIN cache : cache[i].num = h}
           Good(c) == /\ c.found \in Seq(Blocks) /\ c.rest \in Seq(Blocks)
                      /\ Len(c.found) <= 1 /\ Len(c.rest) <= Len(cache)
                      /\ \A i \in DOMAIN c.found :
                            /\ c.found[i].num = h
                            /\ \E j \in DOMAIN cache : c.found[i] = cache[j]
                      /\ \A i \in DOMAIN c.rest : \E j \in DOMAIN cache : c.rest[i] = cache[j]
<1>1. /\ n \in Nat /\ DOMAIN cache = 1..n /\ \A i \in 1..n : cache[i] \in Blocks
      /\ <<>> \in Seq(Blocks) /\ Len(<<>>) = 0 /\ DOMAIN <<>> = {}
  BY LenProperties, ElementOfSeq, EmptySeq
<1> HIDE DEF n
<1>2. CASE cache = <<>> \/ h < Head(cache).num
  <2>1. Cached(h) = [found |-> <<>>, rest |-> cache]
    BY <1>2 DEF Cached
  <2>2. Good([found |-> <<>>, rest |-> cache])
    BY <1>1 DEF n
  <2>3. QED
    BY <2>1, <2>2
<1>3. CASE ~(cache = <<>> \/ h < Head(cache).num) /\ at = {}
  <2>1. Cached(h) = [found |-> <<>>, rest |-> <<>>]
    BY <1>3 DEF Cached
  <2>2. Good([found |-> <<>>, rest |-> <<>>])
    BY <1>1 DEF n
  <2>3. QED
    BY <2>1, <2>2
<1>4. CASE ~(cache = <<>> \/ h < Head(cache).num) /\ at # {}
  <2> DEFINE k == Min(at)
             found == <<cache[k]>>
             rest == SubSeq(cache, k + 1, n)
  <2>1. k \in 1..n /\ cache[k].num = h
    <3>1. at \subseteq Nat
      BY <1>1
    <3>2. \E x \in at : \A y \in at : x <= y
      <4> HIDE DEF at
      <4> QED
        BY <1>4, <3>1, LeastNumber
    <3>3. k \in at
      BY <3>2 DEF Min
    <3>4. QED
      BY <1>1, <3>3
  <2>2. Cached(h) = [found |-> found, rest |-> rest]
    BY <1>4 DEF Cached, n
  <2> HIDE DEF k, at
  <2>3. /\ found \in Seq(Blocks) /\ Len(found) = 1 /\ DOMAIN found = {1}
        /\ found[1] = cache[k]
    BY <1>1, <2>1
  <2>4. /\ rest \in Seq(Blocks)
        /\ Len(rest) = IF k + 1 <= n THEN n - (k + 1) + 1 ELSE 0
        /\ \A i \in 1..(n - (k + 1) + 1) : rest[i] = cache[(k + 1) + i - 1]
    <3>1. k + 1 \in Int /\ n \in Int /\ \A i \in (k + 1)..n : cache[i] \in Blocks
      BY <1>1, <2>1
    <3>2. QED
      BY <3>1, SubSeqProperties
  <2> HIDE DEF found, rest
  <2>5. Len(rest) <= n /\ Len(rest) \in Nat /\ Len(rest) = n - k
    BY <1>1, <2>1, <2>4
  <2>6. \A i \in DOMAIN rest : \E j \in 1..n : rest[i] = cache[j]
    <3> SUFFICES ASSUME NEW i \in DOMAIN rest PROVE \E j \in 1..n : rest[i] = cache[j]
      OBVIOUS
    <3>1. i \in 1..Len(rest)
      BY <2>4, LenProperties
    <3>2. i \in 1..(n - (k + 1) + 1) /\ (k + 1) + i - 1 \in 1..n
      BY <1>1, <2>1, <2>5, <3>1
    <3>3. QED
      BY <2>4, <3>2
  <2>7. Good([found |-> found, rest |-> rest])
    <3>1. /\ Len(found) <= 1 /\ Len(rest) <= n
          /\ \A i \in DOMAIN found : /\ found[i].num = h
                                     /\ \E j \in 1..n : found[i] = cache[j]
      BY <2>1, <2>3, <2>5
    <3>2. QED
      BY <1>1, <2>3, <2>4, <2>6, <3>1 DEF n
  <2>8. QED
    BY <2>2, <2>7
<1>5. QED
  BY <1>2, <1>3, <1>4

\* The blocks fixHistoryData finds are those above the height, in their order;
\* what it leaves in the cache was there.
LEMMA FoundFacts ==
    ASSUME LoopTypeOK, FeedInv, NEW end \in Int
    PROVE  LET bs == Found(end)
           IN  /\ bs \in Seq(Blocks)
               /\ \A i \in DOMAIN bs : /\ bs[i].num = curHeight + i
                                       /\ \/ \E j \in DOMAIN chain : bs[i] = chain[j]
                                          \/ \E j \in DOMAIN cache : bs[i] = cache[j]
               /\ CacheLeft \in Seq(Blocks) /\ Len(CacheLeft) <= BufferSize
               /\ \A i \in DOMAIN CacheLeft : \E j \in DOMAIN cache : CacheLeft[i] = cache[j]
<1> DEFINE h == curHeight + 1
           c == Cached(h)
           Good(bs) == /\ bs \in Seq(Blocks)
                       /\ \A i \in DOMAIN bs :
                             /\ bs[i].num = curHeight + i
                             /\ \/ \E j \in DOMAIN chain : bs[i] = chain[j]
                                \/ \E j \in DOMAIN cache : bs[i] = cache[j]
           Left(s) == /\ s \in Seq(Blocks) /\ Len(s) <= BufferSize
                      /\ \A i \in DOMAIN s : \E j \in DOMAIN cache : s[i] = cache[j]
<1>1. /\ cache \in Seq(Blocks) /\ Len(cache) <= BufferSize /\ Len(cache) \in Nat
      /\ curHeight \in Nat /\ h \in Nat /\ h \in Nat \ {0} /\ h \in Int
      /\ chain \in Seq(Blocks) /\ Len(chain) \in Nat /\ DOMAIN chain = 1..Len(chain)
      /\ BufferSize \in Nat
  BY LenProperties, TaskFeedAssumption DEF LoopTypeOK, FeedInv, FeedTypeOK
<1>2. \A last \in Int : Good(Stored(h, last))
  <2> SUFFICES ASSUME NEW last \in Int PROVE Good(Stored(h, last))
    OBVIOUS
  <2> DEFINE bs == Stored(h, last)
  <2>1. /\ bs \in Seq(Blocks) /\ DOMAIN bs = 1..Len(bs)
        /\ \A i \in DOMAIN bs : /\ bs[i] = chain[h + i - 1] /\ bs[i].num = h + i - 1
                                /\ h + i - 1 <= Len(chain)
    <3> HIDE DEF h
    <3> QED
      BY <1>1, StoredFacts
  <2> HIDE DEF bs
  <2>2. Len(bs) \in Nat
    BY <2>1, LenProperties
  <2>3. \A i \in DOMAIN bs : /\ bs[i].num = curHeight + i
                             /\ \E j \in DOMAIN chain : bs[i] = chain[j]
    <3> SUFFICES ASSUME NEW i \in DOMAIN bs
                 PROVE  /\ bs[i].num = curHeight + i
                        /\ \E j \in DOMAIN chain : bs[i] = chain[j]
      OBVIOUS
    <3>1. i \in 1..Len(bs) /\ h + i - 1 = curHeight + i
      BY <1>1, <2>1, <2>2
    <3>2. h + i - 1 \in 1..Len(chain)
      BY <1>1, <2>1, <2>2, <3>1
    <3>3. QED
      BY <1>1, <2>1, <3>1, <3>2
  <2>4. Good(bs)
    BY <2>1, <2>3
  <2>5. QED
    BY <2>4 DEF bs
<1>3. /\ c.found \in Seq(Blocks) /\ c.rest \in Seq(Blocks)
      /\ Len(c.found) <= 1 /\ Len(c.rest) <= Len(cache)
      /\ \A i \in DOMAIN c.found : /\ c.found[i].num = h
                                   /\ \E j \in DOMAIN cache : c.found[i] = cache[j]
      /\ \A i \in DOMAIN c.rest : \E j \in DOMAIN cache : c.rest[i] = cache[j]
  <2> HIDE DEF h
  <2> QED
    BY <1>1, CachedFacts
<1> HIDE DEF c
<1>4. Good(c.found)
  <2>1. DOMAIN c.found = 1..Len(c.found) /\ Len(c.found) \in Nat
    BY <1>3, LenProperties
  <2>2. \A i \in DOMAIN c.found : i = 1
    BY <1>3, <2>1
  <2>3. \A i \in DOMAIN c.found : c.found[i].num = curHeight + i
    BY <1>1, <1>3, <2>2
  <2>4. QED
    BY <1>3, <2>3
<1>5. Left(cache) /\ Left(c.rest)
  <2>1. Len(c.rest) \in Nat
    BY <1>3, LenProperties
  <2>2. Len(c.rest) <= BufferSize
    BY <1>1, <1>3, <2>1
  <2>3. QED
    BY <1>1, <1>3, <2>2
<1>6. Good(Found(end))
  <2>1. \/ Found(end) = Stored(h, end) \/ Found(end) = c.found \/ Found(end) = Stored(h, h)
    BY DEF Found, StoredAt, c
  <2>2. h \in Int /\ end \in Int
    BY <1>1
  <2> HIDE DEF Good
  <2>3. QED
    BY <1>2, <1>4, <2>1, <2>2
<1>7. Left(CacheLeft)
  <2>1. CacheLeft = cache \/ CacheLeft = c.rest
    BY DEF CacheLeft, c
  <2>2. QED
    BY <1>5, <2>1
<1>8. QED
  BY <1>6, <1>7

\* addToCache drops the oldest block when the cache is full.
LEMMA AddToCacheFacts ==
    ASSUME cache \in Seq(Blocks), Len(cache) <= BufferSize, NEW b \in Blocks
    PROVE  /\ AddToCache(b) \in Seq(Blocks) /\ Len(AddToCache(b)) <= BufferSize
           /\ \A i \in DOMAIN AddToCache(b) :
                 AddToCache(b)[i] = b \/ \E j \in DOMAIN cache : AddToCache(b)[i] = cache[j]
<1> DEFINE n == Len(cache)
           t == IF Len(cache) >= BufferSize THEN Tail(cache) ELSE cache
           s == Append(t, b)
<1>1. /\ n \in Nat /\ DOMAIN cache = 1..n /\ BufferSize \in Nat /\ BufferSize >= 1
      /\ n <= BufferSize /\ (cache = <<>> => n = 0)
  BY LenProperties, EmptySeq, TaskFeedAssumption
<1>2. /\ t \in Seq(Blocks) /\ Len(t) \in Nat /\ Len(t) < BufferSize
      /\ \A i \in 1..Len(t) : \E j \in 1..n : t[i] = cache[j]
  <2>1. CASE n >= BufferSize
    <3>1. t = Tail(cache) /\ cache # <<>>
      BY <1>1, <2>1
    <3>2. /\ Tail(cache) \in Seq(Blocks) /\ Len(Tail(cache)) = n - 1
          /\ \A i \in 1..Len(Tail(cache)) : Tail(cache)[i] = cache[i + 1]
      BY <3>1, HeadTailProperties
    <3>3. t \in Seq(Blocks) /\ Len(t) = n - 1 /\ \A i \in 1..(n - 1) : t[i] = cache[i + 1]
      BY <3>1, <3>2
    <3> HIDE DEF t, n
    <3>4. \A i \in 1..(n - 1) : i + 1 \in 1..n
      BY <1>1
    <3>5. n - 1 \in Nat /\ n - 1 < BufferSize
      BY <1>1, <2>1
    <3>6. QED
      BY <3>3, <3>4, <3>5
  <2>2. CASE ~(n >= BufferSize)
    BY <1>1, <2>2
  <2>3. QED
    BY <2>1, <2>2
<1> HIDE DEF t
<1>3. /\ s \in Seq(Blocks) /\ Len(s) = Len(t) + 1 /\ DOMAIN s = 1..(Len(t) + 1)
      /\ \A i \in 1..Len(t) : s[i] = t[i]
      /\ s[Len(t) + 1] = b
  BY <1>2, AppendProperties, LenProperties
<1> HIDE DEF s, n
<1>4. \A i \in DOMAIN s : s[i] = b \/ \E j \in 1..n : s[i] = cache[j]
  <2> SUFFICES ASSUME NEW i \in DOMAIN s, i # Len(t) + 1
               PROVE  \E j \in 1..n : s[i] = cache[j]
    BY <1>3
  <2>1. i \in 1..Len(t)
    BY <1>2, <1>3
  <2>2. QED
    BY <1>2, <1>3, <2>1
<1>5. Len(s) <= BufferSize
  BY <1>1, <1>2, <1>3
<1>6. s = AddToCache(b)
  BY DEF s, t, AddToCache
<1>7. QED
  BY <1>1, <1>3, <1>4, <1>5, <1>6

\* removeFromCache takes the newest block, or none.
LEMMA RemoveFromCacheFacts ==
    ASSUME cache \in Seq(Blocks), Len(cache) <= BufferSize, NEW n
    PROVE  /\ RemoveFromCache(n) \in Seq(Blocks) /\ Len(RemoveFromCache(n)) <= BufferSize
           /\ \A i \in DOMAIN RemoveFromCache(n) :
                 \E j \in DOMAIN cache : RemoveFromCache(n)[i] = cache[j]
<1> DEFINE m == Len(cache)
           s == SubSeq(cache, 1, m - 1)
<1>1. /\ m \in Nat /\ DOMAIN cache = 1..m /\ BufferSize \in Nat
      /\ m <= BufferSize /\ (cache # <<>> => m >= 1) /\ \A i \in 1..m : cache[i] \in Blocks
  BY LenProperties, EmptySeq, ElementOfSeq, TaskFeedAssumption
<1> HIDE DEF m
<1>2. RemoveFromCache(n) = cache \/ (cache # <<>> /\ RemoveFromCache(n) = s)
  BY DEF RemoveFromCache, Front, m
<1>3. CASE RemoveFromCache(n) = cache
  BY <1>1, <1>3
<1>4. CASE cache # <<>> /\ RemoveFromCache(n) = s
  <2>1. 1 \in Int /\ m - 1 \in Int /\ \A i \in 1..(m - 1) : cache[i] \in Blocks
    BY <1>1
  <2>2. /\ s \in Seq(Blocks) /\ Len(s) = IF 1 <= m - 1 THEN m - 1 - 1 + 1 ELSE 0
        /\ \A i \in 1..(m - 1 - 1 + 1) : s[i] = cache[1 + i - 1]
    BY <2>1, SubSeqProperties
  <2> HIDE DEF s
  <2>3. Len(s) = m - 1 /\ m - 1 <= BufferSize /\ m - 1 - 1 + 1 = m - 1
    BY <1>1, <1>4, <2>2
  <2>4. DOMAIN s = 1..(m - 1)
    BY <2>2, <2>3, LenProperties
  <2>5. \A i \in 1..(m - 1) : i \in 1..m /\ s[i] = cache[i]
    <3> SUFFICES ASSUME NEW i \in 1..(m - 1) PROVE i \in 1..m /\ s[i] = cache[i]
      OBVIOUS
    <3>1. i \in 1..m /\ i \in 1..(m - 1 - 1 + 1) /\ 1 + i - 1 = i
      BY <1>1
    <3>2. s[i] = cache[1 + i - 1]
      BY <2>2, <3>1
    <3>3. QED
      BY <3>1, <3>2
  <2>6. QED
    BY <1>1, <1>4, <2>2, <2>3, <2>4, <2>5
<1>5. QED
  BY <1>2, <1>3, <1>4

----------------------------------------------------------------------------
(* WorkInv is inductive. *)

LEMMA InitWorkInv == RowsInit => WorkInv
<1> SUFFICES ASSUME RowsInit PROVE WorkInv
  OBVIOUS
<1> DEFINE n == StartNumber
<1>1. /\ FeedInit /\ pc = "created" /\ cache = <<>> /\ curHeight = n /\ latestHeight = 0
      /\ compensation = 0 /\ inHand = <<>> /\ todo = <<>> /\ batch = <<>> /\ tries = 0
      /\ taskNum = n /\ restarts = 0 /\ stopping = FALSE
      /\ skipped = {} /\ gone = {} /\ astray = {}
      /\ rows = [i \in 1..n |-> [blk |-> StartChain[i], state |-> "ok"]]
  BY DEF RowsInit, Init, InitRows
<1>2. /\ Len(StartChain) \in Nat /\ n \in 0..Len(StartChain) /\ n \in Nat
      /\ \A i \in 1..n : StartChain[i] \in Blocks /\ StartChain[i].num = i
  <2>1. StartChain \in Seq(Blocks) /\ n \in 0..Len(StartChain)
    BY TaskFeedAssumption, AsyncTaskAssumption
  <2>2. Len(StartChain) \in Nat /\ DOMAIN StartChain = 1..Len(StartChain)
    BY <2>1, LenProperties
  <2> HIDE DEF n
  <2>3. n \in Nat /\ \A i \in 1..n : i \in 1..Len(StartChain)
    BY <2>1, <2>2
  <2>4. QED
    BY <2>1, <2>2, <2>3, ElementOfSeq, TaskFeedAssumption
<1>3. FeedInv
  BY <1>1, InitFeedInv
<1>4. LoopTypeOK
  <2>1. /\ <<>> \in Seq(Blocks) /\ <<>> \in Seq(Event) /\ Len(<<>>) = 0
    BY EmptySeq
  <2>2. /\ 0 \in 0..CompensationCap /\ 0 \in 0..(RetryTimes + 1) /\ 0 \in 0..MaxRestarts
        /\ BufferSize \in Nat
    BY AsyncTaskAssumption, TaskFeedAssumption
  <2>3. FeedTypeOK
    BY <1>3 DEF FeedInv
  <2> HIDE DEF n
  <2>4. pc \in Running /\ stopping \in BOOLEAN /\ {} \subseteq Nat /\ {} \subseteq Blocks
    BY <1>1 DEF Running
  <2>5. /\ cache \in Seq(Blocks) /\ Len(cache) <= BufferSize
        /\ inHand \in Seq(Event) /\ Len(inHand) <= 1
        /\ todo \in Seq(Blocks) /\ batch \in Seq(Blocks)
    BY <1>1, <2>1, <2>2
  <2>6. /\ compensation \in 0..CompensationCap /\ tries \in 0..(RetryTimes + 1)
        /\ restarts \in 0..MaxRestarts
    BY <1>1, <2>2
  <2>7. /\ curHeight \in Nat /\ latestHeight \in Nat /\ taskNum \in Nat
        /\ skipped \subseteq Nat /\ gone \subseteq Blocks /\ astray \subseteq Blocks
    BY <1>1, <1>2
  <2>8. QED
    BY <2>3, <2>4, <2>5, <2>6, <2>7 DEF LoopTypeOK
<1>5. rows \in Seq(Row)
  <2> HIDE DEF n
  <2>1. \A i \in 1..n : [blk |-> StartChain[i], state |-> "ok"] \in Row
    BY <1>2 DEF Row
  <2>2. rows \in [1..n -> Row] /\ DOMAIN rows = 1..n
    BY <1>1, <2>1
  <2>3. QED
    BY <1>2, <2>2
<1>6. WorkFollows
  BY <1>1 DEF WorkFollows
<1>7. WorkInHand
  BY <1>1, AsyncTaskAssumption DEF WorkInHand, Between, Running
<1>8. HeightRecorded
  BY <1>1, <1>2 DEF HeightRecorded
<1>9. QED
  BY <1>3, <1>4, <1>5, <1>6, <1>7, <1>8 DEF WorkInv, RowsTypeOK, Row

\* A step that leaves the work and the rows alone.
LEMMA QuietWork ==
    ASSUME WorkInv, LoopTypeOK', FeedInv',
           UNCHANGED <<rows, taskNum, curHeight, inHand, todo, batch, tries, astray>>,
           \/ pc' = pc /\ gone' = gone
           \/ pc' \notin Running
           \/ pc \in Between /\ pc' \in Between
    PROVE  WorkInv'
<1>1. /\ RowsTypeOK /\ FeedInv /\ WorkFollows /\ WorkInHand /\ HeightRecorded
  BY DEF WorkInv
<1>2. RowsTypeOK'
  BY <1>1 DEF RowsTypeOK
<1>3. WorkFollows'
  BY <1>1 DEF WorkFollows
<1>4. OkBlocks' = OkBlocks
  BY DEF OkBlocks, OkRows
<1>5. CASE pc' = pc /\ gone' = gone
  <2>1. WorkInHand'
    BY <1>1, <1>5 DEF WorkInHand
  <2>2. HeightRecorded'
    BY <1>1, <1>4, <1>5 DEF HeightRecorded
  <2>3. QED
    BY <1>2, <1>3, <2>1, <2>2 DEF WorkInv
<1>6. CASE pc' \notin Running
  <2>1. pc' \notin Between /\ pc' \notin AtWork
    BY <1>6 DEF Between, Running
  <2>2. WorkInHand'
    BY <1>6, <2>1 DEF WorkInHand
  <2>3. HeightRecorded'
    BY <1>1, <1>4, <1>6 DEF HeightRecorded
  <2>4. QED
    BY <1>2, <1>3, <2>2, <2>3 DEF WorkInv
<1>7. CASE pc \in Between /\ pc' \in Between
  <2>1. /\ pc \in Running /\ pc \notin AtWork
        /\ pc' \in Running /\ pc' \notin AtWork
    BY <1>7 DEF Between
  <2>2. WorkInHand'
    BY <1>1, <1>7, <2>1 DEF WorkInHand
  <2>3. HeightRecorded'
    BY <1>1, <1>4, <2>1 DEF HeightRecorded
  <2>4. QED
    BY <1>2, <1>3, <2>2, <2>3 DEF WorkInv
<1>8. QED
  BY <1>5, <1>6, <1>7

\* The steps that only move the task's goroutine on, or end it.
Idle == \/ StartTask \/ Unsubscribe \/ Enter \/ Wake \/ Drained
        \/ Signal \/ Crash \/ TakeStop

\* Where the goroutine goes without taking or leaving work.
PcMoves == \/ pc' = pc
           \/ pc' \notin Running
           \/ pc \in Between /\ pc' \in Between

LEMMA IdleFacts ==
    ASSUME LoopTypeOK, Idle
    PROVE  /\ UNCHANGED <<cache, curHeight, latestHeight, workVars, feedVars, taskNum, history>>
           /\ PcMoves /\ LoopTypeOK'
<1>1. {"created", "loop", "select", "drain", "catchup"} \subseteq Between
  BY DEF Between, Running
<1>2. /\ UNCHANGED <<cache, curHeight, latestHeight, workVars, feedVars, taskNum, history>>
      /\ \/ compensation' \in {compensation, 0}
         \/ compensation < CompensationCap /\ compensation' = compensation + 1
      /\ restarts' = restarts /\ stopping' \in {stopping, TRUE}
      /\ \/ pc' = pc \/ pc' \in {"ended", "stopped", "down"}
         \/ pc \in Between /\ pc' \in Between
  <2>1. CASE StartTask
    BY <1>1, <2>1 DEF StartTask, loopVars, envVars
  <2>2. CASE Unsubscribe
    BY <1>1, <2>2 DEF Unsubscribe, loopVars, envVars
  <2>3. CASE Enter
    BY <1>1, <2>3 DEF Enter, envVars
  <2>4. CASE Wake
    BY <1>1, <2>4 DEF Wake, envVars
  <2>5. CASE Drained
    BY <1>1, <2>5 DEF Drained, loopVars, envVars
  <2>6. CASE Signal
    BY <2>6 DEF Signal, loopVars
  <2>7. CASE Crash
    BY <2>7 DEF Crash, loopVars, envVars
  <2>8. CASE TakeStop
    BY <2>8 DEF TakeStop, loopVars, envVars
  <2>9. QED
    BY <2>1, <2>2, <2>3, <2>4, <2>5, <2>6, <2>7, <2>8 DEF Idle
<1>3. {"ended", "stopped", "down"} \cap Running = {}
  BY DEF Running
<1>4. PcMoves
  BY <1>2, <1>3 DEF PcMoves
<1>5. LoopTypeOK'
  <2>1. compensation' \in 0..CompensationCap
    BY <1>2, AsyncTaskAssumption DEF LoopTypeOK
  <2>2. pc' \in Running \cup {"ended", "stopped", "exited", "down"}
    BY <1>2 DEF LoopTypeOK, Between
  <2>3. FeedTypeOK'
    BY <1>2 DEF LoopTypeOK, FeedTypeOK, feedVars
  <2>4. restarts' \in 0..MaxRestarts /\ stopping' \in BOOLEAN
    BY <1>2 DEF LoopTypeOK
  <2>5. QED
    BY <1>2, <2>1, <2>2, <2>3, <2>4 DEF LoopTypeOK, workVars, history
<1>6. QED
  BY <1>2, <1>4, <1>5

LEMMA IdleWork == ASSUME WorkInv, Idle, UNCHANGED rows PROVE WorkInv'
<1>1. LoopTypeOK /\ FeedInv
  BY DEF WorkInv, RowsTypeOK
<1>2. /\ UNCHANGED <<cache, curHeight, latestHeight, workVars, feedVars, taskNum, history>>
      /\ PcMoves /\ LoopTypeOK'
  BY <1>1, IdleFacts
<1>3. FeedInv'
  BY <1>1, <1>2, FeedStays
<1>4. QED
  BY <1>2, <1>3, QuietWork DEF PcMoves, workVars, history

\* The steps of the feed and of base_data.
LEMMA FeedWork ==
    ASSUME WorkInv, BaseApplies \/ \E e \in Event : Publish(e), UNCHANGED rows
    PROVE  WorkInv'
<1>1. LoopTypeOK /\ FeedInv
  BY DEF WorkInv, RowsTypeOK
<1>2. /\ UNCHANGED <<pc, loopVars, workVars, taskNum, envVars, history>>
      /\ Apply \/ \E e \in Event : Deliver(e)
  BY DEF BaseApplies, Publish
<1>3. FeedInv'
  BY <1>1, <1>2, ApplyFacts, DeliverFacts
<1>4. LoopTypeOK'
  BY <1>1, <1>2, <1>3 DEF LoopTypeOK, loopVars, workVars, envVars, history, FeedInv
<1>5. QED
  BY <1>2, <1>3, <1>4, QuietWork DEF loopVars, workVars, history

\* An event is received: the task then has nothing in hand yet.
LEMMA TakenFacts ==
    ASSUME LoopTypeOK, FeedInv, NEW e \in Event, Take(e)
    PROVE  /\ FeedInv' /\ sent' = sent /\ chain' = chain
           /\ blockChan # <<>> /\ e = blockChan[1] /\ blockChan' = Tail(blockChan)
           /\ toBase' = toBase
           /\ pc \in Between /\ "drain" \in Between
           /\ gone' \subseteq Blocks
           /\ gone' = IF e.state = "revert" THEN gone \cup {e.blk} ELSE gone \ {e.blk}
           /\ UNCHANGED <<compensation, batch, tries, taskNum, envVars, skipped, astray>>
<1>1. /\ pc \in {"select", "drain"} /\ TakeEvent(e)
      /\ gone' = IF e.state = "revert" THEN gone \cup {e.blk} ELSE gone \ {e.blk}
      /\ UNCHANGED <<compensation, batch, tries, taskNum, envVars, skipped, astray>>
  BY DEF Take
<1>2. e.blk \in Blocks /\ gone \subseteq Blocks
  BY EventFacts DEF LoopTypeOK
<1>3. toBase' = toBase
  BY <1>1 DEF TakeEvent
<1>4. QED
  BY <1>1, <1>2, <1>3, TakeFacts DEF Between, Running

\* The events that leave the task where it is.
PassedBy(e) == ReceiveAhead(e) \/ ReceiveOld(e) \/ ReceiveRevertAbove(e)

LEMMA PassedByFacts ==
    ASSUME LoopTypeOK, NEW e \in Event, PassedBy(e)
    PROVE  /\ Take(e) /\ pc' = "drain" /\ UNCHANGED <<curHeight, inHand, todo>>
           /\ latestHeight' \in Nat
           /\ cache' \in Seq(Blocks) /\ Len(cache') <= BufferSize
           /\ \A i \in DOMAIN cache' : \/ \E j \in DOMAIN cache : cache'[i] = cache[j]
                                       \/ e.state = "ok" /\ cache'[i] = e.blk
<1>1. /\ cache \in Seq(Blocks) /\ Len(cache) <= BufferSize
      /\ e.blk \in Blocks /\ e.blk.num \in Nat /\ e.blk.num - 1 \in Nat
  BY EventFacts DEF LoopTypeOK
<1>2. CASE ReceiveAhead(e)
  <2>1. cache' = AddToCache(e.blk)
    BY <1>2 DEF ReceiveAhead
  <2>2. /\ cache' \in Seq(Blocks) /\ Len(cache') <= BufferSize
        /\ \A i \in DOMAIN cache' : \/ cache'[i] = e.blk
                                    \/ \E j \in DOMAIN cache : cache'[i] = cache[j]
    BY <1>1, <2>1, AddToCacheFacts
  <2>3. QED
    BY <1>1, <1>2, <2>2 DEF ReceiveAhead
<1>3. CASE ReceiveOld(e)
  BY <1>1, <1>3 DEF ReceiveOld
<1>4. CASE ReceiveRevertAbove(e)
  BY <1>1, <1>4 DEF ReceiveRevertAbove
<1>5. QED
  BY <1>2, <1>3, <1>4 DEF PassedBy

LEMMA PassedByWork ==
    ASSUME WorkInv, NEW e \in Event, PassedBy(e), UNCHANGED rows PROVE WorkInv'
<1>1. LoopTypeOK /\ FeedInv
  BY DEF WorkInv, RowsTypeOK
<1>2. /\ Take(e) /\ pc' = "drain" /\ UNCHANGED <<curHeight, inHand, todo>>
      /\ latestHeight' \in Nat /\ cache' \in Seq(Blocks) /\ Len(cache') <= BufferSize
  BY <1>1, PassedByFacts
<1>3. /\ FeedInv' /\ pc \in Between /\ "drain" \in Between /\ gone' \subseteq Blocks
      /\ UNCHANGED <<compensation, batch, tries, taskNum, envVars, skipped, astray>>
  BY <1>1, <1>2, TakenFacts
<1>4. LoopTypeOK'
  BY <1>1, <1>2, <1>3 DEF LoopTypeOK, envVars, FeedInv, Between
<1>5. QED
  BY <1>2, <1>3, <1>4, QuietWork

LEMMA ReceiveNextWork ==
    ASSUME WorkInv, NEW e \in Event, ReceiveNext(e), UNCHANGED rows PROVE WorkInv'
<1>1. LoopTypeOK /\ FeedInv /\ RowsTypeOK /\ WorkInHand /\ HeightRecorded
  BY DEF WorkInv, RowsTypeOK
<1>2. /\ e.state = "ok" /\ Take(e) /\ curHeight + 1 = e.blk.num
      /\ latestHeight' = e.blk.num
      /\ inHand' = <<e>> /\ todo' = <<e.blk>> /\ pc' = "handle"
      /\ cache' = cache /\ curHeight' = curHeight
  BY DEF ReceiveNext, FitsHeight
<1>3. /\ FeedInv' /\ pc \in Between /\ gone' \subseteq Blocks
      /\ UNCHANGED <<compensation, batch, tries, taskNum, envVars, skipped, astray>>
  BY <1>1, <1>2, TakenFacts
<1>4. /\ e.blk \in Blocks /\ e.blk.num \in Nat
      /\ todo' \in Seq(Blocks) /\ inHand' \in Seq(Event) /\ Len(inHand') <= 1
      /\ DOMAIN todo' = {1} /\ todo'[1] = e.blk /\ todo' # <<>>
      /\ DOMAIN inHand' = {1} /\ inHand'[1] = e
  BY <1>2, EventFacts
<1>5. pc \in Running /\ pc' \in Running /\ pc' \notin Between /\ pc \notin AtWork
  BY <1>2, <1>3 DEF Between, Running
<1>6. batch' = <<>> /\ tries' = 0 /\ Len(<<>>) = 0 /\ DOMAIN <<>> = {} /\ 0 <= RetryTimes
  BY <1>1, <1>3, AsyncTaskAssumption DEF WorkInHand
<1>7. LoopTypeOK'
  BY <1>1, <1>2, <1>3, <1>4, <1>5 DEF LoopTypeOK, envVars, FeedInv
<1>8. WorkFollows'
  <2>1. e.blk.num = curHeight + 0 + 1
    BY <1>1, <1>2 DEF LoopTypeOK
  <2>2. QED
    BY <1>2, <1>4, <1>6, <2>1 DEF WorkFollows
<1>9. WorkInHand'
  BY <1>2, <1>4, <1>5, <1>6 DEF WorkInHand
<1>10. HeightRecorded'
  BY <1>1, <1>2, <1>3, <1>5 DEF HeightRecorded, OkBlocks, OkRows
<1>11. QED
  BY <1>1, <1>3, <1>7, <1>8, <1>9, <1>10 DEF WorkInv, RowsTypeOK

LEMMA ReceiveRevertWork ==
    ASSUME WorkInv, NEW e \in Event, ReceiveRevert(e), UNCHANGED rows PROVE WorkInv'
<1>1. LoopTypeOK /\ FeedInv /\ RowsTypeOK /\ WorkInHand /\ HeightRecorded /\ WorkFollows
  BY DEF WorkInv, RowsTypeOK
<1>2. /\ e.state = "revert" /\ Take(e) /\ curHeight >= e.blk.num
      /\ cache' = RemoveFromCache(e.blk.num)
      /\ inHand' = <<e>> /\ pc' = "revert"
      /\ UNCHANGED <<curHeight, latestHeight, todo>>
  BY DEF ReceiveRevert
<1>3. /\ FeedInv' /\ pc \in Between /\ gone' \subseteq Blocks
      /\ gone' = gone \cup {e.blk}
      /\ UNCHANGED <<compensation, batch, tries, taskNum, envVars, skipped, astray>>
  BY <1>1, <1>2, TakenFacts
<1>4. /\ cache' \in Seq(Blocks) /\ Len(cache') <= BufferSize
  BY <1>1, <1>2, RemoveFromCacheFacts DEF LoopTypeOK
<1>5. e = Reverting(e.blk) /\ inHand' \in Seq(Event) /\ Len(inHand') <= 1
  BY <1>2 DEF Event, Reverting
<1>6. pc \in Running /\ pc' \in Running /\ pc' \notin Between /\ pc \notin AtWork
  BY <1>2, <1>3 DEF Between, Running
<1>7. batch' = <<>> /\ todo' = <<>> /\ tries' = 0 /\ 0 <= RetryTimes
  BY <1>1, <1>2, <1>3, AsyncTaskAssumption DEF WorkInHand
<1>8. LoopTypeOK'
  BY <1>1, <1>2, <1>3, <1>4, <1>5, <1>6 DEF LoopTypeOK, envVars, FeedInv
<1>9. WorkFollows'
  BY <1>1, <1>2, <1>3 DEF WorkFollows
<1>10. WorkInHand'
  <2>1. \E b \in gone' : inHand' = <<Reverting(b)>> /\ curHeight' >= b.num
    BY <1>2, <1>3, <1>5
  <2>2. QED
    BY <1>2, <1>6, <1>7, <2>1 DEF WorkInHand
<1>11. HeightRecorded'
  BY <1>1, <1>2, <1>3, <1>6 DEF HeightRecorded, OkBlocks, OkRows
<1>12. QED
  BY <1>1, <1>3, <1>8, <1>9, <1>10, <1>11 DEF WorkInv, RowsTypeOK

\* fixHistoryData.
LEMMA RangeEndFacts ==
    ASSUME LoopTypeOK PROVE RangeEnd \in Nat /\ RangeEnd > curHeight /\ curHeight \in Nat
BY RowsTaskAssumption DEF RangeEnd, LoopTypeOK

LEMMA ReadFoundWork ==
    ASSUME WorkInv, ReadFound(RangeEnd), UNCHANGED rows PROVE WorkInv'
<1>1. LoopTypeOK /\ FeedInv /\ RowsTypeOK /\ WorkInHand /\ HeightRecorded
  BY DEF WorkInv, RowsTypeOK
<1>2. /\ pc = "catchup" /\ todo' # <<>> /\ todo' = Found(RangeEnd) /\ cache' = CacheLeft
      /\ pc' = "handle" /\ astray' = astray \cup (ToSet(todo') \cap gone)
      /\ UNCHANGED <<curHeight, latestHeight, compensation, inHand,
                     batch, tries, feedVars, taskNum, envVars, skipped, gone>>
  BY DEF ReadFound
<1>3. /\ todo' \in Seq(Blocks)
      /\ \A i \in DOMAIN todo' : todo'[i].num = curHeight + i
      /\ cache' \in Seq(Blocks) /\ Len(cache') <= BufferSize
  <2>1. RangeEnd \in Int
    BY <1>1, RangeEndFacts
  <2>2. /\ Found(RangeEnd) \in Seq(Blocks)
        /\ \A i \in DOMAIN Found(RangeEnd) : Found(RangeEnd)[i].num = curHeight + i
        /\ CacheLeft \in Seq(Blocks) /\ Len(CacheLeft) <= BufferSize
    BY <1>1, <2>1, FoundFacts
  <2>3. QED
    BY <1>2, <2>2
<1>4. FeedInv'
  BY <1>1, <1>2, FeedStays
<1>5. /\ pc \in Between /\ pc \in Running /\ pc' \in Running /\ pc' \notin Between
      /\ pc \notin AtWork
  BY <1>2 DEF Between, Running
<1>6. batch' = <<>> /\ inHand' = <<>> /\ tries' = 0 /\ Len(<<>>) = 0 /\ DOMAIN <<>> = {}
      /\ 0 <= RetryTimes
  BY <1>1, <1>2, <1>5, AsyncTaskAssumption DEF WorkInHand
<1>7. astray' \subseteq Blocks /\ astray \subseteq astray'
  BY <1>1, <1>2 DEF LoopTypeOK
<1>8. LoopTypeOK'
  BY <1>1, <1>2, <1>3, <1>4, <1>5, <1>7 DEF LoopTypeOK, envVars, FeedInv
<1>9. WorkFollows'
  <2>1. \A i \in DOMAIN todo' : todo'[i].num = curHeight + 0 + i
    BY <1>1, <1>3 DEF LoopTypeOK
  <2>2. QED
    BY <1>2, <1>6, <2>1 DEF WorkFollows
<1>10. WorkInHand'
  BY <1>2, <1>5, <1>6 DEF WorkInHand
<1>11. HeightRecorded'
  BY <1>1, <1>2, <1>5, <1>7 DEF HeightRecorded, OkBlocks, OkRows
<1>12. QED
  BY <1>1, <1>4, <1>8, <1>9, <1>10, <1>11 DEF WorkInv, RowsTypeOK

LEMMA SkipWork ==
    ASSUME WorkInv, Skip(RangeEnd, "loop"), UNCHANGED rows PROVE WorkInv'
<1>1. LoopTypeOK /\ FeedInv /\ RowsTypeOK /\ WorkInHand /\ HeightRecorded
  BY DEF WorkInv, RowsTypeOK
<1>2. /\ pc = "catchup" /\ curHeight' = RangeEnd /\ cache' = CacheLeft /\ pc' = "loop"
      /\ skipped' = skipped \cup ((curHeight + 1)..RangeEnd)
      /\ UNCHANGED <<latestHeight, compensation, workVars, feedVars,
                     taskNum, envVars, gone, astray>>
  BY DEF Skip
<1>3. /\ RangeEnd \in Nat /\ RangeEnd > curHeight /\ curHeight \in Nat
      /\ cache' \in Seq(Blocks) /\ Len(cache') <= BufferSize
  BY <1>1, <1>2, RangeEndFacts, FoundFacts
<1>4. FeedInv'
  BY <1>1, <1>2, FeedStays
<1>5. /\ pc \in Between /\ pc' \in Between /\ pc' \in Running /\ pc \in Running
      /\ pc \notin AtWork /\ pc' \notin AtWork
  BY <1>2 DEF Between, Running
<1>6. skipped' \subseteq Nat
  BY <1>1, <1>2, <1>3 DEF LoopTypeOK
<1>7. LoopTypeOK'
  BY <1>1, <1>2, <1>3, <1>4, <1>5, <1>6 DEF LoopTypeOK, envVars, workVars, FeedInv
<1>8. WorkInHand' /\ todo' = <<>> /\ batch' = <<>>
  BY <1>1, <1>2, <1>5 DEF WorkInHand, workVars
<1>9. WorkFollows'
  BY <1>8, EmptySeq DEF WorkFollows
<1>10. HeightRecorded'
  <2>1. taskNum <= curHeight /\ taskNum \in Nat
    BY <1>1, <1>5 DEF HeightRecorded, LoopTypeOK
  <2>2. taskNum' <= curHeight'
    BY <1>2, <1>3, <2>1
  <2>3. QED
    BY <1>1, <1>2, <2>2 DEF HeightRecorded, OkBlocks, OkRows
<1>11. QED
  BY <1>1, <1>4, <1>7, <1>8, <1>9, <1>10 DEF WorkInv, RowsTypeOK

LEMMA ReadFailsFacts ==
    ASSUME LoopTypeOK, FeedInv, ReadFails
    PROVE  /\ UNCHANGED <<curHeight, latestHeight, compensation, workVars,
                          feedVars, taskNum, envVars, history>>
           /\ PcMoves /\ LoopTypeOK'
           /\ \A i \in DOMAIN cache' : \E j \in DOMAIN cache : cache'[i] = cache[j]
<1>1. /\ pc = "catchup" /\ cache' = CacheLeft /\ pc' = "loop"
      /\ UNCHANGED <<curHeight, latestHeight, compensation, workVars,
                     feedVars, taskNum, envVars, history>>
  BY DEF ReadFails
<1>2. /\ cache' \in Seq(Blocks) /\ Len(cache') <= BufferSize
      /\ \A i \in DOMAIN cache' : \E j \in DOMAIN cache : cache'[i] = cache[j]
  BY <1>1, FoundFacts
<1>3. PcMoves /\ pc' \in Running
  BY <1>1 DEF PcMoves, Between, Running
<1>4. LoopTypeOK'
  BY <1>1, <1>2, <1>3 DEF LoopTypeOK, FeedTypeOK, envVars, workVars, history, feedVars
<1>5. QED
  BY <1>1, <1>2, <1>3, <1>4

LEMMA ReadFailsWork == ASSUME WorkInv, ReadFails, UNCHANGED rows PROVE WorkInv'
<1>1. LoopTypeOK /\ FeedInv
  BY DEF WorkInv, RowsTypeOK
<1>2. /\ UNCHANGED <<curHeight, latestHeight, compensation, workVars,
                     feedVars, taskNum, envVars, history>>
      /\ PcMoves /\ LoopTypeOK'
  BY <1>1, ReadFailsFacts
<1>3. FeedInv'
  BY <1>1, <1>2, FeedStays
<1>4. QED
  BY <1>2, <1>3, QuietWork DEF PcMoves, workVars, history

\* handleBlocks takes the first blocks of those it goes through.
LEMMA CutFacts ==
    ASSUME LoopTypeOK, NEW max \in Nat \ {0}, NEW next, Cut(max, next), todo # <<>>
    PROVE  /\ pc = "handle" /\ pc' = next
           /\ UNCHANGED <<loopVars, inHand, tries, feedVars, taskNum, envVars, history>>
           /\ batch' \in Seq(Blocks) /\ todo' \in Seq(Blocks) /\ batch' # <<>>
           /\ Len(batch') \in Nat
           /\ \A i \in DOMAIN batch' : i \in DOMAIN todo /\ batch'[i] = todo[i]
           /\ \A i \in DOMAIN todo' : /\ Len(batch') + i \in DOMAIN todo
                                      /\ todo'[i] = todo[Len(batch') + i]
<1>1. PICK k \in 1..Min({max, Len(todo)}) :
         batch' = SubSeq(todo, 1, k) /\ todo' = SubSeq(todo, k + 1, Len(todo))
  BY DEF Cut
<1> DEFINE n == Len(todo)
<1>2. /\ n \in Nat /\ n >= 1 /\ DOMAIN todo = 1..n /\ \A i \in 1..n : todo[i] \in Blocks
      /\ max \in Nat
  BY LenProperties, ElementOfSeq, EmptySeq DEF LoopTypeOK
<1> HIDE DEF n
<1>3. k \in 1..n
  <2>1. Min({max, n}) \in {max, n} /\ Min({max, n}) <= n
    <3>1. max \in Int /\ n \in Int
      BY <1>2
    <3>2. QED
      BY <3>1, MinOfTwo
  <2>2. k \in 1..Min({max, n})
    BY <1>1 DEF n
  <2>3. QED
    BY <1>2, <2>1, <2>2
<1>4. /\ SubSeq(todo, 1, k) \in Seq(Blocks)
      /\ Len(SubSeq(todo, 1, k)) = IF 1 <= k THEN k - 1 + 1 ELSE 0
      /\ \A i \in 1..(k - 1 + 1) : SubSeq(todo, 1, k)[i] = todo[1 + i - 1]
  <2>1. 1 \in Int /\ k \in Int /\ \A i \in 1..k : todo[i] \in Blocks
    BY <1>2, <1>3
  <2>2. QED
    BY <2>1, SubSeqProperties
<1>5. /\ SubSeq(todo, k + 1, n) \in Seq(Blocks)
      /\ Len(SubSeq(todo, k + 1, n)) = IF k + 1 <= n THEN n - (k + 1) + 1 ELSE 0
      /\ \A i \in 1..(n - (k + 1) + 1) : SubSeq(todo, k + 1, n)[i] = todo[(k + 1) + i - 1]
  <2>1. k + 1 \in Int /\ n \in Int /\ \A i \in (k + 1)..n : todo[i] \in Blocks
    BY <1>2, <1>3
  <2>2. QED
    BY <2>1, SubSeqProperties
<1>6. /\ batch' \in Seq(Blocks) /\ Len(batch') = k /\ DOMAIN batch' = 1..k
      /\ \A i \in 1..k : i \in 1..n /\ batch'[i] = todo[i]
  <2>1. batch' \in Seq(Blocks) /\ Len(batch') = k
    BY <1>1, <1>3, <1>4
  <2>2. \A i \in 1..k : i \in 1..n /\ i \in 1..(k - 1 + 1) /\ 1 + i - 1 = i
    BY <1>2, <1>3
  <2>3. QED
    BY <1>1, <1>4, <2>1, <2>2, LenProperties
<1>7. /\ todo' \in Seq(Blocks)
      /\ \A i \in DOMAIN todo' : k + i \in 1..n /\ todo'[i] = todo[k + i]
  <2>1. todo' \in Seq(Blocks) /\ Len(todo') = n - k
    <3>1. todo' = SubSeq(todo, k + 1, n)
      BY <1>1 DEF n
    <3>2. Len(SubSeq(todo, k + 1, n)) = n - k
      BY <1>2, <1>3, <1>5
    <3>3. QED
      BY <1>5, <3>1, <3>2
  <2>2. DOMAIN todo' = 1..(n - k)
    BY <2>1, LenProperties
  <2>3. \A i \in 1..(n - k) : /\ k + i \in 1..n /\ (k + 1) + i - 1 = k + i
                              /\ i \in 1..(n - (k + 1) + 1)
    BY <1>2, <1>3
  <2>4. QED
    BY <1>1, <1>5, <2>1, <2>2, <2>3 DEF n
<1>8. batch' # <<>> /\ Len(batch') \in Nat
  BY <1>3, <1>6, EmptySeq
<1>9. QED
  BY <1>2, <1>6, <1>7, <1>8 DEF Cut

LEMMA HandleWork ==
    ASSUME WorkInv, NEW next \in {"save", "origin"}, Cut(MaxBlockCount, next), UNCHANGED rows
    PROVE  WorkInv'
<1>1. LoopTypeOK /\ FeedInv /\ RowsTypeOK /\ WorkInHand /\ HeightRecorded /\ WorkFollows
  BY DEF WorkInv, RowsTypeOK
<1>2. pc = "handle" /\ todo # <<>> /\ batch = <<>> /\ tries = 0
  BY <1>1 DEF Cut, WorkInHand
<1>3. /\ pc' = next
      /\ UNCHANGED <<loopVars, inHand, tries, feedVars, taskNum, envVars, history>>
      /\ batch' \in Seq(Blocks) /\ todo' \in Seq(Blocks) /\ batch' # <<>>
      /\ Len(batch') \in Nat
      /\ \A i \in DOMAIN batch' : i \in DOMAIN todo /\ batch'[i] = todo[i]
      /\ \A i \in DOMAIN todo' : /\ Len(batch') + i \in DOMAIN todo
                                 /\ todo'[i] = todo[Len(batch') + i]
  BY <1>1, <1>2, CutFacts, RowsTaskAssumption
<1>4. FeedInv'
  BY <1>1, <1>3, FeedStays
<1>5. /\ pc \in Running /\ pc' \in Running /\ pc' \notin Between
      /\ pc \notin {"save", "height"} /\ curHeight' = curHeight
  BY <1>2, <1>3 DEF Between, Running, loopVars
<1>6. LoopTypeOK'
  BY <1>1, <1>3, <1>4, <1>5 DEF LoopTypeOK, loopVars, envVars, history, FeedInv
<1>7. WorkFollows'
  <2>1. \A i \in DOMAIN todo : i \in Nat /\ todo[i].num = curHeight + i
    <3>1. \A i \in DOMAIN todo : todo[i].num = curHeight + 0 + i
      BY <1>1, <1>2, EmptySeq DEF WorkFollows
    <3>2. \A i \in DOMAIN todo : i \in Nat
      BY <1>1, LenProperties DEF LoopTypeOK
    <3>3. QED
      BY <1>1, <3>1, <3>2 DEF LoopTypeOK
  <2>2. \A i \in DOMAIN batch' : batch'[i].num = curHeight' + i
    BY <1>3, <1>5, <2>1
  <2>3. \A i \in DOMAIN todo' : todo'[i].num = curHeight' + Len(batch') + i
    <3> SUFFICES ASSUME NEW i \in DOMAIN todo'
                 PROVE  todo'[i].num = curHeight' + Len(batch') + i
      OBVIOUS
    <3>1. todo'[i].num = curHeight + (Len(batch') + i)
      BY <1>3, <2>1
    <3>2. i \in Nat
      BY <1>3, LenProperties
    <3>3. QED
      BY <1>1, <1>3, <1>5, <3>1, <3>2 DEF LoopTypeOK
  <2>4. QED
    BY <2>2, <2>3 DEF WorkFollows
<1>8. WorkInHand'
  BY <1>1, <1>2, <1>3, <1>5, AsyncTaskAssumption DEF WorkInHand
<1>9. HeightRecorded'
  BY <1>1, <1>3, <1>5 DEF HeightRecorded, OkBlocks, OkRows, history
<1>10. QED
  BY <1>1, <1>4, <1>6, <1>7, <1>8, <1>9 DEF WorkInv, RowsTypeOK

\* A batch: the blocks above the height, up to that of its last one.
LEMMA BatchFacts ==
    ASSUME WorkInv, pc \in {"save", "height"}
    PROVE  /\ curHeight \in Nat /\ taskNum \in Nat /\ Len(batch) \in Nat /\ Len(batch) >= 1
           /\ batch \in Seq(Blocks) /\ DOMAIN batch = 1..Len(batch)
           /\ \A i \in 1..Len(batch) : batch[i].num = curHeight + i
           /\ Last(batch).num = curHeight + Len(batch)
           /\ \/ taskNum <= curHeight
              \/ LostAnswers /\ (pc = "save" => tries > 0)
           /\ taskNum <= Last(batch).num
<1>1. LoopTypeOK /\ WorkFollows /\ WorkInHand /\ HeightRecorded /\ pc \in Running
  BY DEF WorkInv, RowsTypeOK, Running
<1>2. /\ curHeight \in Nat /\ taskNum \in Nat /\ batch \in Seq(Blocks) /\ batch # <<>>
  BY <1>1 DEF LoopTypeOK, WorkInHand
<1>3. Len(batch) \in Nat /\ Len(batch) >= 1 /\ DOMAIN batch = 1..Len(batch)
  BY <1>2, LenProperties, EmptySeq
<1>4. \A i \in 1..Len(batch) : batch[i].num = curHeight + i
  BY <1>1, <1>3 DEF WorkFollows
<1>5. Last(batch).num = curHeight + Len(batch)
  <2>1. Len(batch) \in 1..Len(batch) /\ Last(batch) = batch[Len(batch)]
    BY <1>3 DEF Last
  <2>2. QED
    BY <1>4, <2>1
<1>6. \/ taskNum <= curHeight
      \/ LostAnswers /\ (pc = "save" => tries > 0) /\ taskNum = Last(batch).num
  BY <1>1 DEF HeightRecorded
<1>7. taskNum <= Last(batch).num
  BY <1>2, <1>3, <1>5, <1>6
<1>8. QED
  BY <1>2, <1>3, <1>4, <1>5, <1>6, <1>7

\* The batch goes into the table.
LEMMA WrittenFacts ==
    ASSUME WorkInv, pc = "save", InsertRows(batch)
    PROVE  /\ rows' \in Seq(Row) /\ Last(batch).num \in Nat
           /\ OkBlocks' = OkBlocks \cup ToSet(batch)
<1>1. /\ curHeight \in Nat /\ Len(batch) \in Nat /\ batch \in Seq(Blocks)
      /\ DOMAIN batch = 1..Len(batch)
      /\ Last(batch).num = curHeight + Len(batch)
  BY BatchFacts
<1>2. rows \in Seq(Row)
  BY DEF WorkInv, RowsTypeOK, Row
<1>3. /\ rows' \in Seq(Row)
      /\ OkBlocks' = OkBlocks \cup {batch[k] : k \in 1..Len(batch)}
  BY <1>1, <1>2, InsertFacts
<1>4. QED
  BY <1>1, <1>3 DEF ToSet

\* The height is recorded, with the rows or after them, and the task goes on.
LEMMA RecordedWork ==
    ASSUME WorkInv, pc \in {"save", "height"}, taskNum' = Last(batch).num, Saved,
           rows' \in Seq(Row),
           UNCHANGED <<cache, latestHeight, compensation, feedVars, envVars, history>>
    PROVE  WorkInv'
<1>1. LoopTypeOK /\ FeedInv /\ RowsTypeOK /\ WorkInHand /\ HeightRecorded /\ WorkFollows
  BY DEF WorkInv, RowsTypeOK
<1>2. /\ curHeight' = Last(batch).num /\ batch' = <<>> /\ tries' = 0
      /\ pc' = IF todo # <<>> THEN "handle"
               ELSE IF inHand # <<>> THEN "drain" ELSE "loop"
      /\ inHand' = IF todo # <<>> THEN inHand ELSE <<>>
      /\ todo' = todo
  BY DEF Saved
<1>3. taskNum' \in Nat
  <2>1. Last(batch).num = curHeight + Len(batch) /\ curHeight \in Nat /\ Len(batch) \in Nat
    BY BatchFacts
  <2>2. QED
    BY <2>1
<1>4. FeedInv'
  BY <1>1, <1>2, FeedStays
<1>5. /\ pc' \in Running /\ pc' \in {"handle", "drain", "loop"}
      /\ "drain" \in Between /\ "loop" \in Between /\ "handle" \notin Between
  BY <1>2 DEF Running, Between
<1>6. LoopTypeOK'
  <2>1. /\ inHand' \in Seq(Event) /\ Len(inHand') <= 1 /\ <<>> \in Seq(Blocks)
    BY <1>1, <1>2, EmptySeq DEF LoopTypeOK
  <2>2. 0 \in 0..(RetryTimes + 1)
    BY AsyncTaskAssumption
  <2>3. FeedTypeOK'
    BY <1>4 DEF FeedInv
  <2>4. QED
    BY <1>1, <1>2, <1>3, <1>5, <2>1, <2>2, <2>3 DEF LoopTypeOK, envVars, history
<1>7. WorkFollows'
  <2>1. \A i \in DOMAIN todo : todo[i].num = Last(batch).num + 0 + i
    <3> SUFFICES ASSUME NEW i \in DOMAIN todo
                 PROVE  todo[i].num = Last(batch).num + 0 + i
      OBVIOUS
    <3>1. todo[i].num = curHeight + Len(batch) + i
      BY <1>1 DEF WorkFollows
    <3>2. /\ Last(batch).num = curHeight + Len(batch)
          /\ curHeight \in Nat /\ Len(batch) \in Nat
      BY <1>2, BatchFacts
    <3>3. i \in Nat
      BY <1>1, LenProperties DEF LoopTypeOK
    <3>4. QED
      BY <3>1, <3>2, <3>3
  <2>2. QED
    BY <1>2, <2>1, EmptySeq DEF WorkFollows
<1>8. WorkInHand'
  BY <1>1, <1>2, <1>5, EmptySeq, AsyncTaskAssumption DEF WorkInHand
<1>9. HeightRecorded'
  BY <1>2, <1>3 DEF HeightRecorded
<1>10. QED
  BY <1>4, <1>6, <1>7, <1>8, <1>9 DEF WorkInv, RowsTypeOK, Row

LEMMA SaveWork == ASSUME WorkInv, SaveWithHeight PROVE WorkInv'
BY WrittenFacts, RecordedWork DEF SaveWithHeight

LEMMA WriteHeightWork == ASSUME WorkInv, WriteHeight PROVE WorkInv'
<1>1. rows' \in Seq(Row)
  BY DEF WriteHeight, WorkInv, RowsTypeOK, Row
<1>2. QED
  BY <1>1, RecordedWork DEF WriteHeight

LEMMA RetryFacts ==
    ASSUME WorkInv, Retry, pc \in {"save", "height", "revert"}
    PROVE  /\ tries' \in Nat /\ tries' > 0 /\ tries' \in 0..(RetryTimes + 1)
           /\ pc' \in {pc, "exited"} /\ "exited" \notin Running
           /\ pc' \in Running => tries' <= RetryTimes
           /\ pc \in Running
           /\ UNCHANGED <<loopVars, inHand, todo, batch>>
<1>1. /\ tries' = tries + 1 /\ pc' = IF tries' > RetryTimes THEN "exited" ELSE pc
      /\ UNCHANGED <<loopVars, inHand, todo, batch>>
  BY DEF Retry
<1>2. pc \in Running /\ "exited" \notin Running
  BY DEF Running
<1>3. tries \in Nat /\ tries <= RetryTimes /\ RetryTimes \in Nat
  BY <1>2, AsyncTaskAssumption DEF WorkInv, RowsTypeOK, LoopTypeOK, WorkInHand
<1>4. QED
  BY <1>1, <1>2, <1>3

\* An attempt failed: rows and height as they were.
LEMMA FailWork ==
    ASSUME WorkInv, SaveFails \/ RevertFails \/ WriteHeightFails PROVE WorkInv'
<1>1. LoopTypeOK /\ FeedInv /\ RowsTypeOK /\ WorkInHand /\ HeightRecorded /\ WorkFollows
  BY DEF WorkInv, RowsTypeOK
<1>2. /\ pc \in {"save", "height", "revert"} /\ Retry
      /\ UNCHANGED <<rows, feedVars, taskNum, envVars, history>>
  BY DEF SaveFails, RevertFails, WriteHeightFails
<1>3. /\ tries' \in Nat /\ tries' > 0 /\ tries' \in 0..(RetryTimes + 1)
      /\ pc' \in {pc, "exited"} /\ "exited" \notin Running
      /\ pc' \in Running => tries' <= RetryTimes
      /\ pc \in Running
      /\ UNCHANGED <<loopVars, inHand, todo, batch>>
  BY <1>2, RetryFacts
<1>4. FeedInv'
  BY <1>1, <1>2, FeedStays
<1>5. LoopTypeOK'
  BY <1>1, <1>2, <1>3, <1>4 DEF LoopTypeOK, loopVars, envVars, history, FeedInv
<1>6. pc' \notin Between /\ pc' # "handle"
  BY <1>2, <1>3 DEF Between
<1>7. WorkFollows'
  BY <1>1, <1>3 DEF WorkFollows, loopVars
<1>8. WorkInHand'
  BY <1>1, <1>2, <1>3, <1>6 DEF WorkInHand, loopVars, history
<1>9. HeightRecorded'
  BY <1>1, <1>2, <1>3 DEF HeightRecorded, OkBlocks, OkRows, loopVars, history
<1>10. QED
  BY <1>1, <1>2, <1>4, <1>5, <1>7, <1>8, <1>9 DEF WorkInv, RowsTypeOK

LEMMA SaveLostWork ==
    ASSUME WorkInv, SaveAnswerLost \/ WriteRowsAnswerLost PROVE WorkInv'
<1>1. LoopTypeOK /\ FeedInv /\ RowsTypeOK /\ WorkInHand /\ HeightRecorded /\ WorkFollows
  BY DEF WorkInv, RowsTypeOK
<1>2. /\ LostAnswers /\ pc = "save" /\ Retry /\ InsertRows(batch)
      /\ taskNum' \in {taskNum, Last(batch).num}
      /\ UNCHANGED <<feedVars, envVars, history>>
  BY DEF SaveAnswerLost, WriteRowsAnswerLost
<1>3. /\ tries' \in Nat /\ tries' > 0 /\ tries' \in 0..(RetryTimes + 1)
      /\ pc' \in {pc, "exited"} /\ "exited" \notin Running
      /\ pc' \in Running => tries' <= RetryTimes
      /\ UNCHANGED <<loopVars, inHand, todo, batch>>
  BY <1>2, RetryFacts
<1>4. rows' \in Seq(Row) /\ taskNum' \in Nat
  BY <1>1, <1>2, WrittenFacts DEF LoopTypeOK
<1>5. FeedInv'
  BY <1>1, <1>2, FeedStays
<1>6. LoopTypeOK'
  BY <1>1, <1>2, <1>3, <1>4, <1>5 DEF LoopTypeOK, loopVars, envVars, history, FeedInv
<1>7. pc' \notin Between /\ pc' \notin {"handle", "origin", "height", "revert"}
  BY <1>2, <1>3 DEF Between
<1>8. WorkFollows'
  BY <1>1, <1>3 DEF WorkFollows, loopVars
<1>9. WorkInHand'
  BY <1>1, <1>2, <1>3, <1>7 DEF WorkInHand, loopVars
<1>10. HeightRecorded'
  <2>1. pc' \in Running => pc' = "save"
    BY <1>2, <1>3
  <2>2. CASE taskNum' = Last(batch).num
    BY <1>2, <1>3, <2>1, <2>2 DEF HeightRecorded
  <2>3. CASE taskNum' = taskNum
    <3>1. \/ taskNum <= curHeight
          \/ LostAnswers /\ taskNum = Last(batch).num
      BY <1>1, <1>2 DEF HeightRecorded, Running
    <3>2. QED
      BY <1>2, <1>3, <2>1, <2>3, <3>1 DEF HeightRecorded, loopVars
  <2>4. QED
    BY <1>2, <2>2, <2>3
<1>11. QED
  BY <1>4, <1>5, <1>6, <1>8, <1>9, <1>10 DEF WorkInv, RowsTypeOK, Row

LEMMA WriteRowsWork == ASSUME WorkInv, WriteRows PROVE WorkInv'
<1>1. LoopTypeOK /\ FeedInv /\ RowsTypeOK /\ WorkInHand /\ HeightRecorded /\ WorkFollows
  BY DEF WorkInv, RowsTypeOK
<1>2. /\ pc = "save" /\ InsertRows(batch) /\ pc' = "height" /\ tries' = 0
      /\ UNCHANGED <<loopVars, inHand, todo, batch, feedVars, taskNum, envVars, history>>
  BY DEF WriteRows
<1>3. rows' \in Seq(Row)
  BY <1>2, WrittenFacts
<1>4. FeedInv'
  BY <1>1, <1>2, FeedStays
<1>5. pc' \in Running /\ pc' \notin Between /\ pc \in Running
  BY <1>2 DEF Running, Between
<1>6. LoopTypeOK'
  BY <1>1, <1>2, <1>4, <1>5, AsyncTaskAssumption
     DEF LoopTypeOK, loopVars, envVars, history, FeedInv
<1>7. WorkFollows'
  BY <1>1, <1>2 DEF WorkFollows, loopVars
<1>8. WorkInHand'
  BY <1>1, <1>2, <1>5, AsyncTaskAssumption DEF WorkInHand
<1>9. HeightRecorded'
  BY <1>1, <1>2, <1>5 DEF HeightRecorded, loopVars
<1>10. QED
  BY <1>3, <1>4, <1>6, <1>7, <1>8, <1>9 DEF WorkInv, RowsTypeOK, Row

LEMMA OriginWork == ASSUME WorkInv, OriginKnown PROVE WorkInv'
<1>1. LoopTypeOK /\ FeedInv /\ RowsTypeOK /\ WorkInHand /\ HeightRecorded /\ WorkFollows
  BY DEF WorkInv, RowsTypeOK
<1>2. /\ pc = "origin" /\ pc' = "save"
      /\ UNCHANGED <<loopVars, workVars, feedVars, taskNum, envVars, history, rows>>
  BY DEF OriginKnown
<1>3. FeedInv'
  BY <1>1, <1>2, FeedStays
<1>4. pc' \in Running /\ pc' \notin Between /\ pc \in Running
  BY <1>2 DEF Running, Between
<1>5. LoopTypeOK'
  BY <1>1, <1>2, <1>3, <1>4 DEF LoopTypeOK, loopVars, workVars, envVars, history, FeedInv
<1>6. WorkFollows'
  BY <1>1, <1>2 DEF WorkFollows, loopVars, workVars
<1>7. WorkInHand'
  BY <1>1, <1>2, <1>4 DEF WorkInHand, workVars
<1>8. HeightRecorded'
  BY <1>1, <1>2, <1>4 DEF HeightRecorded, loopVars
<1>9. QED
  BY <1>1, <1>2, <1>3, <1>5, <1>6, <1>7, <1>8 DEF WorkInv, RowsTypeOK

LEMMA RowsBlocks == RowsTypeOK => /\ rows \in Seq(Row) /\ OkBlocks \subseteq Blocks
                                  /\ \A i \in DOMAIN rows : rows[i].blk \in Blocks
<1> SUFFICES ASSUME RowsTypeOK
             PROVE  /\ rows \in Seq(Row) /\ OkBlocks \subseteq Blocks
                    /\ \A i \in DOMAIN rows : rows[i].blk \in Blocks
  OBVIOUS
<1>1. rows \in Seq(Row)
  BY DEF RowsTypeOK, Row
<1>2. \A i \in DOMAIN rows : rows[i] \in Row
  BY <1>1, LenProperties, ElementOfSeq
<1>3. \A i \in DOMAIN rows : rows[i].blk \in Blocks
  BY <1>2 DEF Row
<1>4. QED
  BY <1>1, <1>3 DEF OkBlocks, OkRows

\* doRevert of the block in hand: its height has no rows that count any more,
\* and what is above it went astray.
LEMMA MarkedFacts ==
    ASSUME WorkInv, pc = "revert", MarkedWithHeight
    PROVE  \E b \in gone :
              /\ inHand = <<Reverting(b)>> /\ inHand[1].blk = b
              /\ b \in Blocks /\ b.num \in Nat /\ b.num >= 1 /\ curHeight >= b.num
              /\ taskNum' = b.num - 1 /\ taskNum' \in Nat
              /\ rows' \in Seq(Row) /\ DOMAIN rows' = DOMAIN rows
              /\ \A i \in DOMAIN rows : rows'[i].blk = rows[i].blk
              /\ OkRows' = {i \in OkRows : rows[i].blk.num # b.num}
              /\ OkBlocks' = {x \in OkBlocks : x.num # b.num}
              /\ astray' \subseteq Blocks /\ astray \subseteq astray'
              /\ \A x \in OkBlocks' : x.num <= taskNum' \/ x \in astray'
<1>1. RowsTypeOK /\ LoopTypeOK /\ WorkInHand
  BY DEF WorkInv, RowsTypeOK
<1>2. PICK b \in gone : inHand = <<Reverting(b)>> /\ curHeight >= b.num
  BY <1>1 DEF WorkInHand
<1>3. inHand[1].blk = b /\ b \in Blocks /\ b.num \in Nat /\ b.num >= 1
  BY <1>1, <1>2, TaskFeedAssumption DEF Reverting, LoopTypeOK
<1>4. /\ MarkRows(b.num) /\ taskNum' = b.num - 1
      /\ astray' = astray \cup {x \in OkBlocks : x.num > b.num}
  BY <1>3 DEF MarkedWithHeight, LeftAbove
<1>5. rows \in Seq(Row) /\ OkBlocks \subseteq Blocks
  BY <1>1, RowsBlocks
<1>6. /\ rows' \in Seq(Row) /\ DOMAIN rows' = DOMAIN rows
      /\ \A i \in DOMAIN rows : rows'[i].blk = rows[i].blk
      /\ OkRows' = {i \in OkRows : rows[i].blk.num # b.num}
      /\ OkBlocks' = {x \in OkBlocks : x.num # b.num}
  BY <1>4, <1>5, MarkFacts
<1>7. \A x \in OkBlocks' : x.num <= taskNum' \/ x \in astray'
  <2> SUFFICES ASSUME NEW x \in OkBlocks', ~(x.num <= taskNum') PROVE x \in astray'
    OBVIOUS
  <2>1. x \in OkBlocks /\ x.num # b.num /\ x.num \in Nat
    BY <1>5, <1>6, TaskFeedAssumption
  <2>2. x.num > b.num
    BY <1>3, <1>4, <2>1
  <2>3. QED
    BY <1>4, <2>1, <2>2
<1>8. taskNum' \in Nat /\ astray' \subseteq Blocks /\ astray \subseteq astray'
  BY <1>1, <1>3, <1>4, <1>5 DEF LoopTypeOK
<1>9. QED
  BY <1>2, <1>3, <1>4, <1>6, <1>7, <1>8

LEMMA RevertWork == ASSUME WorkInv, Revert PROVE WorkInv'
<1>1. LoopTypeOK /\ FeedInv /\ RowsTypeOK /\ WorkInHand /\ HeightRecorded
  BY DEF WorkInv, RowsTypeOK
<1>2. /\ pc = "revert" /\ MarkedWithHeight
      /\ curHeight' = inHand[1].blk.num - 1 /\ latestHeight' = inHand[1].blk.num - 1
      /\ inHand' = <<>> /\ tries' = 0 /\ pc' = "drain"
      /\ UNCHANGED <<cache, compensation, todo, batch>>
      /\ UNCHANGED <<feedVars, envVars, skipped, gone>>
  BY DEF Revert, Reverted, MarkedWithHeight
<1>3. PICK b \in gone :
         /\ inHand[1].blk = b /\ b.num \in Nat /\ b.num >= 1
         /\ taskNum' = b.num - 1 /\ taskNum' \in Nat
         /\ rows' \in Seq(Row) /\ astray' \subseteq Blocks
         /\ \A x \in OkBlocks' : x.num <= taskNum' \/ x \in astray'
  BY <1>2, MarkedFacts
<1>4. FeedInv'
  BY <1>1, <1>2, FeedStays
<1>5. /\ pc' \in Between /\ pc' \in Running /\ pc' \notin AtWork
  BY <1>2 DEF Between, Running
<1>6. curHeight' = taskNum' /\ latestHeight' = taskNum' /\ todo' = <<>> /\ batch' = <<>>
  BY <1>1, <1>2, <1>3 DEF WorkInHand
<1>7. LoopTypeOK'
  <2>1. /\ <<>> \in Seq(Event) /\ Len(<<>>) <= 1
    BY EmptySeq
  <2>2. 0 \in 0..(RetryTimes + 1)
    BY AsyncTaskAssumption
  <2>3. FeedTypeOK'
    BY <1>4 DEF FeedInv
  <2>4. QED
    BY <1>1, <1>2, <1>3, <1>5, <1>6, <2>1, <2>2, <2>3 DEF LoopTypeOK, envVars
<1>8. WorkFollows'
  BY <1>6, EmptySeq DEF WorkFollows
<1>9. WorkInHand'
  BY <1>2, <1>5, <1>6, AsyncTaskAssumption DEF WorkInHand
<1>10. HeightRecorded'
  BY <1>3, <1>6 DEF HeightRecorded
<1>11. QED
  BY <1>3, <1>4, <1>7, <1>8, <1>9, <1>10 DEF WorkInv, RowsTypeOK, Row

LEMMA RevertLostWork == ASSUME WorkInv, RevertAnswerLost PROVE WorkInv'
<1>1. LoopTypeOK /\ FeedInv /\ RowsTypeOK /\ WorkInHand /\ HeightRecorded /\ WorkFollows
  BY DEF WorkInv, RowsTypeOK
<1>2. /\ pc = "revert" /\ MarkedWithHeight /\ Retry
      /\ UNCHANGED <<feedVars, envVars, skipped, gone>>
  BY DEF RevertAnswerLost, MarkedWithHeight
<1>3. PICK b \in gone :
         /\ b.num \in Nat /\ b.num >= 1 /\ curHeight >= b.num
         /\ taskNum' = b.num - 1 /\ taskNum' \in Nat
         /\ rows' \in Seq(Row) /\ astray' \subseteq Blocks
         /\ \A x \in OkBlocks' : x.num <= taskNum' \/ x \in astray'
  BY <1>2, MarkedFacts
<1>4. /\ tries' \in 0..(RetryTimes + 1)
      /\ pc' \in {pc, "exited"} /\ "exited" \notin Running
      /\ pc' \in Running => tries' <= RetryTimes
      /\ UNCHANGED <<loopVars, inHand, todo, batch>>
  BY <1>2, RetryFacts
<1>5. FeedInv'
  BY <1>1, <1>2, FeedStays
<1>6. LoopTypeOK'
  BY <1>1, <1>2, <1>3, <1>4, <1>5 DEF LoopTypeOK, loopVars, envVars, FeedInv
<1>7. pc' \notin Between /\ pc' \notin {"handle", "save"}
  BY <1>2, <1>4 DEF Between
<1>8. WorkFollows'
  BY <1>1, <1>4 DEF WorkFollows, loopVars
<1>9. WorkInHand'
  BY <1>1, <1>2, <1>4, <1>7 DEF WorkInHand, loopVars
<1>10. HeightRecorded'
  <2>1. taskNum' <= curHeight'
    BY <1>1, <1>3, <1>4 DEF loopVars, LoopTypeOK
  <2>2. QED
    BY <1>3, <2>1 DEF HeightRecorded
<1>11. QED
  BY <1>3, <1>5, <1>6, <1>8, <1>9, <1>10 DEF WorkInv, RowsTypeOK, Row

LEMMA RestartWork ==
    ASSUME WorkInv, NEW left \in SUBSET Blocks, RestartWith(left) PROVE WorkInv'
<1>1. LoopTypeOK /\ FeedInv /\ RowsTypeOK /\ HeightRecorded
  BY DEF WorkInv, RowsTypeOK
<1>2. /\ restarts < MaxRestarts /\ restarts' = restarts + 1 /\ stopping' = FALSE
      /\ FeedAgain /\ pc' = "created" /\ cache' = <<>>
      /\ curHeight' = taskNum /\ latestHeight' = 0 /\ compensation' = 0
      /\ inHand' = <<>> /\ todo' = <<>> /\ batch' = <<>> /\ tries' = 0
      /\ skipped' = (skipped \cap 1..taskNum) \cup {}
      /\ gone' = {} /\ astray' = astray \cup left
      /\ taskNum' = taskNum /\ rows' = rows
  BY DEF RestartWith, Restart
<1>3. FeedInv'
  BY <1>1, <1>2, FeedAgainFacts
<1>5. pc' \in Between /\ pc' \in Running /\ pc' \notin AtWork
  BY <1>2 DEF Between, Running
<1>6. LoopTypeOK'
  <2>1. /\ <<>> \in Seq(Blocks) /\ <<>> \in Seq(Event) /\ Len(<<>>) = 0
    BY EmptySeq
  <2>2. /\ 0 \in 0..CompensationCap /\ 0 \in 0..(RetryTimes + 1) /\ BufferSize \in Nat
        /\ MaxRestarts \in Nat
    BY AsyncTaskAssumption, TaskFeedAssumption
  <2>3. FeedTypeOK'
    BY <1>3 DEF FeedInv
  <2>4. restarts' \in 0..MaxRestarts /\ stopping' \in BOOLEAN
    <3>1. restarts \in 0..MaxRestarts
      BY <1>1 DEF LoopTypeOK
    <3>2. restarts + 1 \in 0..MaxRestarts
      BY <1>2, <2>2, <3>1
    <3>3. QED
      BY <1>2, <3>2
  <2>5. skipped' \subseteq Nat /\ gone' \subseteq Blocks /\ astray' \subseteq Blocks
    BY <1>1, <1>2 DEF LoopTypeOK
  <2>6. /\ cache' \in Seq(Blocks) /\ Len(cache') <= BufferSize
        /\ inHand' \in Seq(Event) /\ Len(inHand') <= 1
        /\ todo' \in Seq(Blocks) /\ batch' \in Seq(Blocks)
    BY <1>2, <2>1, <2>2
  <2>7. /\ curHeight' \in Nat /\ latestHeight' \in Nat /\ taskNum' \in Nat
        /\ compensation' \in 0..CompensationCap /\ tries' \in 0..(RetryTimes + 1)
    BY <1>1, <1>2, <2>2 DEF LoopTypeOK
  <2>8. QED
    BY <1>5, <2>3, <2>4, <2>5, <2>6, <2>7 DEF LoopTypeOK
<1>7. WorkFollows'
  BY <1>2, EmptySeq DEF WorkFollows
<1>8. WorkInHand'
  BY <1>2, <1>5, AsyncTaskAssumption DEF WorkInHand
<1>9. HeightRecorded'
  BY <1>1, <1>2 DEF HeightRecorded, LoopTypeOK
<1>10. QED
  BY <1>1, <1>2, <1>3, <1>6, <1>7, <1>8, <1>9 DEF WorkInv, RowsTypeOK

\* The steps of the tasks and their surroundings, by what they do.
LEMMA SharedCases ==
    ASSUME Shared
    PROVE  \/ Idle /\ UNCHANGED rows
           \/ (BaseApplies \/ \E e \in Event : Publish(e)) /\ UNCHANGED rows
           \/ \E e \in Event : /\ PassedBy(e) \/ ReceiveNext(e) \/ ReceiveRevert(e)
                               /\ UNCHANGED rows
           \/ ReadFound(RangeEnd) /\ UNCHANGED rows
           \/ Skip(RangeEnd, "loop") /\ UNCHANGED rows
           \/ ReadFails /\ UNCHANGED rows
           \/ /\ \E next \in {"save", "origin"} : Cut(MaxBlockCount, next)
              /\ UNCHANGED rows
           \/ OriginKnown
           \/ SaveWithHeight \/ SaveAnswerLost
           \/ Revert \/ RevertAnswerLost
           \/ SaveFails \/ RevertFails
<1>1. CASE Step
  BY <1>1 DEF Step, LoopStep, FixHistoryData, Answered, Handle, Idle, PassedBy, Receive
<1>2. CASE Failure
  BY <1>2 DEF Failure
<1>3. CASE Environment /\ UNCHANGED rows
  BY <1>3 DEF Environment, Idle
<1>4. CASE CutForOrigin \/ OriginKnown
  BY <1>4 DEF CutForOrigin
<1>5. QED
  BY <1>1, <1>2, <1>3, <1>4 DEF Shared

LEMMA NextCases ==
    ASSUME TransferNext
    PROVE  \/ Idle /\ UNCHANGED rows
           \/ (BaseApplies \/ \E e \in Event : Publish(e)) /\ UNCHANGED rows
           \/ \E e \in Event : /\ PassedBy(e) \/ ReceiveNext(e) \/ ReceiveRevert(e)
                               /\ UNCHANGED rows
           \/ ReadFound(RangeEnd) /\ UNCHANGED rows
           \/ Skip(RangeEnd, "loop") /\ UNCHANGED rows
           \/ ReadFails /\ UNCHANGED rows
           \/ /\ \E next \in {"save", "origin"} : Cut(MaxBlockCount, next)
              /\ UNCHANGED rows
           \/ OriginKnown
           \/ SaveWithHeight \/ SaveAnswerLost
           \/ WriteRows \/ WriteRowsAnswerLost \/ WriteHeight
           \/ Revert \/ RevertAnswerLost
           \/ SaveFails \/ RevertFails \/ WriteHeightFails
           \/ \E left \in SUBSET Blocks : RestartWith(left)
BY SharedCases DEF TransferNext

LEMMA StutterWork == WorkInv /\ UNCHANGED rowsVars => WorkInv'
<1> SUFFICES ASSUME WorkInv, UNCHANGED rowsVars PROVE WorkInv'
  OBVIOUS
<1>1. LoopTypeOK /\ FeedInv
  BY DEF WorkInv, RowsTypeOK
<1>2. UNCHANGED <<pc, loopVars, workVars, feedVars, taskNum, envVars, history, rows>>
  BY DEF rowsVars
<1>3. FeedInv'
  BY <1>1, <1>2, FeedStays
<1>4. LoopTypeOK'
  BY <1>1, <1>2, <1>3 DEF LoopTypeOK, loopVars, workVars, envVars, history, FeedInv
<1>5. QED
  BY <1>2, <1>3, <1>4, QuietWork DEF loopVars, workVars, history

LEMMA NextWork == WorkInv /\ [TransferNext]_rowsVars => WorkInv'
<1> SUFFICES ASSUME WorkInv, TransferNext PROVE WorkInv'
  BY StutterWork
<1>1. QED
  BY NextCases, IdleWork, FeedWork, PassedByWork, ReceiveNextWork, ReceiveRevertWork,
     ReadFoundWork, SkipWork, ReadFailsWork, HandleWork, OriginWork, SaveWork, WriteRowsWork,
     WriteHeightWork, RevertWork, FailWork, SaveLostWork, RevertLostWork, RestartWork

\* The task's work follows its height, whatever the feed, base_data, failures
\* and restarts do.
THEOREM WorkInvariant == TransferSpec => []WorkInv
<1>1. RowsInit => WorkInv
  BY InitWorkInv
<1>2. WorkInv /\ [TransferNext]_rowsVars => WorkInv'
  BY NextWork
<1>3. QED
  BY <1>1, <1>2, PTL DEF TransferSpec

\* Where rows and height are committed together, no rows that count are above
\* the height, but of blocks that went astray.
RowsBelow == \A b \in OkBlocks : b.num <= taskNum \/ b \in astray

LEMMA BelowStep ==
    ASSUME WorkInv, RowsBelow, [JointNext]_rowsVars PROVE RowsBelow'
<1>1. rows' = rows => OkBlocks' = OkBlocks
  BY DEF OkBlocks, OkRows
<1>2. CASE rows' = rows /\ taskNum' = taskNum /\ astray \subseteq astray'
  BY <1>1, <1>2 DEF RowsBelow
<1>3. CASE pc = "save" /\ InsertRows(batch) /\ taskNum' = Last(batch).num /\ astray' = astray
  <2>1. OkBlocks' = OkBlocks \cup ToSet(batch)
    BY <1>3, WrittenFacts
  <2>2. /\ curHeight \in Nat /\ taskNum \in Nat /\ Len(batch) \in Nat
        /\ DOMAIN batch = 1..Len(batch)
        /\ \A i \in 1..Len(batch) : batch[i].num = curHeight + i
        /\ Last(batch).num = curHeight + Len(batch)
        /\ taskNum <= Last(batch).num
    BY <1>3, BatchFacts
  <2>3. \A b \in ToSet(batch) : b.num <= taskNum'
    BY <1>3, <2>2 DEF ToSet
  <2>4. \A b \in OkBlocks : b.num <= taskNum' \/ b \in astray'
    <3> SUFFICES ASSUME NEW b \in OkBlocks, b \notin astray' PROVE b.num <= taskNum'
      OBVIOUS
    <3>1. b.num <= taskNum /\ b.num \in Nat
      BY <1>3, RowsBlocks, TaskFeedAssumption DEF RowsBelow, WorkInv
    <3>2. QED
      BY <1>3, <2>2, <3>1
  <2>5. QED
    BY <2>1, <2>3, <2>4 DEF RowsBelow
<1>4. CASE pc = "revert" /\ MarkedWithHeight
  BY <1>4, MarkedFacts DEF RowsBelow
<1>5. CASE UNCHANGED rowsVars
  BY <1>2, <1>5 DEF rowsVars, history
<1>6. CASE Shared
  <2>1. CASE (Idle \/ BaseApplies \/ \E e \in Event : Publish(e)) /\ UNCHANGED rows
    BY <1>2, <2>1, IdleFacts DEF history, WorkInv, RowsTypeOK, BaseApplies, Publish
  <2>2. CASE \E e \in Event : /\ PassedBy(e) \/ ReceiveNext(e) \/ ReceiveRevert(e)
                              /\ UNCHANGED rows
    BY <1>2, <2>2 DEF PassedBy, ReceiveAhead, ReceiveOld, ReceiveRevertAbove, ReceiveNext,
                      ReceiveRevert, Take
  <2>3. CASE (ReadFound(RangeEnd) \/ Skip(RangeEnd, "loop") \/ ReadFails) /\ UNCHANGED rows
    BY <1>2, <2>3 DEF ReadFound, Skip, ReadFails, history
  <2>4. CASE \/ /\ \E next \in {"save", "origin"} : Cut(MaxBlockCount, next)
                /\ UNCHANGED rows
             \/ OriginKnown
    BY <1>2, <2>4 DEF Cut, OriginKnown, history
  <2>5. CASE SaveWithHeight \/ SaveAnswerLost
    BY <1>3, <2>5 DEF SaveWithHeight, SaveAnswerLost, history
  <2>6. CASE Revert \/ RevertAnswerLost
    BY <1>4, <2>6 DEF Revert, RevertAnswerLost
  <2>7. CASE SaveFails \/ RevertFails
    BY <1>2, <2>7 DEF SaveFails, RevertFails, history
  <2>8. QED
    BY <1>6, <2>1, <2>2, <2>3, <2>4, <2>5, <2>6, <2>7, SharedCases
<1>7. CASE Restart(OkBlocks \ ToSet(chain), {}) /\ UNCHANGED rows
  BY <1>2, <1>7 DEF Restart
<1>8. QED
  BY <1>5, <1>6, <1>7 DEF JointNext

LEMMA JointStep ==
    ASSUME WorkInv, RowsBelow, [JointNext]_rowsVars PROVE [TransferNext]_rowsVars
<1>1. CASE Restart(OkBlocks \ ToSet(chain), {}) /\ UNCHANGED rows
  <2> DEFINE left == OkBlocks \ ToSet(chain)
  <2>1. left \in SUBSET Blocks /\ \A b \in OkBlocks : b.num \in Nat /\ taskNum \in Nat
    BY RowsBlocks, TaskFeedAssumption DEF WorkInv, RowsTypeOK, LoopTypeOK
  <2>2. {b \in OkBlocks : b.num > taskNum} \subseteq astray
    BY <2>1 DEF RowsBelow
  <2>3. RestartWith(left)
    BY <1>1, <2>1, <2>2 DEF RestartWith
  <2>4. QED
    BY <2>1, <2>3 DEF TransferNext
<1>2. QED
  BY <1>1 DEF JointNext, TransferNext

LEMMA InitBelow == RowsInit => RowsBelow
<1> SUFFICES ASSUME RowsInit PROVE RowsBelow
  OBVIOUS
<1>1. /\ rows = [k \in 1..StartNumber |-> [blk |-> StartChain[k], state |-> "ok"]]
      /\ taskNum = StartNumber
  BY DEF RowsInit, Init, InitRows
<1>2. /\ Len(StartChain) \in Nat /\ DOMAIN StartChain = 1..Len(StartChain)
      /\ StartNumber \in 0..Len(StartChain)
  BY TaskFeedAssumption, AsyncTaskAssumption, LenProperties
<1>3. \A k \in 1..StartNumber : StartChain[k].num = k /\ k <= StartNumber
  BY <1>2, TaskFeedAssumption
<1>4. \A k \in 1..StartNumber : rows[k].blk.num <= StartNumber
  BY <1>1, <1>3
<1>5. \A b \in OkBlocks : \E k \in 1..StartNumber : b = rows[k].blk
  BY <1>1 DEF OkBlocks, OkRows
<1>6. \A b \in OkBlocks : b.num <= taskNum
  BY <1>1, <1>4, <1>5
<1>7. QED
  BY <1>6 DEF RowsBelow

LEMMA JointInvariant == JointSpec => [](WorkInv /\ RowsBelow)
<1>1. RowsInit => WorkInv /\ RowsBelow
  BY InitWorkInv, InitBelow
<1>2. WorkInv /\ RowsBelow /\ [JointNext]_rowsVars => WorkInv' /\ RowsBelow'
  BY BelowStep, JointStep, NextWork
<1>3. QED
  BY <1>1, <1>2, PTL DEF JointSpec

\* What is said of TransferSpec is true of tasks that commit rows and height
\* together.
LEMMA JointAreTransfers == JointSpec => TransferSpec
<1>1. WorkInv /\ RowsBelow /\ [JointNext]_rowsVars => [TransferNext]_rowsVars
  BY JointStep
<1>2. QED
  BY <1>1, JointInvariant, PTL DEF JointSpec, TransferSpec

\* erc1155_basic takes no other steps.
LEMMA RowsSteps == [RowsNext]_rowsVars => [JointNext]_rowsVars
BY DEF RowsNext, JointNext, Shared

LEMMA RowsAreJoint == RowsSpec => JointSpec
BY RowsSteps, PTL DEF RowsSpec, JointSpec

LEMMA RowsAreTransfers == RowsSpec => TransferSpec
BY RowsAreJoint, JointAreTransfers, PTL

----------------------------------------------------------------------------
(* What is written, and what is written again. *)

THEOREM RowsTypesHold == RowsSpec => []RowsTypeOK
<1>1. WorkInv => RowsTypeOK
  BY DEF WorkInv
<1>2. QED
  BY <1>1, RowsAreTransfers, WorkInvariant, PTL

\* Which steps write rows.
LEMMA RowsWritten ==
    ASSUME WorkInv, [TransferNext]_rowsVars
    PROVE  \/ rows' = rows /\ astray \subseteq astray'
           \/ pc = "save" /\ InsertRows(batch) /\ astray' = astray
           \/ pc = "revert" /\ MarkedWithHeight
<1>1. CASE UNCHANGED rowsVars
  BY <1>1 DEF rowsVars, history
<1>2. CASE TransferNext
  <2>1. CASE Idle /\ UNCHANGED rows
    BY <2>1, IdleFacts DEF history, WorkInv, RowsTypeOK
  <2>2. CASE (BaseApplies \/ \E e \in Event : Publish(e)) /\ UNCHANGED rows
    BY <2>2 DEF BaseApplies, Publish, history
  <2>3. CASE \E e \in Event : /\ PassedBy(e) \/ ReceiveNext(e) \/ ReceiveRevert(e)
                              /\ UNCHANGED rows
    BY <2>3 DEF PassedBy, ReceiveAhead, ReceiveOld, ReceiveRevertAbove, ReceiveNext,
                ReceiveRevert, Take
  <2>4. CASE ReadFound(RangeEnd) /\ UNCHANGED rows
    BY <2>4 DEF ReadFound
  <2>5. CASE Skip(RangeEnd, "loop") /\ UNCHANGED rows
    BY <2>5 DEF Skip
  <2>6. CASE ReadFails /\ UNCHANGED rows
    BY <2>6 DEF ReadFails, history
  <2>7. CASE /\ \E next \in {"save", "origin"} : Cut(MaxBlockCount, next)
             /\ UNCHANGED rows
    BY <2>7 DEF Cut, history
  <2>8. CASE OriginKnown
    BY <2>8 DEF OriginKnown, history
  <2>9. CASE SaveWithHeight \/ SaveAnswerLost \/ WriteRows \/ WriteRowsAnswerLost
    BY <2>9 DEF SaveWithHeight, SaveAnswerLost, WriteRows, WriteRowsAnswerLost, history
  <2>10. CASE WriteHeight
    BY <2>10 DEF WriteHeight, history
  <2>11. CASE Revert \/ RevertAnswerLost
    BY <2>11 DEF Revert, RevertAnswerLost
  <2>12. CASE SaveFails \/ RevertFails \/ WriteHeightFails
    BY <2>12 DEF SaveFails, RevertFails, WriteHeightFails, history
  <2>13. CASE \E left \in SUBSET Blocks : RestartWith(left)
    BY <2>13 DEF RestartWith, Restart
  <2>14. QED
    BY <1>2, <2>1, <2>2, <2>3, <2>4, <2>5, <2>6, <2>7, <2>8, <2>9, <2>10, <2>11, <2>12,
       <2>13, NextCases
<1>3. QED
  BY <1>1, <1>2

\* The rows that count are those up to the height recorded, those whose height
\* is being recorded, and those that went astray.
Accounted ==
    pc \in Running =>
        \A b \in OkBlocks : \/ b.num <= taskNum
                            \/ b \in astray
                            \/ pc \in {"save", "height"} /\ b \in ToSet(batch)

LEMMA AccountedStep ==
    ASSUME WorkInv, Accounted, [TransferNext]_rowsVars PROVE Accounted'
<1>1. rows' = rows => OkBlocks' = OkBlocks
  BY DEF OkBlocks, OkRows
<1>2. ASSUME rows' = rows, taskNum' = taskNum, astray \subseteq astray',
             \/ pc' \notin Running
             \/ pc' = pc /\ batch' = batch
             \/ pc \in Running \ {"save", "height"}
      PROVE  Accounted'
  BY <1>1, <1>2 DEF Accounted
<1>3. CASE UNCHANGED rowsVars
  BY <1>2, <1>3 DEF rowsVars, workVars, history
<1>4. CASE pc = "revert" /\ MarkedWithHeight
  BY <1>4, MarkedFacts DEF Accounted
<1>5. CASE /\ pc \in {"save", "height"} /\ taskNum' = Last(batch).num /\ astray' = astray
           /\ OkBlocks' \subseteq OkBlocks \cup ToSet(batch)
  <2>1. /\ curHeight \in Nat /\ taskNum \in Nat /\ Len(batch) \in Nat
        /\ DOMAIN batch = 1..Len(batch)
        /\ \A i \in 1..Len(batch) : batch[i].num = curHeight + i
        /\ Last(batch).num = curHeight + Len(batch)
        /\ taskNum <= Last(batch).num
    BY <1>5, BatchFacts
  <2>2. \A b \in ToSet(batch) : b.num <= taskNum'
    BY <1>5, <2>1 DEF ToSet
  <2>3. \A b \in OkBlocks : b.num \in Nat
    BY RowsBlocks, TaskFeedAssumption DEF WorkInv
  <2>4. pc \in Running
    BY <1>5 DEF Running
  <2>5. \A b \in OkBlocks : b.num <= taskNum => b.num <= taskNum'
    BY <1>5, <2>1, <2>3
  <2>6. QED
    BY <1>5, <2>2, <2>4, <2>5 DEF Accounted
<1>6. CASE /\ pc = "save" /\ InsertRows(batch) /\ taskNum' = taskNum /\ astray' = astray
           /\ pc' \in {"save", "height", "exited"} /\ batch' = batch
  <2>1. OkBlocks' = OkBlocks \cup ToSet(batch)
    BY <1>6, WrittenFacts
  <2>2. pc \in Running /\ "exited" \notin Running
    BY <1>6 DEF Running
  <2>3. QED
    BY <1>6, <2>1, <2>2 DEF Accounted
<1>7. CASE TransferNext
  <2>1. CASE Idle /\ UNCHANGED rows
    BY <1>2, <2>1, IdleFacts DEF PcMoves, Between, workVars, history, WorkInv, RowsTypeOK
  <2>2. CASE (BaseApplies \/ \E e \in Event : Publish(e)) /\ UNCHANGED rows
    BY <1>2, <2>2 DEF BaseApplies, Publish, workVars, history
  <2>3. CASE \E e \in Event : /\ PassedBy(e) \/ ReceiveNext(e) \/ ReceiveRevert(e)
                              /\ UNCHANGED rows
    BY <1>2, <2>3 DEF PassedBy, ReceiveAhead, ReceiveOld, ReceiveRevertAbove, ReceiveNext,
                      ReceiveRevert, Take, Running
  <2>4. CASE (ReadFound(RangeEnd) \/ Skip(RangeEnd, "loop") \/ ReadFails) /\ UNCHANGED rows
    BY <1>2, <2>4 DEF ReadFound, Skip, ReadFails, history, Running
  <2>5. CASE \/ /\ \E next \in {"save", "origin"} : Cut(MaxBlockCount, next)
                /\ UNCHANGED rows
             \/ OriginKnown
    BY <1>2, <2>5 DEF Cut, OriginKnown, history, Running
  <2>6. CASE SaveWithHeight \/ SaveAnswerLost
    BY <1>5, <2>6, WrittenFacts DEF SaveWithHeight, SaveAnswerLost, history
  <2>7. CASE WriteHeight
    BY <1>1, <1>5, <2>7 DEF WriteHeight, history
  <2>8. CASE WriteRows \/ WriteRowsAnswerLost
    BY <1>6, <2>8 DEF WriteRows, WriteRowsAnswerLost, Retry, history
  <2>9. CASE Revert \/ RevertAnswerLost
    BY <1>4, <2>9 DEF Revert, RevertAnswerLost
  <2>10. CASE SaveFails \/ RevertFails \/ WriteHeightFails
    <3>1. pc' = pc \/ pc' \notin Running
      BY <2>10, RetryFacts DEF SaveFails, RevertFails, WriteHeightFails
    <3>2. QED
      BY <1>2, <2>10, <3>1 DEF SaveFails, RevertFails, WriteHeightFails, Retry, history
  <2>11. CASE \E left \in SUBSET Blocks : RestartWith(left)
    <3>1. PICK left \in SUBSET Blocks : RestartWith(left)
      BY <2>11
    <3>2. /\ rows' = rows /\ taskNum' = taskNum /\ astray' = astray \cup left
          /\ {b \in OkBlocks : b.num > taskNum} \subseteq left \cup astray
      BY <3>1 DEF RestartWith, Restart
    <3>3. \A b \in OkBlocks : b.num \in Nat /\ taskNum \in Nat
      BY RowsBlocks, TaskFeedAssumption DEF WorkInv, RowsTypeOK, LoopTypeOK
    <3>4. \A b \in OkBlocks : b.num <= taskNum \/ b \in astray'
      BY <3>2, <3>3
    <3>5. QED
      BY <1>1, <3>2, <3>4 DEF Accounted
  <2>12. QED
    BY <1>7, <2>1, <2>2, <2>3, <2>4, <2>5, <2>6, <2>7, <2>8, <2>9, <2>10, <2>11, NextCases
<1>8. QED
  BY <1>3, <1>7

LEMMA AccountedInvariant == TransferSpec => []Accounted
<1>1. RowsInit => Accounted
  BY InitBelow DEF RowsBelow, Accounted
<1>2. WorkInv /\ Accounted /\ [TransferNext]_rowsVars => Accounted'
  BY AccountedStep
<1>3. QED
  BY <1>1, <1>2, WorkInvariant, PTL DEF TransferSpec

\* The rows of a block are only written for blocks above the height of the task.
LEMMA TransfersOnce == TransferSpec => TwiceOnlyUnrecorded
<1> DEFINE Twice ==
       \A i \in DOMAIN rows' \ DOMAIN rows :
          \A j \in OkRows : rows'[i].blk = rows[j].blk =>
              \/ rows[j].blk.num > taskNum \/ tries > 0
              \/ rows[j].blk \in astray
<1>1. WorkInv /\ [TransferNext]_rowsVars => Twice
  <2> SUFFICES ASSUME WorkInv, [TransferNext]_rowsVars, NEW i \in DOMAIN rows' \ DOMAIN rows,
                      NEW j \in OkRows, rows'[i].blk = rows[j].blk
               PROVE  rows[j].blk.num > taskNum \/ tries > 0
    OBVIOUS
  <2>1. rows \in Seq(Row)
    BY RowsBlocks DEF WorkInv
  <2>2. CASE pc = "save" /\ InsertRows(batch)
    <3>1. /\ curHeight \in Nat /\ taskNum \in Nat /\ Len(batch) \in Nat
          /\ batch \in Seq(Blocks)
          /\ \A k \in 1..Len(batch) : batch[k].num = curHeight + k
          /\ taskNum <= curHeight \/ tries > 0
      BY <2>2, BatchFacts
    <3>2. /\ rows' \in Seq(Row) /\ Len(rows') = Len(rows) + Len(batch) /\ Len(rows) \in Nat
          /\ \A k \in 1..Len(batch) :
                rows'[Len(rows) + k] = [blk |-> batch[k], state |-> "ok"]
      BY <2>1, <2>2, <3>1, InsertFacts
    <3>3. i \in 1..(Len(rows) + Len(batch)) /\ i \notin 1..Len(rows)
      BY <2>1, <3>2, LenProperties
    <3>4. i - Len(rows) \in 1..Len(batch) /\ Len(rows) + (i - Len(rows)) = i
      BY <3>1, <3>2, <3>3
    <3>5. PICK k \in 1..Len(batch) : i = Len(rows) + k
      BY <3>4
    <3>6. rows'[i] = [blk |-> batch[k], state |-> "ok"]
      BY <3>2, <3>5
    <3>7. rows'[i].blk = batch[k]
      BY <3>6
    <3>8. rows[j].blk.num = curHeight + k
      BY <3>1, <3>7
    <3>9. QED
      BY <3>1, <3>8
  <2>3. CASE ~(pc = "save" /\ InsertRows(batch))
    <3>1. DOMAIN rows' = DOMAIN rows
      <4>1. CASE rows' = rows
        BY <4>1
      <4>2. CASE pc = "revert" /\ MarkedWithHeight
        BY <4>2, MarkedFacts
      <4>3. QED
        BY <2>3, <4>1, <4>2, RowsWritten
    <3>2. QED
      BY <3>1
  <2>4. QED
    BY <2>2, <2>3
<1>2. QED
  BY <1>1, WorkInvariant, PTL DEF TransferSpec, TwiceOnlyUnrecorded

\* "curHeight + 1 is what is compared": rows are only ever written for blocks
\* above the height of the task, so the rows of a block are written again only
\* where the height did not tell (saveBlocks and handleBlocks of the handlers).
THEOREM WrittenOnce == RowsSpec => TwiceOnlyUnrecorded
BY RowsAreTransfers, TransfersOnce, PTL

LEMMA StraysStep ==
    ASSUME ~LostAnswers, WorkInv, RowsBelow, OnlyStraysTwice, [JointNext]_rowsVars
    PROVE  OnlyStraysTwice'
<1>1. rows \in Seq(Row) /\ RowsTypeOK
  BY RowsBlocks DEF WorkInv
<1>2. CASE rows' = rows /\ astray \subseteq astray'
  BY <1>2 DEF OnlyStraysTwice, OkRows
<1>3. CASE pc = "save" /\ InsertRows(batch) /\ astray' = astray
  <2> DEFINE n == Len(rows)
             m == Len(batch)
  <2>1. /\ curHeight \in Nat /\ taskNum \in Nat /\ m \in Nat /\ batch \in Seq(Blocks)
        /\ \A k \in 1..m : batch[k].num = curHeight + k
        /\ taskNum <= curHeight
    BY <1>3, BatchFacts
  <2>2. /\ n \in Nat
        /\ \A i \in 1..n : rows'[i] = rows[i]
        /\ \A k \in 1..m : rows'[n + k] = [blk |-> batch[k], state |-> "ok"]
        /\ OkRows' = OkRows \cup {n + k : k \in 1..m}
    BY <1>1, <1>3, <2>1, InsertFacts
  <2>3. \A i \in OkRows : i \in 1..n /\ rows'[i] = rows[i] /\ rows[i].blk \in OkBlocks
    BY <1>1, <2>2, LenProperties DEF OkRows, OkBlocks
  <2> HIDE DEF n, m
  <2>4. \A k \in 1..m : rows'[n + k].blk.num = curHeight + k
    <3> SUFFICES ASSUME NEW k \in 1..m PROVE rows'[n + k].blk.num = curHeight + k
      OBVIOUS
    <3>1. rows'[n + k] = [blk |-> batch[k], state |-> "ok"]
      BY <2>2
    <3>2. rows'[n + k].blk = batch[k]
      BY <3>1
    <3>3. QED
      BY <2>1, <3>2
  <2>5. \A i \in OkRows : \/ rows'[i].blk.num <= curHeight /\ rows'[i].blk.num \in Nat
                          \/ rows'[i].blk \in astray'
    <3> SUFFICES ASSUME NEW i \in OkRows, rows'[i].blk \notin astray'
                 PROVE  rows'[i].blk.num <= curHeight /\ rows'[i].blk.num \in Nat
      OBVIOUS
    <3>1. rows[i].blk \in Blocks /\ rows[i].blk.num \in Nat
      BY <1>1, RowsBlocks, TaskFeedAssumption DEF OkRows
    <3>2. rows[i].blk.num <= taskNum
      BY <1>3, <2>3 DEF RowsBelow
    <3>3. QED
      BY <2>1, <2>3, <3>1, <3>2
  <2>6. SUFFICES ASSUME NEW i \in OkRows', NEW j \in OkRows',
                        rows'[i].blk.num = rows'[j].blk.num, i # j
                 PROVE  rows'[i].blk \in astray' \/ rows'[j].blk \in astray'
    BY DEF OnlyStraysTwice
  <2>7. CASE i \in OkRows /\ j \in OkRows
    BY <1>3, <2>3, <2>6, <2>7 DEF OnlyStraysTwice
  <2>8. CASE i \in OkRows /\ j \notin OkRows
    <3>1. PICK k \in 1..m : j = n + k
      BY <2>2, <2>8
    <3>2. rows'[j].blk.num = curHeight + k
      BY <2>4, <3>1
    <3>3. ~(rows'[i].blk.num <= curHeight)
      BY <2>1, <2>6, <3>2
    <3>4. QED
      BY <2>5, <2>8, <3>3
  <2>9. CASE i \notin OkRows /\ j \in OkRows
    <3>1. PICK k \in 1..m : i = n + k
      BY <2>2, <2>9
    <3>2. rows'[i].blk.num = curHeight + k
      BY <2>4, <3>1
    <3>3. ~(rows'[j].blk.num <= curHeight)
      BY <2>1, <2>6, <3>2
    <3>4. QED
      BY <2>5, <2>9, <3>3
  <2>10. CASE i \notin OkRows /\ j \notin OkRows
    <3>1. PICK k \in 1..m : i = n + k
      BY <2>2, <2>10
    <3>2. PICK l \in 1..m : j = n + l
      BY <2>2, <2>10
    <3>3. curHeight + k = curHeight + l
      BY <2>4, <2>6, <3>1, <3>2
    <3>4. k = l
      BY <2>1, <3>3
    <3>5. QED
      BY <2>6, <3>1, <3>2, <3>4
  <2>11. QED
    BY <2>7, <2>8, <2>9, <2>10
<1>4. CASE pc = "revert" /\ MarkedWithHeight
  <2>1. /\ \A i \in DOMAIN rows : rows'[i].blk = rows[i].blk
        /\ OkRows' \subseteq OkRows /\ astray \subseteq astray'
    BY <1>4, MarkedFacts
  <2>2. \A i \in OkRows' : i \in OkRows /\ rows'[i].blk = rows[i].blk
    BY <2>1 DEF OkRows
  <2>3. QED
    BY <2>1, <2>2 DEF OnlyStraysTwice
<1>5. QED
  BY <1>2, <1>3, <1>4, JointStep, RowsWritten

LEMMA JointStrays ==
    ASSUME ~LostAnswers PROVE JointSpec => []OnlyStraysTwice
<1>1. RowsInit => OnlyStraysTwice
  <2> SUFFICES ASSUME RowsInit, NEW i \in OkRows, NEW j \in OkRows,
                      rows[i].blk.num = rows[j].blk.num
               PROVE  i = j
    BY DEF OnlyStraysTwice
  <2>1. rows = [k \in 1..StartNumber |-> [blk |-> StartChain[k], state |-> "ok"]]
    BY DEF RowsInit, InitRows
  <2>2. /\ Len(StartChain) \in Nat /\ DOMAIN StartChain = 1..Len(StartChain)
        /\ StartNumber \in 0..Len(StartChain)
    BY TaskFeedAssumption, AsyncTaskAssumption, LenProperties
  <2>3. \A k \in 1..StartNumber : k \in DOMAIN StartChain /\ StartChain[k].num = k
    BY <2>2, TaskFeedAssumption
  <2>4. \A k \in 1..StartNumber : rows[k].blk.num = k
    BY <2>1, <2>3
  <2>5. i \in 1..StartNumber /\ j \in 1..StartNumber
    BY <2>1 DEF OkRows
  <2>6. QED
    BY <2>4, <2>5
<1>2. /\ WorkInv /\ RowsBelow /\ OnlyStraysTwice /\ [JointNext]_rowsVars
      => OnlyStraysTwice'
  BY StraysStep
<1>3. QED
  BY <1>1, <1>2, JointInvariant, PTL DEF JointSpec

\* "In no case is anything written twice": where no commit is reported as
\* failed, two rows that count for one height mean that a block went astray.
THEOREM TwiceMeansAstray ==
    ASSUME ~LostAnswers PROVE RowsSpec => []OnlyStraysTwice
BY RowsAreJoint, JointStrays, PTL

----------------------------------------------------------------------------
(* What the height stands for. *)

\* The height the task goes on from, once it has applied what it has in hand.
Base == IF pc = "revert" THEN inHand[1].blk.num - 1 ELSE curHeight

\* Height n was passed without a block or has rows.
Covered(n) == n \in skipped \/ \E b \in OkBlocks : b.num = n

HeightsCovered ==
    /\ pc \in Running => \A n \in 1..Base : Covered(n)
    /\ \A n \in 1..taskNum : Covered(n)
    /\ pc = "height" => ToSet(batch) \subseteq OkBlocks

LEMMA InitCovered == RowsInit => HeightsCovered
<1> SUFFICES ASSUME RowsInit PROVE HeightsCovered
  OBVIOUS
<1>1. /\ pc = "created" /\ curHeight = StartNumber /\ taskNum = StartNumber
      /\ rows = [i \in 1..StartNumber |-> [blk |-> StartChain[i], state |-> "ok"]]
  BY DEF RowsInit, Init, InitRows
<1>2. \A n \in 1..StartNumber : n \in DOMAIN StartChain /\ StartChain[n].num = n
  <2>1. /\ Len(StartChain) \in Nat /\ DOMAIN StartChain = 1..Len(StartChain)
        /\ StartNumber \in 0..Len(StartChain)
    BY TaskFeedAssumption, AsyncTaskAssumption, LenProperties
  <2>2. \A n \in 1..StartNumber : n \in 1..Len(StartChain)
    BY <2>1
  <2>3. QED
    BY <2>1, <2>2, TaskFeedAssumption
<1>3. \A n \in 1..StartNumber : Covered(n)
  <2> SUFFICES ASSUME NEW n \in 1..StartNumber PROVE \E b \in OkBlocks : b.num = n
    BY DEF Covered
  <2>1. n \in DOMAIN rows /\ rows[n] = [blk |-> StartChain[n], state |-> "ok"]
    BY <1>1
  <2>2. rows[n].blk = StartChain[n] /\ rows[n].state = "ok"
    BY <2>1
  <2>3. StartChain[n] \in OkBlocks
    BY <2>1, <2>2 DEF OkBlocks, OkRows
  <2>4. QED
    BY <1>2, <2>3
<1>4. QED
  BY <1>1, <1>3 DEF HeightsCovered, Base

\* A step that uncovers nothing, and goes no higher than what is covered then.
LEMMA StaysCovered ==
    ASSUME HeightsCovered, skipped \subseteq skipped', OkBlocks \subseteq OkBlocks',
           pc' \in Running => pc \in Running /\ \A n \in 1..Base' : n \in 1..Base \/ Covered(n)',
           \A n \in 1..taskNum' : n \in 1..taskNum \/ Covered(n)',
           pc' = "height" => ToSet(batch') \subseteq OkBlocks'
    PROVE  HeightsCovered'
<1>1. \A n : Covered(n) => Covered(n)'
  BY DEF Covered
<1>2. QED
  BY <1>1 DEF HeightsCovered

\* With the rows of the batch in the table the heights up to its last block are
\* covered.
LEMMA BatchCovered ==
    ASSUME WorkInv, HeightsCovered, pc \in {"save", "height"}, skipped' = skipped,
           OkBlocks' = OkBlocks \cup ToSet(batch)
    PROVE  \A n \in 1..Last(batch).num : Covered(n)'
<1>1. /\ curHeight \in Nat /\ Len(batch) \in Nat /\ batch \in Seq(Blocks)
      /\ DOMAIN batch = 1..Len(batch)
      /\ \A i \in 1..Len(batch) : batch[i].num = curHeight + i
      /\ Last(batch).num = curHeight + Len(batch)
  BY BatchFacts
<1>2. pc \in Running /\ Base = curHeight
  BY DEF Base, Running
<1>3. SUFFICES ASSUME NEW n \in 1..Last(batch).num PROVE Covered(n)'
  OBVIOUS
<1>4. CASE n \in 1..curHeight
  BY <1>2, <1>4 DEF HeightsCovered, Covered
<1>5. CASE n \notin 1..curHeight
  <2>1. n - curHeight \in 1..Len(batch) /\ curHeight + (n - curHeight) = n
    BY <1>1, <1>5
  <2>2. PICK i \in 1..Len(batch) : batch[i].num = n
    BY <1>1, <2>1
  <2>3. batch[i] \in OkBlocks'
    BY <1>1 DEF ToSet
  <2>4. QED
    BY <2>2, <2>3 DEF Covered
<1>6. QED
  BY <1>4, <1>5

LEMMA NextCovered ==
    ASSUME WorkInv, HeightsCovered, [TransferNext]_rowsVars PROVE HeightsCovered'
<1>1. LoopTypeOK /\ RowsTypeOK /\ WorkInHand /\ FeedInv /\ curHeight \in Nat
  BY DEF WorkInv, RowsTypeOK, LoopTypeOK
<1>2. rows' = rows => OkBlocks' = OkBlocks
  BY DEF OkBlocks, OkRows
<1>3. /\ \A s \in Between : s \in Running /\ s \notin AtWork
      /\ AtWork \subseteq Running
  BY DEF Between, Running
<1>4. ASSUME rows' = rows, UNCHANGED <<curHeight, taskNum, skipped>>,
             \/ pc' = pc /\ inHand' = inHand /\ batch' = batch
             \/ pc' \notin Running
             \/ pc \in Running \ {"revert"} /\ pc' \in Running \ {"revert", "height"}
      PROVE  HeightsCovered'
  <2>1. pc' \in Running => pc \in Running /\ Base' = Base
    BY <1>4 DEF Base
  <2>2. pc' = "height" => ToSet(batch') \subseteq OkBlocks'
    BY <1>2, <1>3, <1>4 DEF HeightsCovered
  <2>3. QED
    BY <1>2, <1>4, <2>1, <2>2, StaysCovered
<1>5. CASE UNCHANGED rowsVars
  BY <1>4, <1>5 DEF rowsVars, loopVars, workVars, history
<1>6. CASE TransferNext
  <2>1. CASE Idle /\ UNCHANGED rows
    <3>1. /\ UNCHANGED <<curHeight, taskNum, skipped, inHand, batch>> /\ PcMoves
      BY <1>1, <2>1, IdleFacts DEF workVars, history
    <3>2. QED
      BY <1>3, <1>4, <2>1, <3>1 DEF PcMoves
  <2>2. CASE (BaseApplies \/ \E e \in Event : Publish(e)) /\ UNCHANGED rows
    BY <1>4, <2>2 DEF BaseApplies, Publish, loopVars, workVars, history
  <2>3. CASE \E e \in Event : /\ PassedBy(e) \/ ReceiveNext(e) \/ ReceiveRevert(e)
                              /\ UNCHANGED rows
    <3>1. PICK e \in Event : /\ PassedBy(e) \/ ReceiveNext(e) \/ ReceiveRevert(e)
                             /\ UNCHANGED rows
      BY <2>3
    <3>2. CASE PassedBy(e)
      <4>1. Take(e) /\ pc' = "drain" /\ UNCHANGED curHeight
        BY <1>1, <3>2, PassedByFacts
      <4>2. pc \in Between /\ pc' \in Between /\ UNCHANGED <<taskNum, skipped>>
        BY <1>1, <4>1, TakenFacts
      <4>3. QED
        BY <1>3, <1>4, <3>1, <4>1, <4>2
    <3>3. CASE ReceiveNext(e)
      <4>1. Take(e) /\ pc' = "handle" /\ UNCHANGED curHeight
        BY <3>3 DEF ReceiveNext
      <4>2. pc \in Between /\ UNCHANGED <<taskNum, skipped>>
        BY <1>1, <4>1, TakenFacts
      <4>3. QED
        BY <1>3, <1>4, <3>1, <4>1, <4>2
    <3>4. CASE ReceiveRevert(e)
      <4>1. /\ Take(e) /\ pc' = "revert" /\ UNCHANGED curHeight /\ inHand' = <<e>>
            /\ curHeight >= e.blk.num
        BY <3>4 DEF ReceiveRevert
      <4>2. pc \in Between /\ UNCHANGED <<taskNum, skipped>>
        BY <1>1, <4>1, TakenFacts
      <4>3. Base = curHeight /\ pc \in Running
        BY <1>3, <4>2 DEF Base
      <4>4. Base' = e.blk.num - 1
        BY <4>1 DEF Base
      <4>5. \A n \in 1..Base' : n \in 1..Base
        BY <1>1, <4>1, <4>3, <4>4, EventFacts
      <4>6. QED
        BY <1>2, <3>1, <4>1, <4>2, <4>3, <4>5, StaysCovered
    <3>5. QED
      BY <3>1, <3>2, <3>3, <3>4
  <2>4. CASE ReadFound(RangeEnd) /\ UNCHANGED rows
    <3>1. /\ pc \in Running \ {"revert"} /\ pc' \in Running \ {"revert", "height"}
          /\ UNCHANGED <<curHeight, taskNum, skipped>>
      BY <2>4 DEF ReadFound, Running
    <3>2. QED
      BY <1>4, <2>4, <3>1
  <2>5. CASE Skip(RangeEnd, "loop") /\ UNCHANGED rows
    <3>1. /\ pc = "catchup" /\ pc' = "loop" /\ curHeight' = RangeEnd
          /\ skipped' = skipped \cup ((curHeight + 1)..RangeEnd) /\ taskNum' = taskNum
      BY <2>5 DEF Skip
    <3>2. Base' = RangeEnd /\ Base = curHeight /\ pc \in Running
      BY <3>1 DEF Base, Running
    <3>3. \A n \in 1..RangeEnd : n \in 1..curHeight \/ n \in skipped'
      BY <1>1, <3>1, RangeEndFacts
    <3>4. \A n \in 1..Base' : n \in 1..Base \/ Covered(n)'
      BY <3>2, <3>3 DEF Covered
    <3>5. QED
      BY <1>2, <2>5, <3>1, <3>2, <3>4, StaysCovered
  <2>6. CASE ReadFails /\ UNCHANGED rows
    <3>1. /\ pc \in Running \ {"revert"} /\ pc' \in Running \ {"revert", "height"}
          /\ UNCHANGED <<curHeight, taskNum, skipped>>
      BY <2>6 DEF ReadFails, Running, history
    <3>2. QED
      BY <1>4, <2>6, <3>1
  <2>7. CASE \/ /\ \E next \in {"save", "origin"} : Cut(MaxBlockCount, next)
                /\ UNCHANGED rows
             \/ OriginKnown
    <3>1. /\ pc \in {"handle", "origin"} /\ pc' \in {"save", "origin"}
          /\ UNCHANGED <<curHeight, taskNum, skipped, rows>>
      BY <2>7 DEF Cut, OriginKnown, history, loopVars
    <3>2. QED
      BY <1>3, <1>4, <3>1
  <2>8. CASE SaveWithHeight \/ WriteHeight
    <3>1. /\ pc \in {"save", "height"} /\ curHeight' = Last(batch).num
          /\ taskNum' = Last(batch).num /\ skipped' = skipped
          /\ pc' \notin {"revert", "height"}
      BY <2>8 DEF SaveWithHeight, WriteHeight, Saved, history
    <3>2. OkBlocks' = OkBlocks \cup ToSet(batch)
      <4>1. CASE SaveWithHeight
        BY <4>1, WrittenFacts DEF SaveWithHeight
      <4>2. CASE WriteHeight
        BY <1>2, <4>2 DEF WriteHeight, HeightsCovered
      <4>3. QED
        BY <2>8, <4>1, <4>2
    <3>3. \A n \in 1..Last(batch).num : Covered(n)'
      BY <3>1, <3>2, BatchCovered
    <3>4. Base' = Last(batch).num
      BY <3>1 DEF Base
    <3>5. QED
      BY <3>1, <3>3, <3>4 DEF HeightsCovered
  <2>9. CASE SaveAnswerLost \/ WriteRowsAnswerLost \/ WriteRows
    <3>1. /\ pc = "save" /\ InsertRows(batch) /\ batch' = batch
          /\ taskNum' \in {taskNum, Last(batch).num} /\ skipped' = skipped
          /\ curHeight' = curHeight /\ pc' \in {"save", "height", "exited"}
      BY <2>9 DEF SaveAnswerLost, WriteRowsAnswerLost, WriteRows, Retry, history, loopVars
    <3>2. OkBlocks' = OkBlocks \cup ToSet(batch)
      BY <3>1, WrittenFacts
    <3>3. \A n \in 1..Last(batch).num : Covered(n)'
      BY <3>1, <3>2, BatchCovered
    <3>4. Base' = Base /\ pc \in Running
      BY <1>3, <3>1 DEF Base
    <3>5. \A n \in 1..taskNum' : n \in 1..taskNum \/ Covered(n)'
      BY <3>1, <3>3
    <3>6. QED
      BY <3>1, <3>2, <3>4, <3>5, StaysCovered
  <2>10. CASE Revert \/ RevertAnswerLost
    <3>1. /\ pc = "revert" /\ MarkedWithHeight /\ skipped' = skipped
      BY <2>10 DEF Revert, RevertAnswerLost, MarkedWithHeight
    <3>2. PICK b \in gone :
             /\ inHand[1].blk = b /\ b.num \in Nat /\ b.num >= 1
             /\ taskNum' = b.num - 1
             /\ OkBlocks' = {x \in OkBlocks : x.num # b.num}
      BY <3>1, MarkedFacts
    <3>3. Base = b.num - 1 /\ pc \in Running
      BY <3>1, <3>2 DEF Base, Running
    <3>4. \A n \in 1..(b.num - 1) : Covered(n)'
      <4> SUFFICES ASSUME NEW n \in 1..(b.num - 1), n \notin skipped
                   PROVE  \E x \in OkBlocks' : x.num = n
        BY <3>1 DEF Covered
      <4>1. PICK x \in OkBlocks : x.num = n
        BY <3>3 DEF HeightsCovered, Covered
      <4>2. x.num # b.num
        BY <3>2, <4>1
      <4>3. QED
        BY <3>2, <4>1, <4>2
    <3>5. pc' \in Running => Base' = b.num - 1
      <4>1. CASE Revert
        BY <3>2, <4>1 DEF Revert, Reverted, Base
      <4>2. CASE RevertAnswerLost
        <5>1. pc' \in {pc, "exited"} /\ "exited" \notin Running /\ inHand' = inHand
          BY <3>1, <4>2, RetryFacts DEF RevertAnswerLost
        <5>2. QED
          BY <3>1, <3>2, <5>1 DEF Base
      <4>3. QED
        BY <2>10, <4>1, <4>2
    <3>6. pc' # "height"
      BY <2>10, <3>1, RetryFacts DEF Revert, Reverted, RevertAnswerLost
    <3>7. QED
      BY <3>2, <3>4, <3>5, <3>6 DEF HeightsCovered
  <2>11. CASE SaveFails \/ RevertFails \/ WriteHeightFails
    <3>1. /\ pc \in {"save", "height", "revert"} /\ Retry
          /\ UNCHANGED <<rows, taskNum, skipped>>
      BY <2>11 DEF SaveFails, RevertFails, WriteHeightFails, history
    <3>2. /\ pc' \in {pc, "exited"} /\ "exited" \notin Running
          /\ inHand' = inHand /\ curHeight' = curHeight /\ batch' = batch
      BY <3>1, RetryFacts DEF loopVars
    <3>3. QED
      BY <1>4, <3>1, <3>2
  <2>12. CASE \E left \in SUBSET Blocks : RestartWith(left)
    <3>1. /\ pc' = "created" /\ curHeight' = taskNum /\ taskNum' = taskNum
          /\ skipped' = (skipped \cap 1..taskNum) \cup {} /\ rows' = rows
      BY <2>12 DEF RestartWith, Restart
    <3>2. Base' = taskNum
      BY <3>1 DEF Base
    <3>3. \A n \in 1..taskNum : Covered(n)'
      BY <1>2, <3>1 DEF HeightsCovered, Covered
    <3>4. QED
      BY <3>1, <3>2, <3>3 DEF HeightsCovered
  <2>13. QED
    BY <1>6, <2>1, <2>2, <2>3, <2>4, <2>5, <2>6, <2>7, <2>8, <2>9, <2>10, <2>11, <2>12,
       NextCases
<1>7. QED
  BY <1>5, <1>6

THEOREM CoveredInvariant == TransferSpec => []HeightsCovered
<1>1. RowsInit => HeightsCovered
  BY InitCovered
<1>2. WorkInv /\ HeightsCovered /\ [TransferNext]_rowsVars => HeightsCovered'
  BY NextCovered
<1>3. QED
  BY <1>1, <1>2, WorkInvariant, PTL DEF TransferSpec

LEMMA CoveredIsWritten == HeightsCovered => HeightIsWritten
BY DEF HeightsCovered, HeightIsWritten, Covered

\* The height recorded in async_task has its rows below it (updateTask in the
\* transaction of the rows).
THEOREM HeightHasRows == RowsSpec => []HeightIsWritten
BY RowsAreTransfers, CoveredInvariant, CoveredIsWritten, PTL

----------------------------------------------------------------------------
(* What the task knows of the blocks it works on. *)

\* The revert of b is in hand or on its way.
RevertComing(b) == Reverting(b) \in ToSet(inHand) \cup ToSet(blockChan)

\* What the task will have been told of b.
Known(b) == Stands(b) \/ RevertComing(b) \/ b \in gone

\* What the task may come to read.
BlocksKnown ==
    /\ \A i \in DOMAIN blockChan : blockChan[i].state = "ok" =>
          \/ Stands(blockChan[i].blk)
          \/ \E j \in (i + 1)..Len(blockChan) : blockChan[j] = Reverting(blockChan[i].blk)
    /\ \A e \in ToSet(toBase) : e.state = "ok" => Known(e.blk)
    /\ \A b \in ToSet(chain) \cup ToSet(cache) : Known(b)

Settled(b) == Stands(b) \/ RevertComing(b) \/ b \in astray

\* What the task works on, and has written.
WorkSettled ==
    /\ \A b \in ToSet(batch) \cup ToSet(todo) : Settled(b)
    /\ pc \in Running => \A b \in OkBlocks : Settled(b)

StandsInv == BlocksKnown /\ WorkSettled

LEMMA InitKnown == ASSUME Init PROVE BlocksKnown /\ \A b \in ToSet(StartChain) : Stands(b)
<1>1. /\ blockChan = <<>> /\ toBase = <<>> /\ chain = StartChain /\ sent = StartChain
      /\ cache = <<>>
  BY DEF Init, FeedInit
<1>2. DOMAIN <<>> = {} /\ ToSet(<<>>) = {}
  BY DEF ToSet
<1>3. \A b \in ToSet(StartChain) : Stands(b)
  BY <1>1 DEF Stands, ToSet
<1>4. QED
  BY <1>1, <1>2, <1>3 DEF BlocksKnown, Known

LEMMA InitStandsInv == RowsInit => StandsInv
<1> SUFFICES ASSUME RowsInit PROVE StandsInv
  OBVIOUS
<1>1. /\ batch = <<>> /\ todo = <<>>
      /\ rows = [i \in 1..StartNumber |-> [blk |-> StartChain[i], state |-> "ok"]]
  BY DEF RowsInit, Init, InitRows
<1>2. DOMAIN <<>> = {} /\ ToSet(<<>>) = {}
  BY DEF ToSet
<1>3. BlocksKnown /\ \A b \in ToSet(StartChain) : Stands(b)
  BY InitKnown DEF RowsInit
<1>4. \A b \in OkBlocks : Stands(b)
  <2> SUFFICES ASSUME NEW b \in OkBlocks PROVE b \in ToSet(StartChain)
    BY <1>3
  <2>1. PICK i \in 1..StartNumber : b = rows[i].blk
    BY <1>1 DEF OkBlocks, OkRows
  <2>2. rows[i] = [blk |-> StartChain[i], state |-> "ok"]
    BY <1>1
  <2>3. b = StartChain[i]
    BY <2>1, <2>2
  <2>4. /\ Len(StartChain) \in Nat /\ DOMAIN StartChain = 1..Len(StartChain)
        /\ StartNumber \in 0..Len(StartChain)
    BY TaskFeedAssumption, AsyncTaskAssumption, LenProperties
  <2>5. i \in DOMAIN StartChain
    BY <2>4
  <2>6. QED
    BY <2>3, <2>5 DEF ToSet
<1>5. QED
  BY <1>1, <1>2, <1>3, <1>4 DEF StandsInv, WorkSettled, Settled

\* A step that leaves the feed alone, forgets nothing, and goes on with what is
\* in hand.
LEMMA SteadyKnown ==
    ASSUME BlocksKnown, UNCHANGED <<feedVars, gone>>, astray \subseteq astray',
           ToSet(cache') \subseteq ToSet(cache),
           \A x : Reverting(x) \in ToSet(inHand) => Reverting(x) \in ToSet(inHand')
    PROVE  BlocksKnown' /\ \A x : Settled(x) => Settled(x)'
<1>1. /\ blockChan' = blockChan /\ toBase' = toBase /\ chain' = chain /\ sent' = sent
      /\ gone' = gone
  BY DEF feedVars
<1>2. \A x : Stands(x) => Stands(x)'
  BY <1>1 DEF Stands
<1>3. \A x : RevertComing(x) => RevertComing(x)'
  BY <1>1 DEF RevertComing
<1>4. (\A x : Known(x) => Known(x)') /\ (\A x : Settled(x) => Settled(x)')
  BY <1>1, <1>2, <1>3 DEF Known, Settled
<1>5. BlocksKnown'
  BY <1>1, <1>2, <1>4 DEF BlocksKnown
<1>6. QED
  BY <1>4, <1>5

LEMMA SteadyStands ==
    ASSUME StandsInv, UNCHANGED <<feedVars, gone>>, astray \subseteq astray',
           ToSet(cache') \subseteq ToSet(cache),
           \A x : Reverting(x) \in ToSet(inHand) => Reverting(x) \in ToSet(inHand'),
           ToSet(batch') \cup ToSet(todo') \subseteq ToSet(batch) \cup ToSet(todo),
           pc' \in Running => pc \in Running /\ OkBlocks' \subseteq OkBlocks \cup ToSet(batch)
    PROVE  StandsInv'
<1>1. BlocksKnown' /\ \A x : Settled(x) => Settled(x)'
  BY SteadyKnown DEF StandsInv
<1>2. WorkSettled'
  BY <1>1 DEF StandsInv, WorkSettled
<1>3. QED
  BY <1>1, <1>2 DEF StandsInv

\* What the feed sends stands, or takes back what stood.
LEMMA DeliverStands ==
    ASSUME FeedInv, NEW e \in Event, Deliver(e)
    PROVE  /\ \A x : Stands(x) => Stands(x)' \/ e = Reverting(x)
           /\ e.state = "ok" => Stands(e.blk)'
<1>1. /\ Before(e) = Len(sent) /\ Len(sent') = After(e)
      /\ \A i \in 1..After(e) : i <= Len(sent) => sent'[i] = sent[i]
      /\ e.state = "ok" => sent'[e.blk.num] = e.blk
      /\ FeedInv'
  BY DeliverFacts
<1>2. /\ sent \in Seq(Blocks) /\ Len(sent) \in Nat /\ DOMAIN sent = 1..Len(sent)
      /\ DOMAIN sent' = 1..Len(sent')
      /\ Follows(e, sent) /\ Numbered(sent)
  BY <1>1, LenProperties DEF FeedInv, FeedTypeOK, Deliver
<1>3. CASE e.state = "ok"
  <2>1. After(e) = e.blk.num /\ After(e) = Len(sent) + 1
    BY <1>1, <1>2, <1>3, EventFacts
  <2>2. \A i \in DOMAIN sent : i \in DOMAIN sent' /\ sent'[i] = sent[i]
    BY <1>1, <1>2, <2>1
  <2>3. e.blk.num \in DOMAIN sent'
    BY <1>1, <1>2, <2>1
  <2>4. QED
    BY <1>1, <2>2, <2>3 DEF Stands
<1>4. CASE e.state # "ok"
  <2>1. /\ e.state = "revert" /\ After(e) = Len(sent) - 1 /\ e.blk = sent[Len(sent)]
    BY <1>1, <1>2, <1>4, EventFacts DEF Follows
  <2>2. e = Reverting(e.blk)
    BY <2>1 DEF Event, Reverting
  <2>3. \A i \in DOMAIN sent : i # Len(sent) => i \in DOMAIN sent' /\ sent'[i] = sent[i]
    BY <1>1, <1>2, <2>1
  <2>4. QED
    BY <1>4, <2>1, <2>2, <2>3 DEF Stands
<1>5. QED
  BY <1>3, <1>4

LEMMA PublishKnown ==
    ASSUME FeedInv, BlocksKnown, NEW e \in Event, Publish(e)
    PROVE  BlocksKnown' /\ \A x : Settled(x) => Settled(x)'
<1>1. /\ pc \in Running /\ Deliver(e)
      /\ UNCHANGED <<pc, loopVars, workVars, taskNum, envVars, history>>
  BY DEF Publish, Subscribed
<1>2. FeedInv /\ blockChan \in Seq(Event) /\ toBase \in Seq(Event)
  BY DEF FeedInv, FeedTypeOK
<1>3. /\ \A x : Stands(x) => Stands(x)' \/ e = Reverting(x)
      /\ e.state = "ok" => Stands(e.blk)'
      /\ FeedInv'
  BY <1>1, <1>2, DeliverStands, DeliverFacts
<1> DEFINE n == Len(blockChan)
<1>4. /\ n \in Nat /\ DOMAIN blockChan = 1..n /\ DOMAIN blockChan' = 1..(n + 1)
      /\ Len(blockChan') = n + 1
      /\ \A i \in 1..n : blockChan'[i] = blockChan[i]
      /\ blockChan'[n + 1] = e
  <2>1. blockChan' = Append(blockChan, e)
    BY <1>1 DEF Deliver
  <2>2. QED
    BY <1>2, <2>1, AppendProperties, LenProperties
<1> HIDE DEF n
<1>5. ToSet(blockChan) \subseteq ToSet(blockChan') /\ e \in ToSet(blockChan')
  <2>1. \A i \in 1..n : i \in 1..(n + 1) /\ blockChan'[i] = blockChan[i]
    BY <1>4
  <2>2. n + 1 \in 1..(n + 1)
    BY <1>4
  <2>3. QED
    BY <1>4, <2>1, <2>2 DEF ToSet
<1>6. (\A x : RevertComing(x) => RevertComing(x)') /\ (\A x : e = Reverting(x) => RevertComing(x)')
  BY <1>1, <1>5 DEF RevertComing, workVars
<1>7. (\A x : Known(x) => Known(x)') /\ (\A x : Settled(x) => Settled(x)')
  BY <1>1, <1>3, <1>6 DEF Known, Settled, history
<1>8. \A i \in DOMAIN blockChan' : blockChan'[i].state = "ok" =>
          \/ Stands(blockChan[i].blk)'
          \/ \E j \in (i + 1)..Len(blockChan') : blockChan'[j] = Reverting(blockChan'[i].blk)
  <2> SUFFICES ASSUME NEW i \in 1..(n + 1), blockChan'[i].state = "ok"
               PROVE  \/ Stands(blockChan[i].blk)'
                      \/ \E j \in (i + 1)..(n + 1) : blockChan'[j] = Reverting(blockChan'[i].blk)
    BY <1>4
  <2>1. CASE i = n + 1
    <3>1. blockChan'[i] = e
      BY <1>4, <2>1
    <3>2. QED
      BY <1>3, <3>1 DEF Stands
  <2>2. CASE i # n + 1
    <3>1. i \in 1..n /\ n + 1 \in (i + 1)..(n + 1) /\ (i + 1)..n \subseteq (i + 1)..(n + 1)
      BY <1>4, <2>2
    <3>2. \A j \in (i + 1)..n : j \in 1..n
      BY <1>4, <3>1
    <3>3. \/ Stands(blockChan[i].blk)
          \/ \E j \in (i + 1)..n : blockChan[j] = Reverting(blockChan[i].blk)
      BY <1>4, <3>1 DEF BlocksKnown, n
    <3>4. CASE Stands(blockChan[i].blk)
      <4>1. blockChan'[i] = blockChan[i]
        BY <1>4, <3>1
      <4>2. \/ \E k \in DOMAIN sent' : sent'[k] = blockChan[i].blk
            \/ e = Reverting(blockChan[i].blk)
        BY <1>3, <3>4 DEF Stands
      <4>3. QED
        BY <1>4, <3>1, <4>1, <4>2 DEF Stands
    <3>5. CASE \E j \in (i + 1)..n : blockChan[j] = Reverting(blockChan[i].blk)
      BY <1>4, <3>1, <3>2, <3>5
    <3>6. QED
      BY <3>3, <3>4, <3>5
  <2>3. QED
    BY <2>1, <2>2
<1>9. \A f \in ToSet(toBase') : f.state = "ok" => Known(f.blk)'
  <2>1. CASE toBase' = toBase
    BY <1>7, <2>1 DEF BlocksKnown
  <2>2. CASE toBase' = Append(toBase, e)
    <3>1. /\ Len(toBase) \in Nat /\ DOMAIN toBase = 1..Len(toBase)
          /\ DOMAIN toBase' = 1..(Len(toBase) + 1)
          /\ \A i \in 1..Len(toBase) : toBase'[i] = toBase[i]
          /\ toBase'[Len(toBase) + 1] = e
      BY <1>2, <2>2, AppendProperties, LenProperties
    <3>2. \A f \in ToSet(toBase') : f = e \/ f \in ToSet(toBase)
      <4> SUFFICES ASSUME NEW i \in DOMAIN toBase', toBase'[i] # e
                   PROVE  toBase'[i] \in ToSet(toBase)
        BY DEF ToSet
      <4>1. i \in 1..Len(toBase)
        BY <3>1
      <4>2. QED
        BY <3>1, <4>1 DEF ToSet
    <3>3. e.state = "ok" => Known(e.blk)'
      BY <1>3 DEF Known
    <3>4. QED
      BY <1>7, <3>2, <3>3 DEF BlocksKnown
  <2>3. QED
    BY <1>1, <2>1, <2>2 DEF Deliver
<1>10. \A b \in ToSet(chain') : Known(b)'
  <2>1. CASE chain' = chain
    BY <1>7, <2>1 DEF BlocksKnown
  <2>2. CASE BaseFirst
    <3>1. chain' = sent'
      BY <1>3, <2>2 DEF FeedInv
    <3>2. QED
      BY <3>1 DEF Known, Stands, ToSet
  <2>3. QED
    BY <1>1, <2>1, <2>2 DEF Deliver
<1>11. BlocksKnown'
  BY <1>1, <1>7, <1>8, <1>9, <1>10 DEF BlocksKnown, loopVars
<1>12. QED
  BY <1>7, <1>11

LEMMA PublishStands ==
    ASSUME WorkInv, StandsInv, NEW e \in Event, Publish(e), UNCHANGED rows
    PROVE  StandsInv'
<1>1. BlocksKnown' /\ \A x : Settled(x) => Settled(x)'
  BY PublishKnown DEF WorkInv, StandsInv
<1>2. pc \in Running /\ UNCHANGED <<pc, batch, todo>>
  BY DEF Publish, Subscribed, workVars
<1>3. WorkSettled'
  BY <1>1, <1>2 DEF StandsInv, WorkSettled, OkBlocks, OkRows
<1>4. QED
  BY <1>1, <1>3 DEF StandsInv

LEMMA BaseKnown ==
    ASSUME FeedInv, BlocksKnown, BaseApplies
    PROVE  BlocksKnown' /\ \A x : Settled(x) => Settled(x)'
<1>1. /\ pc \in Running /\ Apply
      /\ UNCHANGED <<pc, loopVars, workVars, taskNum, envVars, history>>
  BY DEF BaseApplies
<1>2. FeedInv /\ toBase \in Seq(Event) /\ chain \in Seq(Blocks) /\ Numbered(chain)
  BY DEF FeedInv, FeedTypeOK
<1> DEFINE e == Head(toBase)
<1>3. /\ toBase # <<>> /\ chain' = Applied(chain, e) /\ toBase' = Tail(toBase)
      /\ blockChan' = blockChan /\ sent' = sent
      /\ e \in Event /\ Before(e) = Len(chain)
  BY <1>1, <1>2, ApplyFacts DEF Apply
<1>4. /\ e = toBase[1] /\ e \in ToSet(toBase) /\ ToSet(toBase') \subseteq ToSet(toBase)
  <2>1. /\ Len(toBase) \in Nat /\ DOMAIN toBase = 1..Len(toBase) /\ Len(toBase) >= 1
    BY <1>2, <1>3, LenProperties, EmptySeq
  <2>2. /\ toBase' \in Seq(Event) /\ Len(toBase') = Len(toBase) - 1
        /\ \A i \in 1..Len(toBase') : toBase'[i] = toBase[i + 1]
    BY <1>2, <1>3, HeadTailProperties
  <2>3. DOMAIN toBase' = 1..(Len(toBase) - 1)
    BY <2>2, LenProperties
  <2>4. e = toBase[1] /\ 1 \in DOMAIN toBase
    BY <1>3, <2>1
  <2>5. \A i \in DOMAIN toBase' : i + 1 \in DOMAIN toBase /\ toBase'[i] = toBase[i + 1]
    BY <2>1, <2>2, <2>3
  <2>6. QED
    BY <2>4, <2>5 DEF ToSet
<1> HIDE DEF e
<1>5. \A b \in ToSet(chain') : b \in ToSet(chain) \/ (e.state = "ok" /\ b = e.blk)
  <2>1. /\ chain' \in Seq(Blocks) /\ Len(chain') = After(e)
        /\ \A i \in 1..After(e) : i <= Len(chain) => chain'[i] = chain[i]
        /\ e.state = "ok" => chain'[e.blk.num] = e.blk
    BY <1>2, <1>3, AppliedFacts
  <2>2. /\ Len(chain) \in Nat /\ DOMAIN chain = 1..Len(chain) /\ DOMAIN chain' = 1..After(e)
    BY <1>2, <2>1, LenProperties
  <2> SUFFICES ASSUME NEW i \in DOMAIN chain', chain'[i] \notin ToSet(chain)
               PROVE  e.state = "ok" /\ chain'[i] = e.blk
    BY DEF ToSet
  <2>3. i \notin 1..Len(chain)
    BY <2>1, <2>2 DEF ToSet
  <2>4. e.state = "ok" /\ i = e.blk.num
    BY <1>3, <2>2, <2>3, EventFacts
  <2>5. QED
    BY <2>1, <2>4
<1>6. (\A x : Known(x) => Known(x)') /\ (\A x : Settled(x) => Settled(x)')
      /\ (\A x : Stands(x) => Stands(x)')
  BY <1>1, <1>3 DEF Known, Settled, Stands, RevertComing, history, workVars
<1>7. \A b \in ToSet(chain') : Known(b)'
  BY <1>4, <1>5, <1>6 DEF BlocksKnown
<1>8. BlocksKnown'
  BY <1>1, <1>3, <1>4, <1>6, <1>7 DEF BlocksKnown, loopVars
<1>9. QED
  BY <1>6, <1>8

LEMMA BaseStands ==
    ASSUME WorkInv, StandsInv, BaseApplies, UNCHANGED rows PROVE StandsInv'
<1>1. BlocksKnown' /\ \A x : Settled(x) => Settled(x)'
  BY BaseKnown DEF WorkInv, StandsInv
<1>2. pc \in Running /\ UNCHANGED <<pc, batch, todo>>
  BY DEF BaseApplies, workVars
<1>3. WorkSettled'
  BY <1>1, <1>2 DEF StandsInv, WorkSettled, OkBlocks, OkRows
<1>4. QED
  BY <1>1, <1>3 DEF StandsInv

\* When the task receives an event it still knows what it knew.
LEMMA TakeKnown ==
    ASSUME LoopTypeOK, FeedInv, BlocksKnown, inHand = <<>>, NEW e \in Event, Take(e)
    PROVE  /\ \A x : Known(x) => Known(x)'
           /\ \A x : Settled(x) => Settled(x)' \/ e = Reverting(x)
           /\ \A x : Stands(x) => Stands(x)'
           /\ e.state = "ok" => Stands(e.blk)' \/ RevertComing(e.blk)'
           /\ \A i \in DOMAIN blockChan' : blockChan'[i].state = "ok" =>
                 \/ Stands(blockChan[i].blk)'
                 \/ \E j \in (i + 1)..Len(blockChan') :
                       blockChan'[j] = Reverting(blockChan'[i].blk)
<1>1. /\ sent' = sent /\ blockChan # <<>> /\ e = blockChan[1] /\ blockChan' = Tail(blockChan)
      /\ gone' = IF e.state = "revert" THEN gone \cup {e.blk} ELSE gone \ {e.blk}
      /\ astray' = astray /\ pc \in Between
  BY TakenFacts
<1>2. inHand = <<>> /\ DOMAIN <<>> = {}
  OBVIOUS
<1> DEFINE n == Len(blockChan)
<1>3. /\ n \in Nat /\ n >= 1 /\ DOMAIN blockChan = 1..n /\ Len(blockChan') = n - 1
      /\ DOMAIN blockChan' = 1..(n - 1)
      /\ \A i \in 1..(n - 1) : blockChan'[i] = blockChan[i + 1]
  <2>1. blockChan \in Seq(Event)
    BY DEF FeedInv, FeedTypeOK
  <2>2. n \in Nat /\ n >= 1 /\ DOMAIN blockChan = 1..n
    BY <1>1, <2>1, LenProperties, EmptySeq
  <2>3. /\ blockChan' \in Seq(Event) /\ Len(blockChan') = n - 1
        /\ \A i \in 1..Len(blockChan') : blockChan'[i] = blockChan[i + 1]
    BY <1>1, <2>1, HeadTailProperties
  <2>4. QED
    BY <2>2, <2>3, LenProperties
<1> HIDE DEF n
<1>4. \A x : Stands(x) => Stands(x)'
  BY <1>1 DEF Stands
<1>5. \A j \in 2..n : blockChan[j] \in ToSet(blockChan')
  <2> SUFFICES ASSUME NEW j \in 2..n PROVE blockChan[j] \in ToSet(blockChan')
    OBVIOUS
  <2>1. j - 1 \in 1..(n - 1) /\ (j - 1) + 1 = j
    BY <1>3
  <2>2. blockChan'[j - 1] = blockChan[j]
    BY <1>3, <2>1
  <2>3. QED
    BY <1>3, <2>1, <2>2 DEF ToSet
<1>6. \A x : RevertComing(x) => RevertComing(x)' \/ e = Reverting(x)
  <2> SUFFICES ASSUME NEW x, RevertComing(x), e # Reverting(x) PROVE RevertComing(x)'
    OBVIOUS
  <2>1. PICK j \in 1..n : blockChan[j] = Reverting(x)
    BY <1>2, <1>3 DEF RevertComing, ToSet
  <2>2. j \in 2..n
    BY <1>1, <1>3, <2>1
  <2>3. Reverting(x) \in ToSet(blockChan')
    BY <1>5, <2>1, <2>2
  <2>4. QED
    BY <2>3 DEF RevertComing
<1>7. e.state = "ok" => Stands(e.blk)' \/ RevertComing(e.blk)'
  <2> SUFFICES ASSUME e.state = "ok", ~Stands(e.blk) PROVE RevertComing(e.blk)'
    BY <1>4
  <2>1. 1 \in DOMAIN blockChan
    BY <1>3
  <2>2. PICK j \in (1 + 1)..n : blockChan[j] = Reverting(e.blk)
    BY <1>1, <2>1 DEF BlocksKnown, n
  <2>3. j \in 2..n
    BY <1>3
  <2>4. Reverting(e.blk) \in ToSet(blockChan')
    BY <1>5, <2>2, <2>3
  <2>5. QED
    BY <2>4 DEF RevertComing
<1>8. \A x : Known(x) => Known(x)'
  <2> SUFFICES ASSUME NEW x, Known(x) PROVE Known(x)'
    OBVIOUS
  <2>1. CASE Stands(x)
    BY <1>4, <2>1 DEF Known
  <2>2. CASE RevertComing(x)
    <3>1. e = Reverting(x) => x \in gone'
      BY <1>1 DEF Reverting
    <3>2. QED
      BY <1>6, <2>2, <3>1 DEF Known
  <2>3. CASE x \in gone
    <3>1. CASE x \in gone'
      BY <3>1 DEF Known
    <3>2. CASE x \notin gone'
      <4>1. e.state = "ok" /\ x = e.blk
        BY <1>1, <2>3, <3>2 DEF Event
      <4>2. QED
        BY <1>7, <4>1 DEF Known
    <3>3. QED
      BY <3>1, <3>2
  <2>4. QED
    BY <2>1, <2>2, <2>3 DEF Known
<1>9. \A x : Settled(x) => Settled(x)' \/ e = Reverting(x)
  BY <1>1, <1>4, <1>6 DEF Settled
<1>10. \A i \in DOMAIN blockChan' : blockChan'[i].state = "ok" =>
          \/ Stands(blockChan[i].blk)'
          \/ \E j \in (i + 1)..Len(blockChan') : blockChan'[j] = Reverting(blockChan'[i].blk)
  <2> SUFFICES ASSUME NEW i \in 1..(n - 1), blockChan'[i].state = "ok"
               PROVE  \/ Stands(blockChan[i].blk)'
                      \/ \E j \in (i + 1)..(n - 1) : blockChan'[j] = Reverting(blockChan'[i].blk)
    BY <1>3
  <2>1. i + 1 \in 1..n /\ blockChan'[i] = blockChan[i + 1]
    BY <1>3
  <2>2. \/ Stands(blockChan[i + 1].blk)
        \/ \E j \in ((i + 1) + 1)..n : blockChan[j] = Reverting(blockChan[i + 1].blk)
    BY <1>3, <2>1 DEF BlocksKnown, n
  <2>3. CASE Stands(blockChan[i + 1].blk)
    BY <1>1, <2>1, <2>3 DEF Stands
  <2>4. CASE \E j \in ((i + 1) + 1)..n : blockChan[j] = Reverting(blockChan[i + 1].blk)
    <3>1. PICK j \in ((i + 1) + 1)..n : blockChan[j] = Reverting(blockChan[i + 1].blk)
      BY <2>4
    <3>2. j - 1 \in 1..(n - 1) /\ j - 1 \in (i + 1)..(n - 1) /\ (j - 1) + 1 = j
      BY <1>3
    <3>3. blockChan'[j - 1] = blockChan[j]
      BY <1>3, <3>2
    <3>4. QED
      BY <2>1, <3>1, <3>2, <3>3
  <2>5. QED
    BY <2>2, <2>3, <2>4
<1>11. QED
  BY <1>4, <1>7, <1>8, <1>9, <1>10

\* An event is received: what the task knows of the others, it knows afterwards.
LEMMA ReceiveKnown ==
    ASSUME LoopTypeOK, FeedInv, BlocksKnown, inHand = <<>>, NEW e \in Event,
           PassedBy(e) \/ ReceiveNext(e) \/ ReceiveRevert(e)
    PROVE  BlocksKnown'
<1>1. Take(e)
  BY PassedByFacts DEF ReceiveNext, ReceiveRevert
<1>2. /\ \A x : Known(x) => Known(x)'
      /\ e.state = "ok" => Stands(e.blk)' \/ RevertComing(e.blk)'
      /\ \A i \in DOMAIN blockChan' : blockChan'[i].state = "ok" =>
            \/ Stands(blockChan[i].blk)'
            \/ \E j \in (i + 1)..Len(blockChan') : blockChan'[j] = Reverting(blockChan'[i].blk)
  BY <1>1, TakeKnown
<1>3. toBase' = toBase /\ chain' = chain
  BY <1>1, TakenFacts
<1>4. \A b \in ToSet(cache') : b \in ToSet(cache) \/ (e.state = "ok" /\ b = e.blk)
  <2>1. CASE PassedBy(e)
    BY <2>1, PassedByFacts DEF ToSet
  <2>2. CASE ReceiveNext(e)
    BY <2>2 DEF ReceiveNext
  <2>3. CASE ReceiveRevert(e)
    BY <2>3, RemoveFromCacheFacts DEF ReceiveRevert, LoopTypeOK, ToSet
  <2>4. QED
    BY <2>1, <2>2, <2>3
<1>5. \A b \in ToSet(cache') : Known(b)'
  BY <1>2, <1>4 DEF BlocksKnown, Known
<1>6. \A b \in ToSet(chain') : Known(b)'
  BY <1>2, <1>3 DEF BlocksKnown
<1>7. \A f \in ToSet(toBase') : f.state = "ok" => Known(f.blk)'
  BY <1>2, <1>3 DEF BlocksKnown
<1>8. QED
  BY <1>2, <1>5, <1>6, <1>7 DEF BlocksKnown

LEMMA ReceiveStands ==
    ASSUME WorkInv, Accounted, StandsInv, NEW e \in Event,
           PassedBy(e) \/ ReceiveNext(e) \/ ReceiveRevert(e), UNCHANGED rows
    PROVE  StandsInv'
<1>1. LoopTypeOK /\ RowsTypeOK /\ FeedInv /\ WorkInHand /\ HeightRecorded
  BY DEF WorkInv, RowsTypeOK
<1>2. Take(e)
  BY <1>1, PassedByFacts DEF ReceiveNext, ReceiveRevert
<1>3. /\ \A x : Settled(x) => Settled(x)' \/ e = Reverting(x)
      /\ e.state = "ok" => Stands(e.blk)' \/ RevertComing(e.blk)'
  <2>1. inHand = <<>>
    BY <1>1, <1>2, TakenFacts DEF WorkInHand
  <2>2. QED
    BY <1>1, <1>2, <2>1, TakeKnown DEF StandsInv
<1>4. /\ toBase' = toBase /\ chain' = chain /\ batch' = batch /\ pc \in Between
      /\ taskNum' = taskNum /\ astray' = astray
  BY <1>1, <1>2, TakenFacts
<1>5. pc \in Running /\ batch = <<>> /\ todo = <<>> /\ ToSet(<<>>) = {}
  BY <1>1, <1>4 DEF WorkInHand, Between, ToSet
<1>6. OkBlocks' = OkBlocks
  BY DEF OkBlocks, OkRows
<1>7. inHand = <<>>
  BY <1>1, <1>4 DEF WorkInHand
<1>8. BlocksKnown'
  BY <1>1, <1>7, ReceiveKnown DEF StandsInv
<1>9. \A b \in OkBlocks : Settled(b)'
  <2> SUFFICES ASSUME NEW b \in OkBlocks, e = Reverting(b) PROVE Settled(b)'
    BY <1>3, <1>5 DEF StandsInv, WorkSettled
  <2>1. e.state = "revert" /\ e.blk = b
    BY DEF Reverting
  <2>2. CASE ReceiveRevert(e)
    <3>1. inHand' = <<e>> /\ e \in ToSet(<<e>>)
      BY <2>2 DEF ReceiveRevert, ToSet
    <3>2. QED
      BY <3>1 DEF Settled, RevertComing
  <2>3. CASE ReceiveRevertAbove(e)
    <3>1. curHeight < b.num /\ curHeight \in Nat /\ taskNum \in Nat
      BY <1>1, <2>1, <2>3 DEF ReceiveRevertAbove, LoopTypeOK
    <3>2. taskNum <= curHeight
      BY <1>1, <1>4, <1>5 DEF HeightRecorded, Between
    <3>3. b.num \in Nat
      BY <2>1, EventFacts
    <3>4. b \in astray
      BY <1>4, <1>5, <3>1, <3>2, <3>3 DEF Accounted, Between
    <3>5. QED
      BY <1>4, <3>4 DEF Settled
  <2>4. QED
    BY <2>1, <2>2, <2>3 DEF PassedBy, ReceiveAhead, ReceiveOld, ReceiveNext
<1>10. \A b \in ToSet(todo') : Settled(b)'
  <2>1. CASE ReceiveNext(e)
    <3>1. todo' = <<e.blk>> /\ e.state = "ok"
      BY <2>1 DEF ReceiveNext
    <3>2. QED
      BY <1>3, <3>1 DEF Settled, ToSet
  <2>2. CASE PassedBy(e) \/ ReceiveRevert(e)
    <3>1. todo' = todo
      BY <1>1, <2>2, PassedByFacts DEF ReceiveRevert
    <3>2. QED
      BY <1>5, <3>1
  <2>3. QED
    BY <2>1, <2>2
<1>11. WorkSettled'
  BY <1>4, <1>5, <1>6, <1>9, <1>10 DEF WorkSettled
<1>12. QED
  BY <1>8, <1>11 DEF StandsInv

\* What catch-up finds stands, is about to be reverted, or goes astray.
LEMMA ReadKnown ==
    ASSUME LoopTypeOK, FeedInv, BlocksKnown, NEW end \in Int, ReadFound(end)
    PROVE  /\ BlocksKnown' /\ \A x : Settled(x) => Settled(x)'
           /\ \A b \in ToSet(todo') : Settled(b)'
<1>2. /\ pc = "catchup" /\ todo' = Found(end) /\ cache' = CacheLeft /\ pc' = "handle"
      /\ astray' = astray \cup (ToSet(todo') \cap gone)
      /\ UNCHANGED <<inHand, batch, feedVars, gone>>
  BY DEF ReadFound
<1>3. /\ blockChan' = blockChan /\ toBase' = toBase /\ chain' = chain /\ sent' = sent
  BY <1>2 DEF feedVars
<1>4. /\ ToSet(todo') \subseteq ToSet(chain) \cup ToSet(cache)
      /\ ToSet(cache') \subseteq ToSet(cache)
  <2>2. /\ \A i \in DOMAIN Found(end) :
              \/ \E j \in DOMAIN chain : Found(end)[i] = chain[j]
              \/ \E j \in DOMAIN cache : Found(end)[i] = cache[j]
        /\ \A i \in DOMAIN CacheLeft : \E j \in DOMAIN cache : CacheLeft[i] = cache[j]
    BY FoundFacts
  <2>3. QED
    BY <1>2, <2>2 DEF ToSet
<1>5. /\ \A x : Stands(x) => Stands(x)'
      /\ \A x : RevertComing(x) => RevertComing(x)'
  BY <1>2, <1>3 DEF Stands, RevertComing
<1>6. (\A x : Known(x) => Known(x)') /\ (\A x : Settled(x) => Settled(x)')
  BY <1>2, <1>5 DEF Known, Settled
<1>7. \A b \in ToSet(todo') : Settled(b)'
  <2>1. \A b \in ToSet(todo') : Known(b)
    BY <1>4 DEF BlocksKnown
  <2>2. QED
    BY <1>2, <1>5, <2>1 DEF Known, Settled
<1>8. BlocksKnown'
  BY <1>3, <1>4, <1>5, <1>6 DEF BlocksKnown
<1>9. QED
  BY <1>6, <1>7, <1>8

LEMMA ReadStands ==
    ASSUME WorkInv, StandsInv, ReadFound(RangeEnd), UNCHANGED rows PROVE StandsInv'
<1>1. LoopTypeOK /\ FeedInv /\ RangeEnd \in Int
  BY RangeEndFacts DEF WorkInv, RowsTypeOK
<1>2. /\ BlocksKnown' /\ \A x : Settled(x) => Settled(x)'
      /\ \A b \in ToSet(todo') : Settled(b)'
  BY <1>1, ReadKnown DEF StandsInv
<1>3. OkBlocks' = OkBlocks /\ pc \in Running /\ batch' = batch
  BY DEF ReadFound, OkBlocks, OkRows, Running
<1>4. WorkSettled'
  BY <1>2, <1>3 DEF StandsInv, WorkSettled
<1>5. QED
  BY <1>2, <1>4 DEF StandsInv

LEMMA RevertStands == ASSUME WorkInv, StandsInv, Revert PROVE StandsInv'
<1>1. /\ pc = "revert" /\ MarkedWithHeight /\ inHand' = <<>>
      /\ UNCHANGED <<cache, todo, batch, feedVars, gone>>
  BY DEF Revert, Reverted, MarkedWithHeight
<1>2. PICK b \in gone :
         /\ inHand = <<Reverting(b)>>
         /\ OkBlocks' = {x \in OkBlocks : x.num # b.num}
         /\ astray \subseteq astray'
  BY <1>1, MarkedFacts
<1>3. ToSet(inHand) = {Reverting(b)} /\ \A x : Reverting(x) = Reverting(b) => x = b
  BY <1>2 DEF ToSet, Reverting
<1>4. /\ blockChan' = blockChan /\ toBase' = toBase /\ chain' = chain /\ sent' = sent
  BY <1>1 DEF feedVars
<1>5. /\ \A x : Stands(x) => Stands(x)'
      /\ \A x : RevertComing(x) => RevertComing(x)' \/ x = b
  BY <1>3, <1>4 DEF Stands, RevertComing
<1>6. (\A x : Known(x) => Known(x)') /\ (\A x : Settled(x) => Settled(x)' \/ x = b)
  BY <1>1, <1>2, <1>5 DEF Known, Settled
<1>7. BlocksKnown'
  BY <1>1, <1>4, <1>5, <1>6 DEF StandsInv, BlocksKnown
<1>8. batch = <<>> /\ todo = <<>> /\ ToSet(<<>>) = {} /\ pc \in Running
  BY <1>1 DEF WorkInv, WorkInHand, Running, ToSet
<1>9. WorkSettled'
  <2>1. \A x \in OkBlocks' : x \in OkBlocks /\ x # b
    BY <1>2
  <2>2. QED
    BY <1>1, <1>6, <1>8, <2>1 DEF StandsInv, WorkSettled
<1>10. QED
  BY <1>7, <1>9 DEF StandsInv

LEMMA RestartKnown ==
    ASSUME FeedAgain, cache' = <<>>
    PROVE  BlocksKnown' /\ \A b \in ToSet(chain) : Stands(b)'
<1>1. /\ blockChan' = <<>> /\ sent' = chain /\ chain' = chain /\ toBase' = <<>>
  BY DEF FeedAgain
<1>2. ToSet(<<>>) = {} /\ DOMAIN <<>> = {}
  BY DEF ToSet
<1>3. \A b \in ToSet(chain) : Stands(b)'
  BY <1>1 DEF Stands, ToSet
<1>4. QED
  BY <1>1, <1>2, <1>3 DEF BlocksKnown, Known

LEMMA RestartStands ==
    ASSUME WorkInv, StandsInv, NEW left \in SUBSET Blocks, RestartWith(left)
    PROVE  StandsInv'
<1>1. /\ FeedAgain /\ cache' = <<>> /\ todo' = <<>> /\ batch' = <<>>
      /\ astray' = astray \cup left /\ OkBlocks \ ToSet(chain) \subseteq left
      /\ rows' = rows
  BY DEF RestartWith, Restart
<1>2. BlocksKnown' /\ \A b \in ToSet(chain) : Stands(b)'
  BY <1>1, RestartKnown
<1>3. OkBlocks' = OkBlocks /\ ToSet(<<>>) = {}
  BY <1>1 DEF OkBlocks, OkRows, ToSet
<1>4. \A b \in OkBlocks : Settled(b)'
  BY <1>1, <1>2 DEF Settled
<1>5. WorkSettled'
  BY <1>1, <1>3, <1>4 DEF WorkSettled
<1>6. QED
  BY <1>2, <1>5 DEF StandsInv

LEMMA SaveStands ==
    ASSUME WorkInv, StandsInv,
           SaveWithHeight \/ SaveAnswerLost \/ WriteRows \/ WriteRowsAnswerLost \/ WriteHeight
    PROVE  StandsInv'
<1>1. /\ pc \in {"save", "height"} /\ todo' = todo /\ batch' \in {batch, <<>>}
      /\ (pc = "save" /\ InsertRows(batch)) \/ rows' = rows
      /\ UNCHANGED <<feedVars, cache, gone, astray>>
  BY DEF SaveWithHeight, SaveAnswerLost, WriteRows, WriteRowsAnswerLost, WriteHeight, Saved,
         Retry, history, loopVars
<1>2. pc \in Running
  BY <1>1 DEF Running
<1>3. OkBlocks' \subseteq OkBlocks \cup ToSet(batch)
  <2>1. CASE pc = "save" /\ InsertRows(batch)
    BY <2>1, WrittenFacts
  <2>2. CASE rows' = rows
    BY <2>2 DEF OkBlocks, OkRows
  <2>3. QED
    BY <1>1, <2>1, <2>2
<1>4. \A x : Reverting(x) \notin ToSet(inHand)
  <2>1. \A i \in DOMAIN inHand : inHand[i].state = "ok"
    BY <1>1 DEF WorkInv, WorkInHand
  <2>2. QED
    BY <2>1 DEF ToSet, Reverting
<1>5. ToSet(batch') \subseteq ToSet(batch)
  BY <1>1 DEF ToSet
<1>6. QED
  BY <1>1, <1>2, <1>3, <1>4, <1>5, SteadyStands

LEMMA NextStands ==
    ASSUME WorkInv, Accounted, StandsInv, [TransferNext]_rowsVars PROVE StandsInv'
<1>1. LoopTypeOK /\ RowsTypeOK /\ WorkInHand /\ FeedInv
  BY DEF WorkInv, RowsTypeOK
<1>2. \A s \in Between : s \in Running
  BY DEF Between
<1>3. rows' = rows => OkBlocks' = OkBlocks
  BY DEF OkBlocks, OkRows
<1>4. CASE UNCHANGED rowsVars
  BY <1>3, <1>4, SteadyStands DEF rowsVars, loopVars, workVars, history
<1>5. CASE TransferNext
  <2>1. CASE Idle /\ UNCHANGED rows
    <3>1. UNCHANGED <<cache, workVars, feedVars, history>> /\ PcMoves
      BY <1>1, <2>1, IdleFacts
    <3>2. QED
      BY <1>2, <1>3, <2>1, <3>1, SteadyStands DEF PcMoves, workVars, history
  <2>2. CASE (BaseApplies \/ \E e \in Event : Publish(e)) /\ UNCHANGED rows
    BY <2>2, BaseStands, PublishStands
  <2>3. CASE \E e \in Event : /\ PassedBy(e) \/ ReceiveNext(e) \/ ReceiveRevert(e)
                              /\ UNCHANGED rows
    BY <2>3, ReceiveStands
  <2>4. CASE ReadFound(RangeEnd) /\ UNCHANGED rows
    BY <2>4, ReadStands
  <2>5. CASE Skip(RangeEnd, "loop") /\ UNCHANGED rows
    <3>1. /\ UNCHANGED <<workVars, feedVars, gone, astray>> /\ cache' = CacheLeft
          /\ pc \in Running
      BY <2>5 DEF Skip, Running
    <3>2. ToSet(cache') \subseteq ToSet(cache)
      <4>1. RangeEnd \in Int
        BY <1>1, RangeEndFacts
      <4>2. \A i \in DOMAIN CacheLeft : \E j \in DOMAIN cache : CacheLeft[i] = cache[j]
        BY <1>1, <4>1, FoundFacts
      <4>3. QED
        BY <3>1, <4>2 DEF ToSet
    <3>3. QED
      BY <1>3, <2>5, <3>1, <3>2, SteadyStands DEF workVars
  <2>6. CASE ReadFails /\ UNCHANGED rows
    <3>1. /\ UNCHANGED <<workVars, feedVars, history>> /\ PcMoves
          /\ \A i \in DOMAIN cache' : \E j \in DOMAIN cache : cache'[i] = cache[j]
      BY <1>1, <2>6, ReadFailsFacts
    <3>2. ToSet(cache') \subseteq ToSet(cache)
      BY <3>1 DEF ToSet
    <3>3. QED
      BY <1>2, <1>3, <2>6, <3>1, <3>2, SteadyStands DEF PcMoves, workVars, history
  <2>7. CASE /\ \E next \in {"save", "origin"} : Cut(MaxBlockCount, next)
             /\ UNCHANGED rows
    <3>1. todo # <<>>
      BY <1>1, <2>7 DEF WorkInHand, Cut
    <3>2. /\ pc = "handle"
          /\ UNCHANGED <<loopVars, inHand, feedVars, history>>
          /\ \A i \in DOMAIN batch' : i \in DOMAIN todo /\ batch'[i] = todo[i]
          /\ \A i \in DOMAIN todo' : /\ Len(batch') + i \in DOMAIN todo
                                     /\ todo'[i] = todo[Len(batch') + i]
      BY <1>1, <2>7, <3>1, CutFacts, RowsTaskAssumption
    <3>3. ToSet(batch') \cup ToSet(todo') \subseteq ToSet(todo) /\ pc \in Running
      BY <3>2 DEF ToSet, Running
    <3>4. QED
      BY <1>3, <2>7, <3>2, <3>3, SteadyStands DEF loopVars, history
  <2>8. CASE \/ SaveWithHeight \/ SaveAnswerLost
             \/ WriteRows \/ WriteRowsAnswerLost \/ WriteHeight
    BY <2>8, SaveStands
  <2>9. CASE Revert
    BY <2>9, RevertStands
  <2>10. CASE RevertAnswerLost
    <3>1. /\ pc = "revert" /\ MarkedWithHeight /\ UNCHANGED <<loopVars, inHand, todo, batch>>
          /\ UNCHANGED <<feedVars, gone>>
      BY <2>10 DEF RevertAnswerLost, Retry, MarkedWithHeight
    <3>2. OkBlocks' \subseteq OkBlocks /\ astray \subseteq astray' /\ pc \in Running
      BY <3>1, MarkedFacts DEF Running
    <3>3. QED
      BY <3>1, <3>2, SteadyStands DEF loopVars
  <2>11. CASE SaveFails \/ RevertFails \/ WriteHeightFails
    <3>1. /\ pc \in {"save", "height", "revert"}
          /\ UNCHANGED <<loopVars, inHand, todo, batch>>
          /\ UNCHANGED <<rows, feedVars, history>>
      BY <2>11 DEF SaveFails, RevertFails, WriteHeightFails, Retry
    <3>2. pc \in Running
      BY <3>1 DEF Running
    <3>3. QED
      BY <1>3, <3>1, <3>2, SteadyStands DEF loopVars, history
  <2>12. CASE \E left \in SUBSET Blocks : RestartWith(left)
    BY <2>12, RestartStands
  <2>13. CASE OriginKnown
    <3>1. /\ pc \in Running /\ UNCHANGED <<loopVars, workVars, feedVars, history, rows>>
      BY <2>13 DEF OriginKnown, Running
    <3>2. QED
      BY <1>3, <3>1, SteadyStands DEF loopVars, workVars, history
  <2>14. QED
    BY <1>5, <2>1, <2>2, <2>3, <2>4, <2>5, <2>6, <2>7, <2>8, <2>9, <2>10, <2>11, <2>12,
       <2>13, NextCases
<1>6. QED
  BY <1>4, <1>5

THEOREM StandsInvariant == TransferSpec => []StandsInv
<1>1. RowsInit => StandsInv
  BY InitStandsInv
<1>2. WorkInv /\ Accounted /\ StandsInv /\ [TransferNext]_rowsVars => StandsInv'
  BY NextStands
<1>3. QED
  BY <1>1, <1>2, WorkInvariant, AccountedInvariant, PTL DEF TransferSpec

\* The events still to be applied are those in hand and those on their way.
LEMMA ToApplyFacts ==
    ASSUME LoopTypeOK
    PROVE  /\ \A b : RevertComing(b) <=> ToRevert(b)
           /\ ToSet(ToApply) = ToSet(inHand) \cup ToSet(blockChan)
<1> DEFINE m == Len(inHand)
           n == Len(blockChan)
           s == ToApply
<1>1. /\ inHand \in Seq(Event) /\ blockChan \in Seq(Event)
  BY DEF LoopTypeOK, FeedTypeOK
<1>2. /\ m \in Nat /\ n \in Nat /\ DOMAIN inHand = 1..m /\ DOMAIN blockChan = 1..n
  BY <1>1, LenProperties
<1>3. /\ s \in Seq(Event) /\ Len(s) = m + n
      /\ \A i \in 1..(m + n) : s[i] = IF i <= m THEN inHand[i] ELSE blockChan[i - m]
  BY <1>1, ConcatProperties DEF ToApply
<1>4. DOMAIN s = 1..(m + n)
  BY <1>3, LenProperties
<1> HIDE DEF m, n, s
<1>5. \A i \in 1..m : i \in DOMAIN s /\ s[i] = inHand[i]
  BY <1>2, <1>3, <1>4
<1>6. \A i \in 1..n : m + i \in DOMAIN s /\ s[m + i] = blockChan[i]
  <2> SUFFICES ASSUME NEW i \in 1..n PROVE m + i \in DOMAIN s /\ s[m + i] = blockChan[i]
    OBVIOUS
  <2>1. m + i \in 1..(m + n) /\ ~(m + i <= m) /\ (m + i) - m = i
    BY <1>2
  <2>2. s[m + i] = blockChan[(m + i) - m]
    BY <1>3, <2>1
  <2>3. QED
    BY <1>4, <2>1, <2>2
<1>7. \A i \in DOMAIN s : \/ i \in 1..m /\ s[i] = inHand[i]
                          \/ i - m \in 1..n /\ s[i] = blockChan[i - m]
  BY <1>2, <1>3, <1>4
<1>8. ToSet(s) = ToSet(inHand) \cup ToSet(blockChan)
  BY <1>2, <1>5, <1>6, <1>7 DEF ToSet
<1>9. \A b : ToRevert(b) <=> Reverting(b) \in ToSet(s)
  BY DEF ToRevert, ToSet, s, Reverting
<1>10. QED
  BY <1>8, <1>9 DEF RevertComing, s

LEMMA TransfersStand == TransferSpec => []RowsStand
<1>1. WorkInv /\ StandsInv => RowsStand
  BY ToApplyFacts DEF RowsStand, StandsInv, WorkSettled, Settled, WorkInv, RowsTypeOK
<1>2. QED
  BY <1>1, WorkInvariant, StandsInvariant, PTL

\* A block the feed took back is not left with rows that count: its revert
\* is on its way to the task or in its hands (doRevert, and the select of the loop).
THEOREM RowsThatCountStand == RowsSpec => []RowsStand
BY RowsAreTransfers, TransfersStand, PTL

LEMMA TransfersMissNone == TransferSpec => []NothingMissed
<1>1. WorkInv /\ HeightsCovered /\ StandsInv => NothingMissed
  <2> SUFFICES ASSUME WorkInv, HeightsCovered, StandsInv, pc \in Subscribed
               PROVE  NothingOwed(OkBlocks)
    BY DEF NothingMissed
  <2> SUFFICES ASSUME NEW i \in DOMAIN sent, sent[i].num <= curHeight
               PROVE  \/ sent[i] \in OkBlocks \/ PassedOver(sent[i].num)
                      \/ ToRedo(sent[i].num)
    <3>1. \A i \in DOMAIN sent : sent[i].num \in Nat
      BY LenProperties, ElementOfSeq, TaskFeedAssumption DEF WorkInv, FeedInv, FeedTypeOK
    <3>2. curHeight \in Nat
      BY DEF WorkInv, RowsTypeOK, LoopTypeOK
    <3>3. QED
      BY <3>1, <3>2 DEF NothingOwed
  <2> DEFINE k == sent[i].num
  <2>1. /\ pc \in Running /\ WorkInHand /\ curHeight \in Nat
        /\ sent \in Seq(Blocks) /\ Numbered(sent)
    BY DEF Subscribed, WorkInv, RowsTypeOK, LoopTypeOK, FeedInv, FeedTypeOK
  <2>2. k = i /\ k \in Nat /\ k >= 1 /\ k <= curHeight
    BY <2>1, LenProperties DEF Numbered
  <2>3. \A b : RevertComing(b) /\ b.num <= k => ToRedo(k)
    <3> SUFFICES ASSUME NEW b, RevertComing(b), b.num <= k PROVE ToRedo(k)
      OBVIOUS
    <3>1. PICK j \in DOMAIN ToApply : ToApply[j] = [state |-> "revert", blk |-> b]
      BY ToApplyFacts DEF ToRevert, WorkInv, RowsTypeOK
    <3>2. ToApply[j].state = "revert" /\ ToApply[j].blk = b
      BY <3>1
    <3>3. QED
      BY <3>2 DEF ToRedo
  <2>4. CASE k \in 1..Base
    <3>1. CASE k \in skipped
      BY <3>1 DEF PassedOver
    <3>2. CASE \E b \in OkBlocks : b.num = k
      <4>1. PICK b \in OkBlocks : b.num = k
        BY <3>2
      <4>2. Settled(b)
        BY <2>1, <4>1 DEF StandsInv, WorkSettled
      <4>3. CASE Stands(b)
        <5>1. PICK j \in DOMAIN sent : sent[j] = b
          BY <4>3 DEF Stands
        <5>2. j = k
          BY <2>1, <4>1, <5>1 DEF Numbered
        <5>3. QED
          BY <2>2, <4>1, <5>1, <5>2
      <4>4. CASE RevertComing(b)
        BY <2>2, <2>3, <4>1, <4>4
      <4>5. CASE b \in astray
        BY <4>1, <4>5 DEF PassedOver
      <4>6. QED
        BY <4>2, <4>3, <4>4, <4>5 DEF Settled
    <3>3. QED
      BY <2>1, <2>4, <3>1, <3>2 DEF HeightsCovered, Covered
  <2>5. CASE k \notin 1..Base
    <3>1. pc = "revert"
      BY <2>2, <2>5 DEF Base
    <3>2. PICK b \in gone : inHand = <<Reverting(b)>>
      BY <2>1, <3>1 DEF WorkInHand
    <3>3. inHand[1].blk = b /\ b \in Blocks /\ b.num \in Nat
      BY <3>2, TaskFeedAssumption DEF Reverting, WorkInv, RowsTypeOK, LoopTypeOK
    <3>4. b.num <= k
      BY <2>2, <2>5, <3>1, <3>3 DEF Base
    <3>5. RevertComing(b)
      BY <3>2 DEF RevertComing, ToSet
    <3>6. QED
      BY <2>3, <3>4, <3>5
  <2>6. QED
    BY <2>4, <2>5
<1>2. QED
  BY <1>1, WorkInvariant, CoveredInvariant, StandsInvariant, PTL

\* No block of the feed below the height of the task is left without rows, but
\* for the exceptions NothingOwed names (handleBlocks, and catch-up).
THEOREM NoneIsMissed == RowsSpec => []NothingMissed
BY RowsAreTransfers, TransfersMissNone, PTL

----------------------------------------------------------------------------
(* erc20_tx *)

\* erc20_tx writes rows and height as erc1155_basic does, with a stop at
\* getOrigin in between.
LEMMA Erc20Step == [Erc20Next]_<<rowsVars, infoVars>> => [JointNext]_rowsVars
<1> SUFFICES ASSUME Erc20Next PROVE [JointNext]_rowsVars
  OBVIOUS
<1>1. CASE (LoopStep \/ Environment) /\ UNCHANGED <<rows, infoVars>>
  BY <1>1 DEF JointNext, Shared, Step
<1>2. CASE Erc20FixHistoryData \/ Erc20Handle \/ OriginsDone
  BY <1>2 DEF Erc20FixHistoryData, Erc20Handle, OriginsDone, JointNext, Shared, Step,
              CutForOrigin, OriginKnown
<1>3. CASE Erc20Save \/ Erc20Revert
  BY <1>3 DEF Erc20Save, Erc20Revert, JointNext, Shared, Step
<1>4. CASE SaveFails \/ RevertFails \/ RevertAnswerLost \/ Erc20SaveAnswerLost
  BY <1>4 DEF Erc20SaveAnswerLost, JointNext, Shared, Failure
<1>5. CASE Erc20Restart
  BY <1>5 DEF Erc20Restart, JointNext
<1>6. CASE \E t \in Tokens : GetOrigin(t) \/ Evict(t)
  BY <1>6 DEF GetOrigin, Evict
<1>7. QED
  BY <1>1, <1>2, <1>3, <1>4, <1>5, <1>6 DEF Erc20Next

LEMMA Erc20IsJoint == Erc20Spec => JointSpec
<1>1. Erc20Init => RowsInit
  BY DEF Erc20Init
<1>2. QED
  BY <1>1, Erc20Step, PTL DEF Erc20Spec, JointSpec

LEMMA Erc20IsTransfer == Erc20Spec => TransferSpec
BY Erc20IsJoint, JointAreTransfers, PTL

\* Rows of erc20_tx that count are those of blocks that stand (doRevert, and the
\* select of the loop), but for what RowsStand names.
THEOREM Erc20RowsStand == Erc20Spec => []RowsStand
BY Erc20IsTransfer, TransfersStand, PTL

\* erc20_tx misses no block of the feed, and its height has its rows below it
\* (handleBlocks, and doSave with one transaction for rows and height).
THEOREM Erc20MissesNone == Erc20Spec => [](NothingMissed /\ HeightIsWritten)
BY Erc20IsTransfer, TransfersMissNone, CoveredInvariant, CoveredIsWritten, PTL

\* erc20_tx writes the rows of a block again only where the height did not tell
\* ("in no case is anything written twice", handleBlocks).
THEOREM Erc20WritesOnce == Erc20Spec => TwiceOnlyUnrecorded
BY Erc20IsTransfer, TransfersOnce, PTL

\* Where no commit of erc20_tx is reported as failed, two rows that count for one
\* height mean that a block went astray (doSave).
THEOREM Erc20TwiceAstray ==
    ASSUME ~LostAnswers PROVE Erc20Spec => []OnlyStraysTwice
BY Erc20IsJoint, JointStrays, PTL

----------------------------------------------------------------------------
(* The information of tokens. *)

\* A table of information, or a part of it: some tokens, each with a record.
InfoTable(f) == DOMAIN f \subseteq Tokens /\ f \in [DOMAIN f -> Info]

InfosType ==
    /\ erc20infos \subseteq Tokens
    /\ InfoTable(fetched) /\ InfoTable(infos)
    /\ replaced \in [Tokens -> Supplies \cup {NoSupply}]

\* New information is in hand from the batch cut to its save, and getOrigin looks
\* up the tokens it is about; a token taken for known has its row or is among
\* them, after a crash too.
InfosInHand ==
    /\ pc \in Running \ {"origin", "save"} => DOMAIN fetched = {}
    /\ toOrigin \subseteq DOMAIN fetched
    /\ pc \in Running \ {"origin"} => toOrigin = {}
    /\ erc20infos \subseteq DOMAIN infos \cup DOMAIN fetched

InfosInv == InfosType /\ InfosInHand /\ OriginKept

\* A step that leaves the information alone, and does not give up the lookup of
\* origins or the save that follows it.
QuietForInfos ==
    /\ UNCHANGED <<infoVars, restarts>>
    /\ pc' \in Running => /\ pc \in Running
                          /\ pc \in {"origin", "save"} => pc' \in {pc, "save"}
                          /\ pc = "origin" /\ pc' = "save" => toOrigin = {}

LEMMA QuietInfos == ASSUME InfosInv, QuietForInfos PROVE InfosInv'
<1>1. UNCHANGED <<erc20infos, fetched, toOrigin, infos, replaced, restarts>>
  BY DEF QuietForInfos, infoVars
<1>2. InfosType'
  BY <1>1 DEF InfosInv, InfosType, InfoTable
<1>3. InfosInHand'
  BY <1>1 DEF InfosInv, InfosInHand, QuietForInfos
<1>4. OriginKept'
  BY <1>1 DEF InfosInv, OriginKept, QuietForInfos
<1>5. QED
  BY <1>2, <1>3, <1>4 DEF InfosInv

LEMMA LoopIsQuiet ==
    ASSUME LoopStep \/ Environment, UNCHANGED infoVars PROVE QuietForInfos
<1>1. CASE StartTask \/ Unsubscribe \/ Enter \/ Wake \/ Drained
  BY <1>1 DEF StartTask, Unsubscribe, Enter, Wake, Drained, envVars, Running, QuietForInfos
<1>2. CASE \E e \in Event : Receive(e)
  BY <1>2 DEF Receive, ReceiveNext, ReceiveAhead, ReceiveOld, ReceiveRevert,
              ReceiveRevertAbove, Take, envVars, Running, QuietForInfos
<1>3. CASE (\E e \in Event : Publish(e)) \/ BaseApplies \/ Signal \/ Crash \/ TakeStop
  BY <1>3 DEF Publish, BaseApplies, Signal, Crash, TakeStop, envVars, Running, QuietForInfos
<1>4. QED
  BY <1>1, <1>2, <1>3 DEF LoopStep, Environment

LEMMA CatchUpIsQuiet ==
    ASSUME Erc20FixHistoryData \/ OriginsDone PROVE QuietForInfos
<1>1. CASE Erc20FixHistoryData
  BY <1>1 DEF Erc20FixHistoryData, FixHistoryData, Answered, ReadFound, Skip, ReadFails,
              envVars, Running, QuietForInfos
<1>2. CASE OriginsDone
  BY <1>2 DEF OriginsDone, envVars, Running, QuietForInfos
<1>3. QED
  BY <1>1, <1>2

LEMMA RevertIsQuiet ==
    ASSUME WorkInv, SaveFails \/ RevertFails \/ RevertAnswerLost \/ Revert, UNCHANGED infoVars
    PROVE  QuietForInfos
<1>1. CASE Revert
  BY <1>1 DEF Revert, Reverted, MarkedWithHeight, envVars, Running, QuietForInfos
<1>2. CASE SaveFails \/ RevertFails \/ RevertAnswerLost
  <2>1. /\ pc \in {"save", "revert"} /\ pc' \in {pc, "exited"} /\ restarts' = restarts
    BY <1>2 DEF SaveFails, RevertFails, RevertAnswerLost, Retry, MarkedWithHeight, envVars
  <2>2. QED
    BY <2>1 DEF Running, QuietForInfos
<1>3. QED
  BY <1>1, <1>2

\* handleBlocks asks for tokens the cache does not hold, with none in hand.
LEMMA HandleInfos == ASSUME WorkInv, InfosInv, Erc20Handle PROVE InfosInv'
<1>1. /\ pc = "handle" /\ pc' = "origin" /\ Cut(MaxBlockCount, "origin")
      /\ FetchInfos(batch') /\ UNCHANGED <<infos, replaced, restarts, rows>>
      /\ toOrigin' \subseteq DOMAIN fetched'
  BY DEF Erc20Handle, Cut, envVars
<1>2. PICK ts \in SUBSET (UNION {batch'[i].tokens : i \in DOMAIN batch'} \ erc20infos) :
         /\ fetched' \in [ts -> [supply : Supplies \cup {NoSupply}, origin : {NoSupply}]]
         /\ erc20infos' = erc20infos \cup ts
  BY <1>1 DEF FetchInfos
<1>3. ts \subseteq Tokens
  <2>1. WorkInv'
    BY <1>1, HandleWork
  <2>2. \A i \in DOMAIN batch' : batch'[i] \in Blocks
    <3>1. batch' \in Seq(Blocks)
      BY <2>1 DEF WorkInv, RowsTypeOK, LoopTypeOK
    <3>2. QED
      BY <3>1, LenProperties, ElementOfSeq
  <2>3. QED
    BY <1>2, <2>2, Erc20Assumption
<1>4. DOMAIN fetched = {} /\ pc \in Running /\ pc' \in Running
  BY <1>1 DEF InfosInv, InfosInHand, Running
<1>5. InfosType'
  <2>1. InfoTable(fetched)'
    BY <1>2, <1>3 DEF InfoTable, Info
  <2>2. QED
    BY <1>1, <1>2, <1>3, <2>1 DEF InfosInv, InfosType, InfoTable
<1>6. InfosInHand'
  BY <1>1, <1>2, <1>4 DEF InfosInv, InfosInHand
<1>7. OriginKept'
  BY <1>1, <1>4 DEF InfosInv, OriginKept
<1>8. QED
  BY <1>5, <1>6, <1>7 DEF InfosInv

\* getOrigin passes the supply of the row it deletes on to the one in hand.
LEMMA OriginInfos ==
    ASSUME InfosInv, NEW t \in Tokens, GetOrigin(t) PROVE InfosInv'
<1>1. /\ pc = "origin" /\ t \in toOrigin /\ toOrigin' = toOrigin \ {t}
      /\ UNCHANGED <<pc, restarts, erc20infos>>
      /\ t \in DOMAIN fetched /\ pc \in Running
  BY DEF GetOrigin, rowsVars, envVars, InfosInv, InfosInHand, Running
<1>2. InfosType
  BY DEF InfosInv
<1>3. CASE UNCHANGED <<fetched, infos, replaced>>
  <2>1. InfosType' /\ OriginKept'
    BY <1>1, <1>3 DEF InfosInv, InfosType, InfoTable, OriginKept
  <2>2. InfosInHand'
    BY <1>1, <1>3 DEF InfosInv, InfosInHand
  <2>3. QED
    BY <2>1, <2>2 DEF InfosInv
<1>4. CASE HasSupply(t) /\ fetched' = TakeOrigin(t)
  <2>1. /\ t \in DOMAIN infos /\ infos[t] \in Info /\ fetched[t] \in Info
    BY <1>1, <1>2, <1>4 DEF HasSupply, InfosType, InfoTable
  <2>2. infos[t].supply \in Supplies \cup {NoSupply}
    BY <2>1 DEF Info
  <2>3. /\ DOMAIN fetched' = DOMAIN fetched
        /\ fetched' = [fetched EXCEPT ![t] = [fetched[t] EXCEPT !.origin = infos[t].supply]]
    BY <1>4 DEF TakeOrigin
  <2>4. [fetched[t] EXCEPT !.origin = infos[t].supply] \in Info
    BY <2>1, <2>2 DEF Info
  <2>5. [fetched[t] EXCEPT !.origin = infos[t].supply].origin = infos[t].supply
    BY <2>1 DEF Info
  <2>6. InfoTable(fetched)'
    BY <1>2, <2>3, <2>4 DEF InfosType, InfoTable
  <2>7. /\ fetched'[t].origin = infos[t].supply
        /\ \A u \in DOMAIN fetched : u # t => fetched'[u] = fetched[u]
    BY <1>1, <1>2, <2>3, <2>5 DEF InfosType, InfoTable
  <2>8. CASE UNCHANGED <<infos, replaced>>
    <3>1. InfosType'
      BY <1>1, <1>2, <2>6, <2>8 DEF InfosType, InfoTable
    <3>2. InfosInHand'
      BY <1>1, <2>3, <2>8 DEF InfosInv, InfosInHand
    <3>3. OriginKept'
      BY <1>1, <2>1, <2>3, <2>7, <2>8 DEF InfosInv, OriginKept
    <3>4. QED
      BY <3>1, <3>2, <3>3 DEF InfosInv
  <2>9. CASE /\ infos' = [u \in DOMAIN infos \ {t} |-> infos[u]]
             /\ replaced' = [replaced EXCEPT ![t] = infos[t].supply]
    <3>1. /\ DOMAIN infos' = DOMAIN infos \ {t}
          /\ \A u \in DOMAIN infos' : infos'[u] = infos[u]
      BY <2>9
    <3>2. /\ replaced'[t] = infos[t].supply
          /\ \A u \in Tokens \ {t} : replaced'[u] = replaced[u]
          /\ replaced' \in [Tokens -> Supplies \cup {NoSupply}]
      BY <1>2, <2>2, <2>9 DEF InfosType
    <3>3. InfoTable(infos)'
      BY <1>2, <2>9 DEF InfosType, InfoTable
    <3>4. InfosType'
      BY <1>1, <1>2, <2>6, <3>2, <3>3 DEF InfosType
    <3>5. InfosInHand'
      BY <1>1, <2>3, <3>1 DEF InfosInv, InfosInHand
    <3>6. OriginKept'
      BY <1>1, <2>3, <2>7, <3>1, <3>2 DEF InfosInv, OriginKept
    <3>7. QED
      BY <3>4, <3>5, <3>6 DEF InfosInv
  <2>10. QED
    BY <1>4, <2>8, <2>9, <1>3 DEF GetOrigin
<1>5. QED
  BY <1>3, <1>4 DEF GetOrigin

\* INSERT IGNORE: a row that is there stays, the others are added.
LEMMA InsertInfosFacts ==
    ASSUME InfoTable(infos), InfoTable(fetched), InsertInfos
    PROVE  /\ InfoTable(infos)' /\ DOMAIN infos' = DOMAIN infos \cup DOMAIN fetched
           /\ \A t \in DOMAIN infos : infos'[t] = infos[t]
           /\ \A t \in DOMAIN fetched \ DOMAIN infos : infos'[t] = fetched[t]
<1>1. infos' = [t \in DOMAIN infos \cup DOMAIN fetched |->
                   IF t \in DOMAIN infos THEN infos[t] ELSE fetched[t]]
  BY DEF InsertInfos
<1>2. QED
  BY <1>1 DEF InfoTable

LEMMA SaveInfos ==
    ASSUME InfosInv, Erc20Save \/ Erc20SaveAnswerLost PROVE InfosInv'
<1>1. /\ pc = "save" /\ pc \in Running /\ InsertInfos /\ restarts' = restarts
      /\ UNCHANGED <<erc20infos, toOrigin, replaced>>
      /\ \/ fetched' = [t \in {} |-> NoSupply] /\ pc' \in {"handle", "drain", "loop"}
         \/ fetched' = fetched /\ pc' \in {"save", "exited"}
  BY DEF Erc20Save, Erc20SaveAnswerLost, SaveWithHeight, SaveAnswerLost, Saved, Retry, envVars,
         Running
<1>2. InfosType /\ InfosInHand /\ OriginKept
  BY DEF InfosInv
<1>3. /\ InfoTable(infos)' /\ DOMAIN infos' = DOMAIN infos \cup DOMAIN fetched
      /\ \A t \in DOMAIN infos : infos'[t] = infos[t]
      /\ \A t \in DOMAIN fetched \ DOMAIN infos : infos'[t] = fetched[t]
  BY <1>1, <1>2, InsertInfosFacts DEF InfosType
<1>4. InfoTable(fetched)'
  BY <1>1, <1>2 DEF InfosType, InfoTable
<1>5. InfosType'
  BY <1>1, <1>2, <1>3, <1>4 DEF InfosType
<1>6. InfosInHand'
  BY <1>1, <1>2, <1>3 DEF InfosInHand, Running
<1>7. OriginKept'
  BY <1>1, <1>2, <1>3 DEF OriginKept
<1>8. QED
  BY <1>5, <1>6, <1>7 DEF InfosInv

LEMMA InfosStep ==
    ASSUME WorkInv, InfosInv, [Erc20Next]_<<rowsVars, infoVars>> PROVE InfosInv'
<1>1. CASE UNCHANGED <<rowsVars, infoVars>>
  BY <1>1, QuietInfos DEF QuietForInfos, rowsVars, envVars
<1>2. CASE (LoopStep \/ Environment) /\ UNCHANGED <<rows, infoVars>>
  BY <1>2, LoopIsQuiet, QuietInfos
<1>3. CASE Erc20FixHistoryData \/ OriginsDone
  BY <1>3, CatchUpIsQuiet, QuietInfos
<1>4. CASE Erc20Handle
  BY <1>4, HandleInfos
<1>5. CASE Erc20Save \/ Erc20SaveAnswerLost
  BY <1>5, SaveInfos
<1>6. CASE Erc20Revert \/ ((SaveFails \/ RevertFails \/ RevertAnswerLost) /\ UNCHANGED infoVars)
  BY <1>6, RevertIsQuiet, QuietInfos DEF Erc20Revert
<1>7. CASE Erc20Restart
  <2>1. /\ restarts' = restarts + 1 /\ restarts \in Nat
        /\ erc20infos' = {} /\ fetched' = [t \in {} |-> NoSupply] /\ toOrigin' = {}
        /\ UNCHANGED <<infos, replaced>>
    BY <1>7 DEF Erc20Restart, Restart, WorkInv, RowsTypeOK, LoopTypeOK
  <2>2. InfoTable(fetched)'
    BY <2>1 DEF InfoTable
  <2>3. InfosType'
    BY <2>1, <2>2 DEF InfosInv, InfosType, InfoTable
  <2>4. InfosInHand'
    BY <2>1 DEF InfosInHand
  <2>5. restarts' # 0
    BY <2>1
  <2>6. QED
    BY <2>3, <2>4, <2>5 DEF InfosInv, OriginKept
<1>8. CASE \E t \in Tokens : GetOrigin(t)
  BY <1>8, OriginInfos
<1>9. CASE \E t \in Tokens : Evict(t)
  <2>1. /\ UNCHANGED <<pc, restarts, fetched, toOrigin, infos, replaced>>
        /\ erc20infos' \subseteq erc20infos
    BY <1>9 DEF Evict, rowsVars, envVars
  <2>2. QED
    BY <2>1 DEF InfosInv, InfosType, InfoTable, InfosInHand, OriginKept
<1>10. QED
  BY <1>1, <1>2, <1>3, <1>4, <1>5, <1>6, <1>7, <1>8, <1>9 DEF Erc20Next

LEMMA InitInfos == Erc20Init => InfosInv
<1> SUFFICES ASSUME Erc20Init PROVE InfosInv
  OBVIOUS
<1>1. /\ erc20infos = {} /\ fetched = [t \in {} |-> NoSupply] /\ toOrigin = {}
      /\ infos = [t \in {} |-> NoSupply] /\ replaced = [t \in Tokens |-> NoSupply]
  BY DEF Erc20Init
<1>2. InfosType /\ InfosInHand /\ OriginKept
  BY <1>1 DEF InfosType, InfoTable, InfosInHand, OriginKept
<1>3. QED
  BY <1>2 DEF InfosInv

\* The supply in a row of erc20_info that getOrigin deleted is not forgotten, and
\* no token is taken for known that has no row (getOrigin, doSave and the cache).
THEOREM OriginsStay == Erc20Spec => []OriginsKept
<1>1. WorkInv /\ InfosInv /\ [Erc20Next]_<<rowsVars, infoVars>> => InfosInv'
  BY InfosStep
<1>2. InfosInv => OriginsKept
  BY DEF InfosInv, InfosInHand, OriginsKept, KnownHasRow
<1>3. QED
  BY <1>1, <1>2, InitInfos, Erc20IsTransfer, WorkInvariant, PTL DEF Erc20Spec

\* The variables of erc20_tx keep their types.
THEOREM Erc20TypesHold == Erc20Spec => []Erc20TypeOK
<1>1. WorkInv /\ InfosInv => Erc20TypeOK
  BY DEF WorkInv, InfosInv, InfosType, InfoTable, InfosInHand, Erc20TypeOK
<1>2. WorkInv /\ InfosInv /\ [Erc20Next]_<<rowsVars, infoVars>> => InfosInv'
  BY InfosStep
<1>3. QED
  BY <1>1, <1>2, InitInfos, Erc20IsTransfer, WorkInvariant, PTL DEF Erc20Spec

----------------------------------------------------------------------------
(* erc721_basic *)

\* Each step of erc721_basic is one of TransferNext, its restart included: what
\* is Unaccounted then are blocks with rows.
LEMMA Erc721Steps ==
    ASSUME WorkInv, [Erc721Next]_erc721Vars PROVE [TransferNext]_rowsVars
<1>1. CASE UNCHANGED erc721Vars
  BY <1>1 DEF erc721Vars
<1>2. CASE Erc721Step
  <2>1. CASE LoopStep /\ UNCHANGED <<rows, owner>>
    BY <2>1 DEF TransferNext, Shared, Step
  <2>2. CASE Erc721FixHistoryData \/ Erc721Handle
    BY <2>2 DEF Erc721FixHistoryData, Erc721Handle, TransferNext, Shared, Step
  <2>3. CASE SaveRows \/ SaveHeight
    BY <2>3 DEF SaveRows, SaveHeight, WriteRows, WriteHeight, TransferNext
  <2>4. CASE Erc721Revert
    BY <2>4 DEF Erc721Revert, TransferNext, Shared, Step
  <2>5. QED
    BY <1>2, <2>1, <2>2, <2>3, <2>4 DEF Erc721Step
<1>3. CASE (SaveFails \/ RevertFails) \/ Erc721RevertAnswerLost
  BY <1>3 DEF Erc721RevertAnswerLost, TransferNext, Shared, Failure
<1>4. CASE SaveRowsAnswerLost \/ SaveHeightFails
  BY <1>4 DEF SaveRowsAnswerLost, SaveHeightFails, WriteRowsAnswerLost, WriteHeightFails,
              TransferNext
<1>5. CASE Environment /\ UNCHANGED <<rows, owner>>
  BY <1>5 DEF TransferNext, Shared
<1>6. CASE Restart(Unaccounted, {}) /\ UNCHANGED <<rows, owner>>
  <2>1. OkBlocks \subseteq Blocks /\ \A i \in DOMAIN rows : rows[i].blk \in Blocks
    BY RowsBlocks DEF WorkInv
  <2>2. /\ Unaccounted \in SUBSET Blocks
        /\ OkBlocks \ ToSet(chain) \subseteq Unaccounted
        /\ {b \in OkBlocks : b.num > taskNum} \subseteq Unaccounted
    BY <2>1 DEF Unaccounted, AheadOfFeed
  <2>3. RestartWith(Unaccounted)
    BY <1>6, <2>2 DEF RestartWith
  <2>4. QED
    BY <2>2, <2>3 DEF TransferNext
<1>7. QED
  BY <1>1, <1>2, <1>3, <1>4, <1>5, <1>6 DEF Erc721Next

LEMMA Erc721IsTransfer == Erc721Spec => TransferSpec
<1>1. Erc721Init => RowsInit
  BY DEF Erc721Init
<1>2. RowsInit => WorkInv
  BY InitWorkInv
<1>3. WorkInv /\ [Erc721Next]_erc721Vars => [TransferNext]_rowsVars /\ WorkInv'
  BY Erc721Steps, NextWork
<1>4. QED
  BY <1>1, <1>2, <1>3, PTL DEF Erc721Spec, TransferSpec

\* Rows of erc721_basic that count are those of blocks that stand, but for what
\* RowsStand names, though rows and height are saved apart (doSave, doRevert).
THEOREM Erc721RowsStand == Erc721Spec => []RowsStand
BY Erc721IsTransfer, TransfersStand, PTL

\* erc721_basic misses no block of the feed; the rows are saved before the
\* height that stands for them (doSave).
THEOREM Erc721MissesNone == Erc721Spec => [](NothingMissed /\ HeightIsWritten)
BY Erc721IsTransfer, TransfersMissNone, CoveredInvariant, CoveredIsWritten, PTL

\* erc721_basic writes the rows of a block again only where the height did not
\* tell (doSave: a crash or a failure between the rows and the height).
THEOREM Erc721WritesOnce == Erc721Spec => TwiceOnlyUnrecorded
BY Erc721IsTransfer, TransfersOnce, PTL
=============================================================================

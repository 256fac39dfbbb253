--------------------------- MODULE HandlersProof ---------------------------
(***************************************************************************)
(* Theorems about the handlers that keep no rows of blocks, for every value *)
(* of the constants.  What they share with those that do, the steps of the  *)
(* loop and what a task has been told of the blocks it reads, is in         *)
(* RowsTaskProof.                                                           *)
(*   - PushKafkaTask: the consumers of the topic believe in no block that   *)
(*     the feed has taken back (AnnouncedStand), and nothing is kept from   *)
(*     them (AllAnnounced).                                                 *)
(*   - DexPairTask: every pair with a row was asked for its tokens           *)
(*     (TokensAsked), and no pair shows reserves from before the block that *)
(*     changed them last (ReservesFresh).                                   *)
(*   - the three balance tasks: no row keeps the change of a block that was *)
(*     reverted (BalanceStands), and none is older than a block the task    *)
(*     has passed (BalanceFresh).                                           *)
(***************************************************************************)
EXTENDS PushKafkaTask, DexPairTask, NativeBalance, Erc20Balance, Erc1155Balance, RowsTaskProof,
        FiniteSetTheorems

----------------------------------------------------------------------------
(* PushKafkaTask. *)

\* The block in hand and those after it follow each other.
PushFollows ==
    /\ \A i \in 1..(Len(todo) - 1) : todo[i + 1].num = todo[i].num + 1
    /\ batch # <<>> /\ todo # <<>> => todo[1].num = batch[1].num + 1

\* What the task has in hand where.
PushInHand ==
    /\ pc \in Running => tries <= RetryTimes
    /\ pc \in Between => inHand = <<>> /\ todo = <<>> /\ batch = <<>>
    /\ pc = "handle" => /\ todo # <<>> /\ batch = <<>> /\ ~RevertInHand
                        /\ todo[1].num > curHeight
    /\ pc = "save" => Len(batch) = 1 /\ ~RevertInHand /\ batch[1].num > curHeight
    /\ pc = "revert" => RevertInHand /\ todo = <<>> /\ batch = <<>>
    /\ pc \in {"record", "height"} /\ RevertInHand =>
          todo = <<>> /\ batch = <<inHand[1].blk>> /\ inHand[1].blk \notin Announced
    /\ pc \in {"record", "height"} /\ ~RevertInHand =>
          Len(batch) = 1 /\ batch[1] \in Announced
    /\ pc = "record" /\ ~RevertInHand => batch[1].num > curHeight
    /\ pc = "height" /\ ~RevertInHand =>
          inHand = <<>> /\ todo = <<>> /\ batch[1].num >= curHeight
    /\ pc \in Running /\ RevertInHand =>
          /\ inHand[1].blk \in gone /\ inHand[1].blk.num <= curHeight
          /\ Reached(blockChan, Len(sent)) = inHand[1].blk.num - 1

PushWork == PushTypeOK /\ FeedInv /\ PushFollows /\ PushInHand

\* The event that tells of b.
Telling(b) == [state |-> "ok", blk |-> b]

\* Of block b the first n of the events es tell, or the height h they lead from
\* is not below it; and none of those after takes it back.
ToldIn(es, h, b, n) ==
    \/ \E i \in 1..n : /\ es[i] = Telling(b)
                       /\ \A j \in (i + 1)..n : After(es[j]) >= b.num
    \/ h >= b.num /\ \A j \in 1..n : After(es[j]) >= b.num

Told(b, n) == ToldIn(blockChan, Reached(blockChan, Len(sent)), b, n)

\* The blocks that stand, and those that are taken back, are told of before.
FeedTold ==
    /\ \A k \in DOMAIN sent : Told(sent[k], Len(blockChan))
    /\ \A i \in DOMAIN blockChan :
          blockChan[i].state = "revert" => Told(blockChan[i].blk, i - 1)

\* The blocks the consumers believe in, and those that will be announced.
PushSettled ==
    pc \in Running => /\ \A b \in Announced \cup ToSet(todo) : Settled(b)
                      /\ pc = "save" => Settled(batch[1])

Ahead(b) == \/ Telling(b) \in ToSet(blockChan)
            \/ pc = "handle" /\ b = todo[1]

\* A block announced is not above the height, but the next, of which the feed
\* is about to tell, and that in hand.
Reckoned(b) ==
    \/ b.num <= curHeight
    \/ b.num = curHeight + 1 /\ Ahead(b)
    \/ pc \in {"save", "record"} /\ b = batch[1]

\* The revert is announced, and the height not yet back.
Undoing == RevertInHand /\ pc # "revert"

PushAccounted ==
    pc \in Running => \A b \in Announced \ astray :
        IF Undoing
        THEN \/ b.num < inHand[1].blk.num
             \/ b.num = inHand[1].blk.num /\ Telling(b) \in ToSet(blockChan)
        ELSE Reckoned(b)

PushKnown == BlocksKnown /\ FeedTold /\ PushSettled /\ PushAccounted

\* The height up to which blocks have been announced.
PushReach ==
    IF RevertInHand THEN inHand[1].blk.num - 1
    ELSE IF pc = "handle" THEN todo[1].num - 1
    ELSE IF pc = "save" THEN batch[1].num - 1
    ELSE IF pc \in {"record", "height"} THEN batch[1].num
    ELSE curHeight

CoveredAt(n) == n \in skipped \/ \E b \in Announced : b.num = n

PushCovered == pc \in Running => \A n \in 1..PushReach : CoveredAt(n)

----------------------------------------------------------------------------
(* What the consumers believe in. *)

\* The last word of a topic on a block.
WordIn(s, b) == LET at == {i \in DOMAIN s : s[i].blk = b}
                IN  IF at = {} THEN "none" ELSE s[Max(at)].state

LEMMA WordFacts ==
    ASSUME NEW s \in Seq(Event), NEW b
    PROVE  \/ /\ WordIn(s, b) = "none"
              /\ \A i \in DOMAIN s : s[i].blk # b
           \/ \E i \in DOMAIN s : /\ WordIn(s, b) = s[i].state /\ s[i].blk = b
                                  /\ \A j \in DOMAIN s : s[j].blk = b => j <= i
<1> DEFINE n == Len(s)
           at == {i \in DOMAIN s : s[i].blk = b}
           T == {n - i : i \in at}
<1>1. n \in Nat /\ DOMAIN s = 1..n
  BY LenProperties
<1> HIDE DEF n
<1>2. WordIn(s, b) = IF at = {} THEN "none" ELSE s[Max(at)].state
  BY DEF WordIn
<1>3. CASE at = {}
  BY <1>2, <1>3
<1>4. CASE at # {}
  <2>1. at \subseteq 1..n /\ \A i \in at : n - i \in Nat /\ i \in Int
    BY <1>1
  <2> HIDE DEF at
  <2>2. T \subseteq Nat /\ T # {}
    BY <1>4, <2>1
  <2>3. PICK x \in T : \A y \in T : x <= y
    BY <2>2, LeastNumber
  <2>4. PICK i \in at : x = n - i
    BY <2>3
  <2>5. \A j \in at : j <= i
    <3> SUFFICES ASSUME NEW j \in at PROVE j <= i
      OBVIOUS
    <3>1. n - i <= n - j
      BY <2>3, <2>4
    <3>2. QED
      BY <1>1, <2>1, <3>1
  <2>6. \E m \in at : \A j \in at : m >= j
    BY <2>1, <2>5
  <2>7. Max(at) \in at /\ \A j \in at : Max(at) >= j
    BY <2>6 DEF Max
  <2>8. Max(at) \in DOMAIN s /\ s[Max(at)].blk = b
    BY <2>7 DEF at
  <2>9. \A j \in DOMAIN s : s[j].blk = b => j <= Max(at)
    <3> SUFFICES ASSUME NEW j \in DOMAIN s, s[j].blk = b PROVE j <= Max(at)
      OBVIOUS
    <3>1. j \in at
      BY DEF at
    <3>2. QED
      BY <2>1, <2>7, <3>1
  <2>10. QED
    BY <1>2, <1>4, <2>8, <2>9
<1>5. QED
  BY <1>3, <1>4

\* A message changes what is known of its block, and of no other.
LEMMA WordAppend ==
    ASSUME NEW s \in Seq(Event), NEW m \in Event, NEW b
    PROVE  /\ Append(s, m) \in Seq(Event)
           /\ WordIn(Append(s, m), b) = IF b = m.blk THEN m.state ELSE WordIn(s, b)
<1> DEFINE n == Len(s)
           t == Append(s, m)
<1>1. n \in Nat /\ DOMAIN s = 1..n
  BY LenProperties
<1>2. t \in Seq(Event) /\ Len(t) = n + 1 /\ (\A i \in 1..n : t[i] = s[i]) /\ t[n + 1] = m
  BY AppendProperties
<1>3. DOMAIN t = 1..(n + 1)
  BY <1>2, LenProperties
<1> HIDE DEF n, t
<1>4. \/ WordIn(t, b) = "none" /\ \A i \in DOMAIN t : t[i].blk # b
      \/ \E i \in DOMAIN t : /\ WordIn(t, b) = t[i].state /\ t[i].blk = b
                             /\ \A j \in DOMAIN t : t[j].blk = b => j <= i
  BY <1>2, WordFacts
<1>5. \/ WordIn(s, b) = "none" /\ \A i \in DOMAIN s : s[i].blk # b
      \/ \E i \in DOMAIN s : /\ WordIn(s, b) = s[i].state /\ s[i].blk = b
                             /\ \A j \in DOMAIN s : s[j].blk = b => j <= i
  BY WordFacts
<1>6. n + 1 \in 1..(n + 1) /\ \A i \in 1..n : i \in 1..(n + 1) /\ i # n + 1
  BY <1>1
<1>7. \A i \in 1..(n + 1) : i = n + 1 \/ i \in 1..n
  BY <1>1
<1>8. CASE b = m.blk
  <2>1. PICK i \in DOMAIN t : /\ WordIn(t, b) = t[i].state
                              /\ \A j \in DOMAIN t : t[j].blk = b => j <= i
    BY <1>2, <1>3, <1>4, <1>6, <1>8
  <2>2. n + 1 <= i
    BY <1>2, <1>3, <1>6, <1>8, <2>1
  <2>3. i = n + 1
    BY <1>1, <1>3, <2>2
  <2>4. QED
    BY <1>2, <1>8, <2>1, <2>3 DEF t
<1>9. CASE b # m.blk
  <2>1. \A i \in DOMAIN t : t[i].blk = b => i \in DOMAIN s /\ s[i] = t[i]
    BY <1>1, <1>2, <1>3, <1>7, <1>9
  <2>2. \A i \in DOMAIN s : i \in DOMAIN t /\ s[i] = t[i]
    BY <1>1, <1>2, <1>3, <1>6
  <2>3. CASE \A i \in DOMAIN s : s[i].blk # b
    <3>1. WordIn(s, b) = "none"
      BY <1>5, <2>3
    <3>2. WordIn(t, b) = "none"
      BY <1>4, <2>1, <2>3
    <3>3. QED
      BY <1>2, <1>9, <3>1, <3>2 DEF t
  <2>4. CASE \E i \in DOMAIN s : s[i].blk = b
    <3>1. PICK i \in DOMAIN s : /\ WordIn(s, b) = s[i].state /\ s[i].blk = b
                                /\ \A j \in DOMAIN s : s[j].blk = b => j <= i
      BY <1>5, <2>4
    <3>2. PICK k \in DOMAIN t : /\ WordIn(t, b) = t[k].state /\ t[k].blk = b
                                /\ \A j \in DOMAIN t : t[j].blk = b => j <= k
      BY <1>4, <2>2, <3>1
    <3>3. k \in DOMAIN s /\ s[k] = t[k] /\ k <= i /\ i <= k
      BY <2>1, <2>2, <3>1, <3>2
    <3>4. k = i
      BY <1>1, <3>3
    <3>5. QED
      BY <1>2, <1>9, <3>1, <3>2, <3>3, <3>4 DEF t
  <2>5. QED
    BY <2>3, <2>4
<1>10. QED
  BY <1>8, <1>9

LEMMA AnnouncedIs ==
    /\ Announced = {b \in Blocks : WordIn(topic, b) = "ok"}
    /\ Announced' = {b \in Blocks : WordIn(topic', b) = "ok"}
BY DEF Announced, LastWord, WordIn

LEMMA AnnounceFacts ==
    ASSUME topic \in Seq(Event), NEW m \in Event, topic' = Append(topic, m)
    PROVE  /\ topic' \in Seq(Event)
           /\ Announced' = IF m.state = "ok" THEN Announced \cup {m.blk}
                           ELSE Announced \ {m.blk}
<1>1. m.blk \in Blocks
  BY EventFacts
<1>2. /\ topic' \in Seq(Event)
      /\ \A b : WordIn(topic', b) = IF b = m.blk THEN m.state ELSE WordIn(topic, b)
  BY WordAppend
<1>3. \A b \in Blocks : b \in Announced' <=> WordIn(topic', b) = "ok"
  BY AnnouncedIs
<1>4. \A b \in Blocks : b \in Announced <=> WordIn(topic, b) = "ok"
  BY AnnouncedIs
<1>5. Announced \subseteq Blocks /\ Announced' \subseteq Blocks
  BY AnnouncedIs
<1>6. QED
  BY <1>1, <1>2, <1>3, <1>4, <1>5

LEMMA SameAnnounced == topic' = topic => Announced' = Announced
BY AnnouncedIs

LEMMA AnnouncedBlocks == \A b \in Announced : b \in Blocks /\ b.num \in Nat /\ b.num >= 1
BY AnnouncedIs, TaskFeedAssumption

----------------------------------------------------------------------------
(* What the task has in hand, step by step. *)

USE DEF AtWork

LEMMA InitPush == ASSUME PushKafkaConstants, PushInit PROVE PushWork
<1>1. /\ pc = "created" /\ cache = <<>> /\ curHeight = StartNumber /\ latestHeight = 0
      /\ compensation = 0 /\ inHand = <<>> /\ todo = <<>> /\ batch = <<>> /\ tries = 0
      /\ taskNum = StartNumber /\ restarts = 0 /\ stopping = FALSE
      /\ skipped = {} /\ gone = {} /\ astray = {} /\ failures = 0
      /\ topic = [i \in 1..StartNumber |-> Message("ok", StartChain[i])]
      /\ FeedInit
  BY DEF PushInit, Init
<1>2. /\ StartNumber \in Nat /\ Len(StartChain) \in Nat /\ DOMAIN StartChain = 1..Len(StartChain)
      /\ StartNumber \in 0..Len(StartChain)
      /\ \A i \in 1..StartNumber : StartChain[i] \in Blocks
  <2>1. StartChain \in Seq(Blocks) /\ StartNumber \in 0..Len(StartChain)
    BY TaskFeedAssumption, AsyncTaskAssumption
  <2>2. Len(StartChain) \in Nat /\ DOMAIN StartChain = 1..Len(StartChain)
    BY <2>1, LenProperties
  <2>3. \A i \in 1..StartNumber : i \in 1..Len(StartChain)
    BY <2>1, <2>2
  <2>4. QED
    BY <2>1, <2>2, <2>3, ElementOfSeq
<1>3. FeedInv
  BY <1>1, InitFeedInv
<1>4. LoopTypeOK
  <2>1. /\ <<>> \in Seq(Blocks) /\ <<>> \in Seq(Event) /\ Len(<<>>) = 0
    BY EmptySeq
  <2>2. /\ 0 \in 0..CompensationCap /\ 0 \in 0..(RetryTimes + 1) /\ 0 \in 0..MaxRestarts
        /\ 0 <= BufferSize
    BY AsyncTaskAssumption, TaskFeedAssumption
  <2>3. FeedTypeOK
    BY <1>3 DEF FeedInv
  <2>4. pc \in Running
    BY <1>1 DEF Running
  <2>5. /\ cache \in Seq(Blocks) /\ Len(cache) <= BufferSize
        /\ inHand \in Seq(Event) /\ Len(inHand) <= 1
        /\ todo \in Seq(Blocks) /\ batch \in Seq(Blocks)
    BY <1>1, <2>1, <2>2
  <2>6. /\ curHeight \in Nat /\ latestHeight \in Nat /\ taskNum \in Nat
        /\ skipped \subseteq Nat /\ gone \subseteq Blocks /\ astray \subseteq Blocks
    BY <1>1, <1>2
  <2>7. QED
    BY <1>1, <2>2, <2>3, <2>4, <2>5, <2>6 DEF LoopTypeOK
<1>5. topic \in Seq(Event) /\ failures \in 0..MaxFailures
  <2>1. \A i \in 1..StartNumber : Message("ok", StartChain[i]) \in Event
    BY <1>2 DEF Message, Event
  <2>2. topic \in [1..StartNumber -> Event]
    BY <1>1, <2>1
  <2>3. topic \in Seq(Event)
    BY <1>2, <2>2
  <2>4. 0 \in 0..MaxFailures
    BY DEF PushKafkaConstants
  <2>5. QED
    BY <1>1, <2>3, <2>4
<1>6. ~RevertInHand
  BY <1>1 DEF RevertInHand
<1>7. PushInHand
  BY <1>1, <1>6, AsyncTaskAssumption DEF PushInHand, Between
<1>8. PushFollows
  BY <1>1, EmptySeq DEF PushFollows
<1>9. QED
  BY <1>3, <1>4, <1>5, <1>7, <1>8 DEF PushWork, PushTypeOK

\* A step that leaves the work and the topic alone.
LEMMA QuietPush ==
    ASSUME PushWork, LoopTypeOK', FeedInv',
           UNCHANGED <<topic, failures, inHand, todo, batch, tries>>,
           \/ /\ pc' = pc /\ curHeight' = curHeight /\ gone' = gone
              /\ Reached(blockChan', Len(sent')) = Reached(blockChan, Len(sent))
           \/ pc' \notin Running
           \/ pc \in Between /\ pc' \in Between
    PROVE  PushWork'
<1>1. PushTypeOK /\ PushFollows /\ PushInHand
  BY DEF PushWork
<1>2. PushTypeOK' /\ PushFollows'
  BY <1>1 DEF PushTypeOK, PushFollows
<1>3. Announced' = Announced /\ RevertInHand' = RevertInHand
  BY SameAnnounced DEF RevertInHand
<1>4. CASE /\ pc' = pc /\ curHeight' = curHeight /\ gone' = gone
           /\ Reached(blockChan', Len(sent')) = Reached(blockChan, Len(sent))
  <2>1. PushInHand'
    BY <1>1, <1>3, <1>4 DEF PushInHand
  <2>2. QED
    BY <1>2, <2>1 DEF PushWork
<1>5. CASE pc' \notin Running
  <2>1. pc' \notin Between /\ pc' \notin {"handle", "save", "revert", "record", "height"}
    BY <1>5 DEF Between, Running
  <2>2. PushInHand'
    BY <1>5, <2>1 DEF PushInHand, Running
  <2>3. QED
    BY <1>2, <2>2 DEF PushWork
<1>6. CASE pc \in Between /\ pc' \in Between
  <2>1. pc \in Running /\ pc' \notin {"handle", "save", "revert", "record", "height"}
    BY <1>6 DEF Between
  <2>2. inHand = <<>> /\ ~RevertInHand
    BY <1>1, <1>6 DEF PushInHand, RevertInHand
  <2>3. PushInHand'
    BY <1>1, <1>3, <1>6, <2>1, <2>2 DEF PushInHand
  <2>4. QED
    BY <1>2, <2>3 DEF PushWork
<1>7. QED
  BY <1>4, <1>5, <1>6

LEMMA IdlePush == ASSUME PushWork, Idle, UNCHANGED <<topic, failures>> PROVE PushWork'
<1>1. LoopTypeOK /\ FeedInv
  BY DEF PushWork, PushTypeOK
<1>2. /\ UNCHANGED <<cache, curHeight, latestHeight, workVars, feedVars, taskNum, history>>
      /\ PcMoves /\ LoopTypeOK'
  BY <1>1, IdleFacts
<1>3. FeedInv'
  BY <1>1, <1>2, FeedStays
<1>4. blockChan' = blockChan /\ sent' = sent
  BY <1>2 DEF feedVars
<1>5. QED
  BY <1>2, <1>3, <1>4, QuietPush DEF PcMoves, workVars, history

LEMMA FeedPush ==
    ASSUME PushWork, BaseApplies \/ \E e \in Event : Publish(e), UNCHANGED <<topic, failures>>
    PROVE  PushWork'
<1>1. LoopTypeOK /\ FeedInv
  BY DEF PushWork, PushTypeOK
<1>2. /\ UNCHANGED <<pc, loopVars, workVars, taskNum, envVars, history>>
      /\ Apply \/ \E e \in Event : Deliver(e)
  BY DEF BaseApplies, Publish
<1>3. FeedInv' /\ Reached(blockChan', Len(sent')) = Reached(blockChan, Len(sent))
  BY <1>1, <1>2, ApplyFacts, DeliverFacts
<1>4. LoopTypeOK'
  BY <1>1, <1>2, <1>3 DEF LoopTypeOK, loopVars, workVars, envVars, history, FeedInv
<1>5. QED
  BY <1>2, <1>3, <1>4, QuietPush DEF loopVars, workVars, history

LEMMA PassedByPush ==
    ASSUME PushWork, NEW e \in Event, PassedBy(e), UNCHANGED <<topic, failures>> PROVE PushWork'
<1>1. LoopTypeOK /\ FeedInv
  BY DEF PushWork, PushTypeOK
<1>2. /\ Take(e) /\ pc' = "drain" /\ UNCHANGED <<curHeight, inHand, todo>>
      /\ latestHeight' \in Nat /\ cache' \in Seq(Blocks) /\ Len(cache') <= BufferSize
  BY <1>1, PassedByFacts
<1>3. /\ FeedInv' /\ pc \in Between /\ "drain" \in Between /\ gone' \subseteq Blocks
      /\ UNCHANGED <<compensation, batch, tries, taskNum, envVars, skipped, astray>>
  BY <1>1, <1>2, TakenFacts
<1>4. LoopTypeOK'
  BY <1>1, <1>2, <1>3 DEF LoopTypeOK, envVars, FeedInv, Between
<1>5. QED
  BY <1>2, <1>3, <1>4, QuietPush

\* handleBlock of the block that fits the height.
LEMMA ReceiveNextPush ==
    ASSUME PushWork, NEW e \in Event, ReceiveNext(e), UNCHANGED <<topic, failures>>
    PROVE  PushWork'
<1>1. LoopTypeOK /\ FeedInv /\ PushTypeOK /\ PushInHand
  BY DEF PushWork, PushTypeOK
<1>2. /\ e.state = "ok" /\ Take(e) /\ curHeight + 1 = e.blk.num
      /\ latestHeight' = e.blk.num
      /\ inHand' = <<e>> /\ todo' = <<e.blk>> /\ pc' = "handle"
      /\ cache' = cache /\ curHeight' = curHeight
  BY DEF ReceiveNext, FitsHeight
<1>3. /\ FeedInv' /\ pc \in Between /\ gone' \subseteq Blocks
      /\ UNCHANGED <<compensation, batch, tries, taskNum, envVars, skipped, astray>>
  BY <1>1, <1>2, TakenFacts
<1>4. /\ e.blk \in Blocks /\ e.blk.num \in Nat /\ curHeight \in Nat
      /\ todo' \in Seq(Blocks) /\ inHand' \in Seq(Event) /\ Len(inHand') <= 1
      /\ Len(todo') = 1 /\ todo'[1] = e.blk /\ todo' # <<>>
      /\ inHand'[1] = e
  BY <1>1, <1>2, EventFacts DEF LoopTypeOK
<1>5. pc \in Running /\ pc' \in Running /\ pc' \notin Between /\ batch' = <<>>
  BY <1>1, <1>2, <1>3 DEF Between, Running, PushInHand
<1>6. LoopTypeOK'
  BY <1>1, <1>2, <1>3, <1>4, <1>5 DEF LoopTypeOK, envVars, FeedInv
<1>7. PushFollows'
  BY <1>4, <1>5 DEF PushFollows
<1>8. ~RevertInHand'
  BY <1>2, <1>4 DEF RevertInHand
<1>9. todo'[1].num > curHeight'
  BY <1>2, <1>4
<1>10. PushInHand'
  BY <1>1, <1>2, <1>3, <1>4, <1>5, <1>8, <1>9 DEF PushInHand
<1>11. QED
  BY <1>1, <1>3, <1>6, <1>7, <1>10 DEF PushWork, PushTypeOK

LEMMA ReceiveRevertPush ==
    ASSUME PushWork, NEW e \in Event, ReceiveRevert(e), UNCHANGED <<topic, failures>>
    PROVE  PushWork'
<1>1. LoopTypeOK /\ FeedInv /\ PushTypeOK /\ PushInHand
  BY DEF PushWork, PushTypeOK
<1>2. /\ e.state = "revert" /\ Take(e) /\ curHeight >= e.blk.num
      /\ cache' = RemoveFromCache(e.blk.num)
      /\ inHand' = <<e>> /\ pc' = "revert"
      /\ UNCHANGED <<curHeight, latestHeight, todo>>
  BY DEF ReceiveRevert
<1>3. /\ FeedInv' /\ pc \in Between /\ gone' \subseteq Blocks
      /\ UNCHANGED <<compensation, batch, tries, taskNum, envVars, skipped, astray>>
  BY <1>1, <1>2, TakenFacts
<1>4. Reached(blockChan', Len(sent')) = e.blk.num - 1
  <2>1. TakeEvent(e)
    BY <1>2 DEF Take
  <2>2. Reached(blockChan', Len(sent')) = After(e)
    BY <1>1, <2>1, TakeFacts
  <2>3. QED
    BY <1>2, <2>2 DEF After
<1>5. /\ cache' \in Seq(Blocks) /\ Len(cache') <= BufferSize
  BY <1>1, <1>2, RemoveFromCacheFacts DEF LoopTypeOK
<1>6. /\ inHand' \in Seq(Event) /\ Len(inHand') <= 1 /\ inHand'[1] = e /\ inHand' # <<>>
      /\ e.blk.num \in Nat /\ curHeight \in Nat
  BY <1>1, <1>2, EventFacts DEF LoopTypeOK
<1>7. /\ pc \in Running /\ pc' \in Running /\ pc' \notin Between
      /\ batch' = <<>> /\ todo' = <<>>
  BY <1>1, <1>2, <1>3 DEF Between, Running, PushInHand
<1>8. LoopTypeOK'
  BY <1>1, <1>2, <1>3, <1>5, <1>6, <1>7 DEF LoopTypeOK, envVars, FeedInv
<1>9. PushFollows'
  BY <1>7, EmptySeq DEF PushFollows
<1>10. RevertInHand'
  BY <1>2, <1>6 DEF RevertInHand
<1>11. inHand'[1].blk.num <= curHeight' /\ inHand'[1].blk \in gone'
  BY <1>1, <1>2, <1>6, TakenFacts
<1>12. PushInHand'
  BY <1>1, <1>2, <1>3, <1>4, <1>6, <1>7, <1>10, <1>11 DEF PushInHand
<1>13. QED
  BY <1>1, <1>3, <1>8, <1>9, <1>12 DEF PushWork, PushTypeOK

LEMMA OneIsSome == \A s : Len(s) = 1 => s # <<>>
OBVIOUS

\* What is in hand is typed.
LEMMA InHandFacts ==
    ASSUME LoopTypeOK
    PROVE  /\ curHeight \in Nat /\ taskNum \in Nat
           /\ batch # <<>> => batch[1] \in Blocks /\ batch[1].num \in Nat /\ batch[1].num >= 1
           /\ todo # <<>> => todo[1] \in Blocks /\ todo[1].num \in Nat /\ todo[1].num >= 1
           /\ inHand # <<>> => /\ inHand[1] \in Event /\ inHand = <<inHand[1]>>
                               /\ inHand[1].blk \in Blocks /\ inHand[1].blk.num \in Nat
                               /\ inHand[1].blk.num >= 1
           /\ RevertInHand => /\ inHand # <<>> /\ inHand[1] = Reverting(inHand[1].blk)
                              /\ ToSet(inHand) = {Reverting(inHand[1].blk)}
           /\ ~RevertInHand => \A x : Reverting(x) \notin ToSet(inHand)
<1>1. /\ curHeight \in Nat /\ taskNum \in Nat
      /\ batch \in Seq(Blocks) /\ todo \in Seq(Blocks) /\ inHand \in Seq(Event)
      /\ Len(inHand) <= 1
  BY DEF LoopTypeOK
<1>2. \A s : s \in Seq(Blocks) /\ s # <<>> =>
          s[1] \in Blocks /\ s[1].num \in Nat /\ s[1].num >= 1
  <2> SUFFICES ASSUME NEW s \in Seq(Blocks), s # <<>> PROVE s[1] \in Blocks
    BY TaskFeedAssumption
  <2>1. Len(s) \in Nat /\ Len(s) # 0
    BY LenProperties, EmptySeq
  <2>2. QED
    BY <2>1, ElementOfSeq
<1>3. ASSUME inHand # <<>>
      PROVE  /\ inHand[1] \in Event /\ inHand = <<inHand[1]>> /\ ToSet(inHand) = {inHand[1]}
             /\ inHand[1].blk \in Blocks /\ inHand[1].blk.num \in Nat
             /\ inHand[1].blk.num >= 1
  <2>1. Len(inHand) = 1
    <3> DEFINE n == Len(inHand)
    <3>1. n \in Nat /\ n # 0 /\ n <= 1
      BY <1>1, <1>3, LenProperties, EmptySeq
    <3> HIDE DEF n
    <3>2. n = 1
      BY <3>1
    <3>3. QED
      BY <3>2 DEF n
  <2>2. inHand[1] \in Event /\ DOMAIN inHand = {1}
    <3>1. DOMAIN inHand = 1..1 /\ 1..1 = {1}
      BY <1>1, <2>1, LenProperties
    <3>2. \A i \in 1..Len(inHand) : inHand[i] \in Event
      BY <1>1, ElementOfSeq
    <3>3. QED
      BY <2>1, <3>1, <3>2
  <2>3. inHand = <<inHand[1]>>
    <3>1. <<inHand[1]>> \in Seq(Event) /\ Len(<<inHand[1]>>) = 1
      BY <2>2
    <3>2. QED
      BY <1>1, <2>1, <3>1, SeqEqual
  <2>4. ToSet(inHand) = {inHand[1]}
    BY <2>2 DEF ToSet
  <2>5. QED
    BY <2>2, <2>3, <2>4, EventFacts
<1>4. RevertInHand => /\ inHand # <<>> /\ inHand[1] = Reverting(inHand[1].blk)
                      /\ ToSet(inHand) = {Reverting(inHand[1].blk)}
  BY <1>3 DEF RevertInHand, Reverting, Event
<1>5. ~RevertInHand => \A x : Reverting(x) \notin ToSet(inHand)
  <2>1. CASE inHand = <<>>
    BY <2>1 DEF ToSet
  <2>2. CASE inHand # <<>>
    BY <1>3, <2>2 DEF RevertInHand, Reverting
  <2>3. QED
    BY <2>1, <2>2
<1>6. QED
  BY <1>1, <1>2, <1>3, <1>4, <1>5

LEMMA HandFacts ==
    ASSUME PushWork
    PROVE  /\ curHeight \in Nat /\ taskNum \in Nat
           /\ batch # <<>> => batch[1] \in Blocks /\ batch[1].num \in Nat /\ batch[1].num >= 1
           /\ todo # <<>> => todo[1] \in Blocks /\ todo[1].num \in Nat /\ todo[1].num >= 1
           /\ inHand # <<>> => /\ inHand[1] \in Event /\ inHand = <<inHand[1]>>
                               /\ inHand[1].blk \in Blocks /\ inHand[1].blk.num \in Nat
                               /\ inHand[1].blk.num >= 1
           /\ RevertInHand => /\ inHand # <<>> /\ inHand[1] = Reverting(inHand[1].blk)
                              /\ ToSet(inHand) = {Reverting(inHand[1].blk)}
           /\ ~RevertInHand => \A x : Reverting(x) \notin ToSet(inHand)
BY InHandFacts DEF PushWork, PushTypeOK

\* fixHistoryData finds the blocks above the height, each above the last.
LEMMA ReadFoundPush ==
    ASSUME PushKafkaConstants, PushWork, ReadFound(PushRangeEnd), UNCHANGED <<topic, failures>>
    PROVE  PushWork' /\ todo'[1].num = curHeight + 1
<1>1. LoopTypeOK /\ FeedInv /\ PushTypeOK /\ PushInHand /\ curHeight \in Nat
  BY DEF PushWork, PushTypeOK, LoopTypeOK
<1>2. /\ pc = "catchup" /\ Found(PushRangeEnd) # <<>> /\ pc' = "handle"
      /\ todo' = Found(PushRangeEnd) /\ cache' = CacheLeft
      /\ astray' = astray \cup (ToSet(todo') \cap gone)
      /\ UNCHANGED <<curHeight, latestHeight, compensation, inHand,
                     batch, tries, feedVars, taskNum, envVars, skipped, gone>>
  BY DEF ReadFound
<1>3. PushRangeEnd \in Int
  BY <1>1 DEF PushRangeEnd, PushKafkaConstants
<1>4. /\ todo' \in Seq(Blocks) /\ todo' # <<>>
      /\ \A i \in DOMAIN todo' : todo'[i].num = curHeight + i
      /\ cache' \in Seq(Blocks) /\ Len(cache') <= BufferSize
  BY <1>1, <1>2, <1>3, FoundFacts
<1>5. Len(todo') \in Nat /\ Len(todo') >= 1 /\ DOMAIN todo' = 1..Len(todo')
  BY <1>4, LenProperties, EmptySeq
<1>6. /\ todo'[1].num = curHeight + 1
      /\ \A i \in 1..(Len(todo') - 1) : todo'[i + 1].num = todo'[i].num + 1
  <2>1. 1 \in DOMAIN todo'
    BY <1>5
  <2>2. \A i \in 1..(Len(todo') - 1) : i \in DOMAIN todo' /\ i + 1 \in DOMAIN todo'
    BY <1>5
  <2>3. \A i \in 1..(Len(todo') - 1) : todo'[i + 1].num = todo'[i].num + 1
    <3> SUFFICES ASSUME NEW i \in 1..(Len(todo') - 1)
                 PROVE  todo'[i + 1].num = todo'[i].num + 1
      OBVIOUS
    <3>1. todo'[i].num = curHeight + i /\ todo'[i + 1].num = curHeight + (i + 1)
      BY <1>4, <2>2
    <3>2. QED
      BY <1>1, <3>1
  <2>4. QED
    BY <1>4, <2>1, <2>3
<1>7. FeedInv'
  BY <1>1, <1>2, FeedStays
<1>8. /\ pc \in Between /\ pc' \in Running /\ pc' \notin Between
      /\ inHand' = <<>> /\ batch' = <<>> /\ tries' <= RetryTimes
  BY <1>1, <1>2 DEF Between, Running, PushInHand
<1>9. astray' \subseteq Blocks
  BY <1>1, <1>2 DEF LoopTypeOK
<1>10. LoopTypeOK'
  BY <1>1, <1>2, <1>4, <1>7, <1>8, <1>9 DEF LoopTypeOK, envVars, FeedInv
<1>11. PushFollows'
  BY <1>6, <1>8 DEF PushFollows
<1>12. ~RevertInHand' /\ todo'[1].num > curHeight'
  BY <1>1, <1>2, <1>6, <1>8 DEF RevertInHand
<1>13. PushInHand'
  BY <1>2, <1>4, <1>8, <1>12 DEF PushInHand
<1>14. QED
  BY <1>1, <1>6, <1>7, <1>10, <1>11, <1>13 DEF PushWork, PushTypeOK

LEMMA SkipPush ==
    ASSUME PushKafkaConstants, PushWork, Skip(PushRangeEnd, "loop"), UNCHANGED <<topic, failures>>
    PROVE  PushWork' /\ curHeight' > curHeight
<1>1. LoopTypeOK /\ FeedInv /\ curHeight \in Nat
  BY DEF PushWork, PushTypeOK, LoopTypeOK
<1>2. /\ pc = "catchup" /\ curHeight' = PushRangeEnd /\ cache' = CacheLeft /\ pc' = "loop"
      /\ skipped' = skipped \cup ((curHeight + 1)..PushRangeEnd)
      /\ UNCHANGED <<latestHeight, compensation, workVars, feedVars,
                     taskNum, envVars, gone, astray>>
  BY DEF Skip
<1>3. PushRangeEnd \in Nat /\ PushRangeEnd \in Int /\ PushRangeEnd > curHeight
  BY <1>1 DEF PushRangeEnd, PushKafkaConstants
<1>4. /\ cache' \in Seq(Blocks) /\ Len(cache') <= BufferSize
  BY <1>1, <1>2, <1>3, FoundFacts
<1>5. FeedInv'
  BY <1>1, <1>2, FeedStays
<1>6. pc \in Between /\ pc' \in Between /\ pc' \in Running
  BY <1>2 DEF Between, Running
<1>7. skipped' \subseteq Nat
  BY <1>1, <1>2, <1>3 DEF LoopTypeOK
<1>8. LoopTypeOK'
  BY <1>1, <1>2, <1>3, <1>4, <1>5, <1>6, <1>7 DEF LoopTypeOK, envVars, workVars, FeedInv
<1>9. QED
  BY <1>2, <1>3, <1>5, <1>6, <1>8, QuietPush DEF workVars

LEMMA ReadFailsPush ==
    ASSUME PushWork, ReadFails, UNCHANGED <<topic, failures>> PROVE PushWork'
<1>1. LoopTypeOK /\ FeedInv
  BY DEF PushWork, PushTypeOK
<1>2. /\ UNCHANGED <<curHeight, latestHeight, compensation, workVars,
                     feedVars, taskNum, envVars, history>>
      /\ PcMoves /\ LoopTypeOK'
  BY <1>1, ReadFailsFacts
<1>3. FeedInv' /\ blockChan' = blockChan /\ sent' = sent
  BY <1>1, <1>2, FeedStays DEF feedVars
<1>4. QED
  BY <1>2, <1>3, QuietPush DEF PcMoves, workVars, history

\* A task that takes the blocks one by one.
LEMMA CutOneFacts ==
    ASSUME LoopTypeOK, todo # <<>>, Cut(1, "save")
    PROVE  /\ pc = "handle" /\ pc' = "save" /\ todo # <<>>
           /\ batch' = <<todo[1]>> /\ todo' \in Seq(Blocks) /\ Len(todo) \in Nat
           /\ Len(todo') = Len(todo) - 1 /\ DOMAIN todo' = 1..Len(todo')
           /\ \A i \in 1..Len(todo') : todo'[i] = todo[i + 1]
           /\ UNCHANGED <<loopVars, inHand, tries, feedVars, taskNum, envVars, history>>
<1>1. todo \in Seq(Blocks)
  BY DEF LoopTypeOK
<1>2. /\ pc = "handle" /\ pc' = "save"
      /\ UNCHANGED <<loopVars, inHand, tries, feedVars, taskNum, envVars, history>>
  BY DEF Cut
<1>3. PICK k \in 1..Min({1, Len(todo)}) :
         batch' = SubSeq(todo, 1, k) /\ todo' = SubSeq(todo, k + 1, Len(todo))
  BY DEF Cut
<1> DEFINE n == Len(todo)
<1>4. todo # <<>> /\ n \in Nat /\ n >= 1 /\ \A i \in 1..n : todo[i] \in Blocks
  BY <1>1, LenProperties, EmptySeq, ElementOfSeq
<1> HIDE DEF n
<1>5. k = 1
  <2>1. Min({1, n}) \in {1, n} /\ Min({1, n}) <= 1
    <3>1. 1 \in Int /\ n \in Int
      BY <1>4
    <3>2. QED
      BY <3>1, MinOfTwo
  <2>2. k \in 1..Min({1, n})
    BY <1>3 DEF n
  <2>3. QED
    BY <1>4, <2>1, <2>2
<1>6. batch' = <<todo[1]>>
  <2>1. /\ SubSeq(todo, 1, 1) \in Seq(Blocks) /\ Len(SubSeq(todo, 1, 1)) = 1
        /\ SubSeq(todo, 1, 1)[1] = todo[1]
    <3>1. 1 \in Int /\ \A i \in 1..1 : todo[i] \in Blocks
      BY <1>4
    <3>2. /\ SubSeq(todo, 1, 1) \in Seq(Blocks)
          /\ Len(SubSeq(todo, 1, 1)) = IF 1 <= 1 THEN 1 - 1 + 1 ELSE 0
          /\ \A i \in 1..(1 - 1 + 1) : SubSeq(todo, 1, 1)[i] = todo[1 + i - 1]
      BY <3>1, SubSeqProperties
    <3>3. QED
      BY <3>2
  <2>2. <<todo[1]>> \in Seq(Blocks) /\ Len(<<todo[1]>>) = 1
    BY <1>4
  <2>3. SubSeq(todo, 1, 1) = <<todo[1]>>
    <3>1. \A i \in 1..1 : SubSeq(todo, 1, 1)[i] = <<todo[1]>>[i]
      BY <2>1
    <3>2. QED
      BY <2>1, <2>2, <3>1, SeqEqual
  <2>4. QED
    BY <1>3, <1>5, <2>3
<1>7. /\ todo' \in Seq(Blocks) /\ Len(todo') = n - 1
      /\ \A i \in 1..(n - 1) : todo'[i] = todo[i + 1]
  <2>1. 2 \in Int /\ n \in Int /\ \A i \in 2..n : todo[i] \in Blocks
    BY <1>4
  <2>2. /\ SubSeq(todo, 2, n) \in Seq(Blocks)
        /\ Len(SubSeq(todo, 2, n)) = IF 2 <= n THEN n - 2 + 1 ELSE 0
        /\ \A i \in 1..(n - 2 + 1) : SubSeq(todo, 2, n)[i] = todo[2 + i - 1]
    BY <2>1, SubSeqProperties
  <2>3. todo' = SubSeq(todo, 2, n)
    BY <1>3, <1>5 DEF n
  <2>4. Len(todo') = n - 1
    BY <1>4, <2>2, <2>3
  <2>5. \A i \in 1..(n - 1) : i \in 1..(n - 2 + 1) /\ 2 + i - 1 = i + 1
    BY <1>4
  <2>6. QED
    BY <2>2, <2>3, <2>4, <2>5
<1>8. DOMAIN todo' = 1..Len(todo')
  BY <1>7, LenProperties
<1>9. QED
  BY <1>2, <1>4, <1>6, <1>7, <1>8 DEF n

\* fixHistoryData and handleBlock take the blocks one by one.
LEMMA HandleOneFacts ==
    ASSUME PushWork, HandleOne
    PROVE  /\ pc = "handle" /\ pc' = "save" /\ todo # <<>>
           /\ batch' = <<todo[1]>> /\ todo' \in Seq(Blocks) /\ Len(todo) \in Nat
           /\ Len(todo') = Len(todo) - 1 /\ DOMAIN todo' = 1..Len(todo')
           /\ \A i \in 1..Len(todo') : todo'[i] = todo[i + 1]
           /\ UNCHANGED <<loopVars, inHand, tries, feedVars, taskNum, envVars, history>>
<1>1. LoopTypeOK /\ PushInHand
  BY DEF PushWork, PushTypeOK
<1>2. pc = "handle" /\ todo # <<>>
  BY <1>1 DEF HandleOne, Cut, PushInHand
<1>3. QED
  BY <1>1, <1>2, CutOneFacts DEF HandleOne

LEMMA HandleOnePush ==
    ASSUME PushWork, HandleOne, UNCHANGED <<topic, failures>> PROVE PushWork'
<1>1. LoopTypeOK /\ FeedInv /\ PushTypeOK /\ PushFollows /\ PushInHand
  BY DEF PushWork, PushTypeOK
<1>2. /\ pc = "handle" /\ pc' = "save" /\ todo # <<>>
      /\ batch' = <<todo[1]>> /\ todo' \in Seq(Blocks) /\ Len(todo) \in Nat
      /\ Len(todo') = Len(todo) - 1
      /\ \A i \in 1..Len(todo') : todo'[i] = todo[i + 1]
      /\ UNCHANGED <<loopVars, inHand, tries, feedVars, taskNum, envVars, history>>
  BY HandleOneFacts
<1>3. todo[1] \in Blocks /\ todo[1].num > curHeight /\ ~RevertInHand /\ tries <= RetryTimes
  BY <1>1, <1>2, HandFacts DEF PushInHand, Running
<1>4. FeedInv'
  BY <1>1, <1>2, FeedStays
<1>5. pc' \in Running /\ pc' \notin Between /\ ~RevertInHand' /\ curHeight' = curHeight
  BY <1>2, <1>3 DEF Between, Running, RevertInHand, loopVars
<1>6. batch' \in Seq(Blocks) /\ Len(batch') = 1 /\ batch'[1] = todo[1]
  BY <1>2, <1>3
<1>7. LoopTypeOK'
  BY <1>1, <1>2, <1>4, <1>5, <1>6 DEF LoopTypeOK, loopVars, envVars, history, FeedInv
<1>8. PushFollows'
  <2>1. \A i \in 1..(Len(todo') - 1) : todo'[i + 1].num = todo'[i].num + 1
    <3> SUFFICES ASSUME NEW i \in 1..(Len(todo') - 1)
                 PROVE  todo'[i + 1].num = todo'[i].num + 1
      OBVIOUS
    <3>1. /\ i \in 1..Len(todo') /\ i + 1 \in 1..Len(todo')
          /\ i + 1 \in 1..(Len(todo) - 1)
      BY <1>2
    <3>2. todo'[i] = todo[i + 1] /\ todo'[i + 1] = todo[(i + 1) + 1]
      BY <1>2, <3>1
    <3>3. QED
      BY <1>1, <3>1, <3>2 DEF PushFollows
  <2>2. todo' # <<>> => todo'[1].num = batch'[1].num + 1
    <3> SUFFICES ASSUME todo' # <<>> PROVE todo'[1].num = batch'[1].num + 1
      OBVIOUS
    <3>1. Len(todo') >= 1
      BY <1>2, EmptySeq, LenProperties
    <3>2. 1 \in 1..Len(todo') /\ 1 \in 1..(Len(todo) - 1)
      BY <1>2, <3>1
    <3>3. todo'[1] = todo[1 + 1] /\ todo[1 + 1].num = todo[1].num + 1
      BY <1>1, <1>2, <3>2 DEF PushFollows
    <3>4. QED
      BY <1>6, <3>3
  <2>3. QED
    BY <2>1, <2>2 DEF PushFollows
<1>9. PushInHand'
  BY <1>2, <1>3, <1>5, <1>6 DEF PushInHand
<1>10. QED
  BY <1>1, <1>4, <1>7, <1>8, <1>9 DEF PushWork, PushTypeOK

\* handleBlock sends the block, revertBlock the one that is reverted.
LEMMA SendFacts ==
    ASSUME PushWork
    PROVE  /\ pc = "save" /\ topic' = Append(topic, Message("ok", batch[1])) =>
                 topic' \in Seq(Event) /\ Announced' = Announced \cup {batch[1]}
           /\ pc = "revert" /\ topic' = Append(topic, inHand[1]) =>
                 topic' \in Seq(Event) /\ Announced' = Announced \ {inHand[1].blk}
<1>1. topic \in Seq(Event) /\ PushInHand
  BY DEF PushWork, PushTypeOK
<1>2. ASSUME pc = "save", topic' = Append(topic, Message("ok", batch[1]))
      PROVE  topic' \in Seq(Event) /\ Announced' = Announced \cup {batch[1]}
  <2>1. batch # <<>>
    BY <1>1, <1>2, OneIsSome DEF PushInHand
  <2>2. Message("ok", batch[1]) \in Event
    BY <2>1, HandFacts DEF Message, Event
  <2>3. Message("ok", batch[1]).state = "ok" /\ Message("ok", batch[1]).blk = batch[1]
    BY DEF Message
  <2>4. QED
    BY <1>1, <1>2, <2>2, <2>3, AnnounceFacts
<1>3. ASSUME pc = "revert", topic' = Append(topic, inHand[1])
      PROVE  topic' \in Seq(Event) /\ Announced' = Announced \ {inHand[1].blk}
  <2>1. inHand[1] \in Event /\ inHand[1].state # "ok"
    BY <1>1, <1>3, HandFacts DEF PushInHand, RevertInHand
  <2>2. QED
    BY <1>1, <1>3, <2>1, AnnounceFacts
<1>4. QED
  BY <1>2, <1>3

LEMMA PushPush == ASSUME PushWork, Push PROVE PushWork'
<1>1. LoopTypeOK /\ FeedInv /\ PushTypeOK /\ PushFollows /\ PushInHand
  BY DEF PushWork, PushTypeOK
<1>2. /\ pc = "save" /\ topic' = Append(topic, Message("ok", batch[1]))
      /\ pc' = "record" /\ tries' = 0
      /\ UNCHANGED <<feedVars, loopVars, inHand, todo, batch, taskNum, envVars,
                     history, failures>>
  BY DEF Push
<1>3. topic' \in Seq(Event) /\ Announced' = Announced \cup {batch[1]}
  BY <1>2, SendFacts
<1>4. FeedInv'
  BY <1>1, <1>2, FeedStays
<1>5. pc' \in Running /\ pc' \notin Between /\ RevertInHand' = RevertInHand
  BY <1>2 DEF Between, Running, RevertInHand
<1>6. 0 \in 0..(RetryTimes + 1) /\ 0 <= RetryTimes
  BY AsyncTaskAssumption
<1>7. LoopTypeOK'
  BY <1>1, <1>2, <1>4, <1>5, <1>6 DEF LoopTypeOK, loopVars, envVars, history, FeedInv
<1>8. PushFollows'
  BY <1>1, <1>2 DEF PushFollows
<1>9. PushInHand'
  BY <1>1, <1>2, <1>3, <1>5, <1>6 DEF PushInHand, loopVars
<1>10. QED
  BY <1>1, <1>2, <1>3, <1>4, <1>7, <1>8, <1>9 DEF PushWork, PushTypeOK

LEMMA PushRevertPush == ASSUME PushWork, PushRevert PROVE PushWork'
<1>1. LoopTypeOK /\ FeedInv /\ PushTypeOK /\ PushFollows /\ PushInHand
  BY DEF PushWork, PushTypeOK
<1>2. /\ pc = "revert" /\ topic' = Append(topic, inHand[1])
      /\ batch' = <<inHand[1].blk>> /\ pc' = "record" /\ tries' = 0
      /\ astray' = astray \cup LeftAbove(Announced)
      /\ UNCHANGED <<feedVars, loopVars, inHand, todo, taskNum, envVars, skipped,
                     gone, failures>>
  BY DEF PushRevert
<1>3. topic' \in Seq(Event) /\ Announced' = Announced \ {inHand[1].blk}
  BY <1>2, SendFacts
<1>4. FeedInv' /\ blockChan' = blockChan /\ sent' = sent
  BY <1>1, <1>2, FeedStays DEF feedVars
<1>5. /\ pc \in Running /\ pc' \in Running /\ pc' \notin Between
      /\ RevertInHand' = RevertInHand /\ RevertInHand /\ todo = <<>>
  BY <1>1, <1>2 DEF Between, Running, RevertInHand, PushInHand
<1>6. 0 \in 0..(RetryTimes + 1) /\ 0 <= RetryTimes
  BY AsyncTaskAssumption
<1>7. inHand[1].blk \in Blocks /\ batch' \in Seq(Blocks)
  BY <1>2, <1>5, HandFacts
<1>8. astray' \subseteq Blocks
  BY <1>1, <1>2, AnnouncedBlocks DEF LeftAbove, LoopTypeOK
<1>9. LoopTypeOK'
  BY <1>1, <1>2, <1>4, <1>5, <1>6, <1>7, <1>8 DEF LoopTypeOK, loopVars, envVars, FeedInv
<1>10. PushFollows'
  BY <1>1, <1>2, <1>5, EmptySeq DEF PushFollows
<1>11. PushInHand'
  BY <1>1, <1>2, <1>3, <1>4, <1>5, <1>6 DEF PushInHand, loopVars
<1>12. QED
  BY <1>1, <1>2, <1>3, <1>4, <1>9, <1>10, <1>11 DEF PushWork, PushTypeOK

\* An attempt failed; the message may be in the topic all the same.
LEMMA FailsFacts ==
    ASSUME PushWork, PushFails
    PROVE  /\ pc \in {"save", "revert"} /\ pc \in Running
           /\ pc' = pc \/ pc' \notin Running
           /\ pc' \in Running \cup {"exited"}
           /\ tries' \in 0..(RetryTimes + 1)
           /\ pc' \in Running => tries' <= RetryTimes
           /\ UNCHANGED <<loopVars, inHand, todo, batch, feedVars, taskNum, envVars,
                          history, failures>>
           /\ topic' \in Seq(Event)
           /\ pc = "save" => \/ Announced' = Announced
                             \/ Announced' = Announced \cup {batch[1]}
           /\ pc = "revert" => \/ Announced' = Announced
                               \/ Announced' = Announced \ {inHand[1].blk}
<1>1. LoopTypeOK /\ PushTypeOK /\ PushInHand
  BY DEF PushWork, PushTypeOK
<1>2. /\ pc \in {"save", "revert"}
      /\ tries' = tries + 1 /\ pc' = IF tries' > RetryTimes THEN "exited" ELSE pc
      /\ UNCHANGED <<loopVars, inHand, todo, batch, feedVars, taskNum, envVars,
                     history, failures>>
      /\ \/ topic' = topic
         \/ topic' = Append(topic, IF pc = "save" THEN Message("ok", batch[1])
                                                  ELSE inHand[1])
  BY DEF PushFails, Retry
<1>3. pc \in Running /\ "exited" \notin Running
  BY <1>2 DEF Running
<1>4. tries \in Nat /\ tries <= RetryTimes /\ RetryTimes \in Nat
  BY <1>1, <1>3, AsyncTaskAssumption DEF LoopTypeOK, PushInHand
<1>5. /\ tries' \in 0..(RetryTimes + 1)
      /\ pc' \in Running => tries' <= RetryTimes
      /\ pc' = pc \/ pc' \notin Running
      /\ pc' \in Running \cup {"exited"}
  BY <1>2, <1>3, <1>4
<1>6. /\ topic' \in Seq(Event)
      /\ pc = "save" => \/ Announced' = Announced
                        \/ Announced' = Announced \cup {batch[1]}
      /\ pc = "revert" => \/ Announced' = Announced
                          \/ Announced' = Announced \ {inHand[1].blk}
  <2>1. CASE topic' = topic
    BY <1>1, <2>1, SameAnnounced DEF PushTypeOK
  <2>2. CASE pc = "save" /\ topic' = Append(topic, Message("ok", batch[1]))
    BY <2>2, SendFacts
  <2>3. CASE pc = "revert" /\ topic' = Append(topic, inHand[1])
    BY <2>3, SendFacts
  <2>4. QED
    BY <1>2, <2>1, <2>2, <2>3
<1>7. QED
  BY <1>2, <1>3, <1>5, <1>6

LEMMA PushFailsPush == ASSUME PushWork, PushFails PROVE PushWork'
<1>1. LoopTypeOK /\ FeedInv /\ PushTypeOK /\ PushFollows /\ PushInHand
  BY DEF PushWork, PushTypeOK
<1>2. /\ pc \in {"save", "revert"} /\ pc \in Running
      /\ (pc' = pc \/ pc' \notin Running)
      /\ pc' \in Running \cup {"exited"}
      /\ tries' \in 0..(RetryTimes + 1)
      /\ pc' \in Running => tries' <= RetryTimes
      /\ UNCHANGED <<loopVars, inHand, todo, batch, feedVars, taskNum, envVars,
                     history, failures>>
      /\ topic' \in Seq(Event)
  BY FailsFacts
<1>3. FeedInv' /\ blockChan' = blockChan /\ sent' = sent
  BY <1>1, <1>2, FeedStays DEF feedVars
<1>4. LoopTypeOK'
  BY <1>1, <1>2, <1>3 DEF LoopTypeOK, loopVars, envVars, history, FeedInv
<1>5. RevertInHand' = RevertInHand /\ curHeight' = curHeight
  BY <1>2 DEF RevertInHand, loopVars
<1>6. PushFollows'
  BY <1>1, <1>2 DEF PushFollows
<1>7. PushInHand'
  <2>1. CASE pc' = pc
    <3>1. pc \notin Between /\ pc \notin {"record", "height"}
      BY <1>2 DEF Between
    <3>2. QED
      BY <1>1, <1>2, <1>3, <1>5, <2>1, <3>1 DEF PushInHand, history
  <2>2. CASE pc' \notin Running
    <3>1. pc' \notin Between /\ pc' \notin {"handle", "save", "revert", "record", "height"}
      BY <2>2 DEF Between, Running
    <3>2. QED
      BY <2>2, <3>1 DEF PushInHand
  <2>3. QED
    BY <1>2, <2>1, <2>2
<1>8. QED
  BY <1>1, <1>2, <1>3, <1>4, <1>6, <1>7 DEF PushWork, PushTypeOK

\* Where handleBlock goes on once the height is dealt with.
LEMMA AdvanceCases ==
    ASSUME PushWork, Advance
    PROVE  /\ pc = "record" /\ batch # <<>> /\ Len(batch) = 1
           /\ \/ /\ RevertInHand /\ RevertInHand' /\ pc' = "height"
                 /\ inHand' = inHand /\ batch' = batch
                 /\ todo = <<>> /\ batch[1] = inHand[1].blk
              \/ /\ ~RevertInHand /\ ~RevertInHand' /\ todo # <<>> /\ pc' = "handle"
                 /\ inHand' = inHand /\ batch' = <<>>
              \/ /\ ~RevertInHand /\ ~RevertInHand' /\ todo = <<>> /\ pc' = "height"
                 /\ inHand' = <<>> /\ inHand = <<>> /\ batch' = batch
              \/ /\ ~RevertInHand /\ ~RevertInHand' /\ todo = <<>> /\ pc' = "drain"
                 /\ inHand' = <<>> /\ batch' = <<>>
           /\ ~RevertInHand => batch[1] \in Announced /\ batch[1].num > curHeight
<1>1. PushInHand
  BY DEF PushWork
<1>2. /\ pc = "record"
      /\ pc' = IF todo # <<>> THEN "handle"
               ELSE IF inHand = <<>> \/ RevertInHand THEN "height" ELSE "drain"
      /\ inHand' = IF pc' = "drain" THEN <<>> ELSE inHand
      /\ batch' = IF pc' = "height" THEN batch ELSE <<>>
  BY DEF Advance
<1>3. /\ RevertInHand => todo = <<>> /\ batch = <<inHand[1].blk>>
      /\ ~RevertInHand => /\ Len(batch) = 1 /\ batch[1] \in Announced
                          /\ batch[1].num > curHeight
  BY <1>1, <1>2 DEF PushInHand
<1>4. batch # <<>> /\ Len(batch) = 1 /\ (RevertInHand => batch[1] = inHand[1].blk)
  <2>1. CASE RevertInHand
    BY <1>3, <2>1
  <2>2. CASE ~RevertInHand
    BY <1>3, <2>2, OneIsSome
  <2>3. QED
    BY <2>1, <2>2
<1>5. CASE RevertInHand
  <2>1. pc' = "height" /\ inHand' = inHand /\ batch' = batch
    BY <1>2, <1>3, <1>5
  <2>2. RevertInHand'
    BY <1>5, <2>1 DEF RevertInHand
  <2>3. QED
    BY <1>2, <1>3, <1>4, <1>5, <2>1, <2>2
<1>6. CASE ~RevertInHand
  <2>1. inHand' = inHand \/ inHand' = <<>>
    BY <1>2
  <2>2. ~RevertInHand'
    BY <1>6, <2>1 DEF RevertInHand
  <2>3. CASE todo # <<>>
    BY <1>2, <1>3, <1>4, <1>6, <2>2, <2>3
  <2>4. CASE todo = <<>> /\ inHand = <<>>
    BY <1>2, <1>3, <1>4, <1>6, <2>2, <2>4
  <2>5. CASE todo = <<>> /\ inHand # <<>>
    BY <1>2, <1>3, <1>4, <1>6, <2>2, <2>5
  <2>6. QED
    BY <2>3, <2>4, <2>5
<1>7. QED
  BY <1>5, <1>6

\* The height of the block is recorded, or an error there is logged.
LEMMA AdvancePush ==
    ASSUME PushWork, Advance, curHeight' \in {curHeight, batch[1].num}, taskNum' \in Nat,
           failures' \in 0..MaxFailures, astray' \subseteq Blocks
    PROVE  PushWork'
<1>1. LoopTypeOK /\ FeedInv /\ PushTypeOK /\ PushFollows /\ PushInHand
  BY DEF PushWork, PushTypeOK
<1>2. /\ pc = "record" /\ batch # <<>> /\ Len(batch) = 1
      /\ \/ /\ RevertInHand /\ RevertInHand' /\ pc' = "height"
            /\ inHand' = inHand /\ batch' = batch
            /\ todo = <<>> /\ batch[1] = inHand[1].blk
         \/ /\ ~RevertInHand /\ ~RevertInHand' /\ todo # <<>> /\ pc' = "handle"
            /\ inHand' = inHand /\ batch' = <<>>
         \/ /\ ~RevertInHand /\ ~RevertInHand' /\ todo = <<>> /\ pc' = "height"
            /\ inHand' = <<>> /\ inHand = <<>> /\ batch' = batch
         \/ /\ ~RevertInHand /\ ~RevertInHand' /\ todo = <<>> /\ pc' = "drain"
            /\ inHand' = <<>> /\ batch' = <<>>
      /\ ~RevertInHand => batch[1] \in Announced /\ batch[1].num > curHeight
  BY AdvanceCases
<1>3. /\ UNCHANGED <<feedVars, cache, latestHeight, compensation, todo, tries,
                     envVars, skipped, gone, topic>>
  BY DEF Advance
<1>4. FeedInv' /\ blockChan' = blockChan /\ sent' = sent
  BY <1>1, <1>3, FeedStays DEF feedVars
<1>5. /\ pc \in Running /\ pc' \in Running /\ tries' <= RetryTimes
      /\ "drain" \in Between /\ "handle" \notin Between /\ "height" \notin Between
  BY <1>1, <1>2, <1>3 DEF Between, Running, PushInHand
<1>6. batch[1].num \in Nat /\ curHeight \in Nat /\ curHeight' \in Nat
  BY <1>2, HandFacts
<1>7. /\ batch' \in Seq(Blocks) /\ inHand' \in Seq(Event) /\ Len(inHand') <= 1
  <2>1. /\ batch \in Seq(Blocks) /\ <<>> \in Seq(Blocks)
        /\ inHand \in Seq(Event) /\ Len(inHand) <= 1
        /\ <<>> \in Seq(Event) /\ Len(<<>>) <= 1
    BY <1>1 DEF LoopTypeOK
  <2>2. batch' \in {batch, <<>>} /\ inHand' \in {inHand, <<>>}
    BY <1>2
  <2>3. QED
    BY <2>1, <2>2
<1>8. LoopTypeOK'
  BY <1>1, <1>3, <1>4, <1>5, <1>6, <1>7 DEF LoopTypeOK, envVars, FeedInv
<1>9. PushFollows'
  BY <1>1, <1>2, <1>3 DEF PushFollows
<1>10. Announced' = Announced
  BY <1>3, SameAnnounced
<1>11. PushInHand'
  <2>1. CASE /\ RevertInHand /\ RevertInHand' /\ pc' = "height"
             /\ inHand' = inHand /\ batch' = batch
             /\ todo = <<>> /\ batch[1] = inHand[1].blk
    <3>1. /\ batch = <<inHand[1].blk>> /\ inHand[1].blk \notin Announced
          /\ inHand[1].blk \in gone /\ inHand[1].blk.num <= curHeight
          /\ Reached(blockChan, Len(sent)) = inHand[1].blk.num - 1
      BY <1>1, <1>2, <1>5, <2>1 DEF PushInHand
    <3>2. inHand[1].blk.num <= curHeight'
      BY <1>6, <2>1, <3>1
    <3>3. QED
      BY <1>3, <1>4, <1>5, <1>10, <2>1, <3>1, <3>2 DEF PushInHand
  <2>2. CASE /\ ~RevertInHand /\ ~RevertInHand' /\ todo # <<>> /\ pc' = "handle"
             /\ inHand' = inHand /\ batch' = <<>>
    <3>1. todo[1].num = batch[1].num + 1
      BY <1>1, <1>2, <2>2 DEF PushFollows
    <3>2. todo'[1].num > curHeight'
      BY <1>2, <1>3, <1>6, <2>2, <3>1
    <3>3. QED
      BY <1>3, <1>5, <2>2, <3>2 DEF PushInHand
  <2>3. CASE /\ ~RevertInHand /\ ~RevertInHand' /\ todo = <<>> /\ pc' = "height"
             /\ inHand' = <<>> /\ inHand = <<>> /\ batch' = batch
    <3>1. batch'[1].num >= curHeight'
      BY <1>2, <1>6, <2>3
    <3>2. QED
      BY <1>2, <1>3, <1>5, <1>10, <2>3, <3>1 DEF PushInHand
  <2>4. CASE /\ ~RevertInHand /\ ~RevertInHand' /\ todo = <<>> /\ pc' = "drain"
             /\ inHand' = <<>> /\ batch' = <<>>
    BY <1>3, <1>5, <2>4 DEF PushInHand
  <2>5. QED
    BY <1>2, <2>1, <2>2, <2>3, <2>4
<1>12. QED
  BY <1>1, <1>3, <1>4, <1>8, <1>9, <1>11 DEF PushWork, PushTypeOK

LEMMA RecordPush == ASSUME PushKafkaConstants, PushWork, Record \/ RecordFails PROVE PushWork'
<1>1. LoopTypeOK /\ PushTypeOK /\ Advance /\ failures \in 0..MaxFailures
  BY DEF PushWork, PushTypeOK, Record, RecordFails
<1>2. batch # <<>> /\ batch[1] \in Blocks /\ batch[1].num \in Nat /\ taskNum \in Nat
  BY <1>1, AdvanceCases, HandFacts
<1>3. /\ curHeight' \in {curHeight, batch[1].num} /\ taskNum' \in Nat
      /\ astray' \subseteq Blocks
  BY <1>1, <1>2 DEF Record, RecordFails, LoopTypeOK
<1>4. failures' \in 0..MaxFailures
  BY <1>1 DEF Record, RecordFails, PushKafkaConstants
<1>5. QED
  BY <1>1, <1>3, <1>4, AdvancePush

\* The height of the batch, and that of the block below the one reverted.
LEMMA HeightFacts ==
    ASSUME PushKafkaConstants, PushWork, RecordRevert \/ RecordBatch
    PROVE  /\ pc = "height" /\ pc' \in {"drain", "loop"} /\ inHand' = <<>> /\ batch' = <<>>
           /\ todo = <<>> /\ todo' = <<>> /\ batch # <<>>
           /\ tries' <= RetryTimes /\ tries' \in 0..(RetryTimes + 1)
           /\ curHeight' \in Nat /\ latestHeight' \in Nat /\ taskNum' \in Nat
           /\ failures' \in 0..MaxFailures
           /\ UNCHANGED <<feedVars, cache, compensation, envVars, history, topic>>
           /\ RecordRevert => /\ RevertInHand /\ batch[1] = inHand[1].blk
                              /\ curHeight' = inHand[1].blk.num - 1
           /\ RecordBatch => /\ ~RevertInHand /\ inHand = <<>> /\ batch[1] \in Announced
                             /\ batch[1].num >= curHeight
                             /\ curHeight' \in {curHeight, batch[1].num}
<1>1. LoopTypeOK /\ PushTypeOK /\ PushInHand /\ failures \in 0..MaxFailures
  BY DEF PushWork, PushTypeOK
<1>2. pc = "height" /\ pc \in Running
  BY DEF RecordRevert, RecordBatch, Running
<1>3. /\ 0 \in 0..(RetryTimes + 1) /\ 0 <= RetryTimes
      /\ tries <= RetryTimes /\ tries \in 0..(RetryTimes + 1)
      /\ curHeight \in Nat /\ latestHeight \in Nat /\ taskNum \in Nat
  BY <1>1, <1>2, AsyncTaskAssumption DEF PushInHand, LoopTypeOK
<1>4. /\ failures' = failures \/ (failures < MaxFailures /\ failures' = failures + 1)
      /\ MaxFailures \in Nat
  BY DEF RecordRevert, RecordBatch, PushKafkaConstants
<1>5. failures' \in 0..MaxFailures
  BY <1>1, <1>4
<1>6. CASE RecordRevert
  <2>1. /\ RevertInHand /\ pc' = "drain" /\ inHand' = <<>> /\ batch' = <<>> /\ tries' = 0
        /\ curHeight' = inHand[1].blk.num - 1 /\ latestHeight' = inHand[1].blk.num - 1
        /\ taskNum' \in {taskNum, batch[1].num - 1}
        /\ UNCHANGED <<feedVars, cache, compensation, todo, envVars, history, topic>>
    BY <1>6 DEF RecordRevert, Reverted, Below
  <2>2. todo = <<>> /\ batch = <<inHand[1].blk>>
    BY <1>1, <1>2, <2>1 DEF PushInHand
  <2>3. batch # <<>> /\ batch[1] = inHand[1].blk
    BY <2>2
  <2>4. inHand[1].blk.num \in Nat /\ inHand[1].blk.num >= 1
    BY <2>1, HandFacts
  <2>5. inHand[1].blk.num - 1 \in Nat
    BY <2>4
  <2>6. taskNum' \in Nat
    BY <1>3, <2>1, <2>3, <2>5
  <2>7. ~RecordBatch
    BY <2>1 DEF RecordBatch
  <2>8. QED
    BY <1>2, <1>3, <1>5, <2>1, <2>2, <2>3, <2>5, <2>6, <2>7
<1>7. CASE RecordBatch
  <2>1. /\ ~RevertInHand /\ pc' = "loop" /\ batch' = <<>>
        /\ curHeight' \in {curHeight, batch[1].num} /\ taskNum' \in {taskNum, batch[1].num}
        /\ UNCHANGED <<feedVars, cache, latestHeight, compensation, inHand, todo,
                       tries, envVars, history, topic>>
    BY <1>7 DEF RecordBatch
  <2>2. /\ todo = <<>> /\ inHand = <<>> /\ Len(batch) = 1 /\ batch[1] \in Announced
        /\ batch[1].num >= curHeight
    BY <1>1, <1>2, <2>1 DEF PushInHand
  <2>3. batch # <<>> /\ batch[1].num \in Nat
    BY <2>2, OneIsSome, HandFacts
  <2>4. ~RecordRevert
    BY <2>1 DEF RecordRevert
  <2>5. QED
    BY <1>2, <1>3, <1>5, <2>1, <2>2, <2>3, <2>4
<1>8. QED
  BY <1>6, <1>7

LEMMA HeightPush ==
    ASSUME PushKafkaConstants, PushWork, RecordRevert \/ RecordBatch PROVE PushWork'
<1>1. LoopTypeOK /\ PushTypeOK /\ FeedInv
  BY DEF PushWork, PushTypeOK
<1>2. /\ pc' \in {"drain", "loop"} /\ inHand' = <<>> /\ batch' = <<>> /\ todo' = <<>>
      /\ tries' <= RetryTimes /\ tries' \in 0..(RetryTimes + 1)
      /\ curHeight' \in Nat /\ latestHeight' \in Nat /\ taskNum' \in Nat
      /\ failures' \in 0..MaxFailures
      /\ UNCHANGED <<feedVars, cache, compensation, envVars, history, topic>>
  BY HeightFacts
<1>3. FeedInv'
  BY <1>1, <1>2, FeedStays
<1>4. pc' \in Running /\ pc' \notin AtWork
  BY <1>2 DEF Running
<1>5. <<>> \in Seq(Blocks) /\ <<>> \in Seq(Event) /\ Len(<<>>) = 0
  BY EmptySeq
<1>6. LoopTypeOK'
  BY <1>1, <1>2, <1>3, <1>4, <1>5 DEF LoopTypeOK, envVars, history, FeedInv
<1>7. PushFollows'
  BY <1>2, EmptySeq DEF PushFollows
<1>8. ~RevertInHand'
  BY <1>2 DEF RevertInHand
<1>9. PushInHand'
  BY <1>2, <1>4, <1>8 DEF PushInHand
<1>10. QED
  BY <1>1, <1>2, <1>3, <1>6, <1>7, <1>9 DEF PushWork, PushTypeOK

LEMMA RestartPush ==
    ASSUME PushWork, Restart(Unknown, Unannounced), UNCHANGED <<topic, failures>>
    PROVE  PushWork'
<1>1. LoopTypeOK /\ FeedInv /\ PushTypeOK
  BY DEF PushWork, PushTypeOK
<1>2. /\ restarts < MaxRestarts /\ restarts' = restarts + 1 /\ stopping' = FALSE
      /\ FeedAgain /\ pc' = "created" /\ cache' = <<>>
      /\ curHeight' = taskNum /\ latestHeight' = 0 /\ compensation' = 0
      /\ inHand' = <<>> /\ todo' = <<>> /\ batch' = <<>> /\ tries' = 0
      /\ skipped' = (skipped \cap 1..taskNum) \cup Unannounced
      /\ gone' = {} /\ astray' = astray \cup Unknown
      /\ taskNum' = taskNum
  BY DEF Restart
<1>3. FeedInv'
  BY <1>1, <1>2, FeedAgainFacts
<1>4. pc' \in Running /\ pc' \notin AtWork
  BY <1>2 DEF Running
<1>5. /\ <<>> \in Seq(Blocks) /\ <<>> \in Seq(Event) /\ Len(<<>>) = 0
      /\ 0 \in 0..CompensationCap /\ 0 \in 0..(RetryTimes + 1) /\ 0 <= RetryTimes
      /\ 0 <= BufferSize
  BY EmptySeq, AsyncTaskAssumption, TaskFeedAssumption
<1>6. restarts' \in 0..MaxRestarts /\ stopping' \in BOOLEAN
  <2>1. restarts \in 0..MaxRestarts /\ MaxRestarts \in Nat
    BY <1>1, AsyncTaskAssumption DEF LoopTypeOK
  <2>2. restarts + 1 \in 0..MaxRestarts
    BY <1>2, <2>1
  <2>3. QED
    BY <1>2, <2>2
<1>7. Unknown \subseteq Blocks /\ Unannounced \subseteq Nat
  <2>1. taskNum \in Nat
    BY <1>1 DEF LoopTypeOK
  <2>2. QED
    BY <2>1, AnnouncedBlocks DEF Unknown, Unannounced
<1>8. LoopTypeOK'
  BY <1>1, <1>2, <1>3, <1>4, <1>5, <1>6, <1>7 DEF LoopTypeOK, FeedInv
<1>9. PushFollows'
  BY <1>2, EmptySeq DEF PushFollows
<1>10. ~RevertInHand'
  BY <1>2 DEF RevertInHand
<1>11. PushInHand'
  BY <1>2, <1>4, <1>5, <1>10 DEF PushInHand
<1>12. QED
  BY <1>1, <1>3, <1>8, <1>9, <1>11 DEF PushWork, PushTypeOK

\* The steps, by what they do.
LEMMA PushCases ==
    ASSUME PushNext
    PROVE  \/ /\ UNCHANGED <<topic, failures>>
              /\ \/ Idle
                 \/ BaseApplies \/ \E e \in Event : Publish(e)
                 \/ \E e \in Event : PassedBy(e) \/ ReceiveNext(e) \/ ReceiveRevert(e)
                 \/ ReadFound(PushRangeEnd) \/ Skip(PushRangeEnd, "loop") \/ ReadFails
                 \/ HandleOne
                 \/ Restart(Unknown, Unannounced)
           \/ Push \/ PushRevert \/ PushFails
           \/ Record \/ RecordFails
           \/ RecordRevert \/ RecordBatch
<1>1. CASE PushStep
  BY <1>1 DEF PushStep, LoopStep, PushHistory, Idle, PassedBy, Receive
<1>2. CASE Environment /\ UNCHANGED <<topic, failures>>
  BY <1>2 DEF Environment, Idle
<1>3. QED
  BY <1>1, <1>2 DEF PushNext

LEMMA StutterPush == ASSUME PushWork, UNCHANGED vars PROVE PushWork'
<1>1. LoopTypeOK /\ FeedInv
  BY DEF PushWork, PushTypeOK
<1>2. UNCHANGED <<pc, loopVars, workVars, feedVars, taskNum, envVars, history, topic, failures>>
  BY DEF vars
<1>3. FeedInv' /\ blockChan' = blockChan /\ sent' = sent
  BY <1>1, <1>2, FeedStays DEF feedVars
<1>4. LoopTypeOK'
  BY <1>1, <1>2, <1>3 DEF LoopTypeOK, loopVars, workVars, envVars, history, FeedInv
<1>5. QED
  BY <1>2, <1>3, <1>4, QuietPush DEF loopVars, workVars, history

LEMMA NextPush == ASSUME PushKafkaConstants, PushWork, [PushNext]_vars PROVE PushWork'
<1>1. CASE UNCHANGED vars
  BY <1>1, StutterPush
<1>2. CASE PushNext
  BY <1>2, PushCases, IdlePush, FeedPush, PassedByPush, ReceiveNextPush, ReceiveRevertPush,
     ReadFoundPush, SkipPush, ReadFailsPush, HandleOnePush, PushPush, PushRevertPush,
     PushFailsPush, RecordPush, HeightPush, RestartPush
<1>3. QED
  BY <1>1, <1>2

LEMMA PushWorkInvariant == ASSUME PushKafkaConstants PROVE PushSpec => []PushWork
<1>1. PushInit => PushWork
  BY InitPush
<1>2. PushWork /\ [PushNext]_vars => PushWork'
  BY NextPush
<1>3. QED
  BY <1>1, <1>2, PTL DEF PushSpec

----------------------------------------------------------------------------
(* What the feed tells of a block before it takes it back. *)

LEMMA InitTold == ASSUME FeedInv, blockChan = <<>>, sent = chain PROVE FeedTold
<1>1. /\ sent \in Seq(Blocks) /\ Numbered(sent) /\ Len(sent) \in Nat
      /\ DOMAIN sent = 1..Len(sent)
  BY LenProperties DEF FeedInv, FeedTypeOK
<1>2. Reached(blockChan, Len(sent)) = Len(sent) /\ DOMAIN blockChan = {} /\ Len(blockChan) = 0
  BY EmptySeq DEF Reached
<1>3. \A k \in DOMAIN sent : Reached(blockChan, Len(sent)) >= sent[k].num
  BY <1>1, <1>2 DEF Numbered
<1>4. \A j \in 1..0 : FALSE
  OBVIOUS
<1>5. \A k \in DOMAIN sent : Told(sent[k], 0)
  BY <1>3, <1>4 DEF Told, ToldIn
<1>6. QED
  BY <1>2, <1>5 DEF FeedTold

LEMMA SameTold == FeedTold /\ blockChan' = blockChan /\ sent' = sent => FeedTold'
BY DEF FeedTold, Told

LEMMA AgainTold == ASSUME FeedInv, FeedAgain PROVE FeedTold'
<1>1. FeedInv' /\ blockChan' = <<>> /\ sent' = chain /\ chain' = chain
  BY FeedAgainFacts
<1>2. /\ sent' \in Seq(Blocks) /\ Numbered(sent') /\ Len(sent') \in Nat
      /\ DOMAIN sent' = 1..Len(sent')
  BY <1>1, LenProperties DEF FeedInv, FeedTypeOK
<1>3. /\ Reached(blockChan', Len(sent')) = Len(sent')
      /\ DOMAIN blockChan' = {} /\ Len(blockChan') = 0
  BY <1>1, EmptySeq DEF Reached
<1>4. \A k \in DOMAIN sent' : Reached(blockChan', Len(sent')) >= sent'[k].num
  BY <1>2, <1>3 DEF Numbered
<1>5. \A j \in 1..0 : FALSE
  OBVIOUS
<1>6. \A k \in DOMAIN sent' : Told(sent[k], 0)'
  BY <1>4, <1>5 DEF Told, ToldIn
<1>7. QED
  BY <1>3, <1>6 DEF FeedTold

\* An event is added, or the first one is taken.
LEMMA ToldAppend ==
    ASSUME NEW es \in Seq(Event), NEW e \in Event, NEW h, NEW b,
           NEW k \in 0..Len(es), ToldIn(es, h, b, k)
    PROVE  /\ ToldIn(Append(es, e), h, b, k)
           /\ k = Len(es) /\ After(e) >= b.num => ToldIn(Append(es, e), h, b, k + 1)
<1> DEFINE n == Len(es)
           fs == Append(es, e)
<1>1. n \in Nat /\ (\A i \in 1..n : fs[i] = es[i]) /\ fs[n + 1] = e
  BY AppendProperties, LenProperties
<1> HIDE DEF n, fs
<1>2. k \in Nat /\ \A j \in 1..k : fs[j] = es[j] /\ j \in 1..(k + 1)
  BY <1>1 DEF n
<1>3. CASE \E i \in 1..k : /\ es[i] = Telling(b)
                           /\ \A j \in (i + 1)..k : After(es[j]) >= b.num
  <2>1. PICK i \in 1..k : /\ es[i] = Telling(b)
                          /\ \A j \in (i + 1)..k : After(es[j]) >= b.num
    BY <1>3
  <2>2. \A j \in (i + 1)..k : j \in 1..k
    BY <1>2
  <2>3. fs[i] = Telling(b) /\ \A j \in (i + 1)..k : After(fs[j]) >= b.num
    BY <1>2, <2>1, <2>2
  <2>4. \A j \in (i + 1)..(k + 1) : j \in (i + 1)..k \/ j = k + 1
    BY <1>2
  <2>5. k = n /\ After(e) >= b.num =>
           i \in 1..(k + 1) /\ \A j \in (i + 1)..(k + 1) : After(fs[j]) >= b.num
    BY <1>1, <1>2, <2>3, <2>4
  <2>6. QED
    BY <2>3, <2>5 DEF ToldIn, n, fs
<1>4. CASE h >= b.num /\ \A j \in 1..k : After(es[j]) >= b.num
  <2>1. \A j \in 1..k : After(fs[j]) >= b.num
    BY <1>2, <1>4
  <2>2. \A j \in 1..(k + 1) : j \in 1..k \/ j = k + 1
    BY <1>2
  <2>3. k = n /\ After(e) >= b.num => \A j \in 1..(k + 1) : After(fs[j]) >= b.num
    BY <1>1, <2>1, <2>2
  <2>4. QED
    BY <1>4, <2>1, <2>3 DEF ToldIn, n, fs
<1>5. QED
  BY <1>3, <1>4 DEF ToldIn

LEMMA ToldTail ==
    ASSUME NEW es \in Seq(Event), es # <<>>, NEW h, NEW b,
           NEW k \in 1..Len(es), ToldIn(es, h, b, k)
    PROVE  ToldIn(Tail(es), After(es[1]), b, k - 1)
<1> DEFINE n == Len(es)
           fs == Tail(es)
<1>1. n \in Nat /\ \A i \in 1..(n - 1) : fs[i] = es[i + 1]
  BY HeadTailProperties, LenProperties
<1> HIDE DEF n, fs
<1>2. /\ k \in 1..n /\ 1 \in 1..k /\ k - 1 \in Int
      /\ \A j \in 1..(k - 1) : fs[j] = es[j + 1] /\ j + 1 \in 1..k /\ j + 1 # 1
  BY <1>1 DEF n
<1>3. ASSUME es[1] = Telling(b) \/ h >= b.num, \A j \in 1..k : j # 1 => After(es[j]) >= b.num,
             es[1] # Telling(b) => After(es[1]) >= b.num
      PROVE  ToldIn(fs, After(es[1]), b, k - 1)
  <2>1. es[1] \in Event
    BY <1>1, ElementOfSeq, EmptySeq DEF n
  <2>2. After(es[1]) >= b.num
    <3>1. CASE es[1] = Telling(b)
      <4>1. es[1].state = "ok" /\ es[1].blk = b
        BY <3>1 DEF Telling
      <4>2. After(es[1]) = b.num /\ b.num \in Nat
        BY <2>1, <4>1, EventFacts
      <4>3. QED
        BY <4>2
    <3>2. QED
      BY <1>3, <3>1
  <2>3. \A j \in 1..(k - 1) : After(fs[j]) >= b.num
    BY <1>2, <1>3
  <2>4. QED
    BY <2>2, <2>3 DEF ToldIn
<1>4. CASE \E i \in 1..k : /\ es[i] = Telling(b)
                           /\ \A j \in (i + 1)..k : After(es[j]) >= b.num
  <2>1. PICK i \in 1..k : /\ es[i] = Telling(b)
                          /\ \A j \in (i + 1)..k : After(es[j]) >= b.num
    BY <1>4
  <2>2. CASE i = 1
    <3>1. \A j \in 1..k : j # 1 => j \in (i + 1)..k
      BY <1>2, <2>2
    <3>2. QED
      BY <1>3, <2>1, <2>2, <3>1 DEF fs
  <2>3. CASE i # 1
    <3>1. i - 1 \in 1..(k - 1) /\ (i - 1) + 1 = i
      BY <1>2, <2>3
    <3>2. \A j \in ((i - 1) + 1)..(k - 1) : j \in 1..(k - 1) /\ j + 1 \in (i + 1)..k
      BY <1>2, <3>1
    <3>3. fs[i - 1] = Telling(b)
      BY <1>2, <2>1, <3>1
    <3>4. \A j \in ((i - 1) + 1)..(k - 1) : After(fs[j]) >= b.num
      BY <1>2, <2>1, <3>2
    <3>5. QED
      BY <3>1, <3>3, <3>4 DEF ToldIn, fs
  <2>4. QED
    BY <2>2, <2>3
<1>5. CASE h >= b.num /\ \A j \in 1..k : After(es[j]) >= b.num
  BY <1>2, <1>3, <1>5 DEF fs
<1>6. QED
  BY <1>4, <1>5 DEF ToldIn

\* The feed appends an event: it tells of the block it adds, and has told of the
\* one it takes back.
LEMMA DeliverTold ==
    ASSUME FeedInv, FeedTold, NEW e \in Event, Deliver(e) PROVE FeedTold'
<1> DEFINE n == Len(blockChan)
           m == Len(sent)
           r == Reached(blockChan, m)
<1>1. /\ Before(e) = m /\ Len(sent') = After(e)
      /\ \A i \in 1..After(e) : i <= m => sent'[i] = sent[i]
      /\ e.state = "ok" => sent'[e.blk.num] = e.blk
      /\ blockChan' = Append(blockChan, e)
      /\ Reached(blockChan', Len(sent')) = r
      /\ FeedInv'
  BY DeliverFacts
<1>2. /\ sent \in Seq(Blocks) /\ m \in Nat /\ DOMAIN sent = 1..m
      /\ DOMAIN sent' = 1..Len(sent') /\ Numbered(sent)
      /\ blockChan \in Seq(Event) /\ n \in Nat /\ DOMAIN blockChan = 1..n
      /\ Follows(e, sent)
  BY <1>1, LenProperties DEF FeedInv, FeedTypeOK, Deliver
<1>3. /\ Len(blockChan') = n + 1 /\ DOMAIN blockChan' = 1..(n + 1)
      /\ \A i \in 1..n : blockChan'[i] = blockChan[i]
      /\ blockChan'[n + 1] = e
  BY <1>1, <1>2, AppendProperties, LenProperties
<1>4. /\ \A k \in DOMAIN sent : ToldIn(blockChan, r, sent[k], n)
      /\ \A i \in DOMAIN blockChan :
            blockChan[i].state = "revert" => ToldIn(blockChan, r, blockChan[i].blk, i - 1)
  BY DEF FeedTold, Told
<1>5. ASSUME NEW b, NEW k \in 0..n, ToldIn(blockChan, r, b, k)
      PROVE  /\ ToldIn(blockChan', r, b, k)
             /\ k = n /\ After(e) >= b.num => ToldIn(blockChan', r, b, n + 1)
  BY <1>1, <1>2, <1>5, ToldAppend
<1>6. m = 0 => sent = <<>>
  BY <1>2, EmptySeq
<1> HIDE DEF n, m, r
<1>7. n \in 0..n
  BY <1>2
<1>8. ASSUME NEW k \in DOMAIN sent' PROVE ToldIn(blockChan', r, sent'[k], n + 1)
  <2>1. k \in 1..After(e) /\ After(e) \in Nat
    BY <1>1, <1>2, EventFacts
  <2>2. CASE k <= m
    <3>1. sent'[k] = sent[k] /\ k \in DOMAIN sent /\ sent[k].num = k
      BY <1>1, <1>2, <2>1, <2>2 DEF Numbered
    <3>2. ToldIn(blockChan, r, sent[k], n) /\ After(e) >= sent[k].num
      BY <1>4, <2>1, <3>1
    <3>3. QED
      BY <1>5, <1>7, <3>1, <3>2
  <2>3. CASE k > m
    <3>1. e.state = "ok" /\ After(e) = e.blk.num /\ After(e) = m + 1
      BY <1>1, <1>2, <2>1, <2>3, EventFacts
    <3>2. k = e.blk.num /\ sent'[k] = e.blk
      BY <1>1, <1>2, <2>1, <2>3, <3>1
    <3>3. e = Telling(e.blk)
      BY <3>1 DEF Event, Telling
    <3>4. /\ n + 1 \in 1..(n + 1) /\ blockChan'[n + 1] = Telling(sent'[k])
          /\ \A j \in ((n + 1) + 1)..(n + 1) : FALSE
      BY <1>2, <1>3, <3>2, <3>3
    <3>5. QED
      BY <3>4 DEF ToldIn
  <2>4. QED
    BY <1>2, <2>1, <2>2, <2>3
<1>9. ASSUME NEW i \in DOMAIN blockChan', blockChan'[i].state = "revert"
      PROVE  ToldIn(blockChan', r, blockChan'[i].blk, i - 1)
  <2>1. CASE i \in 1..n
    <3>1. blockChan'[i] = blockChan[i] /\ i - 1 \in 0..n
      BY <1>2, <1>3, <2>1
    <3>2. ToldIn(blockChan, r, blockChan[i].blk, i - 1)
      BY <1>2, <1>4, <1>9, <2>1, <3>1
    <3>3. QED
      BY <1>5, <3>1, <3>2
  <2>2. CASE i = n + 1
    <3>1. blockChan'[i] = e /\ i - 1 = n
      BY <1>2, <1>3, <2>2
    <3>2. sent # <<>> /\ e.blk = sent[m]
      BY <1>2, <1>9, <3>1 DEF Follows, m
    <3>3. m \in DOMAIN sent
      BY <1>2, <1>6, <3>2
    <3>4. ToldIn(blockChan, r, e.blk, n)
      BY <1>4, <3>2, <3>3
    <3>5. QED
      BY <1>5, <1>7, <3>1, <3>4
  <2>3. QED
    BY <1>2, <1>3, <2>1, <2>2
<1>10. QED
  BY <1>1, <1>3, <1>8, <1>9 DEF FeedTold, Told

LEMMA TakeTold == ASSUME FeedInv, FeedTold, NEW e \in Event, TakeEvent(e) PROVE FeedTold'
<1> DEFINE n == Len(blockChan)
           r == Reached(blockChan, Len(sent))
<1>1. /\ FeedInv' /\ sent' = sent /\ blockChan # <<>> /\ e = blockChan[1]
      /\ blockChan' = Tail(blockChan)
      /\ Reached(blockChan', Len(sent')) = After(blockChan[1])
  BY TakeFacts
<1>2. /\ blockChan \in Seq(Event) /\ n \in Nat /\ DOMAIN blockChan = 1..n /\ n # 0
  BY <1>1, LenProperties, EmptySeq DEF FeedInv, FeedTypeOK
<1>3. /\ Len(blockChan') = n - 1 /\ DOMAIN blockChan' = 1..(n - 1)
      /\ \A i \in 1..(n - 1) : blockChan'[i] = blockChan[i + 1]
  BY <1>1, <1>2, HeadTailProperties, LenProperties
<1>4. /\ \A k \in DOMAIN sent : ToldIn(blockChan, r, sent[k], n)
      /\ \A i \in DOMAIN blockChan :
            blockChan[i].state = "revert" => ToldIn(blockChan, r, blockChan[i].blk, i - 1)
  BY DEF FeedTold, Told
<1>5. ASSUME NEW b, NEW k \in 1..n, ToldIn(blockChan, r, b, k)
      PROVE  ToldIn(blockChan', After(blockChan[1]), b, k - 1)
  BY <1>1, <1>2, <1>5, ToldTail
<1> HIDE DEF n, r
<1>6. n \in 1..n
  BY <1>2
<1>7. \A k \in DOMAIN sent' : ToldIn(blockChan', After(blockChan[1]), sent'[k], n - 1)
  BY <1>1, <1>4, <1>5, <1>6
<1>8. ASSUME NEW i \in DOMAIN blockChan', blockChan'[i].state = "revert"
      PROVE  ToldIn(blockChan', After(blockChan[1]), blockChan'[i].blk, i - 1)
  <2>1. /\ i + 1 \in DOMAIN blockChan /\ blockChan'[i] = blockChan[i + 1] /\ i \in 1..n
        /\ (i + 1) - 1 = i
    BY <1>2, <1>3
  <2>2. ToldIn(blockChan, r, blockChan'[i].blk, i)
    BY <1>4, <1>8, <2>1
  <2>3. QED
    BY <1>5, <2>1, <2>2
<1>9. QED
  BY <1>1, <1>3, <1>7, <1>8 DEF FeedTold, Told

----------------------------------------------------------------------------
(* What the consumers believe in is settled, and not above the height. *)

LEMMA SettledStays ==
    ASSUME PushSettled, pc' \in Running => pc \in Running,
           \A x : Settled(x) => Settled(x)',
           \A x \in Announced' \cup ToSet(todo') : \/ x \in Announced \cup ToSet(todo)
                                                   \/ pc = "save" /\ x = batch[1]
                                                   \/ Settled(x)',
           pc' = "save" => Settled(batch[1])'
    PROVE  PushSettled'
BY DEF PushSettled

LEMMA AccountedStays ==
    ASSUME PushAccounted, pc' \in Running => pc \in Running /\ ~Undoing /\ ~Undoing',
           astray \subseteq astray',
           \A b \in Announced' \ astray' : b \in Announced \/ Reckoned(b)',
           \A b \in Announced' \ astray' : Reckoned(b) => Reckoned(b)'
    PROVE  PushAccounted'
BY DEF PushAccounted

LEMMA InitPushKnown == ASSUME PushKafkaConstants, PushInit PROVE PushKnown
<1>1. /\ Init /\ pc = "created" /\ curHeight = StartNumber /\ todo = <<>> /\ inHand = <<>>
      /\ topic = [i \in 1..StartNumber |-> Message("ok", StartChain[i])]
      /\ blockChan = <<>> /\ sent = StartChain /\ chain = StartChain
  BY DEF PushInit, Init, FeedInit
<1>2. BlocksKnown /\ \A b \in ToSet(StartChain) : Stands(b)
  BY <1>1, InitKnown
<1>3. PushWork
  BY InitPush
<1>4. FeedTold
  BY <1>1, <1>3, InitTold DEF PushWork
<1>5. /\ StartNumber \in Nat /\ Len(StartChain) \in Nat /\ DOMAIN StartChain = 1..Len(StartChain)
      /\ StartNumber <= Len(StartChain)
      /\ \A i \in DOMAIN StartChain : StartChain[i].num = i
  BY TaskFeedAssumption, AsyncTaskAssumption, LenProperties
<1>6. \A b \in Announced : b \in ToSet(StartChain) /\ b.num <= curHeight
  <2> SUFFICES ASSUME NEW b \in Announced PROVE b \in ToSet(StartChain) /\ b.num <= curHeight
    OBVIOUS
  <2>1. topic \in Seq(Event) /\ WordIn(topic, b) = "ok"
    BY <1>3, AnnouncedIs DEF PushWork, PushTypeOK
  <2>2. PICK i \in DOMAIN topic : topic[i].blk = b
    BY <2>1, WordFacts
  <2>3. i \in 1..StartNumber /\ b = StartChain[i]
    BY <1>1, <2>2 DEF Message
  <2>4. i \in DOMAIN StartChain
    BY <1>5, <2>3
  <2>5. QED
    BY <1>1, <1>5, <2>3, <2>4 DEF ToSet
<1>7. ToSet(<<>>) = {}
  BY DEF ToSet
<1>8. PushSettled
  BY <1>1, <1>2, <1>6, <1>7 DEF PushSettled, Settled
<1>9. PushAccounted
  BY <1>1, <1>6 DEF PushAccounted, Undoing, RevertInHand, Reckoned
<1>10. QED
  BY <1>2, <1>4, <1>8, <1>9 DEF PushKnown

\* A step that leaves the work alone.
LEMMA QuietPushKnown ==
    ASSUME PushWork, PushKnown, BlocksKnown', FeedTold', PcMoves,
           \A x : Settled(x) => Settled(x)',
           UNCHANGED <<topic, curHeight, inHand, todo, batch, astray>>,
           ToSet(blockChan) \subseteq ToSet(blockChan')
    PROVE  PushKnown'
<1>1. PushSettled /\ PushAccounted /\ PushInHand
  BY DEF PushKnown, PushWork
<1>2. Announced' = Announced /\ RevertInHand' = RevertInHand
  BY SameAnnounced DEF RevertInHand
<1>3. Between \cap {"handle", "save", "record", "revert"} = {} /\ Between \subseteq Running
  BY DEF Between
<1>4. PushSettled'
  <2>1. pc' \in Running => pc \in Running
    BY <1>3 DEF PcMoves
  <2>2. pc' = "save" => pc = "save" /\ pc \in Running
    BY <1>3 DEF PcMoves, Running
  <2>3. pc' = "save" => Settled(batch[1])'
    BY <1>1, <2>2 DEF PushSettled
  <2>4. QED
    BY <1>1, <1>2, <2>1, <2>3, SettledStays
<1>5. PushAccounted'
  <2>1. CASE pc' = pc
    <3>1. Undoing' = Undoing
      BY <1>2, <2>1 DEF Undoing
    <3>2. \A b : Reckoned(b) => Reckoned(b)'
      BY <2>1 DEF Reckoned, Ahead, Telling
    <3>3. \A b : Telling(b) \in ToSet(blockChan) => Telling(b) \in ToSet(blockChan')
      OBVIOUS
    <3>4. QED
      BY <1>1, <1>2, <2>1, <3>1, <3>2, <3>3 DEF PushAccounted, Telling
  <2>2. CASE pc' \notin Running
    BY <2>2 DEF PushAccounted
  <2>3. CASE pc \in Between /\ pc' \in Between
    <3>1. ~Undoing /\ ~Undoing' /\ pc \in Running
      BY <1>1, <1>2, <1>3, <2>3 DEF Undoing, PushInHand, RevertInHand
    <3>2. \A b : Reckoned(b) => Reckoned(b)'
      BY <1>3, <2>3 DEF Reckoned, Ahead, Telling
    <3>3. QED
      BY <1>1, <1>2, <3>1, <3>2, AccountedStays
  <2>4. QED
    BY <2>1, <2>2, <2>3 DEF PcMoves
<1>6. QED
  BY <1>4, <1>5 DEF PushKnown

LEMMA IdlePushKnown ==
    ASSUME PushWork, PushKnown, Idle \/ ReadFails \/ UNCHANGED vars,
           UNCHANGED <<topic, failures>>
    PROVE  PushKnown'
<1>1. LoopTypeOK /\ FeedInv /\ BlocksKnown /\ FeedTold
  BY DEF PushWork, PushTypeOK, PushKnown
<1>2. /\ UNCHANGED <<curHeight, workVars, feedVars, history>> /\ PcMoves
      /\ ToSet(cache') \subseteq ToSet(cache)
  <2>1. CASE Idle
    BY <1>1, <2>1, IdleFacts
  <2>2. CASE ReadFails
    <3>1. /\ UNCHANGED <<curHeight, workVars, feedVars, history>> /\ PcMoves
          /\ \A i \in DOMAIN cache' : \E j \in DOMAIN cache : cache'[i] = cache[j]
      BY <1>1, <2>2, ReadFailsFacts
    <3>2. QED
      BY <3>1 DEF ToSet
  <2>3. CASE UNCHANGED vars
    BY <2>3 DEF vars, loopVars, PcMoves
  <2>4. QED
    BY <2>1, <2>2, <2>3
<1>3. /\ inHand' = inHand /\ gone' = gone /\ astray' = astray /\ blockChan' = blockChan
      /\ sent' = sent /\ todo' = todo /\ batch' = batch
  BY <1>2 DEF workVars, history, feedVars
<1>4. BlocksKnown' /\ \A x : Settled(x) => Settled(x)'
  BY <1>1, <1>2, <1>3, SteadyKnown
<1>5. FeedTold'
  BY <1>1, <1>3, SameTold
<1>6. QED
  BY <1>2, <1>3, <1>4, <1>5, QuietPushKnown

LEMMA FeedPushKnown ==
    ASSUME PushWork, PushKnown, BaseApplies \/ \E e \in Event : Publish(e),
           UNCHANGED <<topic, failures>>
    PROVE  PushKnown'
<1>1. LoopTypeOK /\ FeedInv /\ BlocksKnown /\ FeedTold
  BY DEF PushWork, PushTypeOK, PushKnown
<1>2. UNCHANGED <<pc, loopVars, workVars, taskNum, envVars, history>>
  BY DEF BaseApplies, Publish
<1>3. BlocksKnown' /\ \A x : Settled(x) => Settled(x)'
  BY <1>1, BaseKnown, PublishKnown
<1>4. FeedTold' /\ ToSet(blockChan) \subseteq ToSet(blockChan')
  <2>1. CASE BaseApplies
    <3>1. blockChan' = blockChan /\ sent' = sent
      BY <1>1, <2>1, ApplyFacts DEF BaseApplies
    <3>2. QED
      BY <1>1, <3>1, SameTold
  <2>2. CASE \E e \in Event : Publish(e)
    <3>1. PICK e \in Event : Deliver(e)
      BY <2>2 DEF Publish
    <3>2. FeedTold' /\ blockChan' = Append(blockChan, e) /\ blockChan \in Seq(Event)
      BY <1>1, <3>1, DeliverTold, DeliverFacts DEF FeedInv, FeedTypeOK
    <3>3. \A i \in DOMAIN blockChan : i \in DOMAIN blockChan' /\ blockChan'[i] = blockChan[i]
      <4>1. /\ Len(blockChan) \in Nat /\ DOMAIN blockChan = 1..Len(blockChan)
            /\ DOMAIN blockChan' = 1..(Len(blockChan) + 1)
            /\ \A i \in 1..Len(blockChan) : blockChan'[i] = blockChan[i]
        BY <3>2, AppendProperties, LenProperties
      <4>2. QED
        BY <4>1
    <3>4. QED
      BY <3>2, <3>3 DEF ToSet
  <2>3. QED
    BY <2>1, <2>2
<1>5. QED
  BY <1>2, <1>3, <1>4, QuietPushKnown DEF loopVars, workVars, history, PcMoves

\* An event is received.  The revert of a block above the height finds it
\* unannounced, or gone astray: the feed was about to tell of it again.
LEMMA ReceivePushKnown ==
    ASSUME PushWork, PushKnown, NEW e \in Event,
           PassedBy(e) \/ ReceiveNext(e) \/ ReceiveRevert(e), UNCHANGED <<topic, failures>>
    PROVE  PushKnown'
<1>1. /\ LoopTypeOK /\ FeedInv /\ BlocksKnown /\ FeedTold /\ PushSettled /\ PushAccounted
      /\ PushInHand
  BY DEF PushWork, PushTypeOK, PushKnown
<1>2. /\ Take(e) /\ curHeight' = curHeight
      /\ \/ PassedBy(e) /\ pc' = "drain" /\ inHand' = inHand /\ todo' = todo
         \/ /\ ReceiveNext(e) /\ pc' = "handle" /\ todo' = <<e.blk>> /\ e.state = "ok"
            /\ inHand' = <<e>>
         \/ /\ ReceiveRevert(e) /\ pc' = "revert" /\ todo' = todo /\ inHand' = <<e>>
            /\ e.state = "revert"
  BY <1>1, PassedByFacts DEF ReceiveNext, ReceiveRevert
<1>3. /\ batch' = batch /\ astray' = astray /\ pc \in Between /\ TakeEvent(e)
      /\ blockChan # <<>> /\ e = blockChan[1] /\ blockChan' = Tail(blockChan)
  BY <1>1, <1>2, TakenFacts DEF Take
<1>4. /\ pc \in Running /\ inHand = <<>> /\ todo = <<>> /\ ToSet(<<>>) = {}
      /\ pc \notin {"handle", "save", "record", "revert"}
  BY <1>1, <1>3 DEF PushInHand, Between, ToSet
<1>5. BlocksKnown'
  BY <1>1, <1>4, ReceiveKnown
<1>6. /\ \A x : Settled(x) => Settled(x)' \/ e = Reverting(x)
      /\ \A x : Stands(x) => Stands(x)'
      /\ e.state = "ok" => Stands(e.blk)' \/ RevertComing(e.blk)'
      /\ \A i \in DOMAIN blockChan' : blockChan'[i].state = "ok" =>
            \/ Stands(blockChan[i].blk)'
            \/ \E j \in (i + 1)..Len(blockChan') : blockChan'[j] = Reverting(blockChan'[i].blk)
  BY <1>1, <1>2, <1>4, TakeKnown
<1>7. FeedTold'
  BY <1>1, <1>3, TakeTold
<1>8. Announced' = Announced
  BY SameAnnounced
<1>9. /\ blockChan \in Seq(Event)
      /\ \A b : Telling(b) \in ToSet(blockChan) /\ e # Telling(b) =>
            \E i \in DOMAIN blockChan' : blockChan'[i] = Telling(b)
      /\ \A i \in DOMAIN blockChan' : \A j \in (i + 1)..Len(blockChan') :
            blockChan'[j] \in ToSet(blockChan')
  <2> DEFINE n == Len(blockChan)
  <2>1. blockChan \in Seq(Event) /\ n \in Nat /\ DOMAIN blockChan = 1..n
    BY <1>1, LenProperties DEF FeedInv, FeedTypeOK
  <2>2. /\ Len(blockChan') = n - 1 /\ DOMAIN blockChan' = 1..(n - 1)
        /\ \A i \in 1..(n - 1) : blockChan'[i] = blockChan[i + 1]
    <3>1. blockChan' \in Seq(Event) /\ Len(blockChan') = n - 1
      BY <1>3, <2>1, HeadTailProperties
    <3>2. DOMAIN blockChan' = 1..(n - 1)
      BY <3>1, LenProperties
    <3>3. QED
      BY <1>3, <2>1, <3>1, <3>2, HeadTailProperties
  <2> HIDE DEF n
  <2>3. ASSUME NEW b, Telling(b) \in ToSet(blockChan), e # Telling(b)
        PROVE  \E i \in DOMAIN blockChan' : blockChan'[i] = Telling(b)
    <3>1. PICK i \in 1..n : blockChan[i] = Telling(b)
      BY <2>1, <2>3 DEF ToSet
    <3>2. i # 1 /\ i - 1 \in 1..(n - 1) /\ (i - 1) + 1 = i
      <4>1. i # 1
        BY <1>3, <2>3, <3>1
      <4>2. QED
        BY <2>1, <4>1
    <3>3. blockChan'[i - 1] = Telling(b)
      BY <2>2, <3>1, <3>2
    <3>4. QED
      BY <2>2, <3>2, <3>3
  <2>4. ASSUME NEW i \in DOMAIN blockChan', NEW j \in (i + 1)..Len(blockChan')
        PROVE  blockChan'[j] \in ToSet(blockChan')
    <3>1. j \in 1..(n - 1)
      BY <2>1, <2>2
    <3>2. QED
      BY <2>2, <3>1 DEF ToSet
  <2>5. QED
    BY <2>1, <2>3, <2>4
<1>10. ASSUME NEW b \in Announced, e = Reverting(b) PROVE Settled(b)'
  <2>1. e.state = "revert" /\ e.blk = b
    BY <1>10 DEF Reverting
  <2>2. CASE ReceiveRevert(e)
    <3>1. e \in ToSet(inHand')
      BY <1>2, <2>1, <2>2 DEF ToSet, ReceiveRevert
    <3>2. QED
      BY <1>10, <3>1 DEF Settled, RevertComing, Reverting
  <2>3. CASE ReceiveRevertAbove(e)
    <3>1. curHeight < b.num /\ curHeight \in Nat /\ b.num \in Nat
      BY <1>1, <2>1, <2>3, EventFacts DEF ReceiveRevertAbove, LoopTypeOK
    <3>2. CASE b \in astray
      BY <1>3, <3>2 DEF Settled
    <3>3. CASE b \notin astray
      <4>1. Reckoned(b)
        BY <1>1, <1>4, <3>3 DEF PushAccounted, Undoing, RevertInHand
      <4>2. Telling(b) \in ToSet(blockChan)
        BY <1>4, <3>1, <4>1 DEF Reckoned, Ahead
      <4>3. PICK i \in DOMAIN blockChan' : blockChan'[i] = Telling(b)
        BY <1>9, <2>1, <4>2 DEF Telling
      <4>4. blockChan'[i].state = "ok" /\ blockChan'[i].blk = b
        BY <4>3 DEF Telling
      <4>5. CASE Stands(blockChan[i].blk)'
        BY <4>4, <4>5 DEF Settled, Stands
      <4>6. CASE \E j \in (i + 1)..Len(blockChan') :
                    blockChan'[j] = Reverting(blockChan'[i].blk)
        <5>1. Reverting(b) \in ToSet(blockChan')
          BY <1>9, <4>4, <4>6
        <5>2. QED
          BY <5>1 DEF Settled, RevertComing, Reverting
      <4>7. QED
        BY <1>6, <4>4, <4>5, <4>6
    <3>4. QED
      BY <3>2, <3>3
  <2>4. QED
    BY <2>1, <2>2, <2>3 DEF PassedBy, ReceiveAhead, ReceiveOld, ReceiveNext
<1>11. \A b \in ToSet(todo') : Settled(b)'
  <2>1. CASE ReceiveNext(e)
    <3>1. todo' = <<e.blk>> /\ e.state = "ok"
      BY <2>1 DEF ReceiveNext
    <3>2. \A b \in ToSet(todo') : b = e.blk
      BY <3>1 DEF ToSet
    <3>3. Settled(e.blk)'
      BY <1>6, <3>1 DEF Settled
    <3>4. QED
      BY <3>2, <3>3
  <2>2. CASE todo' = todo
    BY <1>4, <2>2
  <2>3. QED
    BY <1>2, <2>1, <2>2
<1>12. PushSettled'
  <2>1. pc' # "save"
    BY <1>2
  <2>2. \A b \in Announced : Settled(b)'
    BY <1>1, <1>4, <1>6, <1>10 DEF PushSettled
  <2>3. QED
    BY <1>8, <1>11, <2>1, <2>2 DEF PushSettled
<1>13. PushAccounted'
  <2>1. ~Undoing /\ ~Undoing'
    <3>1. e.state = "ok" => ~RevertInHand'
      <4>1. inHand' = <<>> \/ (inHand' = <<e>> /\ inHand'[1] = e)
        BY <1>2, <1>4
      <4>2. QED
        BY <4>1 DEF RevertInHand
    <3>2. inHand' = <<>> => ~RevertInHand'
      BY DEF RevertInHand
    <3>3. QED
      BY <1>2, <1>4, <3>1, <3>2 DEF Undoing, RevertInHand
  <2>2. ASSUME NEW b \in Announced, Reckoned(b) PROVE Reckoned(b)'
    <3>1. b.num <= curHeight \/ (b.num = curHeight + 1 /\ Telling(b) \in ToSet(blockChan))
      BY <1>4, <2>2 DEF Reckoned, Ahead
    <3>2. CASE b.num <= curHeight
      BY <1>2, <3>2 DEF Reckoned
    <3>3. CASE b.num = curHeight + 1 /\ Telling(b) \in ToSet(blockChan)
      <4>1. CASE e # Telling(b)
        <5>1. Telling(b) \in ToSet(blockChan')
          BY <1>9, <3>3, <4>1 DEF ToSet
        <5>2. QED
          BY <1>2, <3>3, <5>1 DEF Reckoned, Ahead, Telling
      <4>2. CASE e = Telling(b)
        <5>1. e.state = "ok" /\ e.blk = b
          BY <4>2 DEF Telling
        <5>2. b.num \in Nat /\ curHeight \in Nat
          BY <1>1, AnnouncedBlocks DEF LoopTypeOK
        <5>3. ~PassedBy(e)
          BY <3>3, <5>1, <5>2
             DEF PassedBy, ReceiveAhead, ReceiveOld, ReceiveRevertAbove
        <5>4. pc' = "handle" /\ todo' = <<b>> /\ todo'[1] = b
          BY <1>2, <5>1, <5>3
        <5>5. QED
          BY <1>2, <3>3, <5>4 DEF Reckoned, Ahead
      <4>3. QED
        BY <4>1, <4>2
    <3>4. QED
      BY <3>1, <3>2, <3>3
  <2>3. QED
    BY <1>1, <1>3, <1>4, <1>8, <2>1, <2>2, AccountedStays
<1>14. QED
  BY <1>5, <1>7, <1>12, <1>13 DEF PushKnown

\* fixHistoryData, and the block handleBlock takes.
LEMMA HistoryPushKnown ==
    ASSUME PushKafkaConstants, PushWork, PushKnown,
           ReadFound(PushRangeEnd) \/ Skip(PushRangeEnd, "loop"), UNCHANGED <<topic, failures>>
    PROVE  PushKnown'
<1>1. /\ LoopTypeOK /\ FeedInv /\ BlocksKnown /\ FeedTold /\ PushSettled /\ PushAccounted
      /\ PushInHand /\ curHeight \in Nat
  BY DEF PushWork, PushTypeOK, PushKnown, LoopTypeOK
<1>2. /\ pc = "catchup" /\ pc' \in {"handle", "loop"} /\ inHand' = inHand
      /\ UNCHANGED feedVars /\ blockChan' = blockChan /\ sent' = sent
      /\ astray \subseteq astray'
  BY DEF ReadFound, Skip, workVars, feedVars
<1>3. PushRangeEnd \in Int /\ PushRangeEnd > curHeight
  BY <1>1 DEF PushRangeEnd, PushKafkaConstants
<1>4. /\ BlocksKnown' /\ \A x : Settled(x) => Settled(x)'
      /\ \A b \in ToSet(todo') : Settled(b)' \/ b \in ToSet(todo)
  <2>1. CASE ReadFound(PushRangeEnd)
    BY <1>1, <1>3, <2>1, ReadKnown
  <2>2. CASE Skip(PushRangeEnd, "loop")
    <3>1. /\ cache' = CacheLeft /\ inHand' = inHand /\ todo' = todo /\ gone' = gone
          /\ UNCHANGED feedVars /\ astray' = astray
      BY <2>2 DEF Skip, workVars
    <3>2. \A i \in DOMAIN CacheLeft : \E j \in DOMAIN cache : CacheLeft[i] = cache[j]
      BY <1>1, <1>3, FoundFacts
    <3>3. ToSet(cache') \subseteq ToSet(cache)
      BY <3>1, <3>2 DEF ToSet
    <3>4. QED
      BY <1>1, <3>1, <3>3, SteadyKnown
  <2>3. QED
    BY <2>1, <2>2
<1>5. FeedTold'
  BY <1>1, <1>2, SameTold
<1>6. Announced' = Announced /\ pc \in Running
  BY <1>2, SameAnnounced DEF Running
<1>7. PushSettled'
  BY <1>1, <1>2, <1>4, <1>6, SettledStays
<1>8. ~Undoing /\ ~Undoing'
  BY <1>1, <1>2 DEF Undoing, PushInHand, RevertInHand, Between, Running
<1>9. ASSUME NEW b \in Announced, Reckoned(b) PROVE Reckoned(b)'
  <2>1. /\ b.num \in Nat
        /\ \/ b.num <= curHeight
           \/ b.num = curHeight + 1 /\ Telling(b) \in ToSet(blockChan)
    BY <1>2, <1>9, AnnouncedBlocks DEF Reckoned, Ahead
  <2>2. CASE curHeight' = curHeight
    BY <1>2, <2>1, <2>2 DEF Reckoned, Ahead, Telling
  <2>3. CASE curHeight' = PushRangeEnd
    <3>1. b.num <= curHeight'
      BY <1>1, <1>3, <2>1, <2>3
    <3>2. QED
      BY <3>1 DEF Reckoned
  <2>4. QED
    BY <2>2, <2>3 DEF ReadFound, Skip
<1>10. PushAccounted'
  BY <1>1, <1>2, <1>6, <1>8, <1>9, AccountedStays
<1>11. QED
  BY <1>4, <1>5, <1>7, <1>10 DEF PushKnown

LEMMA HandleOneKnown ==
    ASSUME PushWork, PushKnown, HandleOne, UNCHANGED <<topic, failures>> PROVE PushKnown'
<1>1. /\ BlocksKnown /\ FeedTold /\ PushSettled /\ PushAccounted /\ PushInHand
      /\ todo \in Seq(Blocks)
  BY DEF PushWork, PushTypeOK, PushKnown, LoopTypeOK
<1>2. /\ pc = "handle" /\ pc' = "save" /\ todo # <<>>
      /\ batch' = <<todo[1]>> /\ batch'[1] = todo[1] /\ Len(todo) \in Nat
      /\ Len(todo') = Len(todo) - 1 /\ DOMAIN todo' = 1..Len(todo')
      /\ \A i \in 1..Len(todo') : todo'[i] = todo[i + 1]
      /\ UNCHANGED <<loopVars, inHand, tries, feedVars, taskNum, envVars, history>>
  BY HandleOneFacts
<1>3. /\ cache' = cache /\ curHeight' = curHeight /\ gone' = gone /\ astray' = astray
      /\ blockChan' = blockChan /\ sent' = sent
  BY <1>2 DEF loopVars, history, feedVars
<1>4. BlocksKnown' /\ \A x : Settled(x) => Settled(x)'
  BY <1>1, <1>2, <1>3, SteadyKnown
<1>5. FeedTold'
  BY <1>1, <1>3, SameTold
<1>6. Announced' = Announced /\ pc \in Running
  BY <1>2, SameAnnounced DEF Running
<1>7. ToSet(todo') \subseteq ToSet(todo) /\ todo[1] \in ToSet(todo)
  <2>1. DOMAIN todo = 1..Len(todo) /\ Len(todo) # 0
    BY <1>1, <1>2, LenProperties, EmptySeq
  <2>2. \A i \in 1..Len(todo') : i + 1 \in DOMAIN todo
    BY <1>2, <2>1
  <2>3. 1 \in DOMAIN todo
    BY <1>2, <2>1
  <2>4. QED
    BY <1>2, <2>2, <2>3 DEF ToSet
<1>8. Settled(batch[1])'
  <2>1. Settled(todo[1])
    BY <1>1, <1>6, <1>7 DEF PushSettled
  <2>2. QED
    BY <1>2, <1>4, <2>1 DEF Settled, Stands, RevertComing, Reverting
<1>9. PushSettled'
  BY <1>1, <1>4, <1>6, <1>7, <1>8, SettledStays
<1>10. ~Undoing /\ ~Undoing'
  BY <1>1, <1>2 DEF Undoing, PushInHand, RevertInHand
<1>11. ASSUME NEW b \in Announced, Reckoned(b) PROVE Reckoned(b)'
  BY <1>2, <1>3, <1>11 DEF Reckoned, Ahead, Telling
<1>12. PushAccounted'
  BY <1>1, <1>3, <1>6, <1>10, <1>11, AccountedStays
<1>13. QED
  BY <1>4, <1>5, <1>9, <1>12 DEF PushKnown

\* The block is announced; or the attempt failed, and it may be all the same.
LEMMA SendKnown ==
    ASSUME PushWork, PushKnown, Push \/ PushFails,
           pc = "save" => Announced' \in {Announced, Announced \cup {batch[1]}},
           pc = "revert" => Announced' \subseteq Announced,
           pc \in {"save", "revert"} /\ pc \in Running,
           (pc' = "record" /\ pc = "save") \/ pc' = pc \/ pc' \notin Running,
           UNCHANGED <<loopVars, inHand, todo, batch, feedVars, history>>
    PROVE  PushKnown'
<1>1. /\ BlocksKnown /\ FeedTold /\ PushSettled /\ PushAccounted /\ PushInHand
  BY DEF PushWork, PushKnown
<1>2. /\ cache' = cache /\ curHeight' = curHeight /\ gone' = gone /\ astray' = astray
      /\ blockChan' = blockChan /\ sent' = sent
  BY DEF loopVars, history, feedVars
<1>3. BlocksKnown' /\ \A x : Settled(x) => Settled(x)'
  BY <1>1, <1>2, SteadyKnown
<1>4. FeedTold'
  BY <1>1, <1>2, SameTold
<1>5. PushSettled'
  <2>1. \A x \in Announced' \cup ToSet(todo') : \/ x \in Announced \cup ToSet(todo)
                                                \/ pc = "save" /\ x = batch[1]
    OBVIOUS
  <2>2. pc' = "save" => Settled(batch[1])'
    <3>1. pc' = "save" => pc = "save"
      BY DEF Running
    <3>2. pc = "save" => Settled(batch[1])
      BY <1>1 DEF PushSettled
    <3>3. pc = "save" => Settled(batch[1])'
      BY <1>2, <3>2 DEF Settled, Stands, RevertComing, Reverting
    <3>4. QED
      BY <3>1, <3>3
  <2>3. \A x \in Announced' \cup ToSet(todo') : Settled(x)'
    <3>1. \A x \in Announced \cup ToSet(todo) : Settled(x)
      BY <1>1 DEF PushSettled
    <3>2. pc = "save" => Settled(batch[1])
      BY <1>1 DEF PushSettled
    <3>3. QED
      BY <1>3, <2>1, <3>1, <3>2
  <2>4. QED
    BY <2>2, <2>3 DEF PushSettled
<1>6. ~Undoing /\ (pc' \in Running => ~Undoing')
  <2>1. ~RevertInHand \/ pc = "revert"
    BY <1>1 DEF PushInHand
  <2>2. QED
    BY <2>1 DEF Undoing, RevertInHand
<1>7. ASSUME NEW b, Reckoned(b), pc' \in Running PROVE Reckoned(b)'
  BY <1>2, <1>7 DEF Reckoned, Ahead, Telling
<1>8. pc' \in Running => \A b \in Announced' : b \in Announced \/ Reckoned(b)'
  BY DEF Reckoned
<1>9. PushAccounted'
  <2>1. CASE pc' \in Running
    BY <1>1, <1>2, <1>6, <1>7, <1>8, <2>1, AccountedStays
  <2>2. CASE pc' \notin Running
    BY <2>2 DEF PushAccounted
  <2>3. QED
    BY <2>1, <2>2
<1>10. QED
  BY <1>3, <1>4, <1>5, <1>9 DEF PushKnown

LEMMA PushPushKnown ==
    ASSUME PushWork, PushKnown, Push \/ PushFails PROVE PushKnown'
<1>1. CASE Push
  <2>1. /\ pc = "save" /\ topic' = Append(topic, Message("ok", batch[1])) /\ pc' = "record"
        /\ UNCHANGED <<loopVars, inHand, todo, batch, feedVars, history>>
    BY <1>1 DEF Push
  <2>2. Announced' = Announced \cup {batch[1]} /\ pc \in Running /\ pc # "revert"
    BY <2>1, SendFacts DEF Running
  <2>3. QED
    BY <1>1, <2>1, <2>2, SendKnown
<1>2. CASE PushFails
  <2>1. /\ pc \in {"save", "revert"} /\ pc \in Running
        /\ (pc' = pc \/ pc' \notin Running)
        /\ UNCHANGED <<loopVars, inHand, todo, batch, feedVars, history>>
        /\ pc = "save" => Announced' \in {Announced, Announced \cup {batch[1]}}
        /\ pc = "revert" => Announced' \subseteq Announced
    BY <1>2, FailsFacts
  <2>2. QED
    BY <1>2, <2>1, SendKnown
<1>3. QED
  BY <1>1, <1>2

\* The block in hand is taken back.  Of another block of its height that is
\* believed in, the feed is about to tell.
LEMMA TakenBack ==
    ASSUME PushWork, FeedTold, PushSettled, pc = "revert", NEW b \in Announced,
           b # inHand[1].blk, b \notin astray, b.num = inHand[1].blk.num
    PROVE  Telling(b) \in ToSet(blockChan)
<1> DEFINE n == Len(blockChan)
           r == Reached(blockChan, Len(sent))
<1>1. /\ PushInHand /\ pc \in Running /\ b.num \in Nat
      /\ blockChan \in Seq(Event)
  BY AnnouncedBlocks DEF PushWork, PushTypeOK, LoopTypeOK, FeedTypeOK, Running
<1>2. RevertInHand /\ ToSet(inHand) = {Reverting(inHand[1].blk)} /\ r = b.num - 1
  BY <1>1, HandFacts DEF PushInHand
<1>3. n \in Nat /\ DOMAIN blockChan = 1..n
  BY <1>1, LenProperties
<1>4. ~(r >= b.num)
  BY <1>1, <1>2
<1> HIDE DEF n, r
<1>5. ASSUME NEW k \in 0..n, Told(b, k) PROVE Telling(b) \in ToSet(blockChan)
  <2>1. PICK i \in 1..k : blockChan[i] = Telling(b)
    BY <1>4, <1>5 DEF Told, ToldIn, r
  <2>2. i \in DOMAIN blockChan
    BY <1>3, <2>1
  <2>3. QED
    BY <2>1, <2>2 DEF ToSet
<1>6. Settled(b)
  BY <1>1 DEF PushSettled
<1>7. CASE Stands(b)
  <2>1. Told(b, n)
    BY <1>7 DEF Stands, FeedTold, n
  <2>2. n \in 0..n
    BY <1>3
  <2>3. QED
    BY <1>5, <2>1, <2>2
<1>8. CASE RevertComing(b)
  <2>1. Reverting(b) \notin ToSet(inHand)
    BY <1>2 DEF Reverting
  <2>2. PICK i \in DOMAIN blockChan : blockChan[i] = Reverting(b)
    BY <1>8, <2>1 DEF RevertComing, ToSet
  <2>3. blockChan[i].state = "revert" /\ blockChan[i].blk = b
    BY <2>2 DEF Reverting
  <2>4. Told(b, i - 1) /\ i - 1 \in 0..n
    BY <1>3, <2>3 DEF FeedTold
  <2>5. QED
    BY <1>5, <2>4
<1>9. QED
  BY <1>6, <1>7, <1>8 DEF Settled

LEMMA PushRevertKnown == ASSUME PushWork, PushKnown, PushRevert PROVE PushKnown'
<1>1. /\ BlocksKnown /\ FeedTold /\ PushSettled /\ PushAccounted /\ PushInHand
      /\ curHeight \in Nat
  BY DEF PushWork, PushKnown, PushTypeOK, LoopTypeOK
<1>2. /\ pc = "revert" /\ pc' = "record" /\ pc \in Running
      /\ astray' = astray \cup LeftAbove(Announced)
      /\ UNCHANGED <<feedVars, cache, curHeight, inHand, todo, gone>>
      /\ topic' = Append(topic, inHand[1])
  BY DEF PushRevert, loopVars, Running
<1>3. blockChan' = blockChan /\ sent' = sent
  BY <1>2 DEF feedVars
<1>4. Announced' = Announced \ {inHand[1].blk}
  BY <1>2, SendFacts
<1>5. BlocksKnown' /\ \A x : Settled(x) => Settled(x)'
  BY <1>1, <1>2, SteadyKnown
<1>6. FeedTold'
  BY <1>1, <1>3, SameTold
<1>7. PushSettled'
  BY <1>1, <1>2, <1>4, <1>5, SettledStays
<1>8. RevertInHand /\ Undoing'
  BY <1>1, <1>2 DEF PushInHand, Undoing, RevertInHand
<1>9. ASSUME NEW b \in Announced' \ astray'
      PROVE  \/ b.num < inHand[1].blk.num
             \/ b.num = inHand[1].blk.num /\ Telling(b) \in ToSet(blockChan)
  <2>1. b \in Announced /\ b # inHand[1].blk /\ b \notin astray /\ b \notin LeftAbove(Announced)
    BY <1>2, <1>4, <1>9
  <2>2. ~(b.num > inHand[1].blk.num) /\ b.num \in Nat /\ inHand[1].blk.num \in Nat
    BY <1>8, <2>1, HandFacts, AnnouncedBlocks DEF LeftAbove
  <2>3. b.num < inHand[1].blk.num \/ b.num = inHand[1].blk.num
    BY <2>2
  <2>4. QED
    BY <1>1, <1>2, <2>1, <2>3, TakenBack
<1>10. PushAccounted'
  BY <1>2, <1>3, <1>8, <1>9 DEF PushAccounted, Telling
<1>11. QED
  BY <1>5, <1>6, <1>7, <1>10 DEF PushKnown

LEMMA RecordKnown == ASSUME PushWork, PushKnown, Record \/ RecordFails PROVE PushKnown'
<1>1. /\ BlocksKnown /\ FeedTold /\ PushSettled /\ PushAccounted /\ PushInHand
      /\ curHeight \in Nat
  BY DEF PushWork, PushKnown, PushTypeOK, LoopTypeOK
<1>2. /\ Advance /\ astray \subseteq astray'
      /\ UNCHANGED <<feedVars, cache, todo, gone, topic>>
      /\ \/ curHeight' = batch[1].num
         \/ curHeight' = curHeight /\ astray' = astray \cup {batch[1]}
  BY DEF Record, RecordFails, Advance
<1>3. /\ pc = "record" /\ batch # <<>>
      /\ \/ /\ RevertInHand /\ RevertInHand' /\ pc' = "height"
            /\ inHand' = inHand
            /\ todo = <<>> /\ batch[1] = inHand[1].blk
         \/ ~RevertInHand /\ ~RevertInHand' /\ inHand' \in {inHand, <<>>}
      /\ pc' \in {"handle", "height", "drain"}
      /\ ~RevertInHand => batch[1].num > curHeight
  BY <1>2, AdvanceCases
<1>4. blockChan' = blockChan /\ sent' = sent /\ Announced' = Announced /\ pc \in Running
  BY <1>2, <1>3, SameAnnounced DEF feedVars, Running
<1>5. \A x : Reverting(x) \in ToSet(inHand) => Reverting(x) \in ToSet(inHand')
  BY <1>3, HandFacts
<1>6. BlocksKnown' /\ \A x : Settled(x) => Settled(x)'
  BY <1>1, <1>2, <1>5, SteadyKnown
<1>7. FeedTold'
  BY <1>1, <1>4, SameTold
<1>8. PushSettled'
  BY <1>1, <1>2, <1>3, <1>4, <1>6, SettledStays
<1>9. batch[1].num \in Nat
  BY <1>3, HandFacts
<1>10. PushAccounted'
  <2>1. CASE RevertInHand
    <3>1. Undoing /\ Undoing' /\ inHand' = inHand
      BY <1>3, <2>1 DEF Undoing
    <3>2. QED
      BY <1>1, <1>2, <1>4, <3>1 DEF PushAccounted, Telling
  <2>2. CASE ~RevertInHand
    <3>1. ~Undoing /\ ~Undoing'
      BY <1>3, <2>2 DEF Undoing
    <3>2. ASSUME NEW b \in Announced \ astray', Reckoned(b) PROVE Reckoned(b)'
      <4>1. /\ b.num \in Nat
            /\ \/ b.num <= curHeight
               \/ b.num = curHeight + 1 /\ Telling(b) \in ToSet(blockChan)
               \/ b = batch[1]
        BY <1>3, <3>2, AnnouncedBlocks DEF Reckoned, Ahead
      <4>2. CASE curHeight' = batch[1].num
        <5>1. b.num <= curHeight'
          BY <1>1, <1>3, <1>9, <2>2, <4>1, <4>2
        <5>2. QED
          BY <5>1 DEF Reckoned
      <4>3. CASE curHeight' = curHeight /\ astray' = astray \cup {batch[1]}
        <5>1. b # batch[1]
          BY <3>2, <4>3
        <5>2. QED
          BY <1>4, <4>1, <4>3, <5>1 DEF Reckoned, Ahead, Telling
      <4>4. QED
        BY <1>2, <4>2, <4>3
    <3>3. QED
      BY <1>1, <1>2, <1>4, <3>1, <3>2, AccountedStays
  <2>3. QED
    BY <2>1, <2>2
<1>11. QED
  BY <1>6, <1>7, <1>8, <1>10 DEF PushKnown

LEMMA HeightKnown ==
    ASSUME PushKafkaConstants, PushWork, PushKnown, RecordRevert \/ RecordBatch
    PROVE  PushKnown'
<1>1. /\ BlocksKnown /\ FeedTold /\ PushSettled /\ PushAccounted /\ PushInHand
      /\ curHeight \in Nat
  BY DEF PushWork, PushKnown, PushTypeOK, LoopTypeOK
<1>2. /\ pc = "height" /\ pc' \in {"drain", "loop"} /\ inHand' = <<>>
      /\ todo' = todo /\ batch # <<>>
      /\ UNCHANGED <<feedVars, cache, gone, astray, topic>>
      /\ RecordRevert => RevertInHand /\ curHeight' = inHand[1].blk.num - 1
      /\ RecordBatch => /\ ~RevertInHand /\ batch[1].num >= curHeight
                        /\ curHeight' \in {curHeight, batch[1].num}
  BY HeightFacts DEF history
<1>3. blockChan' = blockChan /\ sent' = sent /\ Announced' = Announced /\ pc \in Running
  BY <1>2, SameAnnounced DEF feedVars, Running
<1>4. ~Undoing' /\ batch[1].num \in Nat
  BY <1>2, HandFacts DEF Undoing, RevertInHand
<1>5. FeedTold'
  BY <1>1, <1>3, SameTold
<1>6. pc' # "save" /\ pc' \notin {"handle", "save", "record"}
  BY <1>2
<1>7. CASE RecordBatch
  <2>1. \A x : Reverting(x) \notin ToSet(inHand)
    BY <1>2, <1>7, HandFacts
  <2>2. BlocksKnown' /\ \A x : Settled(x) => Settled(x)'
    BY <1>1, <1>2, <2>1, SteadyKnown
  <2>3. PushSettled'
    BY <1>1, <1>2, <1>3, <1>6, <2>2, SettledStays
  <2>4. ~Undoing
    BY <1>2, <1>7 DEF Undoing
  <2>5. ASSUME NEW b \in Announced, Reckoned(b) PROVE Reckoned(b)'
    <3>1. /\ b.num \in Nat
          /\ \/ b.num <= curHeight
             \/ b.num = curHeight + 1 /\ Telling(b) \in ToSet(blockChan)
      BY <1>2, <2>5, AnnouncedBlocks DEF Reckoned, Ahead
    <3>2. CASE curHeight' = curHeight
      BY <1>3, <3>1, <3>2 DEF Reckoned, Ahead, Telling
    <3>3. CASE curHeight' > curHeight
      <4>1. b.num <= curHeight'
        BY <1>1, <1>2, <1>4, <1>7, <3>1, <3>3
      <4>2. QED
        BY <4>1 DEF Reckoned
    <3>4. QED
      BY <1>1, <1>2, <1>4, <1>7, <3>2, <3>3
  <2>6. PushAccounted'
    BY <1>1, <1>2, <1>3, <1>4, <2>4, <2>5, AccountedStays
  <2>7. QED
    BY <1>5, <2>2, <2>3, <2>6 DEF PushKnown
<1>8. CASE RecordRevert
  <2> DEFINE r == inHand[1].blk
  <2>1. /\ RevertInHand /\ curHeight' = r.num - 1
        /\ ToSet(inHand) = {Reverting(r)} /\ r.num \in Nat /\ Undoing
    BY <1>2, <1>8, HandFacts DEF Undoing
  <2>2. r \notin Announced /\ todo = <<>> /\ ToSet(<<>>) = {}
    BY <1>1, <1>2, <2>1 DEF PushInHand, ToSet
  <2> HIDE DEF r
  <2>3. /\ \A x : Stands(x) => Stands(x)'
        /\ \A x : RevertComing(x) => RevertComing(x)' \/ x = r
    <3>1. \A x : Stands(x) => Stands(x)'
      BY <1>3 DEF Stands
    <3>2. \A x : Reverting(x) = Reverting(r) => x = r
      BY DEF Reverting
    <3>3. \A x : RevertComing(x) => RevertComing(x)' \/ x = r
      BY <1>3, <2>1, <3>2 DEF RevertComing
    <3>4. QED
      BY <3>1, <3>3
  <2>4. /\ \A x : Known(x) => Known(x)' \/ x = r
        /\ \A x : Settled(x) => Settled(x)' \/ x = r
    BY <1>2, <2>3 DEF Known, Settled
  <2>5. r \in gone
    BY <1>1, <1>3, <2>1 DEF PushInHand, r
  <2>6. \A x : Known(x) => Known(x)'
    BY <1>2, <2>4, <2>5 DEF Known
  <2>7. /\ blockChan' = blockChan /\ toBase' = toBase /\ chain' = chain /\ sent' = sent
        /\ cache' = cache
    BY <1>2 DEF feedVars
  <2>8. BlocksKnown'
    BY <1>1, <2>3, <2>6, <2>7 DEF BlocksKnown
  <2>9. PushSettled'
    <3>1. \A b \in Announced' \cup ToSet(todo') : Settled(b) /\ b # r
      BY <1>1, <1>2, <1>3, <2>2 DEF PushSettled
    <3>2. QED
      BY <1>6, <2>4, <3>1 DEF PushSettled
  <2>10. ASSUME NEW b \in Announced \ astray PROVE Reckoned(b)'
    <3>1. b.num < r.num \/ (b.num = r.num /\ Telling(b) \in ToSet(blockChan))
      BY <1>1, <1>3, <2>1, <2>10 DEF PushAccounted, r
    <3>2. b.num \in Nat
      BY <2>10, AnnouncedBlocks
    <3>3. CASE b.num < r.num
      <4>1. b.num <= curHeight'
        BY <2>1, <3>2, <3>3
      <4>2. QED
        BY <4>1 DEF Reckoned
    <3>4. CASE b.num = r.num /\ Telling(b) \in ToSet(blockChan)
      <4>1. b.num = curHeight' + 1
        BY <2>1, <3>2, <3>4
      <4>2. QED
        BY <1>3, <3>4, <4>1 DEF Reckoned, Ahead, Telling
    <3>5. QED
      BY <3>1, <3>3, <3>4
  <2>11. PushAccounted'
    BY <1>2, <1>3, <1>4, <2>10 DEF PushAccounted
  <2>12. QED
    BY <1>5, <2>8, <2>9, <2>11 DEF PushKnown
<1>9. QED
  BY <1>7, <1>8

LEMMA RestartPushKnown ==
    ASSUME PushWork, PushKnown, Restart(Unknown, Unannounced), UNCHANGED <<topic, failures>>
    PROVE  PushKnown'
<1>1. /\ FeedAgain /\ pc' = "created" /\ cache' = <<>> /\ curHeight' = taskNum
      /\ inHand' = <<>> /\ todo' = <<>> /\ astray' = astray \cup Unknown
  BY DEF Restart
<1>2. FeedInv /\ Announced' = Announced /\ ToSet(<<>>) = {} /\ taskNum \in Nat
  BY SameAnnounced DEF PushWork, PushTypeOK, LoopTypeOK, ToSet
<1>3. BlocksKnown' /\ \A b \in ToSet(chain) : Stands(b)'
  BY <1>1, RestartKnown
<1>4. FeedTold'
  BY <1>1, <1>2, AgainTold
<1>5. \A b \in Announced : Settled(b)'
  BY <1>1, <1>3 DEF Settled, Unknown
<1>6. PushSettled'
  BY <1>1, <1>2, <1>5 DEF PushSettled
<1>7. PushAccounted'
  <2>1. ~Undoing'
    BY <1>1 DEF Undoing, RevertInHand
  <2>2. ASSUME NEW b \in Announced \ astray' PROVE Reckoned(b)'
    <3>1. ~(b.num > taskNum) /\ b.num \in Nat
      BY <1>1, <2>2, AnnouncedBlocks DEF Unknown
    <3>2. b.num <= curHeight'
      BY <1>1, <1>2, <3>1
    <3>3. QED
      BY <3>2 DEF Reckoned
  <2>3. QED
    BY <1>2, <2>1, <2>2 DEF PushAccounted
<1>8. QED
  BY <1>3, <1>4, <1>6, <1>7 DEF PushKnown

LEMMA NextPushKnown ==
    ASSUME PushKafkaConstants, PushWork, PushKnown, [PushNext]_vars PROVE PushKnown'
<1>1. CASE UNCHANGED vars
  <2>1. UNCHANGED <<topic, failures>>
    BY <1>1 DEF vars
  <2>2. QED
    BY <1>1, <2>1, IdlePushKnown
<1>2. CASE PushNext
  BY <1>2, PushCases, IdlePushKnown, FeedPushKnown, ReceivePushKnown, HistoryPushKnown,
     HandleOneKnown, PushPushKnown, PushRevertKnown, RecordKnown, HeightKnown,
     RestartPushKnown
<1>3. QED
  BY <1>1, <1>2

LEMMA PushKnownInvariant == ASSUME PushKafkaConstants PROVE PushSpec => []PushKnown
<1>1. PushInit => PushKnown
  BY InitPushKnown
<1>2. PushWork /\ PushKnown /\ [PushNext]_vars => PushKnown'
  BY NextPushKnown
<1>3. QED
  BY <1>1, <1>2, PushWorkInvariant, PTL DEF PushSpec

\* The variables of push_kafka keep their types.  (push_kafka_task.go)
THEOREM PushTypesHold == ASSUME PushKafkaConstants PROVE PushSpec => []PushTypeOK
<1>1. PushWork => PushTypeOK
  BY DEF PushWork
<1>2. QED
  BY <1>1, PushWorkInvariant, PTL

\* A block the consumers of the topic believe in stands, or its revert is on its
\* way or in hand, or it is one of those named astray: whatever order the events,
\* catch-up, failures of Kafka and of the database, and restarts come in.
THEOREM NoneBelievedInVain == ASSUME PushKafkaConstants PROVE PushSpec => []AnnouncedStand
<1>1. PushWork /\ PushKnown => AnnouncedStand
  BY ToApplyFacts
     DEF AnnouncedStand, PushKnown, PushSettled, Settled, PushWork, PushTypeOK
<1>2. QED
  BY <1>1, PushWorkInvariant, PushKnownInvariant, PTL

----------------------------------------------------------------------------
(* Nothing is kept from the consumers. *)

LEMMA CoveredStays ==
    ASSUME PushCovered, pc' \in Running => pc \in Running,
           \A n \in 1..PushReach' : n \in 1..PushReach \/ CoveredAt(n)',
           \A n \in 1..PushReach' : CoveredAt(n) => CoveredAt(n)'
    PROVE  PushCovered'
<1>1. \A n : CoveredAt(n) <=> (n \in skipped \/ \E b \in Announced : b.num = n)
  BY DEF CoveredAt
<1>2. QED
  BY DEF PushCovered

LEMMA ReachFacts ==
    ASSUME PushWork, pc \in Running
    PROVE  /\ PushReach \in Int
           /\ ~RevertInHand => PushReach >= curHeight
           /\ pc \in Between => PushReach = curHeight /\ ~RevertInHand
<1>1. PushInHand /\ curHeight \in Nat
  BY HandFacts DEF PushWork
<1>2. CASE RevertInHand
  <2>1. inHand[1].blk.num \in Nat /\ pc \notin Between
    BY <1>1, <1>2, HandFacts DEF PushInHand, RevertInHand
  <2>2. QED
    BY <1>2, <2>1 DEF PushReach
<1>3. CASE ~RevertInHand
  <2>1. CASE pc = "handle"
    <3>1. todo[1].num \in Nat /\ todo[1].num > curHeight /\ pc \notin Between
      BY <1>1, <2>1, HandFacts DEF PushInHand, Between
    <3>2. QED
      BY <1>1, <1>3, <2>1, <3>1 DEF PushReach
  <2>2. CASE pc \in {"save", "record", "height"}
    <3>1. /\ batch[1].num \in Nat /\ batch[1].num >= curHeight /\ pc \notin Between
          /\ pc = "save" => batch[1].num > curHeight
      <4>1. /\ Len(batch) = 1
            /\ pc \in {"save", "record"} => batch[1].num > curHeight
            /\ pc = "height" => batch[1].num >= curHeight
        BY <1>1, <1>3, <2>2 DEF PushInHand
      <4>2. batch[1].num \in Nat
        BY <4>1, OneIsSome, HandFacts
      <4>3. QED
        BY <1>1, <2>2, <4>1, <4>2 DEF Between
    <3>2. QED
      BY <1>1, <1>3, <2>2, <3>1 DEF PushReach
  <2>3. CASE pc \notin {"handle", "save", "record", "height"}
    BY <1>1, <1>3, <2>3 DEF PushReach
  <2>4. QED
    BY <2>1, <2>2, <2>3
<1>4. QED
  BY <1>2, <1>3

LEMMA InitPushCovered == ASSUME PushKafkaConstants, PushInit PROVE PushCovered
<1>1. /\ pc = "created" /\ curHeight = StartNumber /\ inHand = <<>>
      /\ topic = [i \in 1..StartNumber |-> Message("ok", StartChain[i])]
  BY DEF PushInit, Init
<1>2. PushReach = StartNumber
  BY <1>1 DEF PushReach, RevertInHand
<1>3. /\ StartNumber \in Nat /\ Len(StartChain) \in Nat /\ DOMAIN StartChain = 1..Len(StartChain)
      /\ StartNumber <= Len(StartChain) /\ StartChain \in Seq(Blocks)
      /\ \A i \in DOMAIN StartChain : StartChain[i].num = i
  BY TaskFeedAssumption, AsyncTaskAssumption, LenProperties
<1>4. ASSUME NEW n \in 1..StartNumber PROVE StartChain[n] \in Announced /\ StartChain[n].num = n
  <2>1. n \in DOMAIN StartChain /\ StartChain[n] \in Blocks /\ StartChain[n].num = n
    BY <1>3, ElementOfSeq
  <2>2. topic \in Seq(Event) /\ DOMAIN topic = 1..StartNumber
    BY <1>1, InitPush DEF PushWork, PushTypeOK
  <2>3. \A i \in DOMAIN topic : topic[i].state = "ok" /\ topic[i].blk = StartChain[i]
    BY <1>1 DEF Message
  <2>4. WordIn(topic, StartChain[n]) = "ok"
    <3>1. n \in DOMAIN topic /\ topic[n].blk = StartChain[n]
      BY <2>2, <2>3
    <3>2. \/ \A i \in DOMAIN topic : topic[i].blk # StartChain[n]
          \/ \E i \in DOMAIN topic : WordIn(topic, StartChain[n]) = topic[i].state
      BY <2>2, WordFacts
    <3>3. QED
      BY <2>3, <3>1, <3>2
  <2>5. QED
    BY <2>1, <2>4, AnnouncedIs
<1>5. QED
  BY <1>2, <1>4 DEF PushCovered, CoveredAt

\* The steps that leave what is announced alone.
LEMMA QuietCovered ==
    ASSUME PushWork, PushCovered, PcMoves,
           UNCHANGED <<topic, skipped, curHeight, inHand, todo, batch>>
    PROVE  PushCovered'
<1>1. Announced' = Announced /\ RevertInHand' = RevertInHand
  BY SameAnnounced DEF RevertInHand
<1>2. \A n : CoveredAt(n) => CoveredAt(n)'
  BY <1>1 DEF CoveredAt
<1>3. CASE pc' = pc
  <2>1. PushReach' = PushReach
    BY <1>1, <1>3 DEF PushReach
  <2>2. QED
    BY <1>2, <1>3, <2>1, CoveredStays
<1>4. CASE pc' \notin Running
  BY <1>4 DEF PushCovered
<1>5. CASE pc \in Between /\ pc' \in Between
  <2>1. pc \in Running /\ pc' \notin {"handle", "save", "record", "height"}
    BY <1>5 DEF Between
  <2>2. PushReach' = PushReach
    BY <1>1, <1>5, <2>1, ReachFacts DEF PushReach
  <2>3. QED
    BY <1>2, <2>1, <2>2, CoveredStays
<1>6. QED
  BY <1>3, <1>4, <1>5 DEF PcMoves

LEMMA IdleCovered ==
    ASSUME PushWork, PushCovered,
           \/ Idle \/ ReadFails \/ UNCHANGED vars
           \/ BaseApplies \/ \E e \in Event : Publish(e) \/ PassedBy(e),
           UNCHANGED <<topic, failures>>
    PROVE  PushCovered'
<1>1. LoopTypeOK /\ FeedInv
  BY DEF PushWork, PushTypeOK
<1>2. PcMoves /\ UNCHANGED <<skipped, curHeight, inHand, todo, batch>>
  <2>1. CASE Idle \/ ReadFails
    BY <1>1, <2>1, IdleFacts, ReadFailsFacts DEF workVars, history
  <2>2. CASE BaseApplies \/ (\E e \in Event : Publish(e)) \/ UNCHANGED vars
    BY <2>2 DEF BaseApplies, Publish, vars, workVars, loopVars, history, PcMoves
  <2>3. CASE \E e \in Event : PassedBy(e)
    BY <1>1, <2>3, PassedByFacts, TakenFacts DEF PcMoves
  <2>4. QED
    BY <2>1, <2>2, <2>3
<1>3. QED
  BY <1>2, QuietCovered

LEMMA ReceiveCovered ==
    ASSUME PushWork, PushCovered, NEW e \in Event, ReceiveNext(e) \/ ReceiveRevert(e),
           UNCHANGED <<topic, failures>>
    PROVE  PushCovered'
<1>1. LoopTypeOK /\ FeedInv /\ curHeight \in Nat
  BY DEF PushWork, PushTypeOK, LoopTypeOK
<1>2. Take(e) /\ curHeight' = curHeight /\ inHand' = <<e>> /\ inHand'[1] = e /\ inHand' # <<>>
  BY DEF ReceiveNext, ReceiveRevert
<1>3. skipped' = skipped /\ pc \in Between /\ pc \in Running
  BY <1>1, <1>2, TakenFacts DEF Between
<1>4. e.blk.num \in Nat
  BY EventFacts
<1>5. PushReach' <= curHeight /\ PushReach' \in Int
  <2>1. CASE ReceiveNext(e)
    <3>1. /\ e.state = "ok" /\ pc' = "handle" /\ todo' = <<e.blk>> /\ todo'[1] = e.blk
          /\ curHeight + 1 = e.blk.num
      BY <2>1 DEF ReceiveNext, FitsHeight
    <3>2. PushReach' = e.blk.num - 1
      BY <1>2, <3>1 DEF PushReach, RevertInHand
    <3>3. QED
      BY <1>1, <3>1, <3>2
  <2>2. CASE ReceiveRevert(e)
    <3>1. e.state = "revert" /\ e.blk.num <= curHeight
      BY <1>1, <1>4, <2>2 DEF ReceiveRevert
    <3>2. PushReach' = e.blk.num - 1
      BY <1>2, <3>1 DEF PushReach, RevertInHand
    <3>3. QED
      BY <1>1, <1>4, <3>1, <3>2
  <2>3. QED
    BY <2>1, <2>2
<1>6. PushReach = curHeight
  BY <1>3, ReachFacts
<1>7. \A n \in 1..PushReach' : n \in 1..PushReach
  BY <1>1, <1>5, <1>6
<1>8. \A n : CoveredAt(n) => CoveredAt(n)'
  BY <1>3, SameAnnounced DEF CoveredAt
<1>9. QED
  BY <1>3, <1>7, <1>8, CoveredStays

LEMMA HistoryCovered ==
    ASSUME PushKafkaConstants, PushWork, PushCovered,
           ReadFound(PushRangeEnd) \/ Skip(PushRangeEnd, "loop") \/ HandleOne,
           UNCHANGED <<topic, failures>>
    PROVE  PushCovered'
<1>1. PushInHand /\ curHeight \in Nat
  BY HandFacts DEF PushWork
<1>2. Announced' = Announced
  BY SameAnnounced
<1>3. CASE ReadFound(PushRangeEnd)
  <2>1. /\ pc = "catchup" /\ pc' = "handle" /\ inHand' = inHand /\ skipped' = skipped
        /\ todo'[1].num = curHeight + 1
    BY <1>3, ReadFoundPush DEF ReadFound
  <2>2. pc \in Running /\ pc \in Between
    BY <2>1 DEF Between, Running
  <2>3. PushReach = curHeight /\ ~RevertInHand
    BY <2>2, ReachFacts
  <2>4. PushReach' = PushReach
    BY <1>1, <2>1, <2>3 DEF PushReach, RevertInHand
  <2>5. \A n : CoveredAt(n) => CoveredAt(n)'
    BY <1>2, <2>1 DEF CoveredAt
  <2>6. QED
    BY <2>2, <2>4, <2>5, CoveredStays
<1>4. CASE Skip(PushRangeEnd, "loop")
  <2>1. /\ pc = "catchup" /\ pc' = "loop" /\ inHand' = inHand
        /\ curHeight' = PushRangeEnd /\ skipped' = skipped \cup ((curHeight + 1)..PushRangeEnd)
    BY <1>4 DEF Skip, workVars
  <2>2. pc \in Running /\ pc \in Between
    BY <2>1 DEF Between, Running
  <2>3. PushReach = curHeight /\ ~RevertInHand
    BY <2>2, ReachFacts
  <2>4. PushReach' = PushRangeEnd /\ PushRangeEnd \in Int
    BY <1>1, <2>1, <2>3 DEF PushReach, RevertInHand, PushRangeEnd, PushKafkaConstants
  <2>5. \A n \in 1..PushRangeEnd : n \in 1..curHeight \/ n \in (curHeight + 1)..PushRangeEnd
    BY <1>1, <2>4
  <2>6. \A n : CoveredAt(n) => CoveredAt(n)'
    BY <1>2, <2>1 DEF CoveredAt
  <2>7. \A n \in 1..PushReach' : n \in 1..PushReach \/ CoveredAt(n)'
    BY <2>1, <2>3, <2>4, <2>5 DEF CoveredAt
  <2>8. QED
    BY <2>2, <2>6, <2>7, CoveredStays
<1>5. CASE HandleOne
  <2>1. /\ pc = "handle" /\ pc' = "save" /\ batch' = <<todo[1]>> /\ batch'[1] = todo[1]
        /\ inHand' = inHand /\ skipped' = skipped
    BY <1>5, HandleOneFacts DEF history
  <2>2. ~RevertInHand /\ ~RevertInHand' /\ pc \in Running
    BY <1>1, <2>1 DEF PushInHand, RevertInHand, Running
  <2>3. PushReach' = PushReach
    BY <2>1, <2>2 DEF PushReach
  <2>4. \A n : CoveredAt(n) => CoveredAt(n)'
    BY <1>2, <2>1 DEF CoveredAt
  <2>5. QED
    BY <2>2, <2>3, <2>4, CoveredStays
<1>6. QED
  BY <1>3, <1>4, <1>5

\* A block is announced, or one taken back: that one is above what is promised.
LEMMA SendCovered ==
    ASSUME PushWork, PushCovered, Push \/ PushFails \/ PushRevert PROVE PushCovered'
<1>1. PushInHand
  BY DEF PushWork
<1>2. /\ pc \in {"save", "revert"} /\ pc \in Running /\ skipped' = skipped
      /\ UNCHANGED <<inHand, todo, curHeight>>
      /\ pc' = "record" \/ pc' = pc \/ pc' \notin Running
      /\ pc = "save" => /\ batch' = batch
                        /\ Announced \subseteq Announced'
                        /\ pc' = "record" => batch[1] \in Announced'
      /\ pc = "revert" => Announced \ {inHand[1].blk} \subseteq Announced'
  <2>1. CASE Push
    <3>1. Announced' = Announced \cup {batch[1]}
      BY <2>1, SendFacts DEF Push
    <3>2. QED
      BY <2>1, <3>1 DEF Push, loopVars, history, Running
  <2>2. CASE PushFails
    <3>1. pc' # "record"
      BY <2>2, FailsFacts DEF Running
    <3>2. QED
      BY <2>2, <3>1, FailsFacts DEF loopVars, history
  <2>3. CASE PushRevert
    <3>1. Announced' = Announced \ {inHand[1].blk}
      BY <2>3, SendFacts DEF PushRevert
    <3>2. QED
      BY <2>3, <3>1 DEF PushRevert, loopVars, Running
  <2>4. QED
    BY <2>1, <2>2, <2>3
<1>3. RevertInHand' = RevertInHand
  BY <1>2 DEF RevertInHand
<1>4. CASE pc = "save"
  <2>1. ~RevertInHand /\ Len(batch) = 1
    BY <1>1, <1>4 DEF PushInHand
  <2>2. batch[1].num \in Nat /\ PushReach = batch[1].num - 1
    BY <1>4, <2>1, OneIsSome, HandFacts DEF PushReach
  <2>3. \A n : CoveredAt(n) => CoveredAt(n)'
    BY <1>2, <1>4 DEF CoveredAt
  <2>4. CASE pc' = "record"
    <3>1. PushReach' = batch[1].num
      BY <1>2, <1>3, <1>4, <2>1, <2>4 DEF PushReach
    <3>2. \A n \in 1..PushReach' : n \in 1..PushReach \/ n = batch[1].num
      BY <2>2, <3>1
    <3>3. CoveredAt(batch[1].num)'
      BY <1>2, <1>4, <2>4 DEF CoveredAt
    <3>4. ASSUME NEW n \in 1..PushReach' PROVE n \in 1..PushReach \/ CoveredAt(n)'
      BY <1>2, <1>4, <2>4, <3>2 DEF CoveredAt
    <3>5. QED
      BY <1>2, <2>3, <3>4, CoveredStays
  <2>5. CASE pc' = pc
    <3>1. PushReach' = PushReach
      BY <1>2, <1>3, <1>4, <2>5 DEF PushReach
    <3>2. QED
      BY <1>2, <2>3, <3>1, CoveredStays
  <2>6. CASE pc' \notin Running
    BY <2>6 DEF PushCovered
  <2>7. QED
    BY <1>2, <2>4, <2>5, <2>6
<1>5. CASE pc = "revert"
  <2>1. RevertInHand
    BY <1>1, <1>5 DEF PushInHand
  <2>2. inHand[1].blk.num \in Nat /\ PushReach = inHand[1].blk.num - 1 /\ PushReach' = PushReach
    BY <1>2, <1>3, <2>1, HandFacts DEF PushReach
  <2>3. \A n \in 1..PushReach' : n # inHand[1].blk.num
    BY <2>2
  <2>4. \A n \in 1..PushReach' : CoveredAt(n) => CoveredAt(n)'
    BY <1>2, <1>5, <2>3 DEF CoveredAt
  <2>5. QED
    BY <1>2, <2>2, <2>4, CoveredStays
<1>6. QED
  BY <1>2, <1>4, <1>5

LEMMA RecordCovered ==
    ASSUME PushKafkaConstants, PushWork, PushCovered,
           Record \/ RecordFails \/ RecordRevert \/ RecordBatch
    PROVE  PushCovered'
<1>1. /\ PushInHand /\ PushFollows /\ curHeight \in Nat
  BY HandFacts DEF PushWork
<1>2. /\ Announced' = Announced /\ skipped' = skipped
      /\ pc \in {"record", "height"} /\ pc \in Running
  BY SameAnnounced
     DEF Record, RecordFails, RecordRevert, RecordBatch, Advance, history, Running
<1>3. \A n : CoveredAt(n) => CoveredAt(n)'
  BY <1>2 DEF CoveredAt
<1>4. PushReach' <= PushReach /\ PushReach' \in Int /\ PushReach \in Int
  <2>1. PushReach \in Int
    BY <1>2, ReachFacts
  <2>2. CASE Record \/ RecordFails
    <3>1. /\ Advance /\ curHeight' \in {curHeight, batch[1].num} /\ todo' = todo
      BY <2>2 DEF Record, RecordFails, Advance
    <3>2. /\ pc = "record" /\ batch # <<>>
          /\ \/ /\ RevertInHand /\ RevertInHand' /\ inHand' = inHand
             \/ /\ ~RevertInHand /\ ~RevertInHand' /\ todo # <<>> /\ pc' = "handle"
             \/ /\ ~RevertInHand /\ ~RevertInHand' /\ pc' = "height" /\ batch' = batch
             \/ /\ ~RevertInHand /\ ~RevertInHand' /\ pc' = "drain"
          /\ ~RevertInHand => batch[1].num > curHeight
      BY <3>1, AdvanceCases
    <3>3. batch[1].num \in Nat
      BY <3>2, HandFacts
    <3>4. CASE RevertInHand
      <4>1. PushReach' = PushReach
        BY <3>2, <3>4 DEF PushReach
      <4>2. QED
        BY <2>1, <4>1
    <3>5. CASE ~RevertInHand
      <4>1. PushReach = batch[1].num
        BY <3>2, <3>5 DEF PushReach
      <4>2. CASE todo # <<>> /\ pc' = "handle" /\ ~RevertInHand'
        <5>1. todo[1].num = batch[1].num + 1
          BY <1>1, <3>2, <4>2 DEF PushFollows
        <5>2. PushReach' = todo[1].num - 1
          BY <3>1, <4>2 DEF PushReach
        <5>3. QED
          BY <3>3, <4>1, <5>1, <5>2
      <4>3. CASE pc' = "height" /\ batch' = batch /\ ~RevertInHand'
        <5>1. PushReach' = batch[1].num
          BY <4>3 DEF PushReach
        <5>2. QED
          BY <3>3, <4>1, <5>1
      <4>4. CASE pc' = "drain" /\ ~RevertInHand'
        <5>1. PushReach' = curHeight'
          BY <4>4 DEF PushReach
        <5>2. curHeight' <= batch[1].num /\ curHeight' \in Int
          BY <1>1, <3>1, <3>2, <3>3, <3>5
        <5>3. QED
          BY <3>3, <4>1, <5>1, <5>2
      <4>5. QED
        BY <3>2, <3>5, <4>2, <4>3, <4>4
    <3>6. QED
      BY <3>4, <3>5
  <2>3. CASE RecordRevert \/ RecordBatch
    <3>1. /\ pc = "height" /\ pc' \in {"drain", "loop"} /\ inHand' = <<>> /\ batch # <<>>
          /\ RecordRevert => RevertInHand /\ curHeight' = inHand[1].blk.num - 1
          /\ RecordBatch => /\ ~RevertInHand /\ batch[1].num >= curHeight
                            /\ curHeight' \in {curHeight, batch[1].num}
      BY <2>3, HeightFacts
    <3>2. PushReach' = curHeight'
      BY <3>1 DEF PushReach, RevertInHand
    <3>3. CASE RecordRevert
      <4>1. PushReach = curHeight'
        BY <3>1, <3>3 DEF PushReach
      <4>2. QED
        BY <2>1, <3>2, <4>1
    <3>4. CASE RecordBatch
      <4>1. PushReach = batch[1].num /\ batch[1].num \in Nat
        BY <3>1, <3>4, HandFacts DEF PushReach
      <4>2. curHeight' <= batch[1].num /\ curHeight' \in Int
        BY <1>1, <3>1, <3>4, <4>1
      <4>3. QED
        BY <3>2, <4>1, <4>2
    <3>5. QED
      BY <2>3, <3>3, <3>4
  <2>4. QED
    BY <2>2, <2>3
<1>5. \A n \in 1..PushReach' : n \in 1..PushReach
  BY <1>4
<1>6. QED
  BY <1>2, <1>3, <1>5, CoveredStays

LEMMA RestartCovered ==
    ASSUME PushWork, Restart(Unknown, Unannounced), UNCHANGED <<topic, failures>>
    PROVE  PushCovered'
<1>1. /\ pc' = "created" /\ curHeight' = taskNum /\ inHand' = <<>>
      /\ skipped' = (skipped \cap 1..taskNum) \cup Unannounced
  BY DEF Restart
<1>2. PushReach' = taskNum
  BY <1>1 DEF PushReach, RevertInHand
<1>3. \A n \in 1..taskNum : n \in Unannounced \/ \E b \in Announced : b.num = n
  BY DEF Unannounced
<1>4. Announced' = Announced
  BY SameAnnounced
<1>5. QED
  BY <1>1, <1>2, <1>3, <1>4 DEF PushCovered, CoveredAt

LEMMA PushCoveredInvariant == ASSUME PushKafkaConstants PROVE PushSpec => []PushCovered
<1>1. PushInit => PushCovered
  BY InitPushCovered
<1>2. ASSUME PushWork, PushCovered, [PushNext]_vars PROVE PushCovered'
  <2>1. CASE UNCHANGED vars
    <3>1. UNCHANGED <<topic, failures>>
      BY <2>1 DEF vars
    <3>2. QED
      BY <1>2, <2>1, <3>1, IdleCovered
  <2>2. CASE PushNext
    BY <1>2, <2>2, PushCases, IdleCovered, ReceiveCovered, HistoryCovered, SendCovered,
       RecordCovered, RestartCovered
  <2>3. QED
    BY <1>2, <2>1, <2>2
<1>3. QED
  BY <1>1, <1>2, PushWorkInvariant, PTL DEF PushSpec

\* Nothing is kept from the consumers: the blocks of the feed up to the height of
\* the task have been announced, but for the exceptions NothingOwed names.
THEOREM AllAreAnnounced == ASSUME PushKafkaConstants PROVE PushSpec => []AllAnnounced
<1>1. PushWork /\ PushKnown /\ PushCovered => AllAnnounced
  <2> SUFFICES ASSUME PushWork, PushKnown, PushCovered, pc \in Subscribed
               PROVE  NothingOwed(Announced)
    BY DEF AllAnnounced
  <2>1. /\ pc \in Running /\ PushInHand /\ curHeight \in Nat /\ LoopTypeOK
        /\ sent \in Seq(Blocks) /\ Numbered(sent)
    BY DEF Subscribed, PushWork, PushTypeOK, LoopTypeOK, FeedInv, FeedTypeOK
  <2> SUFFICES ASSUME NEW i \in DOMAIN sent, sent[i].num <= curHeight
               PROVE  \/ sent[i] \in Announced \/ PassedOver(sent[i].num)
                      \/ ToRedo(sent[i].num)
    <3>1. \A i \in DOMAIN sent : sent[i].num \in Nat
      BY <2>1, LenProperties, ElementOfSeq, TaskFeedAssumption
    <3>2. QED
      BY <2>1, <3>1 DEF NothingOwed
  <2> DEFINE k == sent[i].num
  <2>2. k = i /\ k \in Nat /\ k >= 1 /\ k <= curHeight
    BY <2>1, LenProperties DEF Numbered
  <2>3. \A b : RevertComing(b) /\ b.num <= k => ToRedo(k)
    <3> SUFFICES ASSUME NEW b, RevertComing(b), b.num <= k PROVE ToRedo(k)
      OBVIOUS
    <3>1. PICK j \in DOMAIN ToApply : ToApply[j] = [state |-> "revert", blk |-> b]
      BY <2>1, ToApplyFacts DEF ToRevert
    <3>2. ToApply[j].state = "revert" /\ ToApply[j].blk = b
      BY <3>1
    <3>3. QED
      BY <3>2 DEF ToRedo
  <2>4. PushReach \in Int /\ (~RevertInHand => PushReach >= curHeight)
    BY <2>1, ReachFacts
  <2>5. CASE k \in 1..PushReach
    <3>1. CASE k \in skipped
      BY <3>1 DEF PassedOver
    <3>2. CASE \E b \in Announced : b.num = k
      <4>1. PICK b \in Announced : b.num = k
        BY <3>2
      <4>2. Settled(b)
        BY <2>1, <4>1 DEF PushKnown, PushSettled
      <4>3. CASE Stands(b)
        <5>1. PICK j \in DOMAIN sent : sent[j] = b
          BY <4>3 DEF Stands
        <5>2. j = k
          BY <2>1, <4>1, <5>1 DEF Numbered
        <5>3. QED
          BY <2>2, <4>1, <5>1, <5>2
      <4>4. CASE RevertComing(b)
        BY <2>2, <2>3, <4>1, <4>4
      <4>5. CASE b \in astray
        BY <4>1, <4>5 DEF PassedOver
      <4>6. QED
        BY <4>2, <4>3, <4>4, <4>5 DEF Settled
    <3>3. QED
      BY <2>1, <2>5, <3>1, <3>2 DEF PushCovered, CoveredAt
  <2>6. CASE k \notin 1..PushReach
    <3>1. RevertInHand
      BY <2>1, <2>2, <2>4, <2>6
    <3>2. /\ PushReach = inHand[1].blk.num - 1 /\ inHand[1].blk.num \in Nat
          /\ ToSet(inHand) = {Reverting(inHand[1].blk)}
      BY <3>1, HandFacts DEF PushReach
    <3>3. inHand[1].blk.num <= k
      BY <2>2, <2>6, <3>2
    <3>4. RevertComing(inHand[1].blk)
      BY <3>2 DEF RevertComing
    <3>5. QED
      BY <2>3, <3>3, <3>4
  <2>7. QED
    BY <2>5, <2>6
<1>2. QED
  BY <1>1, PushWorkInvariant, PushKnownInvariant, PushCoveredInvariant, PTL

----------------------------------------------------------------------------
(* DexPairTask. *)

\* What the task has in hand where.
DexHand ==
    /\ pc \in Running => tries <= RetryTimes
    /\ pc \in Between \cup {"record"} => inHand = <<>> /\ todo = <<>> /\ batch = <<>>
    /\ pc = "handle" => batch = <<>> /\ todo # <<>> /\ ~RevertInHand
    /\ pc = "save" => Len(batch) = 1 /\ ~RevertInHand
    /\ pc = "revert" => /\ RevertInHand /\ todo = <<>> /\ batch = <<>>
                        /\ inHand[1].blk \in gone /\ inHand[1].blk.num <= curHeight

\* The blocks in hand are those above the height, in their order.
DexFollows ==
    /\ \A i \in DOMAIN batch : batch[i].num = curHeight + i
    /\ \A i \in DOMAIN todo : todo[i].num = curHeight + Len(batch) + i

DexWork == LoopTypeOK /\ FeedInv /\ DexHand /\ DexFollows

\* A pair is not asked for its tokens only if it has a row, and its row keeps them.
PairsInv ==
    /\ DOMAIN pairs \subseteq Pairs /\ DOMAIN toSave \subseteq Pairs /\ done \subseteq Blocks
    /\ \A p \in DOMAIN pairs : /\ pairs[p].blk \in Blocks
                               /\ pairs[p].tokens \in {"read", "refused"}
    /\ \A p \in DOMAIN toSave : toSave[p] \in {"read", "refused"}
    /\ known \subseteq DOMAIN pairs
    /\ pc = "save" => Synced(batch[1]) \subseteq DOMAIN toSave \cup DOMAIN pairs

DexKnown ==
    /\ BlocksKnown
    /\ pc \in Running => \A b \in ToSet(batch) \cup ToSet(todo) : Settled(b)

\* The rows are of block b, at its last event, or of blocks above it.
Shown(b) ==
    \A p \in Synced(b) :
        /\ p \in DOMAIN pairs
        /\ \/ pairs[p].blk = b /\ pairs[p].at \in LastSync(b, p)
           \/ pairs[p].blk.num > b.num

\* Up to the height of the task, and up to the height recorded, a block was
\* handled at each height and is shown; those a restart does not forget stand.
DexCovered ==
    /\ \A n \in 1..taskNum : n \in skipped \/ \E b \in done : b.num = n /\ Shown(b)
    /\ pc \in Running => \A n \in 1..curHeight :
          n \in skipped \/ \E b \in done : b.num = n /\ Shown(b) /\ Settled(b)

----------------------------------------------------------------------------
(* What dex_pair has in hand, step by step. *)

LEMMA InitDexWork == ASSUME DexInit PROVE DexWork
<1>1. /\ pc = "created" /\ cache = <<>> /\ curHeight = StartNumber /\ latestHeight = 0
      /\ compensation = 0 /\ inHand = <<>> /\ todo = <<>> /\ batch = <<>> /\ tries = 0
      /\ taskNum = StartNumber /\ restarts = 0 /\ stopping = FALSE
      /\ skipped = {} /\ gone = {} /\ astray = {} /\ FeedInit
  BY DEF DexInit, Init
<1>2. FeedInv
  BY <1>1, InitFeedInv
<1>3. /\ StartNumber \in Nat /\ 0 <= RetryTimes /\ 0 <= BufferSize
      /\ 0 \in 0..CompensationCap /\ 0 \in 0..(RetryTimes + 1) /\ 0 \in 0..MaxRestarts
  <2>1. StartChain \in Seq(Blocks) /\ StartNumber \in 0..Len(StartChain)
    BY TaskFeedAssumption, AsyncTaskAssumption
  <2>2. Len(StartChain) \in Nat
    BY <2>1, LenProperties
  <2>3. StartNumber \in Nat
    BY <2>1, <2>2
  <2>4. QED
    BY <2>3, AsyncTaskAssumption, TaskFeedAssumption
<1>4. /\ <<>> \in Seq(Blocks) /\ <<>> \in Seq(Event) /\ Len(<<>>) = 0 /\ DOMAIN <<>> = {}
  BY EmptySeq
<1>5. pc \in Running /\ pc \in Between /\ ~RevertInHand
  BY <1>1 DEF Running, Between, RevertInHand
<1>6. LoopTypeOK
  <2>1. /\ cache \in Seq(Blocks) /\ Len(cache) <= BufferSize
        /\ inHand \in Seq(Event) /\ Len(inHand) <= 1
        /\ todo \in Seq(Blocks) /\ batch \in Seq(Blocks)
    BY <1>1, <1>3, <1>4
  <2>2. /\ curHeight \in Nat /\ latestHeight \in Nat /\ taskNum \in Nat
        /\ compensation \in 0..CompensationCap /\ tries \in 0..(RetryTimes + 1)
        /\ restarts \in 0..MaxRestarts /\ stopping \in BOOLEAN
        /\ skipped \subseteq Nat /\ gone \subseteq Blocks /\ astray \subseteq Blocks
    BY <1>1, <1>3
  <2>3. FeedTypeOK
    BY <1>2 DEF FeedInv
  <2>4. QED
    BY <1>5, <2>1, <2>2, <2>3 DEF LoopTypeOK
<1>7. DexHand
  BY <1>1, <1>3, <1>5 DEF DexHand
<1>8. DexFollows
  BY <1>1, <1>4 DEF DexFollows
<1>9. QED
  BY <1>2, <1>6, <1>7, <1>8 DEF DexWork

\* A step that leaves the work alone.
LEMMA QuietDexWork ==
    ASSUME DexWork, LoopTypeOK', FeedInv',
           UNCHANGED <<inHand, todo, batch, tries, curHeight>>, PcMoves,
           pc = "revert" => gone' = gone
    PROVE  DexWork'
<1>1. DexHand /\ DexFollows
  BY DEF DexWork
<1>2. DexFollows'
  BY <1>1 DEF DexFollows
<1>3. RevertInHand' = RevertInHand
  BY DEF RevertInHand
<1>4. CASE pc' = pc
  <2>1. DexHand'
    BY <1>1, <1>3, <1>4 DEF DexHand
  <2>2. QED
    BY <1>2, <2>1 DEF DexWork
<1>5. CASE pc' \notin Running
  <2>1. pc' \notin Between \cup {"record", "handle", "save", "revert"}
    BY <1>5 DEF Between, Running
  <2>2. DexHand'
    BY <1>5, <2>1 DEF DexHand
  <2>3. QED
    BY <1>2, <2>2 DEF DexWork
<1>6. CASE pc \in Between /\ pc' \in Between
  <2>1. pc \in Running /\ pc' \notin {"handle", "save", "revert"}
    BY <1>6 DEF Between
  <2>2. DexHand'
    BY <1>1, <1>6, <2>1 DEF DexHand
  <2>3. QED
    BY <1>2, <2>2 DEF DexWork
<1>7. QED
  BY <1>4, <1>5, <1>6 DEF PcMoves

LEMMA IdleDexWork == ASSUME DexWork, Idle PROVE DexWork'
<1>1. LoopTypeOK /\ FeedInv
  BY DEF DexWork
<1>2. /\ UNCHANGED <<cache, curHeight, latestHeight, workVars, feedVars, taskNum, history>>
      /\ PcMoves /\ LoopTypeOK'
  BY <1>1, IdleFacts
<1>3. FeedInv'
  BY <1>1, <1>2, FeedStays
<1>4. QED
  BY <1>2, <1>3, QuietDexWork DEF workVars, history

LEMMA FeedDexWork ==
    ASSUME DexWork, BaseApplies \/ \E e \in Event : Publish(e) PROVE DexWork'
<1>1. LoopTypeOK /\ FeedInv
  BY DEF DexWork
<1>2. /\ UNCHANGED <<pc, loopVars, workVars, taskNum, envVars, history>>
      /\ Apply \/ \E e \in Event : Deliver(e)
  BY DEF BaseApplies, Publish
<1>3. FeedInv'
  BY <1>1, <1>2, ApplyFacts, DeliverFacts
<1>4. LoopTypeOK'
  BY <1>1, <1>2, <1>3 DEF LoopTypeOK, loopVars, workVars, envVars, history, FeedInv
<1>5. PcMoves
  BY <1>2 DEF PcMoves
<1>6. QED
  BY <1>2, <1>3, <1>4, <1>5, QuietDexWork DEF loopVars, workVars, history

LEMMA PassedByDexWork == ASSUME DexWork, NEW e \in Event, PassedBy(e) PROVE DexWork'
<1>1. LoopTypeOK /\ FeedInv
  BY DEF DexWork
<1>2. /\ Take(e) /\ pc' = "drain" /\ UNCHANGED <<curHeight, inHand, todo>>
      /\ latestHeight' \in Nat /\ cache' \in Seq(Blocks) /\ Len(cache') <= BufferSize
  BY <1>1, PassedByFacts
<1>3. /\ FeedInv' /\ pc \in Between /\ "drain" \in Between /\ gone' \subseteq Blocks
      /\ UNCHANGED <<compensation, batch, tries, taskNum, envVars, skipped, astray>>
  BY <1>1, <1>2, TakenFacts
<1>4. LoopTypeOK'
  BY <1>1, <1>2, <1>3 DEF LoopTypeOK, envVars, FeedInv, Between
<1>5. PcMoves
  BY <1>2, <1>3 DEF PcMoves
<1>6. pc # "revert"
  BY <1>3 DEF Between
<1>7. QED
  BY <1>2, <1>3, <1>4, <1>5, <1>6, QuietDexWork

LEMMA ReceiveNextDexWork == ASSUME DexWork, NEW e \in Event, ReceiveNext(e) PROVE DexWork'
<1>1. LoopTypeOK /\ FeedInv /\ DexHand
  BY DEF DexWork
<1>2. /\ e.state = "ok" /\ Take(e) /\ curHeight + 1 = e.blk.num
      /\ latestHeight' = e.blk.num
      /\ inHand' = <<e>> /\ todo' = <<e.blk>> /\ pc' = "handle"
      /\ cache' = cache /\ curHeight' = curHeight
  BY DEF ReceiveNext, FitsHeight
<1>3. /\ FeedInv' /\ pc \in Between /\ gone' \subseteq Blocks
      /\ UNCHANGED <<compensation, batch, tries, taskNum, envVars, skipped, astray>>
  BY <1>1, <1>2, TakenFacts
<1>4. /\ e.blk \in Blocks /\ e.blk.num \in Nat /\ curHeight \in Nat
      /\ todo' \in Seq(Blocks) /\ inHand' \in Seq(Event) /\ Len(inHand') <= 1
      /\ DOMAIN todo' = {1} /\ todo'[1] = e.blk /\ todo' # <<>> /\ inHand'[1] = e
  BY <1>1, <1>2, EventFacts DEF LoopTypeOK
<1>5. pc \in Running /\ pc' \in Running /\ pc' \notin Between /\ batch = <<>> /\ batch' = <<>>
  BY <1>1, <1>2, <1>3 DEF Between, Running, DexHand
<1>6. LoopTypeOK'
  BY <1>1, <1>2, <1>3, <1>4, <1>5 DEF LoopTypeOK, envVars, FeedInv
<1>7. DexFollows'
  <2>1. DOMAIN <<>> = {} /\ Len(<<>>) = 0
    BY EmptySeq
  <2>2. \A i \in DOMAIN todo' : todo'[i].num = curHeight' + 0 + i
    BY <1>2, <1>4
  <2>3. QED
    BY <1>5, <2>1, <2>2 DEF DexFollows
<1>8. ~RevertInHand'
  BY <1>2, <1>4 DEF RevertInHand
<1>9. DexHand'
  BY <1>1, <1>2, <1>3, <1>4, <1>5, <1>8 DEF DexHand
<1>10. QED
  BY <1>3, <1>6, <1>7, <1>9 DEF DexWork

LEMMA ReceiveRevertDexWork == ASSUME DexWork, NEW e \in Event, ReceiveRevert(e) PROVE DexWork'
<1>1. LoopTypeOK /\ FeedInv /\ DexHand
  BY DEF DexWork
<1>2. /\ e.state = "revert" /\ Take(e) /\ curHeight >= e.blk.num
      /\ cache' = RemoveFromCache(e.blk.num)
      /\ inHand' = <<e>> /\ pc' = "revert"
      /\ UNCHANGED <<curHeight, latestHeight, todo>>
  BY DEF ReceiveRevert
<1>3. /\ FeedInv' /\ pc \in Between /\ gone' \subseteq Blocks
      /\ UNCHANGED <<compensation, batch, tries, taskNum, envVars, skipped, astray>>
  BY <1>1, <1>2, TakenFacts
<1>4. /\ cache' \in Seq(Blocks) /\ Len(cache') <= BufferSize
  BY <1>1, <1>2, RemoveFromCacheFacts DEF LoopTypeOK
<1>5. /\ inHand' \in Seq(Event) /\ Len(inHand') <= 1 /\ inHand'[1] = e /\ inHand' # <<>>
      /\ e.blk.num \in Nat /\ curHeight \in Nat
  BY <1>1, <1>2, EventFacts DEF LoopTypeOK
<1>6. /\ pc \in Running /\ pc' \in Running /\ pc' \notin Between
      /\ batch' = <<>> /\ todo' = <<>>
  BY <1>1, <1>2, <1>3 DEF Between, Running, DexHand
<1>7. LoopTypeOK'
  BY <1>1, <1>2, <1>3, <1>4, <1>5, <1>6 DEF LoopTypeOK, envVars, FeedInv
<1>8. DexFollows'
  BY <1>6, EmptySeq DEF DexFollows
<1>9. RevertInHand'
  BY <1>2, <1>5 DEF RevertInHand
<1>10. inHand'[1].blk \in gone' /\ inHand'[1].blk.num <= curHeight'
  <2>1. gone' = gone \cup {e.blk}
    BY <1>1, <1>2, TakenFacts
  <2>2. QED
    BY <1>2, <1>5, <2>1
<1>11. DexHand'
  BY <1>1, <1>2, <1>3, <1>5, <1>6, <1>9, <1>10 DEF DexHand
<1>12. QED
  BY <1>3, <1>7, <1>8, <1>11 DEF DexWork

LEMMA DexRangeFacts ==
    ASSUME DexPairConstants, DexWork
    PROVE  /\ curHeight \in Nat /\ DexRangeEnd \in Nat /\ DexRangeEnd \in Int
           /\ DexRangeEnd > curHeight
BY DEF DexPairConstants, DexWork, LoopTypeOK, DexRangeEnd

LEMMA ReadFoundDexWork ==
    ASSUME DexPairConstants, DexWork, ReadFound(DexRangeEnd) PROVE DexWork'
<1>1. LoopTypeOK /\ FeedInv /\ DexHand
  BY DEF DexWork
<1>2. /\ pc = "catchup" /\ Found(DexRangeEnd) # <<>> /\ pc' = "handle"
      /\ todo' = Found(DexRangeEnd) /\ cache' = CacheLeft
      /\ astray' = astray \cup (ToSet(todo') \cap gone)
      /\ UNCHANGED <<curHeight, latestHeight, compensation, inHand,
                     batch, tries, feedVars, taskNum, envVars, skipped, gone>>
  BY DEF ReadFound
<1>3. /\ todo' \in Seq(Blocks) /\ todo' # <<>>
      /\ \A i \in DOMAIN todo' : todo'[i].num = curHeight + i
      /\ cache' \in Seq(Blocks) /\ Len(cache') <= BufferSize
  BY <1>1, <1>2, DexRangeFacts, FoundFacts
<1>4. FeedInv'
  BY <1>1, <1>2, FeedStays
<1>5. /\ pc \in Between /\ pc \in Running /\ pc' \in Running /\ pc' \notin Between
      /\ inHand = <<>> /\ inHand' = <<>> /\ batch = <<>> /\ batch' = <<>>
      /\ tries' <= RetryTimes
  BY <1>1, <1>2 DEF Between, Running, DexHand
<1>6. astray' \subseteq Blocks
  BY <1>1, <1>2 DEF LoopTypeOK
<1>7. LoopTypeOK'
  BY <1>1, <1>2, <1>3, <1>4, <1>5, <1>6 DEF LoopTypeOK, envVars, FeedInv
<1>8. DexFollows'
  <2>1. DOMAIN <<>> = {} /\ Len(<<>>) = 0
    BY EmptySeq
  <2>2. \A i \in DOMAIN todo' : todo'[i].num = curHeight' + 0 + i
    BY <1>2, <1>3, DexRangeFacts
  <2>3. QED
    BY <1>5, <2>1, <2>2 DEF DexFollows
<1>9. ~RevertInHand'
  BY <1>5 DEF RevertInHand
<1>10. DexHand'
  BY <1>2, <1>3, <1>5, <1>9 DEF DexHand
<1>11. QED
  BY <1>4, <1>7, <1>8, <1>10 DEF DexWork

LEMMA SkipDexWork ==
    ASSUME DexPairConstants, DexWork, DexSkip
    PROVE  /\ DexWork' /\ curHeight' > curHeight /\ pc \in Running /\ pc' = "record"
           /\ skipped' = skipped \cup ((curHeight + 1)..curHeight')
           /\ UNCHANGED <<inHand, todo, batch, feedVars, taskNum, gone, astray>>
           /\ ToSet(cache') \subseteq ToSet(cache)
<1>1. LoopTypeOK /\ FeedInv /\ DexHand /\ curHeight \in Nat
  BY DEF DexWork, LoopTypeOK
<1>2. /\ pc = "catchup" /\ curHeight' = DexRangeEnd /\ cache' = CacheLeft /\ pc' = "record"
      /\ skipped' = skipped \cup ((curHeight + 1)..DexRangeEnd)
      /\ UNCHANGED <<latestHeight, compensation, inHand, todo, batch, tries, feedVars,
                     taskNum, envVars, gone, astray>>
  BY DEF DexSkip, Skip, workVars
<1>3. DexRangeEnd \in Nat /\ DexRangeEnd \in Int /\ DexRangeEnd > curHeight
  BY DexRangeFacts
<1>4. /\ cache' \in Seq(Blocks) /\ Len(cache') <= BufferSize
      /\ \A i \in DOMAIN cache' : \E j \in DOMAIN cache : cache'[i] = cache[j]
  BY <1>1, <1>2, <1>3, FoundFacts
<1>5. FeedInv'
  BY <1>1, <1>2, FeedStays
<1>6. /\ pc \in Between /\ pc \in Running /\ pc' \in Running /\ pc' \notin Between
      /\ inHand = <<>> /\ todo = <<>> /\ batch = <<>> /\ tries <= RetryTimes
  BY <1>1, <1>2 DEF Between, Running, DexHand
<1>7. skipped' \subseteq Nat
  BY <1>1, <1>2, <1>3 DEF LoopTypeOK
<1>8. LoopTypeOK'
  BY <1>1, <1>2, <1>3, <1>4, <1>5, <1>6, <1>7 DEF LoopTypeOK, envVars, FeedInv
<1>9. DexFollows'
  BY <1>2, <1>6, EmptySeq DEF DexFollows
<1>10. DexHand'
  BY <1>2, <1>6 DEF DexHand
<1>11. ToSet(cache') \subseteq ToSet(cache)
  BY <1>4 DEF ToSet
<1>12. QED
  BY <1>2, <1>3, <1>5, <1>6, <1>8, <1>9, <1>10, <1>11 DEF DexWork

LEMMA ReadFailsDexWork == ASSUME DexWork, ReadFails PROVE DexWork'
<1>1. LoopTypeOK /\ FeedInv
  BY DEF DexWork
<1>2. /\ UNCHANGED <<curHeight, latestHeight, compensation, workVars,
                     feedVars, taskNum, envVars, history>>
      /\ PcMoves /\ LoopTypeOK'
  BY <1>1, ReadFailsFacts
<1>3. FeedInv'
  BY <1>1, <1>2, FeedStays
<1>4. QED
  BY <1>2, <1>3, QuietDexWork DEF workVars, history

\* A block that is not there is like one that cannot be read.
LEMMA WaitIsReadFails == ASSUME DexWait PROVE ReadFails
<1>1. /\ pc = "catchup" /\ ~FarBehind /\ Found(DexRangeEnd) = <<>>
      /\ cache' = CacheLeft /\ pc' = "loop"
      /\ UNCHANGED <<curHeight, latestHeight, compensation, workVars,
                     feedVars, taskNum, envVars, history>>
  BY DEF DexWait
<1>2. Cached(curHeight + 1).found = <<>>
  BY <1>1 DEF Found
<1>3. QED
  BY <1>1, <1>2 DEF ReadFails

LEMMA DexHandleFacts ==
    ASSUME DexWork, DexHandle
    PROVE  /\ pc = "handle" /\ pc' = "save" /\ todo # <<>>
           /\ batch' = <<todo[1]>> /\ batch'[1] = todo[1] /\ Len(batch') = 1
           /\ todo[1] \in Blocks /\ todo[1].num = curHeight + 1 /\ curHeight \in Nat
           /\ todo' \in Seq(Blocks) /\ Len(todo) \in Nat
           /\ Len(todo') = Len(todo) - 1 /\ DOMAIN todo' = 1..Len(todo')
           /\ DOMAIN todo = 1..Len(todo)
           /\ \A i \in 1..Len(todo') : todo'[i] = todo[i + 1]
           /\ \A i \in DOMAIN todo : todo[i].num = curHeight + i
           /\ UNCHANGED <<loopVars, inHand, tries, feedVars, taskNum, envVars, history>>
<1>1. LoopTypeOK /\ DexHand /\ DexFollows /\ Cut(1, "save")
  BY DEF DexWork, DexHandle
<1>2. pc = "handle" /\ todo # <<>> /\ batch = <<>>
  BY <1>1 DEF Cut, DexHand
<1>3. /\ pc' = "save" /\ batch' = <<todo[1]>> /\ todo' \in Seq(Blocks) /\ Len(todo) \in Nat
      /\ Len(todo') = Len(todo) - 1 /\ DOMAIN todo' = 1..Len(todo')
      /\ \A i \in 1..Len(todo') : todo'[i] = todo[i + 1]
      /\ UNCHANGED <<loopVars, inHand, tries, feedVars, taskNum, envVars, history>>
  BY <1>1, <1>2, CutOneFacts
<1>4. todo[1] \in Blocks /\ curHeight \in Nat
  BY <1>1, <1>2, InHandFacts
<1>5. DOMAIN todo = 1..Len(todo) /\ Len(todo) # 0
  BY <1>1, <1>2, LenProperties, EmptySeq DEF LoopTypeOK
<1>6. \A i \in DOMAIN todo : todo[i].num = curHeight + i
  <2>1. \A i \in DOMAIN todo : todo[i].num = curHeight + 0 + i
    BY <1>1, <1>2, EmptySeq DEF DexFollows
  <2>2. QED
    BY <1>4, <1>5, <2>1
<1>7. todo[1].num = curHeight + 1
  <2>1. 1 \in DOMAIN todo
    BY <1>3, <1>5
  <2>2. QED
    BY <1>6, <2>1
<1>8. batch'[1] = todo[1] /\ Len(batch') = 1
  BY <1>3
<1>9. QED
  BY <1>2, <1>3, <1>4, <1>5, <1>6, <1>7, <1>8

LEMMA HandleDexWork == ASSUME DexWork, DexHandle PROVE DexWork'
<1>1. LoopTypeOK /\ FeedInv /\ DexHand
  BY DEF DexWork
<1>2. /\ pc = "handle" /\ pc' = "save"
      /\ batch' = <<todo[1]>> /\ batch'[1] = todo[1] /\ Len(batch') = 1
      /\ todo[1] \in Blocks /\ todo[1].num = curHeight + 1 /\ curHeight \in Nat
      /\ todo' \in Seq(Blocks) /\ Len(todo) \in Nat
      /\ Len(todo') = Len(todo) - 1 /\ DOMAIN todo' = 1..Len(todo')
      /\ DOMAIN todo = 1..Len(todo)
      /\ \A i \in 1..Len(todo') : todo'[i] = todo[i + 1]
      /\ \A i \in DOMAIN todo : todo[i].num = curHeight + i
      /\ UNCHANGED <<loopVars, inHand, tries, feedVars, taskNum, envVars, history>>
  BY DexHandleFacts
<1>3. FeedInv'
  BY <1>1, <1>2, FeedStays
<1>4. batch' \in Seq(Blocks) /\ DOMAIN batch' = {1}
  BY <1>2
<1>5. /\ pc \in Running /\ pc' \in Running /\ pc' \notin Between /\ curHeight' = curHeight
      /\ ~RevertInHand /\ ~RevertInHand'
  BY <1>1, <1>2 DEF Between, Running, loopVars, DexHand, RevertInHand
<1>6. LoopTypeOK'
  BY <1>1, <1>2, <1>3, <1>4, <1>5 DEF LoopTypeOK, loopVars, envVars, history, FeedInv
<1>7. DexHand'
  BY <1>1, <1>2, <1>5 DEF DexHand
<1>8. DexFollows'
  <2>1. \A i \in DOMAIN batch' : batch'[i].num = curHeight' + i
    BY <1>2, <1>4, <1>5
  <2>2. \A i \in DOMAIN todo' : todo'[i].num = curHeight' + Len(batch') + i
    <3> SUFFICES ASSUME NEW i \in 1..Len(todo')
                 PROVE  todo'[i].num = curHeight' + Len(batch') + i
      BY <1>2
    <3>1. i + 1 \in DOMAIN todo /\ i \in Nat
      BY <1>2
    <3>2. todo'[i].num = curHeight + (i + 1)
      BY <1>2, <3>1
    <3>3. QED
      BY <1>2, <1>5, <3>1, <3>2
  <2>3. QED
    BY <2>1, <2>2 DEF DexFollows
<1>9. QED
  BY <1>3, <1>6, <1>7, <1>8 DEF DexWork

\* What is saved is the block above the height.
LEMMA DexBatchFacts ==
    ASSUME DexWork, pc = "save"
    PROVE  /\ batch = <<batch[1]>> /\ batch[1] \in Blocks /\ Last(batch) = batch[1]
           /\ DOMAIN batch = {1} /\ ToSet(batch) = {batch[1]}
           /\ curHeight \in Nat /\ batch[1].num = curHeight + 1 /\ batch[1].num \in Nat
           /\ pc \in Running
<1>1. LoopTypeOK /\ Len(batch) = 1 /\ DexFollows
  BY DEF DexWork, DexHand
<1>2. batch \in Seq(Blocks) /\ batch # <<>> /\ curHeight \in Nat
  BY <1>1, OneIsSome DEF LoopTypeOK
<1>3. batch[1] \in Blocks /\ batch[1].num \in Nat
  BY <1>1, <1>2, InHandFacts
<1>4. DOMAIN batch = {1}
  <2>1. DOMAIN batch = 1..1
    BY <1>1, <1>2, LenProperties
  <2>2. QED
    BY <2>1
<1>5. batch = <<batch[1]>>
  <2>1. <<batch[1]>> \in Seq(Blocks) /\ Len(<<batch[1]>>) = 1
    BY <1>3
  <2>2. \A i \in 1..1 : batch[i] = <<batch[1]>>[i]
    OBVIOUS
  <2>3. QED
    BY <1>1, <1>2, <2>1, <2>2, SeqEqual
<1>6. Last(batch) = batch[1]
  BY <1>1 DEF Last
<1>7. batch[1].num = curHeight + 1
  BY <1>1, <1>4 DEF DexFollows
<1>8. ToSet(batch) = {batch[1]} /\ pc \in Running
  BY <1>4 DEF ToSet, Running
<1>9. QED
  BY <1>2, <1>3, <1>4, <1>5, <1>6, <1>7, <1>8

LEMMA SaveDexWork == ASSUME DexWork, DexSave PROVE DexWork'
<1>1. LoopTypeOK /\ FeedInv /\ DexHand /\ DexFollows
  BY DEF DexWork
<1>2. /\ pc = "save" /\ taskNum' = batch[1].num /\ curHeight' = Last(batch).num
      /\ batch' = <<>> /\ tries' = 0 /\ todo' = todo
      /\ pc' = IF todo # <<>> THEN "handle" ELSE IF inHand # <<>> THEN "drain" ELSE "loop"
      /\ inHand' = IF todo # <<>> THEN inHand ELSE <<>>
      /\ UNCHANGED <<cache, latestHeight, compensation, feedVars, envVars, history>>
  BY DEF DexSave, Saved
<1>3. /\ curHeight \in Nat /\ batch[1].num = curHeight + 1 /\ batch[1].num \in Nat
      /\ Last(batch) = batch[1] /\ Len(batch) = 1 /\ ~RevertInHand
  BY <1>1, <1>2, DexBatchFacts DEF DexHand
<1>4. FeedInv'
  BY <1>1, <1>2, FeedStays
<1>5. /\ <<>> \in Seq(Blocks) /\ <<>> \in Seq(Event) /\ Len(<<>>) = 0 /\ DOMAIN <<>> = {}
      /\ 0 <= RetryTimes /\ 0 \in 0..(RetryTimes + 1)
  BY EmptySeq, AsyncTaskAssumption
<1>6. pc' \in Running /\ pc' \notin {"save", "revert", "record"}
  BY <1>2 DEF Running
<1>7. inHand' \in Seq(Event) /\ Len(inHand') <= 1 /\ ~RevertInHand'
  BY <1>1, <1>2, <1>3, <1>5 DEF LoopTypeOK, RevertInHand
<1>8. LoopTypeOK'
  BY <1>1, <1>2, <1>3, <1>4, <1>5, <1>6, <1>7 DEF LoopTypeOK, envVars, history, FeedInv
<1>9. DexFollows'
  <2>1. \A i \in DOMAIN todo' : i \in Nat
    BY <1>8, LenProperties DEF LoopTypeOK
  <2>2. \A i \in DOMAIN todo : todo[i].num = curHeight + 1 + i
    BY <1>1, <1>3 DEF DexFollows
  <2>3. \A i \in DOMAIN todo' : todo'[i].num = curHeight' + 0 + i
    BY <1>2, <1>3, <2>1, <2>2
  <2>4. QED
    BY <1>2, <1>5, <2>3 DEF DexFollows
<1>10. DexHand'
  <2>1. CASE todo # <<>>
    BY <1>2, <1>5, <1>6, <1>7, <2>1 DEF DexHand, Between
  <2>2. CASE todo = <<>>
    BY <1>2, <1>5, <1>6, <2>2 DEF DexHand
  <2>3. QED
    BY <2>1, <2>2
<1>11. QED
  BY <1>4, <1>8, <1>9, <1>10 DEF DexWork

\* Another attempt, or the process ends.
LEMMA RetryDexWork ==
    ASSUME DexWork, pc \in {"handle", "save", "record"}, Retry, taskNum' \in Nat,
           UNCHANGED <<feedVars, envVars, history>>
    PROVE  /\ DexWork' /\ pc \in Running
           /\ pc' = pc \/ pc' \notin Running
           /\ UNCHANGED <<loopVars, inHand, todo, batch>>
<1>1. LoopTypeOK /\ FeedInv /\ DexHand /\ DexFollows
  BY DEF DexWork
<1>2. /\ tries' = tries + 1 /\ pc' = IF tries' > RetryTimes THEN "exited" ELSE pc
      /\ UNCHANGED <<loopVars, inHand, todo, batch>>
  BY DEF Retry
<1>3. pc \in Running /\ "exited" \notin Running
  BY DEF Running
<1>4. tries \in Nat /\ tries <= RetryTimes /\ RetryTimes \in Nat
  BY <1>1, <1>3, AsyncTaskAssumption DEF LoopTypeOK, DexHand
<1>5. /\ tries' \in 0..(RetryTimes + 1)
      /\ pc' \in Running => tries' <= RetryTimes
      /\ pc' = pc \/ pc' \notin Running
      /\ pc' \in Running \cup {"exited"}
  BY <1>2, <1>3, <1>4
<1>6. FeedInv'
  BY <1>1, FeedStays
<1>7. LoopTypeOK'
  BY <1>1, <1>2, <1>5, <1>6 DEF LoopTypeOK, loopVars, envVars, history, FeedInv
<1>8. RevertInHand' = RevertInHand /\ curHeight' = curHeight
  BY <1>2 DEF RevertInHand, loopVars
<1>9. DexFollows'
  BY <1>1, <1>2, <1>8 DEF DexFollows
<1>10. DexHand'
  <2>1. CASE pc' = pc
    BY <1>1, <1>2, <1>5, <1>8, <2>1 DEF DexHand, history
  <2>2. CASE pc' \notin Running
    <3>1. pc' \notin Between /\ pc' \notin {"handle", "save", "revert", "record"}
      BY <2>2 DEF Between, Running
    <3>2. QED
      BY <2>2, <3>1 DEF DexHand
  <2>3. QED
    BY <1>5, <2>1, <2>2
<1>11. QED
  BY <1>2, <1>3, <1>5, <1>6, <1>7, <1>9, <1>10 DEF DexWork

LEMMA FailsDexWork == ASSUME DexWork, DexFails PROVE DexWork'
<1>1. /\ pc \in {"handle", "save", "record"} /\ Retry
      /\ UNCHANGED <<feedVars, taskNum, envVars, history>>
  BY DEF DexFails
<1>2. taskNum' \in Nat
  BY <1>1 DEF DexWork, LoopTypeOK
<1>3. QED
  BY <1>1, <1>2, RetryDexWork

LEMMA SaveLostDexWork == ASSUME DexWork, DexSaveAnswerLost PROVE DexWork'
<1>1. /\ pc = "save" /\ Retry /\ taskNum' = batch[1].num
      /\ UNCHANGED <<feedVars, envVars, history>>
  BY DEF DexSaveAnswerLost
<1>2. taskNum' \in Nat
  BY <1>1, DexBatchFacts
<1>3. QED
  BY <1>1, <1>2, RetryDexWork

LEMMA DexRevertFacts ==
    ASSUME DexWork, DexRevert
    PROVE  /\ pc = "revert" /\ pc' = "drain" /\ inHand' = <<>> /\ tries' = 0
           /\ curHeight' = inHand[1].blk.num - 1 /\ latestHeight' = inHand[1].blk.num - 1
           /\ UNCHANGED <<cache, compensation, todo, batch, feedVars,
                          taskNum, envVars, history, dexVars>>
           /\ todo = <<>> /\ batch = <<>> /\ inHand[1].blk \in gone
           /\ ToSet(inHand) = {Reverting(inHand[1].blk)}
           /\ inHand[1].blk.num \in Nat /\ inHand[1].blk.num >= 1
           /\ curHeight \in Nat /\ inHand[1].blk.num <= curHeight
<1>1. LoopTypeOK /\ DexHand
  BY DEF DexWork
<1>2. /\ pc = "revert" /\ pc' = "drain" /\ inHand' = <<>> /\ tries' = 0
      /\ curHeight' = inHand[1].blk.num - 1 /\ latestHeight' = inHand[1].blk.num - 1
      /\ UNCHANGED <<cache, compensation, todo, batch, feedVars,
                     taskNum, envVars, history, dexVars>>
  BY DEF DexRevert, Reverted
<1>3. /\ RevertInHand /\ todo = <<>> /\ batch = <<>>
      /\ inHand[1].blk \in gone /\ inHand[1].blk.num <= curHeight
  BY <1>1, <1>2 DEF DexHand
<1>4. QED
  BY <1>1, <1>2, <1>3, InHandFacts

LEMMA RevertDexWork == ASSUME DexWork, DexRevert PROVE DexWork'
<1>1. LoopTypeOK /\ FeedInv
  BY DEF DexWork
<1>2. /\ pc' = "drain" /\ inHand' = <<>> /\ tries' = 0
      /\ curHeight' = inHand[1].blk.num - 1 /\ latestHeight' = inHand[1].blk.num - 1
      /\ UNCHANGED <<cache, compensation, todo, batch, feedVars, taskNum, envVars, history>>
      /\ todo = <<>> /\ batch = <<>>
      /\ inHand[1].blk.num \in Nat /\ inHand[1].blk.num >= 1
  BY DexRevertFacts
<1>3. curHeight' \in Nat /\ latestHeight' \in Nat
  BY <1>2
<1>4. FeedInv'
  BY <1>1, <1>2, FeedStays
<1>5. /\ <<>> \in Seq(Blocks) /\ <<>> \in Seq(Event) /\ Len(<<>>) = 0 /\ DOMAIN <<>> = {}
      /\ 0 <= RetryTimes /\ 0 \in 0..(RetryTimes + 1) /\ pc' \in Running
  BY <1>2, EmptySeq, AsyncTaskAssumption DEF Running
<1>6. LoopTypeOK'
  BY <1>1, <1>2, <1>3, <1>4, <1>5 DEF LoopTypeOK, envVars, history, FeedInv
<1>7. DexFollows'
  BY <1>2, <1>5 DEF DexFollows
<1>8. DexHand'
  BY <1>2, <1>5 DEF DexHand
<1>9. QED
  BY <1>4, <1>6, <1>7, <1>8 DEF DexWork

LEMMA RecordDexWork == ASSUME DexWork, DexRecord PROVE DexWork'
<1>1. LoopTypeOK /\ FeedInv /\ DexHand
  BY DEF DexWork
<1>2. /\ pc = "record" /\ taskNum' = curHeight /\ tries' = 0 /\ pc' = "loop"
      /\ UNCHANGED <<loopVars, inHand, todo, batch, feedVars, envVars, history>>
  BY DEF DexRecord
<1>3. inHand' = <<>> /\ todo' = <<>> /\ batch' = <<>>
  BY <1>1, <1>2 DEF DexHand
<1>4. FeedInv'
  BY <1>1, <1>2, FeedStays
<1>5. 0 <= RetryTimes /\ 0 \in 0..(RetryTimes + 1) /\ pc' \in Running
  BY <1>2, AsyncTaskAssumption DEF Running
<1>6. LoopTypeOK'
  BY <1>1, <1>2, <1>4, <1>5 DEF LoopTypeOK, loopVars, envVars, history, FeedInv
<1>7. DexFollows'
  BY <1>3, EmptySeq DEF DexFollows
<1>8. DexHand'
  BY <1>2, <1>3, <1>5 DEF DexHand
<1>9. QED
  BY <1>4, <1>6, <1>7, <1>8 DEF DexWork

LEMMA RestartDexWork ==
    ASSUME DexWork, done \subseteq Blocks, DexRestart PROVE DexWork'
<1>1. LoopTypeOK /\ FeedInv /\ Restart(done \ ToSet(chain), {})
  BY DEF DexWork, DexRestart
<1>2. /\ restarts < MaxRestarts /\ restarts' = restarts + 1 /\ stopping' = FALSE
      /\ FeedAgain /\ pc' = "created" /\ cache' = <<>>
      /\ curHeight' = taskNum /\ latestHeight' = 0 /\ compensation' = 0
      /\ inHand' = <<>> /\ todo' = <<>> /\ batch' = <<>> /\ tries' = 0
      /\ skipped' = (skipped \cap 1..taskNum) \cup {}
      /\ gone' = {} /\ astray' = astray \cup (done \ ToSet(chain))
      /\ taskNum' = taskNum
  BY <1>1 DEF Restart
<1>3. FeedInv'
  BY <1>1, <1>2, FeedAgainFacts
<1>4. pc' \in Running
  BY <1>2 DEF Running
<1>5. /\ <<>> \in Seq(Blocks) /\ <<>> \in Seq(Event) /\ Len(<<>>) = 0 /\ DOMAIN <<>> = {}
      /\ 0 \in 0..CompensationCap /\ 0 \in 0..(RetryTimes + 1) /\ 0 <= RetryTimes
      /\ 0 <= BufferSize
  BY EmptySeq, AsyncTaskAssumption, TaskFeedAssumption
<1>6. restarts' \in 0..MaxRestarts /\ stopping' \in BOOLEAN
  <2>1. restarts \in 0..MaxRestarts /\ MaxRestarts \in Nat
    BY <1>1, AsyncTaskAssumption DEF LoopTypeOK
  <2>2. restarts + 1 \in 0..MaxRestarts
    BY <1>2, <2>1
  <2>3. QED
    BY <1>2, <2>2
<1>7. astray' \subseteq Blocks /\ skipped' \subseteq Nat
  BY <1>1, <1>2 DEF LoopTypeOK
<1>8. LoopTypeOK'
  BY <1>1, <1>2, <1>3, <1>4, <1>5, <1>6, <1>7 DEF LoopTypeOK, FeedInv
<1>9. DexFollows'
  BY <1>2, <1>5 DEF DexFollows
<1>10. DexHand'
  BY <1>2, <1>5 DEF DexHand
<1>11. QED
  BY <1>3, <1>8, <1>9, <1>10 DEF DexWork

\* A step that only the tables see.
LEMMA StutterDexWork ==
    ASSUME DexWork, UNCHANGED <<pc, loopVars, workVars, feedVars, taskNum, envVars, history>>
    PROVE  DexWork'
<1>1. LoopTypeOK /\ FeedInv
  BY DEF DexWork
<1>2. FeedInv'
  BY <1>1, FeedStays
<1>3. LoopTypeOK'
  BY <1>1, <1>2 DEF LoopTypeOK, loopVars, workVars, envVars, history, FeedInv
<1>4. QED
  BY <1>2, <1>3, QuietDexWork DEF loopVars, workVars, history, PcMoves

\* The steps, by what they do.
LEMMA DexCases ==
    ASSUME [DexNext]_dexTaskVars
    PROVE  \/ /\ UNCHANGED dexVars
              /\ \/ Idle
                 \/ BaseApplies \/ \E e \in Event : Publish(e)
                 \/ \E e \in Event : PassedBy(e) \/ ReceiveNext(e) \/ ReceiveRevert(e)
                 \/ ReadFound(DexRangeEnd) \/ DexSkip \/ ReadFails
                 \/ UNCHANGED <<pc, loopVars, workVars, feedVars, taskNum, envVars, history>>
           \/ DexHandle \/ DexSave \/ DexRevert \/ DexRecord
           \/ DexFails \/ DexSaveAnswerLost \/ DexRestart
           \/ \E p \in Pairs : EvictPair(p)
<1>1. CASE DexStep
  BY <1>1, WaitIsReadFails DEF DexStep, LoopStep, DexFixHistory, Idle, PassedBy, Receive
<1>2. CASE Environment /\ UNCHANGED dexVars
  BY <1>2 DEF Environment, Idle
<1>3. CASE UNCHANGED dexTaskVars
  BY <1>3 DEF dexTaskVars
<1>4. QED
  BY <1>1, <1>2, <1>3 DEF DexNext

LEMMA NextDexWork ==
    ASSUME DexPairConstants, DexWork, done \subseteq Blocks, [DexNext]_dexTaskVars
    PROVE  DexWork'
<1>1. ASSUME NEW p \in Pairs, EvictPair(p) PROVE DexWork'
  BY <1>1, StutterDexWork DEF EvictPair
<1>2. QED
  BY <1>1, DexCases, IdleDexWork, FeedDexWork, PassedByDexWork, ReceiveNextDexWork,
     ReceiveRevertDexWork, ReadFoundDexWork, SkipDexWork, ReadFailsDexWork, StutterDexWork,
     HandleDexWork, SaveDexWork, RevertDexWork, RecordDexWork, FailsDexWork, SaveLostDexWork,
     RestartDexWork

----------------------------------------------------------------------------
(* Rows and tokens. *)

LEMMA GreatestNumber ==
    ASSUME NEW n \in Nat, NEW S, S \subseteq 1..n, S # {}
    PROVE  Max(S) \in S /\ \A x \in S : x <= Max(S)
<1> DEFINE T == {n - i : i \in S}
<1>1. T \subseteq Nat /\ T # {}
  OBVIOUS
<1>2. PICK x \in T : \A y \in T : x <= y
  BY <1>1, LeastNumber
<1>3. PICK m \in S : x = n - m
  BY <1>2
<1>4. \A i \in S : n - i \in T /\ i \in Int
  OBVIOUS
<1> HIDE DEF T
<1>5. \A i \in S : i <= m
  <2> SUFFICES ASSUME NEW i \in S PROVE i <= m
    OBVIOUS
  <2>1. n - m <= n - i
    BY <1>2, <1>3, <1>4
  <2>2. QED
    BY <1>4, <2>1
<1>6. \E m1 \in S : \A i \in S : m1 >= i
  BY <1>4, <1>5
<1>7. Max(S) \in S /\ \A i \in S : Max(S) >= i
  BY <1>6 DEF Max
<1>8. QED
  BY <1>4, <1>7

\* The last event of a pair that can be decoded, if there is one.
LEMMA LastSyncFacts ==
    ASSUME DexPairConstants, NEW b \in Blocks, NEW p
    PROVE  \/ /\ LastSync(b, p) = {}
              /\ \A i \in DOMAIN b.syncs : b.syncs[i].pair = p => ~b.syncs[i].decodes
           \/ \E m \in DOMAIN b.syncs :
                 /\ LastSync(b, p) = {m} /\ b.syncs[m].pair = p /\ b.syncs[m].decodes
                 /\ \A i \in DOMAIN b.syncs :
                       b.syncs[i].pair = p /\ b.syncs[i].decodes => i <= m
<1> DEFINE at == {i \in DOMAIN b.syncs : b.syncs[i].pair = p /\ b.syncs[i].decodes}
<1>1. LastSync(b, p) = IF at = {} THEN {} ELSE {Max(at)}
  BY DEF LastSync
<1>2. CASE at = {}
  BY <1>1, <1>2
<1>3. CASE at # {}
  <2>1. b.syncs \in Seq([pair : Pairs, decodes : BOOLEAN])
    BY DEF DexPairConstants
  <2>2. DOMAIN b.syncs = 1..Len(b.syncs) /\ Len(b.syncs) \in Nat
    BY <2>1, LenProperties
  <2>3. at \subseteq 1..Len(b.syncs)
    BY <2>2
  <2>4. Max(at) \in at /\ \A x \in at : x <= Max(at)
    <3> HIDE DEF at
    <3>1. QED
      BY <1>3, <2>2, <2>3, GreatestNumber
  <2>5. PICK m : m = Max(at)
    OBVIOUS
  <2>6. m \in at /\ \A x \in at : x <= m
    BY <2>4, <2>5
  <2>7. LastSync(b, p) = {m}
    BY <1>1, <1>3, <2>5
  <2>8. QED
    BY <2>6, <2>7
<1>4. QED
  BY <1>2, <1>3

LEMMA RowIs ==
    \A b, p, t : /\ PairRow(b, p, t).blk = b /\ PairRow(b, p, t).tokens = t
                 /\ p \in Synced(b) => PairRow(b, p, t).at \in LastSync(b, p)
BY DEF PairRow, Synced

LEMMA UpsertFacts ==
    ASSUME NEW b, UpsertPairs(b)
    PROVE  /\ DOMAIN pairs' = Synced(b) \cup DOMAIN pairs
           /\ \A p \in Synced(b) : pairs'[p] = PairRow(b, p, PairTokens(p))
           /\ \A p \in DOMAIN pairs : p \notin Synced(b) => pairs'[p] = pairs[p]
<1>1. pairs' = [p \in DOMAIN pairs \cup Synced(b) |->
                  IF p \in Synced(b) THEN PairRow(b, p, PairTokens(p)) ELSE pairs[p]]
  BY DEF UpsertPairs
<1>2. QED
  BY <1>1

LEMMA StartFacts ==
    /\ StartNumber \in Nat
    /\ \A n \in 1..StartNumber : /\ n \in DOMAIN StartChain /\ StartChain[n] \in Blocks
                                 /\ StartChain[n].num = n
                                 /\ StartChain[n] \in ToSet(StartChain)
    /\ \A p : StartsWith(p) # {} => /\ Max(StartsWith(p)) \in StartsWith(p)
                                    /\ \A n \in StartsWith(p) : n <= Max(StartsWith(p))
<1>1. StartChain \in Seq(Blocks) /\ StartNumber \in 0..Len(StartChain)
  BY TaskFeedAssumption, AsyncTaskAssumption
<1>2. Len(StartChain) \in Nat /\ DOMAIN StartChain = 1..Len(StartChain)
  BY <1>1, LenProperties
<1>3. StartNumber \in Nat /\ \A n \in 1..StartNumber : n \in DOMAIN StartChain
  BY <1>1, <1>2
<1>4. \A n \in 1..StartNumber : StartChain[n] \in Blocks /\ StartChain[n].num = n
  BY <1>1, <1>2, <1>3, ElementOfSeq, TaskFeedAssumption
<1>5. \A n \in 1..StartNumber : StartChain[n] \in ToSet(StartChain)
  BY <1>3 DEF ToSet
<1>6. \A p : StartsWith(p) \subseteq 1..StartNumber
  BY DEF StartsWith
<1>7. QED
  BY <1>3, <1>4, <1>5, <1>6, GreatestNumber

LEMMA InitRowsFacts ==
    ASSUME DexInit
    PROVE  /\ DOMAIN pairs \subseteq Pairs
           /\ \A p \in DOMAIN pairs :
                 /\ Max(StartsWith(p)) \in StartsWith(p)
                 /\ \A n \in StartsWith(p) : n <= Max(StartsWith(p))
                 /\ pairs[p] = PairRow(StartChain[Max(StartsWith(p))], p, "read")
           /\ \A p \in Pairs : StartsWith(p) # {} => p \in DOMAIN pairs
<1>1. pairs = [p \in {q \in Pairs : StartsWith(q) # {}} |->
                 PairRow(StartChain[Max(StartsWith(p))], p, "read")]
  BY DEF DexInit
<1>2. DOMAIN pairs = {q \in Pairs : StartsWith(q) # {}}
  BY <1>1
<1>3. \A p \in DOMAIN pairs : pairs[p] = PairRow(StartChain[Max(StartsWith(p))], p, "read")
  BY <1>1, <1>2
<1>4. QED
  BY <1>2, <1>3, StartFacts

LEMMA InitPairs == ASSUME DexInit PROVE PairsInv
<1>1. /\ pc = "created" /\ known = {} /\ toSave = NoPairs
      /\ done = {StartChain[n] : n \in 1..StartNumber}
  BY DEF DexInit, Init
<1>2. DOMAIN toSave = {}
  BY <1>1 DEF NoPairs
<1>3. done \subseteq Blocks
  BY <1>1, StartFacts
<1>4. \A p \in DOMAIN pairs : pairs[p].blk \in Blocks /\ pairs[p].tokens = "read"
  <2> SUFFICES ASSUME NEW p \in DOMAIN pairs
               PROVE  pairs[p].blk \in Blocks /\ pairs[p].tokens = "read"
    OBVIOUS
  <2>1. PICK m \in StartsWith(p) : pairs[p] = PairRow(StartChain[m], p, "read")
    BY InitRowsFacts
  <2>2. m \in 1..StartNumber
    BY DEF StartsWith
  <2>3. QED
    BY <2>1, <2>2, RowIs, StartFacts
<1>5. QED
  BY <1>1, <1>2, <1>3, <1>4, InitRowsFacts DEF PairsInv

LEMMA SavePairs ==
    ASSUME DexWork, PairsInv, pc = "save", UpsertPairs(batch[1]), known' = known,
           done' = done \cup {batch[1]}, toSave' = toSave \/ toSave' = NoPairs,
           pc' = "save" => batch' = batch
    PROVE  PairsInv'
<1>1. batch[1] \in Blocks
  BY DexBatchFacts
<1>2. /\ DOMAIN pairs' = Synced(batch[1]) \cup DOMAIN pairs
      /\ \A p \in Synced(batch[1]) : pairs'[p] = PairRow(batch[1], p, PairTokens(p))
      /\ \A p \in DOMAIN pairs : p \notin Synced(batch[1]) => pairs'[p] = pairs[p]
  BY UpsertFacts
<1>3. Synced(batch[1]) \subseteq Pairs
  BY DEF Synced
<1>4. \A p \in DOMAIN toSave' : p \in DOMAIN toSave /\ toSave'[p] = toSave[p]
  BY DEF NoPairs
<1>5. \A p \in DOMAIN pairs' : pairs'[p].blk \in Blocks
                               /\ pairs'[p].tokens \in {"read", "refused"}
  <2> SUFFICES ASSUME NEW p \in DOMAIN pairs'
               PROVE  pairs'[p].blk \in Blocks /\ pairs'[p].tokens \in {"read", "refused"}
    OBVIOUS
  <2>1. CASE p \in Synced(batch[1])
    <3>1. PairTokens(p) \in {"read", "refused"}
      BY <2>1 DEF PairsInv, PairTokens
    <3>2. QED
      BY <1>1, <1>2, <2>1, <3>1, RowIs
  <2>2. CASE p \notin Synced(batch[1])
    BY <1>2, <2>2 DEF PairsInv
  <2>3. QED
    BY <2>1, <2>2
<1>6. pc' = "save" => Synced(batch'[1]) \subseteq DOMAIN pairs'
  BY <1>2
<1>7. QED
  BY <1>1, <1>2, <1>3, <1>4, <1>5, <1>6 DEF PairsInv

LEMMA HandlePairs == ASSUME DexWork, PairsInv, DexHandle PROVE PairsInv'
<1> DEFINE ps == Synced(batch'[1])
<1>1. /\ known' = known \cup (ps \cap DOMAIN pairs)
      /\ toSave' \in [ps \ (known \cup DOMAIN pairs) -> {"read", "refused"}]
      /\ pairs' = pairs /\ done' = done
  BY DEF DexHandle, Learn, NeedTokens
<1>2. ps \subseteq Pairs
  BY DEF Synced
<1> HIDE DEF ps
<1>3. /\ DOMAIN toSave' = ps \ (known \cup DOMAIN pairs)
      /\ \A p \in DOMAIN toSave' : toSave'[p] \in {"read", "refused"}
  BY <1>1
<1>4. ps \subseteq DOMAIN toSave' \cup DOMAIN pairs'
  BY <1>1, <1>3 DEF PairsInv
<1>5. QED
  BY <1>1, <1>2, <1>3, <1>4 DEF PairsInv, ps

\* Work that is not being saved.
LEMMA SamePairs ==
    ASSUME PairsInv, UNCHANGED <<pairs, done>>, known' \subseteq known,
           toSave' = toSave \/ toSave' = NoPairs,
           pc' = "save" => pc = "save" /\ batch' = batch /\ toSave' = toSave
    PROVE  PairsInv'
<1>1. \A p \in DOMAIN toSave' : p \in DOMAIN toSave /\ toSave'[p] = toSave[p]
  BY DEF NoPairs
<1>2. QED
  BY <1>1 DEF PairsInv

LEMMA NextPairs ==
    ASSUME DexWork, PairsInv, [DexNext]_dexTaskVars PROVE PairsInv'
<1>1. ASSUME UNCHANGED dexVars, pc' = "save" => pc = "save" /\ batch' = batch PROVE PairsInv'
  BY <1>1, SamePairs DEF dexVars
<1>2. CASE Idle /\ UNCHANGED dexVars
  BY <1>1, <1>2 DEF Idle, StartTask, Unsubscribe, Enter, Wake, Drained, Signal, Crash, TakeStop,
                    workVars
<1>3. CASE (BaseApplies \/ \E e \in Event : Publish(e)) /\ UNCHANGED dexVars
  BY <1>1, <1>3 DEF BaseApplies, Publish, workVars
<1>4. ASSUME NEW e \in Event, PassedBy(e) \/ ReceiveNext(e) \/ ReceiveRevert(e),
             UNCHANGED dexVars
      PROVE  PairsInv'
  BY <1>1, <1>4 DEF PassedBy, ReceiveAhead, ReceiveOld, ReceiveRevertAbove, ReceiveNext,
                    ReceiveRevert
<1>5. CASE (ReadFound(DexRangeEnd) \/ DexSkip \/ ReadFails) /\ UNCHANGED dexVars
  BY <1>1, <1>5 DEF ReadFound, DexSkip, Skip, ReadFails
<1>6. CASE /\ UNCHANGED dexVars
           /\ UNCHANGED <<pc, loopVars, workVars, feedVars, taskNum, envVars, history>>
  BY <1>1, <1>6 DEF workVars
<1>7. CASE DexSave
  <2>1. /\ pc = "save" /\ UpsertPairs(batch[1]) /\ known' = known /\ toSave' = NoPairs
        /\ done' = done \cup {batch[1]} /\ pc' # "save"
    BY <1>7 DEF DexSave, Saved
  <2>2. QED
    BY <2>1, SavePairs
<1>8. CASE DexSaveAnswerLost
  <2>1. /\ pc = "save" /\ UpsertPairs(batch[1]) /\ known' = known /\ toSave' = toSave
        /\ done' = done \cup {batch[1]} /\ batch' = batch
    BY <1>8 DEF DexSaveAnswerLost, Retry
  <2>2. QED
    BY <2>1, SavePairs
<1>9. CASE DexRevert \/ DexRecord
  BY <1>1, <1>9 DEF DexRevert, Reverted, DexRecord
<1>10. CASE DexFails
  <2>1. UNCHANGED dexVars /\ batch' = batch /\ (pc' = pc \/ pc' = "exited")
    BY <1>10 DEF DexFails, Retry
  <2>2. QED
    BY <1>1, <2>1
<1>11. CASE DexRestart
  <2>1. /\ UNCHANGED <<pairs, done>> /\ known' = {} /\ toSave' = NoPairs /\ pc' = "created"
    BY <1>11 DEF DexRestart, Restart
  <2>2. QED
    BY <2>1, SamePairs
<1>12. ASSUME NEW p \in Pairs, EvictPair(p) PROVE PairsInv'
  <2>1. /\ UNCHANGED <<pairs, done, toSave, pc, batch>> /\ known' \subseteq known
    BY <1>12 DEF EvictPair, workVars
  <2>2. QED
    BY <2>1, SamePairs
<1>13. QED
  BY <1>2, <1>3, <1>4, <1>5, <1>6, <1>7, <1>8, <1>9, <1>10, <1>11, <1>12, HandlePairs, DexCases

----------------------------------------------------------------------------
(* What dex_pair has been told of the blocks. *)

\* What is settled up to the height stays so.
DexKeeps == \A x \in Blocks : Settled(x) /\ x.num <= curHeight' => Settled(x)'

LEMMA SteadyDexKnown ==
    ASSUME DexKnown, UNCHANGED <<feedVars, gone>>, astray \subseteq astray',
           ToSet(cache') \subseteq ToSet(cache),
           \A x : Reverting(x) \in ToSet(inHand) => Reverting(x) \in ToSet(inHand'),
           pc' \in Running =>
              /\ pc \in Running
              /\ ToSet(batch') \cup ToSet(todo') \subseteq ToSet(batch) \cup ToSet(todo)
    PROVE  DexKnown' /\ \A x : Settled(x) => Settled(x)'
<1>1. BlocksKnown' /\ \A x : Settled(x) => Settled(x)'
  BY SteadyKnown DEF DexKnown
<1>2. QED
  BY <1>1 DEF DexKnown

LEMMA IdleDexKnown == ASSUME DexWork, DexKnown, Idle PROVE DexKnown' /\ DexKeeps
<1>1. /\ UNCHANGED <<cache, curHeight, latestHeight, workVars, feedVars, taskNum, history>>
      /\ PcMoves
  BY IdleFacts DEF DexWork
<1>2. pc' \in Running => pc \in Running
  BY <1>1 DEF PcMoves, Between
<1>3. QED
  BY <1>1, <1>2, SteadyDexKnown DEF workVars, history, DexKeeps

LEMMA FeedDexKnown ==
    ASSUME DexWork, DexKnown, BaseApplies \/ \E e \in Event : Publish(e)
    PROVE  DexKnown' /\ DexKeeps
<1>1. UNCHANGED <<pc, workVars>>
  BY DEF BaseApplies, Publish
<1>2. BlocksKnown' /\ \A x : Settled(x) => Settled(x)'
  BY PublishKnown, BaseKnown DEF DexWork, DexKnown
<1>3. QED
  BY <1>1, <1>2 DEF DexKnown, DexKeeps, workVars

LEMMA ReceiveDexKnown ==
    ASSUME DexWork, DexKnown, NEW e \in Event,
           PassedBy(e) \/ ReceiveNext(e) \/ ReceiveRevert(e)
    PROVE  DexKnown' /\ DexKeeps
<1>1. LoopTypeOK /\ FeedInv /\ DexHand /\ BlocksKnown
  BY DEF DexWork, DexKnown
<1>2. Take(e)
  BY <1>1, PassedByFacts DEF ReceiveNext, ReceiveRevert
<1>3. pc \in Between /\ batch' = batch
  BY <1>1, <1>2, TakenFacts
<1>4. inHand = <<>> /\ todo = <<>> /\ batch = <<>> /\ ToSet(<<>>) = {}
  BY <1>1, <1>3 DEF DexHand, ToSet
<1>5. /\ \A x : Settled(x) => Settled(x)' \/ e = Reverting(x)
      /\ e.state = "ok" => Stands(e.blk)' \/ RevertComing(e.blk)'
  BY <1>1, <1>2, <1>4, TakeKnown
<1>6. BlocksKnown'
  BY <1>1, <1>4, ReceiveKnown
<1>7. \A b \in ToSet(todo') : Settled(b)'
  <2>1. CASE ReceiveNext(e)
    <3>1. todo' = <<e.blk>> /\ e.state = "ok"
      BY <2>1 DEF ReceiveNext
    <3>2. QED
      BY <1>5, <3>1 DEF Settled, ToSet
  <2>2. CASE PassedBy(e) \/ ReceiveRevert(e)
    <3>1. todo' = todo
      BY <1>1, <2>2, PassedByFacts DEF ReceiveRevert
    <3>2. QED
      BY <1>4, <3>1
  <2>3. QED
    BY <2>1, <2>2
<1>8. DexKeeps
  <2> SUFFICES ASSUME NEW x \in Blocks, Settled(x), x.num <= curHeight', e = Reverting(x)
               PROVE  Settled(x)'
    BY <1>5 DEF DexKeeps
  <2>1. e.state = "revert" /\ e.blk = x
    BY DEF Reverting
  <2>2. CASE ReceiveRevert(e)
    <3>1. inHand' = <<e>> /\ e \in ToSet(<<e>>)
      BY <2>2 DEF ReceiveRevert, ToSet
    <3>2. QED
      BY <3>1 DEF Settled, RevertComing
  <2>3. CASE ReceiveRevertAbove(e)
    <3>1. curHeight < x.num /\ curHeight \in Nat /\ curHeight' = curHeight /\ x.num \in Nat
      BY <1>1, <2>1, <2>3, EventFacts DEF ReceiveRevertAbove, LoopTypeOK
    <3>2. QED
      BY <3>1
  <2>4. QED
    BY <2>1, <2>2, <2>3 DEF PassedBy, ReceiveAhead, ReceiveOld, ReceiveNext
<1>9. QED
  BY <1>3, <1>4, <1>6, <1>7, <1>8 DEF DexKnown

LEMMA ReadDexKnown ==
    ASSUME DexPairConstants, DexWork, DexKnown,
           ReadFound(DexRangeEnd) \/ DexSkip \/ ReadFails
    PROVE  /\ DexKnown'
           /\ \A x : Settled(x) => Settled(x)'
<1>1. LoopTypeOK /\ FeedInv /\ BlocksKnown /\ DexRangeEnd \in Int
  BY DexRangeFacts DEF DexWork, DexKnown
<1>2. CASE ReadFound(DexRangeEnd)
  <2>1. /\ BlocksKnown' /\ \A x : Settled(x) => Settled(x)'
        /\ \A b \in ToSet(todo') : Settled(b)'
    BY <1>1, <1>2, ReadKnown
  <2>2. batch' = batch /\ pc = "catchup"
    BY <1>2 DEF ReadFound
  <2>3. batch = <<>> /\ ToSet(<<>>) = {}
    BY <2>2 DEF DexWork, DexHand, Between, Running, ToSet
  <2>4. QED
    BY <2>1, <2>2, <2>3 DEF DexKnown
<1>3. CASE DexSkip
  <2>1. /\ pc \in Running /\ skipped' = skipped \cup ((curHeight + 1)..curHeight')
        /\ UNCHANGED <<inHand, todo, batch, feedVars, taskNum, gone, astray>>
        /\ ToSet(cache') \subseteq ToSet(cache)
    BY <1>3, SkipDexWork
  <2>2. QED
    BY <2>1, SteadyDexKnown
<1>4. CASE ReadFails
  <2>1. /\ UNCHANGED <<workVars, feedVars, history>> /\ PcMoves
        /\ \A i \in DOMAIN cache' : \E j \in DOMAIN cache : cache'[i] = cache[j]
    BY <1>1, <1>4, ReadFailsFacts
  <2>2. ToSet(cache') \subseteq ToSet(cache)
    BY <2>1 DEF ToSet
  <2>3. pc' \in Running => pc \in Running
    BY <2>1 DEF PcMoves, Between
  <2>4. QED
    BY <2>1, <2>2, <2>3, SteadyDexKnown DEF workVars, history
<1>5. QED
  BY <1>2, <1>3, <1>4

LEMMA HandleDexKnown ==
    ASSUME DexWork, DexKnown, DexHandle PROVE DexKnown' /\ \A x : Settled(x) => Settled(x)'
<1>1. /\ pc = "handle" /\ batch' = <<todo[1]>>
      /\ Len(todo) \in Nat /\ Len(todo') = Len(todo) - 1 /\ DOMAIN todo' = 1..Len(todo')
      /\ DOMAIN todo = 1..Len(todo) /\ todo # <<>>
      /\ \A i \in 1..Len(todo') : todo'[i] = todo[i + 1]
      /\ UNCHANGED <<loopVars, inHand, feedVars, history>>
  BY DexHandleFacts
<1>2. /\ \A i \in 1..Len(todo') : i + 1 \in DOMAIN todo
      /\ 1 \in DOMAIN todo
  <2>1. Len(todo) # 0
    BY <1>1, EmptySeq, LenProperties DEF DexWork, LoopTypeOK
  <2>2. QED
    BY <1>1, <2>1
<1>3. ToSet(todo') \subseteq ToSet(todo)
  BY <1>1, <1>2 DEF ToSet
<1>4. ToSet(batch') \subseteq ToSet(todo)
  BY <1>1, <1>2 DEF ToSet
<1>5. pc \in Running
  BY <1>1 DEF Running
<1>6. QED
  BY <1>1, <1>3, <1>4, <1>5, SteadyDexKnown DEF loopVars, history

LEMMA WorkDexKnown ==
    ASSUME DexWork, DexKnown, DexSave \/ DexSaveAnswerLost \/ DexFails \/ DexRecord
    PROVE  DexKnown' /\ \A x : Settled(x) => Settled(x)'
<1>1. /\ LoopTypeOK /\ DexHand /\ ToSet(<<>>) = {}
  BY DEF DexWork, ToSet
<1>2. /\ pc \in Running
      /\ UNCHANGED <<feedVars, cache, todo, gone, astray>>
      /\ batch' = batch \/ batch' = <<>>
  BY DEF DexSave, Saved, DexSaveAnswerLost, Retry, DexFails, DexRecord, history, loopVars, Running
<1>3. \A x : Reverting(x) \in ToSet(inHand) => Reverting(x) \in ToSet(inHand')
  <2>1. CASE DexSave
    <3>1. ~RevertInHand
      BY <1>1, <2>1 DEF DexSave, DexHand
    <3>2. QED
      BY <1>1, <3>1, InHandFacts
  <2>2. CASE DexSaveAnswerLost \/ DexFails \/ DexRecord
    <3>1. inHand' = inHand
      BY <2>2 DEF DexSaveAnswerLost, Retry, DexFails, DexRecord
    <3>2. QED
      BY <3>1
  <2>3. QED
    BY <2>1, <2>2
<1>4. QED
  BY <1>1, <1>2, <1>3, SteadyDexKnown

\* What is gone below the block reverted last is settled no more, and above the height.
LEMMA RevertDexKnown ==
    ASSUME DexWork, DexKnown, DexRevert PROVE DexKnown' /\ DexKeeps
<1> DEFINE r == inHand[1].blk
<1>1. /\ pc = "revert" /\ inHand' = <<>> /\ curHeight' = r.num - 1 /\ r.num \in Nat
      /\ UNCHANGED <<cache, todo, batch, feedVars, history>>
      /\ todo = <<>> /\ batch = <<>> /\ r \in gone
      /\ ToSet(inHand) = {Reverting(r)}
  BY DexRevertFacts
<1>2. ToSet(<<>>) = {}
  BY DEF ToSet
<1> HIDE DEF r
<1>3. /\ blockChan' = blockChan /\ toBase' = toBase /\ chain' = chain /\ sent' = sent
      /\ cache' = cache /\ gone' = gone /\ astray' = astray
  BY <1>1 DEF feedVars, history
<1>4. \A x : Stands(x) => Stands(x)'
  BY <1>3 DEF Stands
<1>5. \A x : RevertComing(x) => RevertComing(x)' \/ x = r
  <2>1. \A x : Reverting(x) = Reverting(r) => x = r
    BY DEF Reverting
  <2>2. QED
    BY <1>1, <1>3, <2>1 DEF RevertComing
<1>6. \A x : Settled(x) => Settled(x)' \/ x = r
  BY <1>3, <1>4, <1>5 DEF Settled
<1>7. \A x : Known(x) => Known(x)'
  BY <1>1, <1>3, <1>4, <1>5 DEF Known
<1>8. BlocksKnown'
  BY <1>3, <1>4, <1>7 DEF DexKnown, BlocksKnown
<1>9. DexKeeps
  BY <1>1, <1>6 DEF DexKeeps
<1>10. QED
  BY <1>1, <1>2, <1>8, <1>9 DEF DexKnown

LEMMA RestartDexKnown ==
    ASSUME DexRestart PROVE DexKnown' /\ \A b \in done : Settled(b)'
<1>1. /\ FeedAgain /\ cache' = <<>> /\ todo' = <<>> /\ batch' = <<>>
      /\ astray' = astray \cup (done \ ToSet(chain))
  BY DEF DexRestart, Restart
<1>2. BlocksKnown' /\ \A b \in ToSet(chain) : Stands(b)'
  BY <1>1, RestartKnown
<1>3. ToSet(<<>>) = {}
  BY DEF ToSet
<1>4. QED
  BY <1>1, <1>2, <1>3 DEF DexKnown, Settled

LEMMA InitDexKnown == ASSUME DexInit PROVE DexKnown /\ \A b \in done : Settled(b)
<1>1. BlocksKnown /\ \A b \in ToSet(StartChain) : Stands(b)
  BY InitKnown DEF DexInit
<1>2. batch = <<>> /\ todo = <<>> /\ ToSet(<<>>) = {}
  BY DEF DexInit, Init, ToSet
<1>3. done = {StartChain[n] : n \in 1..StartNumber}
  BY DEF DexInit
<1>4. QED
  BY <1>1, <1>2, <1>3, StartFacts DEF DexKnown, Settled

----------------------------------------------------------------------------
(* The rows of the blocks up to the height. *)

LEMMA SameShown == pairs' = pairs => \A b : Shown(b)' <=> Shown(b)
BY DEF Shown

LEMMA UpsertShown ==
    ASSUME NEW b \in Blocks, UpsertPairs(b)
    PROVE  /\ Shown(b)'
           /\ \A c \in Blocks : Shown(c) /\ c.num < b.num => Shown(c)'
<1>1. /\ DOMAIN pairs' = Synced(b) \cup DOMAIN pairs
      /\ \A p \in Synced(b) : pairs'[p] = PairRow(b, p, PairTokens(p))
      /\ \A p \in DOMAIN pairs : p \notin Synced(b) => pairs'[p] = pairs[p]
  BY UpsertFacts
<1>2. \A p \in Synced(b) : pairs'[p].blk = b /\ pairs'[p].at \in LastSync(b, p)
  BY <1>1, RowIs
<1>3. Shown(b)'
  BY <1>1, <1>2 DEF Shown
<1>4. ASSUME NEW c \in Blocks, Shown(c), c.num < b.num PROVE Shown(c)'
  <2> SUFFICES ASSUME NEW p \in Synced(c)
               PROVE  /\ p \in DOMAIN pairs'
                      /\ \/ pairs'[p].blk = c /\ pairs'[p].at \in LastSync(c, p)
                         \/ pairs'[p].blk.num > c.num
    BY DEF Shown
  <2>1. CASE p \in Synced(b)
    <3>1. p \in DOMAIN pairs' /\ pairs'[p].blk = b /\ b.num \in Nat /\ c.num \in Nat
      BY <1>1, <1>2, <2>1, TaskFeedAssumption
    <3>2. QED
      BY <1>4, <3>1
  <2>2. CASE p \notin Synced(b)
    BY <1>1, <1>4, <2>2 DEF Shown
  <2>3. QED
    BY <2>1, <2>2
<1>5. QED
  BY <1>3, <1>4

LEMMA KeepsCovered ==
    ASSUME DexWork, PairsInv, DexCovered, UNCHANGED <<pairs, done, taskNum>>,
           skipped \subseteq skipped', DexKeeps,
           pc' \in Running => pc \in Running /\ curHeight' \in Int /\ curHeight' <= curHeight
    PROVE  DexCovered'
<1>1. \A b : Shown(b)' <=> Shown(b)
  BY SameShown
<1>2. \A n \in 1..taskNum' : n \in skipped' \/ \E b \in done' : b.num = n /\ Shown(b)'
  BY <1>1 DEF DexCovered
<1>3. ASSUME pc' \in Running, NEW n \in 1..curHeight'
      PROVE  n \in skipped' \/ \E b \in done' : b.num = n /\ Shown(b)' /\ Settled(b)'
  <2>1. n \in 1..curHeight /\ n <= curHeight'
    BY <1>3 DEF DexWork, LoopTypeOK
  <2>2. CASE n \in skipped
    BY <2>2
  <2>3. CASE n \notin skipped
    <3>1. PICK b \in done : b.num = n /\ Shown(b) /\ Settled(b)
      BY <1>3, <2>1, <2>3 DEF DexCovered
    <3>2. b \in Blocks
      BY DEF PairsInv
    <3>3. Settled(b)'
      BY <2>1, <3>1, <3>2 DEF DexKeeps
    <3>4. QED
      BY <1>1, <3>1, <3>3
  <2>4. QED
    BY <2>2, <2>3
<1>4. QED
  BY <1>2, <1>3 DEF DexCovered

LEMMA SkipCovered ==
    ASSUME DexPairConstants, DexWork, DexKnown, DexCovered, DexSkip, UNCHANGED dexVars
    PROVE  DexCovered'
<1>1. /\ curHeight' > curHeight /\ pc \in Running /\ taskNum' = taskNum
      /\ skipped' = skipped \cup ((curHeight + 1)..curHeight')
  BY SkipDexWork
<1>2. pairs' = pairs /\ done' = done /\ curHeight \in Nat
  BY DEF dexVars, DexWork, LoopTypeOK
<1>3. (\A b : Shown(b)' <=> Shown(b)) /\ (\A x : Settled(x) => Settled(x)')
  BY <1>2, SameShown, ReadDexKnown
<1>4. \A n \in 1..curHeight' : n \in 1..curHeight \/ n \in skipped'
  BY <1>1, <1>2
<1>5. QED
  BY <1>1, <1>2, <1>3, <1>4 DEF DexCovered

LEMMA RecordCoveredDex ==
    ASSUME DexWork, DexKnown, DexCovered, DexRecord PROVE DexCovered'
<1>1. /\ pc = "record" /\ taskNum' = curHeight
      /\ UNCHANGED <<curHeight, skipped, pairs, done>>
  BY DEF DexRecord, loopVars, history, dexVars
<1>2. (\A b : Shown(b)' <=> Shown(b)) /\ (\A x : Settled(x) => Settled(x)')
  BY <1>1, SameShown, WorkDexKnown
<1>3. pc \in Running
  BY <1>1 DEF Running
<1>4. QED
  BY <1>1, <1>2, <1>3 DEF DexCovered

LEMMA SaveCovered ==
    ASSUME DexWork, PairsInv, DexKnown, DexCovered, DexSave \/ DexSaveAnswerLost
    PROVE  DexCovered'
<1>0. PICK c : c = batch[1]
  OBVIOUS
<1>1. /\ pc = "save" /\ UpsertPairs(c) /\ taskNum' = c.num /\ done' = done \cup {c}
      /\ skipped' = skipped
      /\ curHeight' = curHeight \/ curHeight' = Last(batch).num
  BY <1>0 DEF DexSave, DexSaveAnswerLost, Saved, Retry, loopVars, history
<1>2. /\ c \in Blocks /\ ToSet(batch) = {c} /\ curHeight \in Nat /\ c.num = curHeight + 1
      /\ Last(batch) = c /\ pc \in Running
  BY <1>0, <1>1, DexBatchFacts
<1>3. \A x : Settled(x) => Settled(x)'
  BY WorkDexKnown
<1>4. Settled(c)'
  BY <1>2, <1>3 DEF DexKnown
<1>5. Shown(c)' /\ \A b \in Blocks : Shown(b) /\ b.num < c.num => Shown(b)'
  BY <1>1, <1>2, UpsertShown
<1>6. ASSUME NEW n \in 1..c.num
      PROVE  n \in skipped' \/ \E b \in done' : b.num = n /\ Shown(b)' /\ Settled(b)'
  <2>1. CASE n = c.num
    BY <1>1, <1>4, <1>5, <2>1
  <2>2. CASE n # c.num /\ n \notin skipped
    <3>1. n \in 1..curHeight /\ n < c.num
      BY <1>2, <2>2
    <3>2. PICK b \in done : b.num = n /\ Shown(b) /\ Settled(b)
      BY <1>2, <2>2, <3>1 DEF DexCovered
    <3>3. b \in Blocks
      BY DEF PairsInv
    <3>4. QED
      BY <1>1, <1>3, <1>5, <3>1, <3>2, <3>3
  <2>3. QED
    BY <1>1, <2>1, <2>2
<1>7. \A n \in 1..curHeight' : n \in 1..c.num
  BY <1>1, <1>2
<1>8. QED
  BY <1>1, <1>6, <1>7 DEF DexCovered

LEMMA RestartCoveredDex ==
    ASSUME DexWork, DexCovered, DexRestart PROVE DexCovered'
<1>1. /\ curHeight' = taskNum /\ taskNum' = taskNum
      /\ skipped' = (skipped \cap 1..taskNum) \cup {}
      /\ pairs' = pairs /\ done' = done
  BY DEF DexRestart, Restart
<1>2. \A b \in done : Settled(b)'
  BY RestartDexKnown
<1>3. \A b : Shown(b)' <=> Shown(b)
  BY <1>1, SameShown
<1>4. ASSUME NEW n \in 1..taskNum
      PROVE  n \in skipped' \/ \E b \in done' : b.num = n /\ Shown(b)' /\ Settled(b)'
  BY <1>1, <1>2, <1>3 DEF DexCovered
<1>5. QED
  BY <1>1, <1>4 DEF DexCovered

LEMMA InitDexCovered == ASSUME DexInit PROVE DexCovered
<1>1. /\ taskNum = StartNumber /\ curHeight = StartNumber
      /\ done = {StartChain[n] : n \in 1..StartNumber}
  BY DEF DexInit, Init
<1>2. \A b \in done : Settled(b)
  BY InitDexKnown
<1>3. ASSUME NEW n \in 1..StartNumber PROVE Shown(StartChain[n])
  <2> SUFFICES ASSUME NEW p \in Synced(StartChain[n])
               PROVE  /\ p \in DOMAIN pairs
                      /\ \/ /\ pairs[p].blk = StartChain[n]
                            /\ pairs[p].at \in LastSync(StartChain[n], p)
                         \/ pairs[p].blk.num > StartChain[n].num
    BY DEF Shown
  <2>1. n \in StartsWith(p) /\ p \in Pairs
    BY DEF StartsWith, Synced
  <2>2. p \in DOMAIN pairs
    BY <2>1, InitRowsFacts
  <2>3. PICK m \in StartsWith(p) : /\ pairs[p] = PairRow(StartChain[m], p, "read")
                                   /\ n <= m
    BY <2>1, <2>2, InitRowsFacts
  <2>4. m \in 1..StartNumber /\ p \in Synced(StartChain[m])
    BY DEF StartsWith
  <2>5. pairs[p].blk = StartChain[m] /\ pairs[p].at \in LastSync(StartChain[m], p)
    BY <2>3, <2>4, RowIs
  <2>6. StartChain[m].num = m /\ StartChain[n].num = n
    BY <2>4, StartFacts
  <2>7. m = n \/ m > n
    BY <2>3, <2>4
  <2>8. QED
    BY <2>2, <2>5, <2>6, <2>7
<1>4. \A n \in 1..StartNumber : StartChain[n] \in done /\ StartChain[n].num = n
  BY <1>1, StartFacts
<1>5. QED
  BY <1>1, <1>2, <1>3, <1>4 DEF DexCovered

LEMMA NextDexCovered ==
    ASSUME DexPairConstants, DexWork, PairsInv, DexKnown, DexCovered, [DexNext]_dexTaskVars
    PROVE  DexKnown' /\ DexCovered'
<1>1. ASSUME DexKnown', DexKeeps, UNCHANGED <<pairs, done, taskNum>>, skipped \subseteq skipped',
             pc' \in Running => pc \in Running /\ curHeight' \in Int /\ curHeight' <= curHeight
      PROVE  DexKnown' /\ DexCovered'
  BY <1>1, KeepsCovered
<1>2. curHeight \in Nat /\ LoopTypeOK /\ FeedInv
  BY DEF DexWork, LoopTypeOK
<1>3. CASE Idle /\ UNCHANGED dexVars
  <2>1. DexKnown' /\ DexKeeps
    BY <1>3, IdleDexKnown
  <2>2. UNCHANGED <<curHeight, taskNum, skipped>> /\ PcMoves
    BY <1>2, <1>3, IdleFacts DEF history
  <2>3. pc' \in Running => pc \in Running
    BY <2>2 DEF PcMoves, Between
  <2>4. QED
    BY <1>1, <1>2, <1>3, <2>1, <2>2, <2>3 DEF dexVars
<1>4. CASE (BaseApplies \/ \E e \in Event : Publish(e)) /\ UNCHANGED dexVars
  <2>1. DexKnown' /\ DexKeeps
    BY <1>4, FeedDexKnown
  <2>2. UNCHANGED <<pc, curHeight, taskNum, skipped>>
    BY <1>4 DEF BaseApplies, Publish, loopVars, history
  <2>3. QED
    BY <1>1, <1>2, <1>4, <2>1, <2>2 DEF dexVars
<1>5. ASSUME NEW e \in Event, PassedBy(e) \/ ReceiveNext(e) \/ ReceiveRevert(e),
             UNCHANGED dexVars
      PROVE  DexKnown' /\ DexCovered'
  <2>1. DexKnown' /\ DexKeeps
    BY <1>5, ReceiveDexKnown
  <2>2. Take(e) /\ curHeight' = curHeight
    BY <1>2, <1>5, PassedByFacts DEF ReceiveNext, ReceiveRevert
  <2>3. UNCHANGED <<taskNum, skipped>> /\ pc \in Running
    BY <1>2, <2>2, TakenFacts DEF Between
  <2>4. QED
    BY <1>1, <1>2, <1>5, <2>1, <2>2, <2>3 DEF dexVars
<1>6. CASE (ReadFound(DexRangeEnd) \/ ReadFails) /\ UNCHANGED dexVars
  <2>1. DexKnown' /\ \A x : Settled(x) => Settled(x)'
    BY <1>6, ReadDexKnown
  <2>2. UNCHANGED <<curHeight, taskNum, skipped>> /\ pc = "catchup"
    BY <1>6 DEF ReadFound, ReadFails, history
  <2>3. pc \in Running
    BY <2>2 DEF Running
  <2>4. QED
    BY <1>1, <1>2, <1>6, <2>1, <2>2, <2>3 DEF dexVars, DexKeeps
<1>7. CASE DexSkip /\ UNCHANGED dexVars
  BY <1>7, SkipCovered, ReadDexKnown
<1>8. ASSUME UNCHANGED <<pc, loopVars, workVars, feedVars, taskNum, envVars, history>>,
             UNCHANGED <<pairs, done>>
      PROVE  DexKnown' /\ DexCovered'
  <2>1. DexKnown' /\ \A x : Settled(x) => Settled(x)'
    BY <1>8, SteadyDexKnown DEF loopVars, workVars, history
  <2>2. QED
    BY <1>1, <1>2, <1>8, <2>1 DEF loopVars, history, DexKeeps
<1>9. CASE DexHandle
  <2>1. DexKnown' /\ \A x : Settled(x) => Settled(x)'
    BY <1>9, HandleDexKnown
  <2>2. pc = "handle" /\ UNCHANGED <<curHeight, taskNum, skipped, pairs, done>>
    BY <1>9 DEF DexHandle, Cut, loopVars, history
  <2>3. pc \in Running
    BY <2>2 DEF Running
  <2>4. QED
    BY <1>1, <1>2, <2>1, <2>2, <2>3 DEF DexKeeps
<1>10. CASE DexSave \/ DexSaveAnswerLost
  BY <1>10, SaveCovered, WorkDexKnown
<1>11. CASE DexRevert
  <2>1. DexKnown' /\ DexKeeps
    BY <1>11, RevertDexKnown
  <2>2. /\ pc = "revert" /\ curHeight' = inHand[1].blk.num - 1
        /\ inHand[1].blk.num \in Nat /\ inHand[1].blk.num <= curHeight
        /\ UNCHANGED <<taskNum, skipped, pairs, done>>
    BY <1>11, DexRevertFacts DEF history, dexVars
  <2>3. pc \in Running
    BY <2>2 DEF Running
  <2>4. QED
    BY <1>1, <1>2, <2>1, <2>2, <2>3
<1>12. CASE DexRecord
  BY <1>12, RecordCoveredDex, WorkDexKnown
<1>13. CASE DexFails
  <2>1. DexKnown' /\ \A x : Settled(x) => Settled(x)'
    BY <1>13, WorkDexKnown
  <2>2. pc \in Running /\ UNCHANGED <<curHeight, taskNum, skipped, pairs, done>>
    BY <1>13 DEF DexFails, Retry, loopVars, history, dexVars, Running
  <2>3. QED
    BY <1>1, <1>2, <2>1, <2>2 DEF DexKeeps
<1>14. CASE DexRestart
  BY <1>14, RestartCoveredDex, RestartDexKnown
<1>15. ASSUME NEW p \in Pairs, EvictPair(p) PROVE DexKnown' /\ DexCovered'
  BY <1>8, <1>15 DEF EvictPair
<1>16. UNCHANGED dexVars => UNCHANGED <<pairs, done>>
  BY DEF dexVars
<1>17. QED
  BY <1>3, <1>4, <1>5, <1>6, <1>7, <1>8, <1>9, <1>10, <1>11, <1>12, <1>13, <1>14, <1>15, <1>16,
     DexCases

DexInv == DexWork /\ PairsInv /\ DexKnown /\ DexCovered

LEMMA DexInvariant == ASSUME DexPairConstants PROVE DexSpec => []DexInv
<1>1. DexInit => DexInv
  BY InitDexWork, InitPairs, InitDexKnown, InitDexCovered DEF DexInv
<1>2. DexInv /\ [DexNext]_dexTaskVars => DexInv'
  BY NextDexWork, NextPairs, NextDexCovered DEF DexInv, PairsInv
<1>3. QED
  BY <1>1, <1>2, PTL DEF DexSpec

\* The types of dex_pair: the rows are of blocks, and have tokens.
THEOREM DexTypesHold == ASSUME DexPairConstants PROVE DexSpec => []DexTypeOK
<1>1. DexInv => DexTypeOK
  BY DEF DexInv, DexWork, PairsInv, DexTypeOK
<1>2. QED
  BY <1>1, DexInvariant, PTL

\* Every row of token_pair has the tokens of its pair, or was refused them:
\* isNeedToGetPairTokens passes over a pair only if it has a row.
THEOREM PairsHaveTokens == ASSUME DexPairConstants PROVE DexSpec => []TokensAsked
<1>1. DexInv => TokensAsked
  BY DEF DexInv, PairsInv, TokensAsked
<1>2. QED
  BY <1>1, DexInvariant, PTL

\* A block of the feed, up to the height, that was neither passed over nor is to
\* come again: it is the block handled at its height.
LEMMA DueIsDone ==
    ASSUME DexInv, pc \in Running, NEW b \in ToSet(sent), Due(b)
    PROVE  b \in Blocks /\ b \in done /\ Shown(b)
<1>1. /\ LoopTypeOK /\ FeedInv /\ sent \in Seq(Blocks) /\ Numbered(sent)
      /\ DOMAIN sent = 1..Len(sent)
  BY LenProperties DEF DexInv, DexWork, FeedInv, FeedTypeOK
<1>2. PICK i \in DOMAIN sent : b = sent[i]
  BY DEF ToSet
<1>3. b \in Blocks /\ b.num = i /\ b.num \in Nat /\ b.num >= 1
  BY <1>1, <1>2, ElementOfSeq, TaskFeedAssumption DEF Numbered
<1>4. curHeight \in Nat /\ b.num <= curHeight /\ ~PassedOver(b.num) /\ ~ToRedo(b.num)
  BY <1>1 DEF Due, LoopTypeOK
<1>5. b.num \in 1..curHeight /\ b.num \notin skipped
  BY <1>3, <1>4 DEF PassedOver
<1>6. PICK c \in done : c.num = b.num /\ Shown(c) /\ Settled(c)
  BY <1>5 DEF DexInv, DexCovered
<1>7. c \notin astray
  BY <1>4, <1>6 DEF PassedOver
<1>8. ~RevertComing(c)
  <2> SUFFICES ASSUME RevertComing(c) PROVE FALSE
    OBVIOUS
  <2>1. PICK k \in DOMAIN ToApply : ToApply[k] = [state |-> "revert", blk |-> c]
    BY <1>1, ToApplyFacts DEF ToRevert
  <2>2. ToApply[k].state = "revert" /\ ToApply[k].blk.num <= b.num
    BY <1>3, <1>6, <2>1
  <2>3. QED
    BY <1>4, <2>2 DEF ToRedo
<1>9. PICK j \in DOMAIN sent : sent[j] = c
  BY <1>6, <1>7, <1>8 DEF Settled, Stands
<1>10. c.num = j
  BY <1>1, <1>9 DEF Numbered
<1>11. c = b
  BY <1>2, <1>3, <1>6, <1>9, <1>10
<1>12. QED
  BY <1>3, <1>6, <1>11

\* No pair shows reserves from before the block that changed them last, whatever
\* attempts failed and whatever was reverted; where catch-up or a restart passed
\* over a block its events are excepted.
THEOREM ReservesStayFresh == ASSUME DexPairConstants PROVE DexSpec => []ReservesFresh
<1>1. ASSUME DexInv PROVE ReservesFresh
  <2> SUFFICES ASSUME pc \in Subscribed, NEW b \in ToSet(sent), Due(b),
                      NEW i \in DOMAIN b.syncs, b.syncs[i].decodes
               PROVE  /\ b.syncs[i].pair \in DOMAIN pairs
                      /\ \/ /\ pairs[b.syncs[i].pair].blk = b
                            /\ pairs[b.syncs[i].pair].at >= i
                            /\ b.syncs[pairs[b.syncs[i].pair].at].decodes
                         \/ pairs[b.syncs[i].pair].blk.num > b.num
    BY DEF ReservesFresh
  <2> DEFINE p == b.syncs[i].pair
  <2>1. pc \in Running
    BY DEF Subscribed
  <2>2. b \in Blocks /\ Shown(b)
    BY <1>1, <2>1, DueIsDone
  <2>3. b.syncs \in Seq([pair : Pairs, decodes : BOOLEAN])
    BY <2>2 DEF DexPairConstants
  <2>4. p \in Pairs
    <3>1. DOMAIN b.syncs = 1..Len(b.syncs)
      BY <2>3, LenProperties
    <3>2. b.syncs[i] \in [pair : Pairs, decodes : BOOLEAN]
      BY <2>3, <3>1, ElementOfSeq
    <3>3. QED
      BY <3>2
  <2>5. PICK m \in DOMAIN b.syncs :
           /\ LastSync(b, p) = {m} /\ b.syncs[m].decodes
           /\ \A k \in DOMAIN b.syncs : b.syncs[k].pair = p /\ b.syncs[k].decodes => k <= m
    BY <2>2, LastSyncFacts
  <2>6. p \in Synced(b) /\ i <= m
    BY <2>4, <2>5 DEF Synced
  <2>7. m \in Int /\ i \in Int
    BY <2>3, LenProperties
  <2>8. /\ p \in DOMAIN pairs
        /\ \/ pairs[p].blk = b /\ pairs[p].at = m
           \/ pairs[p].blk.num > b.num
    BY <2>2, <2>5, <2>6 DEF Shown
  <2>9. QED
    BY <2>5, <2>6, <2>7, <2>8
<1>2. QED
  BY <1>1, DexInvariant, PTL

----------------------------------------------------------------------------
(* The balance tasks. *)

\* What is saved reaches block n, or one of the exceptions is true of it.
Reaches(row, n) == row.unsure \/ Unanswered(row) \/ Len(row.at) >= n

\* The height a balance is saved with is one the node had, or the row says so.
Timely(row) == row.unsure \/ Unanswered(row) \/ Len(row.at) >= row.height

\* A balance is read, by a call of the contract or not, or the call failed.
ReadBalance(calls) ==
    /\ pc = "query"
    /\ \E k \in asking \ DOMAIN answers :
          \E c \in {View, <<>>}, h \in Nat, unsure \in BOOLEAN :
             /\ answers' = Overlaid(answers, [j \in {k} |-> Balance(c, h, unsure)])
             /\ Timely(Balance(c, h, unsure))
             /\ calls => Reaches(Balance(c, h, unsure), Last(batch).num)
    /\ fails' \in fails..MaxFails
    /\ UNCHANGED <<pc, feedVars, loopVars, workVars, taskNum, envVars, history,
                   nodeVars, lag, asking, cacheVars, balances, handled, counted, misled>>

\* All are read; without the contract the height comes last.
AnswersRead(calls) ==
    IF calls THEN /\ pc = "query" /\ asking = DOMAIN answers
                  /\ QueryAnswered /\ UNCHANGED queryVars
    ELSE ReadHeight(Last(batch).num)

\* The steps of the three tasks, by what they do.
BalanceNext(calls) ==
    \/ Common \/ \E end \in Nat : end >= curHeight /\ CatchUp(end)
    \/ AskForTouched \/ ReadBalance(calls) \/ AnswersRead(calls)
    \/ Save \/ RecordHeight \/ CleanAndHandle \/ RecordReverted \/ RecordBelow

----------------------------------------------------------------------------
(* Types, and what is in hand. *)

\* The height of the feed as the task has heard of it.
FeedHeight == Reached(blockChan, Len(sent))

RowOK(row) == row.at \in Seq(Blocks) /\ Numbered(row.at) /\ row.height \in Nat

\* What is in hand where.
BalanceHand ==
    /\ pc # "origin"
    /\ pc \in Running => tries <= RetryTimes
    /\ pc \in Between => inHand = <<>> /\ todo = <<>> /\ batch = <<>> /\ tries = 0
    /\ pc \in {"revert", "handle", "record"} => batch = <<>>
    /\ pc \in {"revert", "handle", "height", "record"} => tries = 0
    /\ pc = "handle" => todo # <<>>
    /\ pc \in {"query", "save", "height"} => batch # <<>>
    /\ pc \in Running /\ pc # "handle" => todo = <<>>
    /\ pc \in {"revert", "record"} => ForRevert

\* The blocks in hand are those above the height, in their order, or the one
\* that is reverted; and the feed is where the event in hand has led it.
BalanceFollows ==
    /\ ~ForRevert => /\ \A i \in DOMAIN todo : todo[i].num = curHeight + i
                     /\ \A i \in DOMAIN batch : batch[i].num = curHeight + i
    /\ inHand # <<>> /\ ~ForRevert => FeedHeight = curHeight + 1
    /\ ForRevert => /\ inHand[1].blk.num <= curHeight
                    /\ FeedHeight = inHand[1].blk.num - 1
                    /\ \A b \in ToSet(todo) \cup ToSet(batch) : b = inHand[1].blk

\* The balances to ask for: of a block that is reverted all, since cache and
\* filter are empty.
BalanceAsks ==
    /\ pc \in Running \ {"query", "save"} => asking = {}
    /\ pc \in {"query", "save"} => asking \subseteq UNION {b.touches : b \in ToSet(batch)}
    /\ pc = "save" => DOMAIN answers = asking
    /\ ForRevert /\ pc \in {"query", "save"} => asking = inHand[1].blk.touches
    /\ ForRevert /\ pc \in {"handle", "query", "save"} => filter = {}
    /\ ForRevert /\ pc = "handle" => DOMAIN lru = {}

RowsRead == /\ \A k \in DOMAIN answers : RowOK(answers[k])
            /\ \A k \in DOMAIN balances : RowOK(balances[k])

BalanceWork == /\ BalanceTypeOK /\ FeedInv /\ RowsRead
               /\ BalanceHand /\ BalanceFollows /\ BalanceAsks

----------------------------------------------------------------------------
(* The operators of the tasks. *)

LEMMA FitsFacts ==
    ASSUME NEW full, NEW f \in Fits(full)
    PROVE  /\ DOMAIN f \subseteq DOMAIN full
           /\ \A k \in DOMAIN f : f[k] = full[k]
           /\ Cardinality(DOMAIN f) <= CacheSize
<1>1. PICK kept \in SUBSET DOMAIN full :
         /\ f = [k \in kept |-> full[k]]
         /\ \/ Cardinality(kept) = CacheSize
            \/ kept = DOMAIN full /\ Cardinality(kept) <= CacheSize
  BY DEF Fits
<1>2. DOMAIN f = kept
  BY <1>1
<1>3. Cardinality(kept) <= CacheSize
  BY <1>1, BalanceTaskAssumption
<1>4. QED
  BY <1>1, <1>2, <1>3

LEMMA OverlaidFacts ==
    ASSUME NEW f, NEW g
    PROVE  /\ DOMAIN Overlaid(f, g) = DOMAIN f \cup DOMAIN g
           /\ \A k \in DOMAIN g : Overlaid(f, g)[k] = g[k]
           /\ \A k \in DOMAIN f \ DOMAIN g : Overlaid(f, g)[k] = f[k]
BY DEF Overlaid

\* Linked blocks are numbered as they stand.
LEMMA LinkedNumbered ==
    ASSUME NEW c \in Seq(Blocks), c # <<>>, Linked(c) PROVE Numbered(c)
<1> DEFINE n == Len(c)
           odd == {i \in 1..n : c[i].num # i}
<1>1. n \in Nat /\ n >= 1 /\ DOMAIN c = 1..n /\ \A i \in 1..n : c[i] \in Blocks
  BY LenProperties, EmptySeq, ElementOfSeq
<1>2. c[1].parent = GenesisHash /\ \A i \in 2..n : c[i].parent = c[i - 1].hash
  BY DEF Linked
<1> HIDE DEF n
<1>3. odd = {}
  <2> SUFFICES ASSUME odd # {} PROVE FALSE
    OBVIOUS
  <2>1. odd \subseteq Nat
    BY <1>1
  <2>2. PICK i \in odd : \A j \in odd : i <= j
    BY <2>1, LeastNumber
  <2>3. i \in 1..n /\ c[i].num # i
    OBVIOUS
  <2>4. i # 1
    BY <1>1, <1>2, <2>3, TaskFeedAssumption
  <2>5. i \in 2..n /\ i - 1 \in 1..n /\ i - 1 \notin odd
    BY <1>1, <2>2, <2>3, <2>4
  <2>6. c[i - 1].num = i - 1
    BY <2>5
  <2>7. c[i].num = c[i - 1].num + 1
    BY <1>1, <1>2, <2>3, <2>5, TaskFeedAssumption
  <2>8. QED
    BY <1>1, <2>3, <2>5, <2>6, <2>7
<1>4. QED
  BY <1>1, <1>3 DEF Numbered

\* The chain of the node that answers is the beginning of that of the node.
LEMMA ViewFacts ==
    ASSUME BalanceTypeOK
    PROVE  /\ View \in Seq(Blocks) /\ Len(View) \in Nat /\ Len(View) >= 1
           /\ Numbered(View) /\ ToSet(View) \subseteq ToSet(node)
           /\ Numbered(node)
<1> DEFINE n == Len(node) - lag
<1>1. /\ node \in Seq(Blocks) /\ Linked(node) /\ lag \in 0..MaxLag /\ lag < Len(node)
      /\ Len(node) \in Nat /\ MaxLag \in Nat
  BY LenProperties, BalanceTaskAssumption DEF BalanceTypeOK
<1>2. n \in 1..Len(node) /\ DOMAIN node = 1..Len(node)
  BY <1>1, LenProperties
<1>3. node # <<>>
  BY <1>1, EmptySeq
<1>4. Numbered(node)
  BY <1>1, <1>3, LinkedNumbered
<1>5. \A i \in 1..n : node[i] \in Blocks
  BY <1>1, <1>2, ElementOfSeq
<1> HIDE DEF n
<1>6. /\ SubSeq(node, 1, n) \in Seq(Blocks)
      /\ Len(SubSeq(node, 1, n)) = IF 1 <= n THEN n - 1 + 1 ELSE 0
      /\ \A i \in 1..(n - 1 + 1) : SubSeq(node, 1, n)[i] = node[1 + i - 1]
  BY <1>2, <1>5, SubSeqProperties
<1>7. View = SubSeq(node, 1, n)
  BY DEF View, n
<1>8. View \in Seq(Blocks) /\ Len(View) = n /\ \A i \in 1..n : View[i] = node[i]
  BY <1>2, <1>6, <1>7
<1>9. DOMAIN View = 1..n
  BY <1>8, LenProperties
<1>10. Numbered(View) /\ ToSet(View) \subseteq ToSet(node)
  BY <1>2, <1>4, <1>8, <1>9 DEF Numbered, ToSet
<1>11. QED
  BY <1>2, <1>4, <1>8, <1>10

LEMMA AskFacts ==
    ASSUME BalanceTypeOK, NEW keys, Ask(keys)
    PROVE  /\ asking' = keys /\ answers' = Empty /\ DOMAIN answers' = {}
           /\ lag' \in 0..MaxLag /\ lag' < Len(node)
<1>1. /\ asking' = keys /\ answers' = Empty
      /\ lag' \in IF keys = {} THEN {0} ELSE 0..Min({MaxLag, Len(node) - 1})
  BY DEF Ask
<1>2. MaxLag \in Nat /\ Len(node) \in Nat /\ Len(node) >= 1
  BY LenProperties, BalanceTaskAssumption DEF BalanceTypeOK
<1>3. PICK n \in Nat : n = Len(node) - 1
  BY <1>2
<1>6. /\ Min({MaxLag, n}) \in {MaxLag, n}
      /\ Min({MaxLag, n}) <= MaxLag /\ Min({MaxLag, n}) <= n
  <2>1. MaxLag \in Int /\ n \in Int
    BY <1>2, <1>3
  <2>2. QED
    BY <2>1, MinOfTwo, Zenon
<1>7. PICK m \in Nat : Min({MaxLag, n}) = m /\ m <= MaxLag /\ m <= n
  BY <1>2, <1>3, <1>6
<1>4. lag' \in 0..MaxLag /\ lag' < Len(node)
  <2>1. CASE keys = {}
    BY <1>1, <1>2, <2>1
  <2>2. CASE keys # {}
    BY <1>1, <1>2, <1>3, <1>7, <2>2
  <2>3. QED
    BY <2>1, <2>2
<1>5. DOMAIN Empty = {}
  BY DEF Empty
<1>8. QED
  BY <1>1, <1>4, <1>5

\* The block that is reverted.
LEMMA RevertHand ==
    ASSUME LoopTypeOK, ForRevert
    PROVE  /\ inHand = <<Reverting(inHand[1].blk)>> /\ inHand[1] \in Event
           /\ inHand[1].blk \in Blocks /\ inHand[1].blk.num \in Nat
           /\ inHand[1].blk.num >= 1 /\ RevertComing(inHand[1].blk)
<1>1. inHand \in Seq(Event) /\ Len(inHand) <= 1 /\ inHand # <<>>
  BY DEF LoopTypeOK, ForRevert
<1>7. Len(inHand) \in Nat /\ Len(inHand) # 0 /\ DOMAIN inHand = 1..Len(inHand)
  BY <1>1, LenProperties, EmptySeq
<1>8. Len(inHand) = 1 /\ 1..1 = {1}
  BY <1>1, <1>7
<1>2. Len(inHand) = 1 /\ inHand[1] \in Event /\ DOMAIN inHand = {1}
  BY <1>1, <1>7, <1>8, ElementOfSeq
<1>3. inHand[1] = Reverting(inHand[1].blk)
  BY <1>2 DEF Event, ForRevert, Reverting
<1>4. inHand = <<inHand[1]>>
  BY <1>1, <1>2
<1>5. Reverting(inHand[1].blk) \in ToSet(inHand)
  BY <1>2, <1>3 DEF ToSet
<1>6. QED
  BY <1>2, <1>3, <1>4, <1>5, EventFacts DEF RevertComing

\* The batch that is asked for, saved or recorded.
LEMMA BatchHand ==
    ASSUME BalanceWork, pc \in {"query", "save", "height"}
    PROVE  /\ batch \in Seq(Blocks) /\ Len(batch) \in Nat /\ Len(batch) >= 1
           /\ DOMAIN batch = 1..Len(batch) /\ Last(batch) = batch[Len(batch)]
           /\ \A i \in 1..Len(batch) : batch[i] \in Blocks
           /\ Last(batch) \in ToSet(batch) /\ batch[1] \in ToSet(batch)
           /\ Last(batch).num \in Nat /\ batch[1].num \in Nat
           /\ \A b \in ToSet(batch) : b \in Blocks /\ b.num <= Last(batch).num
                                      /\ b.num \in Nat /\ b.num >= batch[1].num
           /\ ForRevert => Last(batch) = inHand[1].blk /\ batch[1] = inHand[1].blk
           /\ ~ForRevert => Last(batch).num = curHeight + Len(batch)
                            /\ batch[1].num = curHeight + 1
                            /\ \A b \in ToSet(batch) : b.num \in (curHeight + 1)..Last(batch).num
<1>1. /\ batch \in Seq(Blocks) /\ batch # <<>> /\ curHeight \in Nat
      /\ BalanceFollows
  BY DEF BalanceWork, BalanceTypeOK, LoopTypeOK, BalanceHand
<1> DEFINE n == Len(batch)
<1>2. n \in Nat /\ n >= 1 /\ DOMAIN batch = 1..n /\ \A i \in 1..n : batch[i] \in Blocks
  BY <1>1, LenProperties, EmptySeq, ElementOfSeq
<1>3. Last(batch) = batch[n]
  BY DEF Last
<1> HIDE DEF n
<1>4. /\ \A b \in ToSet(batch) : \E i \in 1..n : b = batch[i]
      /\ \A i \in 1..n : batch[i] \in ToSet(batch)
  BY <1>2 DEF ToSet
<1>5. \A b \in ToSet(batch) : b \in Blocks /\ b.num \in Nat
  BY <1>2, <1>4, TaskFeedAssumption
<1>6. Last(batch) \in ToSet(batch) /\ batch[1] \in ToSet(batch)
  BY <1>2, <1>3, <1>4
<1>7. CASE ForRevert
  <2>1. \A b \in ToSet(batch) : b = inHand[1].blk
    BY <1>1, <1>7 DEF BalanceFollows
  <2>2. \A b \in ToSet(batch) : b = Last(batch) /\ b = batch[1]
    BY <1>6, <2>1
  <2>3. Last(batch).num \in Nat /\ \A x \in Nat : x <= x /\ x >= x
    BY <1>5, <1>6
  <2>4. QED
    BY <1>1, <1>2, <1>3, <1>5, <1>6, <1>7, <2>1, <2>2, <2>3 DEF n
<1>8. CASE ~ForRevert
  <2>1. \A i \in 1..n : batch[i].num = curHeight + i
    BY <1>1, <1>2, <1>8 DEF BalanceFollows
  <2>2. Last(batch).num = curHeight + n /\ batch[1].num = curHeight + 1
    BY <1>2, <1>3, <2>1
  <2>3. \A b \in ToSet(batch) : b.num \in (curHeight + 1)..Last(batch).num
    <3> SUFFICES ASSUME NEW b \in ToSet(batch)
                 PROVE  b.num \in (curHeight + 1)..Last(batch).num
      OBVIOUS
    <3>1. PICK i \in 1..n : b = batch[i]
      BY <1>4
    <3>2. b.num = curHeight + i
      BY <2>1, <3>1
    <3>3. QED
      BY <1>1, <1>2, <2>2, <3>2
  <2>4. QED
    BY <1>1, <1>2, <1>3, <1>5, <1>6, <1>8, <2>2, <2>3 DEF n
<1>9. QED
  BY <1>7, <1>8
----------------------------------------------------------------------------
(* Types, and what is in hand, step by step. *)

LEMMA InitBalance == ASSUME BalanceInit PROVE BalanceWork
<1> DEFINE n == StartNumber
<1>1. /\ Init /\ CacheInit /\ node = StartChain /\ reorgs = 0
      /\ lag = 0 /\ asking = {} /\ answers = Empty /\ misled = {} /\ fails = 0
      /\ handled = ToSet(SubSeq(StartChain, 1, n)) /\ counted = handled
  BY DEF BalanceInit
<1>2. PICK m \in n..Len(StartChain) :
         balances = [k \in Touched(SubSeq(StartChain, 1, n)) |->
                        Balance(SubSeq(StartChain, 1, m), m, FALSE)]
  BY DEF BalanceInit
<1>3. /\ FeedInit /\ pc = "created" /\ cache = <<>> /\ curHeight = n /\ latestHeight = 0
      /\ compensation = 0 /\ inHand = <<>> /\ todo = <<>> /\ batch = <<>> /\ tries = 0
      /\ taskNum = n /\ restarts = 0 /\ stopping = FALSE
      /\ skipped = {} /\ gone = {} /\ astray = {}
  BY <1>1 DEF Init
<1>4. /\ n \in 0..Len(StartChain) /\ StartChain \in Seq(Blocks) /\ Numbered(StartChain)
      /\ StartChain # <<>> /\ Linked(StartChain) /\ Len(StartChain) \in Nat
      /\ Len(StartChain) >= 1
  BY AsyncTaskAssumption, TaskFeedAssumption, BalanceTaskAssumption, LenProperties, EmptySeq
     DEF Numbered
<1>5. /\ DOMAIN StartChain = 1..Len(StartChain)
      /\ \A i \in 1..Len(StartChain) : StartChain[i] \in Blocks
  BY <1>4, LenProperties, ElementOfSeq
<1>6. FeedInv
  BY <1>3, InitFeedInv
<1>7. \A j \in 0..Len(StartChain) :
         LET s == SubSeq(StartChain, 1, j)
         IN  /\ s \in Seq(Blocks) /\ Numbered(s) /\ Len(s) = j
             /\ \A i \in DOMAIN s : s[i] = StartChain[i] /\ s[i] \in Blocks
  <2> SUFFICES ASSUME NEW j \in 0..Len(StartChain)
               PROVE  LET s == SubSeq(StartChain, 1, j)
                      IN  /\ s \in Seq(Blocks) /\ Numbered(s) /\ Len(s) = j
                          /\ \A i \in DOMAIN s : s[i] = StartChain[i] /\ s[i] \in Blocks
    OBVIOUS
  <2> DEFINE s == SubSeq(StartChain, 1, j)
  <2>1. j \in Nat /\ j <= Len(StartChain) /\ \A i \in 1..j : StartChain[i] \in Blocks
    BY <1>4, <1>5
  <2>2. /\ s \in Seq(Blocks) /\ Len(s) = IF 1 <= j THEN j - 1 + 1 ELSE 0
        /\ \A i \in 1..(j - 1 + 1) : s[i] = StartChain[1 + i - 1]
    BY <2>1, SubSeqProperties
  <2> HIDE DEF s
  <2>3. Len(s) = j /\ DOMAIN s = 1..j /\ \A i \in 1..j : s[i] = StartChain[i]
    BY <2>1, <2>2, LenProperties
  <2>4. Numbered(s)
    BY <1>4, <1>5, <2>1, <2>3 DEF Numbered
  <2>5. QED
    BY <1>5, <2>1, <2>2, <2>3, <2>4 DEF s
<1>8. handled \subseteq Blocks /\ counted \subseteq handled
  BY <1>1, <1>4, <1>7 DEF ToSet
<1>9. DOMAIN balances \subseteq Keys
  <2>1. \A b \in ToSet(SubSeq(StartChain, 1, n)) : b.touches \subseteq Keys
    BY <1>1, <1>8, BalanceTaskAssumption
  <2>2. QED
    BY <1>2, <2>1 DEF Touched
<1>10. DOMAIN answers = {} /\ DOMAIN lru = {} /\ filter = {} /\ Cardinality({}) = 0
  BY <1>1, FS_EmptySet DEF Empty, CacheInit
<1>11. RowsRead
  <2>1. m \in Nat /\ m \in 0..Len(StartChain)
    BY <1>4
  <2>2. RowOK(Balance(SubSeq(StartChain, 1, m), m, FALSE))
    BY <1>7, <2>1 DEF RowOK, Balance
  <2>3. QED
    BY <1>2, <1>10, <2>2 DEF RowsRead
<1>12. LoopTypeOK
  <2>1. /\ <<>> \in Seq(Blocks) /\ <<>> \in Seq(Event) /\ Len(<<>>) = 0
    BY EmptySeq
  <2>2. /\ 0 \in 0..CompensationCap /\ 0 \in 0..(RetryTimes + 1) /\ BufferSize \in Nat
        /\ 0 \in 0..MaxRestarts /\ n \in Nat
    BY <1>4, AsyncTaskAssumption, TaskFeedAssumption
  <2>3. FeedTypeOK /\ pc \in Running
    BY <1>3, <1>6 DEF FeedInv, Running
  <2>4. stopping \in BOOLEAN /\ {} \subseteq Nat /\ {} \subseteq Blocks
    BY <1>3
  <2> HIDE DEF n
  <2>5. QED
    BY <1>3, <2>1, <2>2, <2>3, <2>4 DEF LoopTypeOK
<1>13. BalanceTypeOK
  <2>1. /\ 0 \in 0..MaxReorgs /\ 0 \in 0..MaxLag /\ 0 \in 0..MaxFails /\ 0 <= CacheSize
    BY BalanceTaskAssumption
  <2>2. QED
    BY <1>1, <1>4, <1>8, <1>9, <1>10, <1>12, <2>1 DEF BalanceTypeOK
<1>14. ~ForRevert /\ DOMAIN <<>> = {}
  BY <1>3 DEF ForRevert
<1>15. BalanceHand /\ BalanceFollows /\ BalanceAsks
  BY <1>1, <1>3, <1>14, AsyncTaskAssumption
     DEF BalanceHand, BalanceFollows, BalanceAsks, Between, Running
<1>16. QED
  BY <1>6, <1>11, <1>13, <1>15 DEF BalanceWork

LEMMA BalanceTypesStay ==
    ASSUME BalanceTypeOK, LoopTypeOK', UNCHANGED balanceVars PROVE BalanceTypeOK'
BY DEF BalanceTypeOK, balanceVars, nodeVars, queryVars, cacheVars, tableVars, Linked

LEMMA RowsStay == ASSUME RowsRead, UNCHANGED balanceVars PROVE RowsRead'
BY DEF RowsRead, RowOK, balanceVars, queryVars, tableVars

\* The goroutine moves without taking or leaving work.
LEMMA QuietBalance ==
    ASSUME BalanceWork, BalanceTypeOK', FeedInv', RowsRead', PcMoves,
           UNCHANGED <<curHeight, inHand, todo, batch, asking, lru, filter>>,
           \/ tries' = tries
           \/ pc \in {"query", "save"} /\ (pc' \in Running => tries' <= RetryTimes),
           DOMAIN answers' = DOMAIN answers \/ pc' # "save",
           FeedHeight' = FeedHeight \/ inHand = <<>>
    PROVE  BalanceWork'
<1>1. BalanceHand /\ BalanceFollows /\ BalanceAsks
  BY DEF BalanceWork
<1>2. Between \subseteq Running /\ Between \cap AtWork = {}
  BY DEF Between
<1>3. ForRevert' = ForRevert
  BY DEF ForRevert
<1>4. BalanceHand'
  <2>1. CASE pc' = pc
    BY <1>1, <1>3, <2>1 DEF BalanceHand
  <2>2. CASE pc' \notin Running
    <3>1. AtWork \subseteq Running /\ pc' \notin Between
      BY <1>2, <2>2 DEF Running
    <3>2. QED
      BY <2>2, <3>1 DEF BalanceHand
  <2>3. CASE pc \in Between /\ pc' \in Between
    BY <1>1, <1>2, <2>3 DEF BalanceHand
  <2>4. QED
    BY <2>1, <2>2, <2>3 DEF PcMoves
<1>5. BalanceFollows'
  BY <1>1, <1>3 DEF BalanceFollows, ForRevert
<1>6. BalanceAsks'
  <2>1. CASE pc' = pc
    BY <1>1, <1>3, <2>1 DEF BalanceAsks
  <2>2. CASE pc' \notin Running
    <3>1. AtWork \subseteq Running
      BY DEF Running
    <3>2. QED
      BY <2>2, <3>1 DEF BalanceAsks
  <2>3. CASE pc \in Between /\ pc' \in Between
    BY <1>1, <1>2, <2>3 DEF BalanceAsks
  <2>4. QED
    BY <2>1, <2>2, <2>3 DEF PcMoves
<1>7. QED
  BY <1>4, <1>5, <1>6 DEF BalanceWork

LEMMA IdleBalance ==
    ASSUME BalanceWork, Idle, UNCHANGED balanceVars PROVE BalanceWork'
<1>1. LoopTypeOK /\ FeedInv /\ BalanceTypeOK /\ RowsRead
  BY DEF BalanceWork, BalanceTypeOK
<1>2. /\ UNCHANGED <<cache, curHeight, latestHeight, workVars, feedVars, taskNum, history>>
      /\ PcMoves /\ LoopTypeOK'
  BY <1>1, IdleFacts
<1>3. FeedInv' /\ BalanceTypeOK' /\ RowsRead'
  BY <1>1, <1>2, FeedStays, BalanceTypesStay, RowsStay
<1>4. FeedHeight' = FeedHeight
  BY <1>2 DEF FeedHeight, feedVars
<1>5. QED
  BY <1>2, <1>3, <1>4, QuietBalance DEF workVars, balanceVars, queryVars, cacheVars

LEMMA FeedBalance ==
    ASSUME BalanceWork, BaseApplies \/ \E e \in Event : Publish(e), UNCHANGED balanceVars
    PROVE  BalanceWork'
<1>1. LoopTypeOK /\ FeedInv /\ BalanceTypeOK /\ RowsRead
  BY DEF BalanceWork, BalanceTypeOK
<1>2. /\ UNCHANGED <<pc, loopVars, workVars, taskNum, envVars, history>>
      /\ Apply \/ \E e \in Event : Deliver(e)
  BY DEF BaseApplies, Publish
<1>3. FeedInv' /\ FeedHeight' = FeedHeight
  BY <1>1, <1>2, ApplyFacts, DeliverFacts DEF FeedHeight
<1>4. LoopTypeOK'
  BY <1>1, <1>2, <1>3 DEF LoopTypeOK, loopVars, workVars, envVars, history, FeedInv
<1>5. BalanceTypeOK' /\ RowsRead'
  BY <1>1, <1>4, BalanceTypesStay, RowsStay
<1>6. QED
  BY <1>2, <1>3, <1>5, QuietBalance
     DEF workVars, loopVars, PcMoves, balanceVars, queryVars, cacheVars

LEMMA PassedByBalance ==
    ASSUME BalanceWork, NEW e \in Event, PassedBy(e), UNCHANGED balanceVars
    PROVE  BalanceWork'
<1>1. LoopTypeOK /\ FeedInv /\ BalanceTypeOK /\ RowsRead /\ BalanceHand
  BY DEF BalanceWork, BalanceTypeOK
<1>2. /\ Take(e) /\ pc' = "drain" /\ UNCHANGED <<curHeight, inHand, todo>>
      /\ latestHeight' \in Nat /\ cache' \in Seq(Blocks) /\ Len(cache') <= BufferSize
  BY <1>1, PassedByFacts
<1>3. /\ FeedInv' /\ pc \in Between /\ "drain" \in Between /\ gone' \subseteq Blocks
      /\ UNCHANGED <<compensation, batch, tries, taskNum, envVars, skipped, astray>>
  BY <1>1, <1>2, TakenFacts
<1>4. LoopTypeOK'
  BY <1>1, <1>2, <1>3 DEF LoopTypeOK, envVars, FeedInv, Between
<1>5. BalanceTypeOK' /\ RowsRead' /\ inHand = <<>>
  BY <1>1, <1>3, <1>4, BalanceTypesStay, RowsStay DEF BalanceHand
<1>6. QED
  BY <1>2, <1>3, <1>5, QuietBalance DEF PcMoves, balanceVars, queryVars, cacheVars

LEMMA ReceiveNextBalance ==
    ASSUME BalanceWork, NEW e \in Event, ReceiveNext(e), UNCHANGED balanceVars
    PROVE  BalanceWork'
<1>1. /\ LoopTypeOK /\ FeedInv /\ BalanceTypeOK /\ RowsRead /\ BalanceHand
      /\ BalanceFollows /\ BalanceAsks
  BY DEF BalanceWork, BalanceTypeOK
<1>2. /\ e.state = "ok" /\ Take(e) /\ curHeight + 1 = e.blk.num
      /\ latestHeight' = e.blk.num
      /\ inHand' = <<e>> /\ todo' = <<e.blk>> /\ pc' = "handle"
      /\ cache' = cache /\ curHeight' = curHeight
  BY DEF ReceiveNext, FitsHeight
<1>3. /\ FeedInv' /\ pc \in Between /\ gone' \subseteq Blocks
      /\ UNCHANGED <<compensation, batch, tries, taskNum, envVars, skipped, astray>>
  BY <1>1, <1>2, TakenFacts
<1>4. /\ e.blk \in Blocks /\ e.blk.num \in Nat /\ curHeight \in Nat
      /\ todo' \in Seq(Blocks) /\ inHand' \in Seq(Event) /\ Len(inHand') <= 1
      /\ DOMAIN todo' = {1} /\ todo'[1] = e.blk /\ todo' # <<>>
      /\ inHand'[1] = e /\ inHand' # <<>>
  BY <1>1, <1>2, EventFacts DEF LoopTypeOK
<1>5. /\ pc \in Running /\ pc' \in Running /\ pc' \notin Between
      /\ batch' = <<>> /\ tries' = 0 /\ asking = {}
  BY <1>1, <1>2, <1>3 DEF Between, Running, BalanceHand, BalanceAsks
<1>6. LoopTypeOK'
  BY <1>1, <1>2, <1>3, <1>4, <1>5 DEF LoopTypeOK, envVars, FeedInv
<1>7. BalanceTypeOK' /\ RowsRead'
  BY <1>1, <1>6, BalanceTypesStay, RowsStay
<1>8. ~ForRevert'
  BY <1>2, <1>4 DEF ForRevert
<1>9. FeedHeight' = curHeight' + 1
  <2>1. TakeEvent(e)
    BY <1>2 DEF Take
  <2>2. FeedHeight' = After(e)
    BY <1>1, <2>1, TakeFacts DEF FeedHeight
  <2>3. QED
    BY <1>2, <2>2 DEF After
<1>10. BalanceFollows'
  <2>1. DOMAIN <<>> = {}
    OBVIOUS
  <2>2. QED
    BY <1>2, <1>4, <1>5, <1>8, <1>9, <2>1 DEF BalanceFollows
<1>11. BalanceHand'
  BY <1>2, <1>4, <1>5, AsyncTaskAssumption DEF BalanceHand
<1>12. BalanceAsks'
  BY <1>2, <1>5, <1>8 DEF BalanceAsks, balanceVars, queryVars
<1>13. QED
  BY <1>3, <1>7, <1>10, <1>11, <1>12 DEF BalanceWork

LEMMA ReceiveRevertBalance ==
    ASSUME BalanceWork, NEW e \in Event, ReceiveRevert(e), UNCHANGED balanceVars
    PROVE  BalanceWork' /\ inHand = <<>> /\ inHand' = <<e>> /\ ForRevert' /\ pc \in Running
<1>1. /\ LoopTypeOK /\ FeedInv /\ BalanceTypeOK /\ RowsRead /\ BalanceHand
      /\ BalanceFollows /\ BalanceAsks
  BY DEF BalanceWork, BalanceTypeOK
<1>2. /\ e.state = "revert" /\ Take(e) /\ curHeight >= e.blk.num
      /\ cache' = RemoveFromCache(e.blk.num)
      /\ inHand' = <<e>> /\ pc' = "revert"
      /\ UNCHANGED <<curHeight, latestHeight, todo>>
  BY DEF ReceiveRevert
<1>3. /\ FeedInv' /\ pc \in Between /\ gone' \subseteq Blocks
      /\ UNCHANGED <<compensation, batch, tries, taskNum, envVars, skipped, astray>>
  BY <1>1, <1>2, TakenFacts
<1>4. FeedHeight' = e.blk.num - 1
  <2>1. TakeEvent(e)
    BY <1>2 DEF Take
  <2>2. FeedHeight' = After(e)
    BY <1>1, <2>1, TakeFacts DEF FeedHeight
  <2>3. QED
    BY <1>2, <2>2 DEF After
<1>5. /\ cache' \in Seq(Blocks) /\ Len(cache') <= BufferSize
  BY <1>1, <1>2, RemoveFromCacheFacts DEF LoopTypeOK
<1>6. /\ inHand' \in Seq(Event) /\ Len(inHand') <= 1 /\ inHand'[1] = e /\ inHand' # <<>>
      /\ e.blk.num \in Nat /\ curHeight \in Nat
  BY <1>1, <1>2, EventFacts DEF LoopTypeOK
<1>7. /\ pc \in Running /\ pc' \in Running /\ pc' \notin Between /\ asking = {}
      /\ batch' = <<>> /\ todo' = <<>> /\ tries' = 0 /\ inHand = <<>>
  BY <1>1, <1>2, <1>3 DEF Between, Running, BalanceHand, BalanceAsks
<1>8. LoopTypeOK'
  BY <1>1, <1>2, <1>3, <1>5, <1>6, <1>7 DEF LoopTypeOK, envVars, FeedInv
<1>9. BalanceTypeOK' /\ RowsRead'
  BY <1>1, <1>8, BalanceTypesStay, RowsStay
<1>10. ForRevert'
  BY <1>2, <1>6 DEF ForRevert
<1>11. BalanceFollows'
  <2>1. ToSet(<<>>) = {}
    BY DEF ToSet
  <2>2. QED
    BY <1>2, <1>4, <1>6, <1>7, <1>10, <2>1 DEF BalanceFollows
<1>12. BalanceHand'
  BY <1>2, <1>7, <1>10, AsyncTaskAssumption DEF BalanceHand
<1>13. BalanceAsks'
  BY <1>2, <1>7 DEF BalanceAsks, balanceVars, queryVars
<1>14. QED
  BY <1>2, <1>3, <1>7, <1>9, <1>10, <1>11, <1>12, <1>13 DEF BalanceWork
\* The node goes on, or changes to another branch.
LEMMA NodeFacts ==
    ASSUME BalanceTypeOK, NodeMoves
    PROVE  /\ node' \in Seq(Blocks) /\ Linked(node') /\ Len(node') >= Len(node)
           /\ Len(node') \in Nat /\ Len(node) \in Nat
           /\ reorgs' \in 0..MaxReorgs
           /\ abandoned \subseteq abandoned' /\ ToSet(node) \subseteq ToSet(node') \cup abandoned'
           /\ ToSet(node) \cap abandoned = {} => ToSet(node') \cap abandoned' = {}
           /\ UNCHANGED <<pc, feedVars, loopVars, workVars, taskNum, envVars, history,
                          queryVars, cacheVars, tableVars>>
<1>1. /\ node \in Seq(Blocks) /\ reorgs \in 0..MaxReorgs /\ Len(node) \in Nat
      /\ DOMAIN node = 1..Len(node) /\ MaxReorgs \in Nat
  BY LenProperties, BalanceTaskAssumption DEF BalanceTypeOK
<1>2. CASE NodeGrows
  <2>1. PICK b \in Blocks \ abandoned : node' = Append(node, b) /\ Linked(node')
    BY <1>2 DEF NodeGrows
  <2>2. /\ node' \in Seq(Blocks) /\ Len(node') = Len(node) + 1
        /\ node'[Len(node) + 1] = b /\ \A i \in 1..Len(node) : node'[i] = node[i]
    BY <1>1, <2>1, AppendProperties
  <2>3. DOMAIN node' = 1..(Len(node) + 1)
    BY <2>2, LenProperties
  <2>4. ToSet(node') = ToSet(node) \cup {b}
    BY <1>1, <2>2, <2>3 DEF ToSet
  <2>5. reorgs' = reorgs /\ abandoned' = abandoned
    BY <1>2 DEF NodeGrows
  <2>6. QED
    BY <1>1, <2>1, <2>2, <2>4, <2>5 DEF NodeMoves
<1>3. CASE NodeReorganises
  <2>1. /\ reorgs < MaxReorgs /\ reorgs' = reorgs + 1
        /\ Linked(node') /\ ToSet(node') \cap abandoned = {}
        /\ abandoned' = abandoned \cup (ToSet(node) \ ToSet(node'))
        /\ \E n \in Len(node)..(Len(node) + 1) : node' \in [1..n -> Blocks]
    BY <1>3 DEF NodeReorganises
  <2>2. PICK n \in Len(node)..(Len(node) + 1) : node' \in [1..n -> Blocks]
    BY <2>1
  <2>3. n \in Nat /\ n >= Len(node)
    BY <1>1
  <2>4. node' \in Seq(Blocks) /\ Len(node') = n
    BY <2>2, <2>3
  <2>5. reorgs' \in 0..MaxReorgs
    BY <1>1, <2>1
  <2>6. QED
    BY <1>1, <2>1, <2>3, <2>4, <2>5 DEF NodeMoves
<1>4. QED
  BY <1>2, <1>3 DEF NodeMoves

LEMMA NodeMovesBalance == ASSUME BalanceWork, NodeMoves PROVE BalanceWork'
<1>1. LoopTypeOK /\ FeedInv /\ BalanceTypeOK /\ RowsRead
  BY DEF BalanceWork, BalanceTypeOK
<1>2. /\ node' \in Seq(Blocks) /\ Linked(node') /\ Len(node') >= Len(node)
      /\ Len(node') \in Nat /\ Len(node) \in Nat /\ reorgs' \in 0..MaxReorgs
      /\ UNCHANGED <<pc, feedVars, loopVars, workVars, taskNum, envVars, history,
                     queryVars, cacheVars, tableVars>>
  BY <1>1, NodeFacts
<1>3. FeedInv' /\ FeedHeight' = FeedHeight
  BY <1>1, <1>2, FeedStays DEF FeedHeight, feedVars
<1>4. LoopTypeOK'
  BY <1>1, <1>2, <1>3 DEF LoopTypeOK, loopVars, workVars, envVars, history, FeedInv
<1>5. Linked(node)'
  BY <1>2 DEF Linked
<1>6. lag' < Len(node')
  BY <1>1, <1>2, BalanceTaskAssumption DEF BalanceTypeOK, queryVars
<1>7. BalanceTypeOK'
  BY <1>1, <1>2, <1>4, <1>5, <1>6
     DEF BalanceTypeOK, queryVars, cacheVars, tableVars
<1>8. RowsRead'
  BY <1>1, <1>2 DEF RowsRead, RowOK, queryVars, tableVars
<1>9. QED
  BY <1>2, <1>3, <1>7, <1>8, QuietBalance
     DEF workVars, loopVars, PcMoves, queryVars, cacheVars

\* An attempt failed.
LEMMA RetryHand ==
    ASSUME BalanceWork, Retry, pc \in {"query", "save"}
    PROVE  /\ tries' \in 0..(RetryTimes + 1) /\ pc' \in {pc, "exited"} /\ PcMoves
           /\ pc \in Running /\ "exited" \notin Running
           /\ pc' \in Running => tries' <= RetryTimes
           /\ UNCHANGED <<loopVars, inHand, todo, batch>>
<1>1. /\ tries' = tries + 1 /\ pc' = IF tries' > RetryTimes THEN "exited" ELSE pc
      /\ UNCHANGED <<loopVars, inHand, todo, batch>>
  BY DEF Retry
<1>2. pc \in Running /\ "exited" \notin Running
  BY DEF Running
<1>3. tries \in Nat /\ tries <= RetryTimes /\ RetryTimes \in Nat
  BY <1>2, AsyncTaskAssumption DEF BalanceWork, BalanceTypeOK, LoopTypeOK, BalanceHand
<1>4. tries' \in 0..(RetryTimes + 1) /\ (pc' \in Running => tries' <= RetryTimes)
  BY <1>1, <1>2, <1>3
<1>5. pc' \in {pc, "exited"}
  BY <1>1
<1>6. QED
  BY <1>1, <1>2, <1>4, <1>5 DEF PcMoves

LEMMA FailsBalance ==
    ASSUME BalanceWork, QueryFails \/ SaveBalancesFail PROVE BalanceWork'
<1>1. LoopTypeOK /\ FeedInv /\ BalanceTypeOK /\ RowsRead
  BY DEF BalanceWork, BalanceTypeOK
<1>2. /\ Retry /\ pc \in {"query", "save"}
      /\ UNCHANGED <<feedVars, taskNum, envVars, history, nodeVars, cacheVars, tableVars>>
      /\ \/ pc = "query" /\ Ask(asking)
         \/ UNCHANGED queryVars
  BY DEF QueryFails, SaveBalancesFail, balanceVars
<1>3. /\ tries' \in 0..(RetryTimes + 1) /\ pc' \in {pc, "exited"} /\ PcMoves
      /\ pc \in Running /\ "exited" \notin Running
      /\ pc' \in Running => tries' <= RetryTimes
      /\ UNCHANGED <<loopVars, inHand, todo, batch>>
  BY <1>2, RetryHand
<1>4. FeedInv' /\ FeedHeight' = FeedHeight
  BY <1>1, <1>2, FeedStays DEF FeedHeight, feedVars
<1>5. LoopTypeOK'
  BY <1>1, <1>2, <1>3, <1>4 DEF LoopTypeOK, loopVars, envVars, history, FeedInv
<1>6. /\ asking' = asking /\ lag' \in 0..MaxLag /\ lag' < Len(node)
      /\ answers' = answers \/ (pc = "query" /\ DOMAIN answers' = {})
  BY <1>1, <1>2, AskFacts DEF queryVars, BalanceTypeOK
<1>7. BalanceTypeOK'
  BY <1>1, <1>2, <1>5, <1>6
     DEF BalanceTypeOK, nodeVars, cacheVars, tableVars, Linked
<1>8. RowsRead'
  BY <1>1, <1>2, <1>6 DEF RowsRead, RowOK, tableVars
<1>9. DOMAIN answers' = DOMAIN answers \/ pc' # "save"
  BY <1>3, <1>6
<1>10. QED
  BY <1>2, <1>3, <1>4, <1>6, <1>7, <1>8, <1>9, QuietBalance DEF loopVars, cacheVars

LEMMA RestartBalanceWork == ASSUME BalanceWork, RestartBalance PROVE BalanceWork'
<1>1. LoopTypeOK /\ FeedInv /\ BalanceTypeOK /\ RowsRead
  BY DEF BalanceWork, BalanceTypeOK
<1>2. /\ restarts < MaxRestarts /\ restarts' = restarts + 1 /\ stopping' = FALSE
      /\ FeedAgain /\ pc' = "created" /\ cache' = <<>>
      /\ curHeight' = taskNum /\ latestHeight' = 0 /\ compensation' = 0
      /\ inHand' = <<>> /\ todo' = <<>> /\ batch' = <<>> /\ tries' = 0
      /\ skipped' = (skipped \cap 1..taskNum) \cup Missed
      /\ gone' = {} /\ astray' = astray \cup {}
      /\ taskNum' = taskNum
  BY DEF RestartBalance, Restart
<1>3. /\ handled' \subseteq handled /\ counted' \subseteq handled'
      /\ lag' = 0 /\ asking' = {} /\ answers' = Empty /\ lru' = Empty /\ filter' = {}
      /\ UNCHANGED <<nodeVars, balances, misled, fails>>
  BY <1>1 DEF RestartBalance, BalanceTypeOK
<1>4. FeedInv'
  BY <1>1, <1>2, FeedAgainFacts
<1>5. pc' \in Between /\ pc' \in Running /\ pc' \notin AtWork
  BY <1>2 DEF Between, Running
<1>6. LoopTypeOK'
  <2>1. /\ <<>> \in Seq(Blocks) /\ <<>> \in Seq(Event) /\ Len(<<>>) = 0
    BY EmptySeq
  <2>2. /\ 0 \in 0..CompensationCap /\ 0 \in 0..(RetryTimes + 1) /\ BufferSize \in Nat
        /\ MaxRestarts \in Nat
    BY AsyncTaskAssumption, TaskFeedAssumption
  <2>3. FeedTypeOK'
    BY <1>4 DEF FeedInv
  <2>4. restarts' \in 0..MaxRestarts /\ stopping' \in BOOLEAN
    <3>1. restarts \in 0..MaxRestarts
      BY <1>1 DEF LoopTypeOK
    <3>2. restarts + 1 \in 0..MaxRestarts
      BY <1>2, <2>2, <3>1
    <3>3. QED
      BY <1>2, <3>2
  <2>5. skipped' \subseteq Nat /\ gone' \subseteq Blocks /\ astray' \subseteq Blocks
    BY <1>1, <1>2 DEF LoopTypeOK, Missed
  <2>6. /\ cache' \in Seq(Blocks) /\ Len(cache') <= BufferSize
        /\ inHand' \in Seq(Event) /\ Len(inHand') <= 1
        /\ todo' \in Seq(Blocks) /\ batch' \in Seq(Blocks)
    BY <1>2, <2>1, <2>2
  <2>7. /\ curHeight' \in Nat /\ latestHeight' \in Nat /\ taskNum' \in Nat
        /\ compensation' \in 0..CompensationCap /\ tries' \in 0..(RetryTimes + 1)
    BY <1>1, <1>2, <2>2 DEF LoopTypeOK
  <2>8. QED
    BY <1>5, <2>3, <2>4, <2>5, <2>6, <2>7 DEF LoopTypeOK
<1>7. DOMAIN answers' = {} /\ DOMAIN lru' = {} /\ Cardinality({}) = 0
  BY <1>3, FS_EmptySet DEF Empty
<1>8. BalanceTypeOK'
  <2>1. 0 \in 0..MaxLag /\ 0 < Len(node) /\ 0 <= CacheSize
    <3>1. lag \in 0..MaxLag /\ lag < Len(node) /\ Len(node) \in Nat /\ MaxLag \in Nat
      BY <1>1, LenProperties, BalanceTaskAssumption DEF BalanceTypeOK
    <3>2. QED
      BY <3>1, BalanceTaskAssumption
  <2>2. QED
    BY <1>1, <1>3, <1>6, <1>7, <2>1 DEF BalanceTypeOK, nodeVars, Linked
<1>9. RowsRead'
  BY <1>1, <1>3, <1>7 DEF RowsRead, RowOK
<1>10. ~ForRevert' /\ DOMAIN <<>> = {}
  BY <1>2 DEF ForRevert
<1>11. BalanceHand' /\ BalanceFollows' /\ BalanceAsks'
  BY <1>2, <1>3, <1>5, <1>10, AsyncTaskAssumption DEF BalanceHand, BalanceFollows, BalanceAsks
<1>12. QED
  BY <1>4, <1>8, <1>9, <1>11 DEF BalanceWork

LEMMA ReadFoundBalance ==
    ASSUME BalanceWork, NEW end \in Nat, ReadFound(end), UNCHANGED balanceVars
    PROVE  BalanceWork'
<1>1. /\ LoopTypeOK /\ FeedInv /\ BalanceTypeOK /\ RowsRead /\ BalanceHand
      /\ BalanceFollows /\ BalanceAsks
  BY DEF BalanceWork, BalanceTypeOK
<1>2. /\ pc = "catchup" /\ todo' # <<>> /\ todo' = Found(end) /\ cache' = CacheLeft
      /\ pc' = "handle" /\ astray' = astray \cup (ToSet(todo') \cap gone)
      /\ UNCHANGED <<curHeight, latestHeight, compensation, inHand,
                     batch, tries, feedVars, taskNum, envVars, skipped, gone>>
  BY DEF ReadFound
<1>3. /\ todo' \in Seq(Blocks)
      /\ \A i \in DOMAIN todo' : todo'[i].num = curHeight + i
      /\ cache' \in Seq(Blocks) /\ Len(cache') <= BufferSize
  <2>1. end \in Int
    OBVIOUS
  <2>2. /\ Found(end) \in Seq(Blocks)
        /\ \A i \in DOMAIN Found(end) : Found(end)[i].num = curHeight + i
        /\ CacheLeft \in Seq(Blocks) /\ Len(CacheLeft) <= BufferSize
    BY <1>1, <2>1, FoundFacts
  <2>3. QED
    BY <1>2, <2>2
<1>4. FeedInv'
  BY <1>1, <1>2, FeedStays
<1>5. /\ pc \in Between /\ pc \in Running /\ pc' \in Running /\ pc' \notin Between
  BY <1>2 DEF Between, Running
<1>6. batch' = <<>> /\ inHand' = <<>> /\ tries' = 0 /\ DOMAIN <<>> = {} /\ 0 <= RetryTimes
  BY <1>1, <1>2, <1>5, AsyncTaskAssumption DEF BalanceHand
<1>7. astray' \subseteq Blocks
  BY <1>1, <1>2 DEF LoopTypeOK
<1>8. LoopTypeOK'
  BY <1>1, <1>2, <1>3, <1>4, <1>5, <1>7 DEF LoopTypeOK, envVars, FeedInv
<1>9. BalanceTypeOK' /\ RowsRead' /\ ~ForRevert'
  BY <1>1, <1>6, <1>8, BalanceTypesStay, RowsStay DEF ForRevert
<1>10. BalanceFollows'
  BY <1>2, <1>3, <1>6, <1>9 DEF BalanceFollows
<1>11. BalanceHand'
  BY <1>2, <1>5, <1>6 DEF BalanceHand
<1>12. BalanceAsks'
  BY <1>1, <1>2, <1>5, <1>9 DEF BalanceAsks, balanceVars, queryVars
<1>13. QED
  BY <1>4, <1>9, <1>10, <1>11, <1>12 DEF BalanceWork

LEMMA SkipBalance ==
    ASSUME BalanceWork, NEW end \in Nat, end >= curHeight, Skip(end, "loop"),
           UNCHANGED balanceVars
    PROVE  BalanceWork'
<1>1. /\ LoopTypeOK /\ FeedInv /\ BalanceTypeOK /\ RowsRead /\ BalanceHand /\ BalanceAsks
  BY DEF BalanceWork, BalanceTypeOK
<1>2. /\ pc = "catchup" /\ curHeight' = end /\ cache' = CacheLeft /\ pc' = "loop"
      /\ skipped' = skipped \cup ((curHeight + 1)..end)
      /\ UNCHANGED <<latestHeight, compensation, workVars, feedVars,
                     taskNum, envVars, gone, astray>>
  BY DEF Skip
<1>3. /\ curHeight \in Nat /\ cache' \in Seq(Blocks) /\ Len(cache') <= BufferSize
  BY <1>1, <1>2, FoundFacts DEF LoopTypeOK
<1>4. FeedInv'
  BY <1>1, <1>2, FeedStays
<1>5. pc \in Between /\ pc' \in Between /\ pc' \in Running /\ pc \in Running
  BY <1>2 DEF Between, Running
<1>6. skipped' \subseteq Nat
  BY <1>1, <1>2, <1>3 DEF LoopTypeOK
<1>7. LoopTypeOK'
  BY <1>1, <1>2, <1>3, <1>4, <1>5, <1>6 DEF LoopTypeOK, envVars, workVars, FeedInv
<1>8. BalanceTypeOK' /\ RowsRead'
  BY <1>1, <1>7, BalanceTypesStay, RowsStay
<1>9. BalanceHand' /\ inHand' = <<>> /\ todo' = <<>> /\ batch' = <<>> /\ ~ForRevert'
  BY <1>1, <1>2, <1>5 DEF BalanceHand, workVars, ForRevert
<1>10. BalanceFollows'
  BY <1>9, EmptySeq DEF BalanceFollows
<1>11. BalanceAsks'
  BY <1>1, <1>2, <1>5, <1>9 DEF BalanceAsks, balanceVars, queryVars
<1>12. QED
  BY <1>4, <1>8, <1>9, <1>10, <1>11 DEF BalanceWork

LEMMA ReadFailsBalance ==
    ASSUME BalanceWork, ReadFails, UNCHANGED balanceVars PROVE BalanceWork'
<1>1. LoopTypeOK /\ FeedInv /\ BalanceTypeOK /\ RowsRead
  BY DEF BalanceWork, BalanceTypeOK
<1>2. /\ UNCHANGED <<curHeight, latestHeight, compensation, workVars,
                     feedVars, taskNum, envVars, history>>
      /\ PcMoves /\ LoopTypeOK'
  BY <1>1, ReadFailsFacts
<1>3. FeedInv' /\ BalanceTypeOK' /\ RowsRead'
  BY <1>1, <1>2, FeedStays, BalanceTypesStay, RowsStay
<1>4. FeedHeight' = FeedHeight
  BY <1>2 DEF FeedHeight, feedVars
<1>5. QED
  BY <1>2, <1>3, <1>4, QuietBalance DEF workVars, balanceVars, queryVars, cacheVars

\* handleBlocks leaves the blocks as they are, and asks for what they touch;
\* for all of it when cache and filter are empty, as for a block reverted.
LEMMA AskedFacts ==
    ASSUME BalanceWork, AskForTouched
    PROVE  /\ pc = "handle" /\ batch' = todo /\ todo' = <<>> /\ pc' = "query" /\ todo # <<>>
           /\ UNCHANGED <<feedVars, loopVars, inHand, tries, taskNum, envVars, history,
                          nodeVars, filter, balances, handled, counted, fails>>
           /\ asking' \subseteq UNION {b.touches : b \in ToSet(todo)}
           /\ ForRevert => asking' = inHand[1].blk.touches
           /\ asking' \subseteq Keys /\ misled' \subseteq Keys
           /\ DOMAIN answers' = {} /\ lag' \in 0..MaxLag /\ lag' < Len(node)
           /\ Cardinality(DOMAIN lru') <= CacheSize
<1>1. /\ LoopTypeOK /\ BalanceTypeOK /\ BalanceHand /\ BalanceFollows /\ BalanceAsks
      /\ pc = "handle" /\ batch' = todo /\ todo' = <<>> /\ pc' = "query" /\ todo # <<>>
      /\ UNCHANGED <<feedVars, loopVars, inHand, tries, taskNum, envVars, history,
                     nodeVars, filter, balances, handled, counted, fails>>
  BY DEF AskForTouched, BalanceWork, BalanceTypeOK, BalanceHand
<1>2. PICK seen \in [Touched(todo) -> {Missing} \cup 0..(WordSize - 1)] :
         /\ \A k \in DOMAIN seen : seen[k] \in Get(k, Heights)
         /\ Keep(seen) /\ misled' = misled \cup FalselyKnown(seen)
         /\ Ask({k \in DOMAIN seen : \E b \in ToSet(todo) :
                                         k \in b.touches /\ Stale(seen[k], b.num)})
  BY DEF AskForTouched
<1>3. DOMAIN seen = UNION {b.touches : b \in ToSet(todo)}
  BY DEF Touched
<1>4. /\ asking' = {k \in DOMAIN seen : \E b \in ToSet(todo) :
                                         k \in b.touches /\ Stale(seen[k], b.num)}
      /\ DOMAIN answers' = {} /\ lag' \in 0..MaxLag /\ lag' < Len(node)
  <2>1. BalanceTypeOK
    BY <1>1
  <2>2. Ask({k \in DOMAIN seen : \E b \in ToSet(todo) :
                                         k \in b.touches /\ Stale(seen[k], b.num)})
    BY <1>2
  <2>3. QED
    BY <2>1, <2>2, AskFacts
<1>5. ToSet(todo) \subseteq Blocks /\ DOMAIN seen \subseteq Keys
  <2>1. todo \in Seq(Blocks) /\ \A b \in Blocks : b.touches \subseteq Keys
    BY <1>1, BalanceTaskAssumption DEF LoopTypeOK
  <2>2. ToSet(todo) \subseteq Blocks
    BY <2>1, LenProperties, ElementOfSeq DEF ToSet
  <2>3. QED
    BY <1>3, <2>1, <2>2
<1>6. misled' \subseteq Keys
  BY <1>1, <1>2, <1>5 DEF FalselyKnown, BalanceTypeOK
<1>7. Cardinality(DOMAIN lru') <= CacheSize
  BY <1>2, FitsFacts DEF Keep
<1>8. ForRevert => asking' = inHand[1].blk.touches
  <2> SUFFICES ASSUME ForRevert PROVE asking' = inHand[1].blk.touches
    OBVIOUS
  <2>1. DOMAIN lru = {} /\ filter = {}
    BY <1>1 DEF BalanceAsks
  <2>2. \A k \in DOMAIN seen : seen[k] = Missing
    BY <1>2, <2>1 DEF Get
  <2>3. \A b \in ToSet(todo) : b = inHand[1].blk
    BY <1>1 DEF BalanceFollows
  <2>4. inHand[1].blk.num \in Nat
    BY <1>1, RevertHand
  <2>5. ToSet(todo) # {}
    <3>1. Len(todo) \in Nat /\ Len(todo) # 0 /\ DOMAIN todo = 1..Len(todo)
      BY <1>1, LenProperties, EmptySeq DEF LoopTypeOK
    <3>2. 1 \in DOMAIN todo
      BY <3>1
    <3>3. QED
      BY <3>2 DEF ToSet
  <2>6. DOMAIN seen = inHand[1].blk.touches
    BY <1>3, <2>3, <2>5
  <2>7. Stale(Missing, inHand[1].blk.num)
    BY <2>4 DEF Stale, Missing
  <2>8. QED
    BY <1>4, <2>2, <2>3, <2>5, <2>6, <2>7
<1>9. QED
  BY <1>1, <1>3, <1>4, <1>5, <1>6, <1>7, <1>8

LEMMA AskBalance == ASSUME BalanceWork, AskForTouched PROVE BalanceWork'
<1>1. /\ LoopTypeOK /\ FeedInv /\ BalanceTypeOK /\ RowsRead /\ BalanceHand
      /\ BalanceFollows /\ BalanceAsks
  BY DEF BalanceWork, BalanceTypeOK
<1>2. /\ pc = "handle" /\ batch' = todo /\ todo' = <<>> /\ pc' = "query" /\ todo # <<>>
      /\ UNCHANGED <<feedVars, loopVars, inHand, tries, taskNum, envVars, history,
                     nodeVars, filter, balances, handled, counted, fails>>
      /\ asking' \subseteq UNION {b.touches : b \in ToSet(todo)}
      /\ ForRevert => asking' = inHand[1].blk.touches
      /\ asking' \subseteq Keys /\ misled' \subseteq Keys
      /\ DOMAIN answers' = {} /\ lag' \in 0..MaxLag /\ lag' < Len(node)
      /\ Cardinality(DOMAIN lru') <= CacheSize
  BY AskedFacts
<1>3. FeedInv' /\ FeedHeight' = FeedHeight
  BY <1>1, <1>2, FeedStays DEF FeedHeight, feedVars
<1>4. pc \in Running /\ pc' \in Running /\ pc' \notin Between /\ <<>> \in Seq(Blocks)
  BY <1>2, EmptySeq DEF Between, Running
<1>5. LoopTypeOK'
  BY <1>1, <1>2, <1>3, <1>4 DEF LoopTypeOK, loopVars, envVars, history, FeedInv
<1>6. BalanceTypeOK'
  BY <1>1, <1>2, <1>5 DEF BalanceTypeOK, nodeVars, Linked
<1>7. RowsRead'
  BY <1>1, <1>2 DEF RowsRead, RowOK
<1>8. ForRevert' = ForRevert /\ curHeight' = curHeight
  BY <1>2 DEF ForRevert, loopVars
<1>9. BalanceHand'
  <2>1. tries' = 0 /\ 0 <= RetryTimes
    BY <1>1, <1>2, AsyncTaskAssumption DEF BalanceHand
  <2>2. QED
    BY <1>2, <1>4, <2>1 DEF BalanceHand
<1>10. BalanceFollows'
  <2>1. DOMAIN <<>> = {} /\ ToSet(<<>>) = {}
    BY DEF ToSet
  <2>2. QED
    BY <1>1, <1>2, <1>3, <1>8, <2>1 DEF BalanceFollows
<1>11. BalanceAsks'
  BY <1>1, <1>2, <1>8 DEF BalanceAsks
<1>12. QED
  BY <1>3, <1>6, <1>7, <1>9, <1>10, <1>11 DEF BalanceWork

\* What is read is a chain of the node, or nothing.
LEMMA ReadFacts ==
    ASSUME BalanceWork, NEW calls, ReadBalance(calls)
    PROVE  \E k \in asking \ DOMAIN answers :
              /\ DOMAIN answers' = DOMAIN answers \cup {k}
              /\ \A j \in DOMAIN answers : answers'[j] = answers[j]
              /\ RowOK(answers'[k])
              /\ ToSet(answers'[k].at) \subseteq ToSet(node)
              /\ Timely(answers'[k])
              /\ calls => Reaches(answers'[k], Last(batch).num)
<1>1. PICK k \in asking \ DOMAIN answers :
         \E c \in {View, <<>>}, h \in Nat, unsure \in BOOLEAN :
             /\ answers' = Overlaid(answers, [j \in {k} |-> Balance(c, h, unsure)])
             /\ Timely(Balance(c, h, unsure))
             /\ calls => Reaches(Balance(c, h, unsure), Last(batch).num)
  BY DEF ReadBalance
<1>2. PICK c \in {View, <<>>}, h \in Nat, unsure \in BOOLEAN :
         /\ answers' = Overlaid(answers, [j \in {k} |-> Balance(c, h, unsure)])
         /\ Timely(Balance(c, h, unsure))
         /\ calls => Reaches(Balance(c, h, unsure), Last(batch).num)
  BY <1>1
<1> DEFINE row == Balance(c, h, unsure)
           new == [j \in {k} |-> row]
<1>3. DOMAIN new = {k} /\ new[k] = row
  OBVIOUS
<1>4. row.at = c /\ row.height = h
  BY DEF Balance
<1>5. c \in Seq(Blocks) /\ Numbered(c) /\ ToSet(c) \subseteq ToSet(node)
  <2>1. CASE c = View
    BY <2>1, ViewFacts DEF BalanceWork
  <2>2. CASE c = <<>>
    <3>1. <<>> \in Seq(Blocks) /\ DOMAIN <<>> = {} /\ ToSet(<<>>) = {}
      BY EmptySeq DEF ToSet
    <3>2. QED
      BY <2>2, <3>1 DEF Numbered
  <2>3. QED
    BY <2>1, <2>2
<1>6. RowOK(row)
  BY <1>4, <1>5 DEF RowOK
<1> HIDE DEF row, new
<1>7. /\ DOMAIN answers' = DOMAIN answers \cup DOMAIN new
      /\ \A j \in DOMAIN new : answers'[j] = new[j]
      /\ \A j \in DOMAIN answers \ DOMAIN new : answers'[j] = answers[j]
  <2>1. answers' = Overlaid(answers, new)
    BY <1>2 DEF new, row
  <2>2. /\ DOMAIN Overlaid(answers, new) = DOMAIN answers \cup DOMAIN new
        /\ \A j \in DOMAIN new : Overlaid(answers, new)[j] = new[j]
        /\ \A j \in DOMAIN answers \ DOMAIN new : Overlaid(answers, new)[j] = answers[j]
    BY OverlaidFacts
  <2>3. QED
    BY <2>1, <2>2
<1>8. answers'[k] = row /\ \A j \in DOMAIN answers : answers'[j] = answers[j]
  BY <1>1, <1>3, <1>7
<1>9. Timely(row) /\ (calls => Reaches(row, Last(batch).num))
  BY <1>2 DEF row
<1>10. QED
  BY <1>1, <1>3, <1>4, <1>5, <1>6, <1>7, <1>8, <1>9

LEMMA ReadBalanceWork ==
    ASSUME BalanceWork, NEW calls, ReadBalance(calls) PROVE BalanceWork'
<1>1. /\ LoopTypeOK /\ FeedInv /\ BalanceTypeOK /\ RowsRead
  BY DEF BalanceWork, BalanceTypeOK
<1>2. /\ pc = "query" /\ fails' \in fails..MaxFails
      /\ UNCHANGED <<pc, feedVars, loopVars, workVars, taskNum, envVars, history,
                   nodeVars, lag, asking, cacheVars, balances, handled, counted, misled>>
  BY DEF ReadBalance
<1>3. PICK k \in asking \ DOMAIN answers :
              /\ DOMAIN answers' = DOMAIN answers \cup {k}
              /\ \A j \in DOMAIN answers : answers'[j] = answers[j]
              /\ RowOK(answers'[k])
  BY ReadFacts
<1>4. FeedInv' /\ FeedHeight' = FeedHeight
  BY <1>1, <1>2, FeedStays DEF FeedHeight, feedVars
<1>5. LoopTypeOK'
  BY <1>1, <1>2, <1>4 DEF LoopTypeOK, loopVars, workVars, envVars, history, FeedInv
<1>6. fails' \in 0..MaxFails
  BY <1>1, <1>2, BalanceTaskAssumption DEF BalanceTypeOK
<1>7. RowsRead'
  BY <1>1, <1>2, <1>3 DEF RowsRead, RowOK
<1>8. \A j \in DOMAIN answers' : answers'[j].at \in Seq(Blocks)
  BY <1>7 DEF RowsRead, RowOK
<1>9. BalanceTypeOK'
  BY <1>1, <1>2, <1>3, <1>5, <1>6, <1>8 DEF BalanceTypeOK, nodeVars, cacheVars, Linked
<1>10. QED
  BY <1>2, <1>4, <1>7, <1>9, QuietBalance
     DEF workVars, loopVars, PcMoves, cacheVars

\* All is read: the values stand, their height may be new.
LEMMA AnswersFacts ==
    ASSUME BalanceWork, NEW calls, AnswersRead(calls)
    PROVE  /\ pc = "query" /\ pc' = "save" /\ tries' = 0
           /\ UNCHANGED <<feedVars, loopVars, inHand, todo, batch, taskNum, envVars, history,
                          nodeVars, cacheVars, tableVars, lag, asking>>
           /\ DOMAIN answers' = asking /\ DOMAIN answers = asking
           /\ \A k \in asking : /\ answers'[k].at = answers[k].at
                                /\ RowOK(answers'[k])
                                /\ Reaches(answers'[k], Last(batch).num)
                                      \/ (calls /\ answers'[k] = answers[k])
                                /\ Timely(answers'[k])
                                      \/ (calls /\ answers'[k] = answers[k])
           /\ calls => answers' = answers
<1>1. /\ RowsRead /\ BalanceTypeOK
  BY DEF BalanceWork
<1>2. CASE calls
  BY <1>1, <1>2 DEF AnswersRead, QueryAnswered, queryVars, RowsRead
<1>3. CASE ~calls
  <2>1. /\ pc = "query" /\ asking = DOMAIN answers /\ HighEnough(Last(batch).num)
        /\ answers' = [k \in asking |->
                          Balance(answers[k].at, Len(View), Raced(answers[k].at))]
        /\ QueryAnswered /\ UNCHANGED <<lag, asking>>
    BY <1>3 DEF AnswersRead, ReadHeight
  <2>2. Len(View) \in Nat
    BY <1>1, ViewFacts
  <2>3. PICK h \in Nat : h = Len(View)
    BY <2>2
  <2>4. \A k \in asking : /\ answers'[k].at = answers[k].at
                          /\ answers'[k].height = h
                          /\ answers'[k].unsure = Raced(answers[k].at)
    BY <2>1, <2>3 DEF Balance
  <2>5. \A k \in asking : h >= Last(batch).num
    BY <2>1, <2>3 DEF HighEnough
  <2>6. \A k \in asking : RowOK(answers'[k])
    BY <1>1, <2>1, <2>3, <2>4 DEF RowsRead, RowOK
  <2>7. \A k \in asking : Reaches(answers'[k], Last(batch).num) /\ Timely(answers'[k])
    <3> SUFFICES ASSUME NEW k \in asking
                 PROVE  Reaches(answers'[k], Last(batch).num) /\ Timely(answers'[k])
      OBVIOUS
    <3>1. PICK l \in Nat : l = Len(answers'[k].at)
      BY <2>6, LenProperties DEF RowOK
    <3>2. Last(batch).num \in Nat
      BY <2>1, BatchHand
    <3>3. l >= h \/ Raced(answers[k].at)
      <4>1. answers[k].at = answers'[k].at
        BY <2>4
      <4>2. Raced(answers[k].at) <=> h > l
        BY <2>3, <3>1, <4>1 DEF Raced
      <4>3. QED
        BY <3>1, <4>2
    <3>4. CASE Raced(answers[k].at)
      <4>1. answers'[k].unsure
        BY <2>4, <3>4
      <4>2. QED
        BY <4>1 DEF Reaches, Timely
    <3>5. CASE l >= h
      <4>1. l >= Last(batch).num
        BY <2>5, <3>1, <3>2, <3>5
      <4>2. answers'[k].height = h
        BY <2>4
      <4>3. QED
        BY <3>1, <3>5, <4>1, <4>2 DEF Reaches, Timely
    <3>6. QED
      BY <3>3, <3>4, <3>5
  <2>8. DOMAIN answers' = asking
    BY <2>1
  <2>9. QED
    BY <1>3, <2>1, <2>4, <2>6, <2>7, <2>8 DEF QueryAnswered
<1>4. QED
  BY <1>2, <1>3

LEMMA AnswersWork ==
    ASSUME BalanceWork, NEW calls, AnswersRead(calls) PROVE BalanceWork'
<1>1. /\ LoopTypeOK /\ FeedInv /\ BalanceTypeOK /\ RowsRead /\ BalanceHand
      /\ BalanceFollows /\ BalanceAsks
  BY DEF BalanceWork, BalanceTypeOK
<1>2. /\ pc = "query" /\ pc' = "save" /\ tries' = 0
      /\ UNCHANGED <<feedVars, loopVars, inHand, todo, batch, taskNum, envVars, history,
                     nodeVars, cacheVars, tableVars, lag, asking>>
      /\ DOMAIN answers' = asking
      /\ \A k \in asking : RowOK(answers'[k])
  BY AnswersFacts
<1>3. FeedInv' /\ FeedHeight' = FeedHeight
  BY <1>1, <1>2, FeedStays DEF FeedHeight, feedVars
<1>4. /\ pc \in Running /\ pc' \in Running /\ pc' \notin Between
      /\ 0 <= RetryTimes /\ 0 \in 0..(RetryTimes + 1)
  BY <1>2, AsyncTaskAssumption DEF Between, Running
<1>5. LoopTypeOK'
  BY <1>1, <1>2, <1>3, <1>4 DEF LoopTypeOK, loopVars, envVars, history, FeedInv
<1>6. RowsRead'
  BY <1>1, <1>2 DEF RowsRead, RowOK, tableVars
<1>7. BalanceTypeOK'
  BY <1>1, <1>2, <1>5, <1>6
     DEF BalanceTypeOK, nodeVars, cacheVars, tableVars, Linked, RowsRead, RowOK
<1>8. ForRevert' = ForRevert
  BY <1>2 DEF ForRevert
<1>9. BalanceHand'
  BY <1>1, <1>2, <1>4, <1>8 DEF BalanceHand
<1>10. BalanceFollows'
  BY <1>1, <1>2, <1>3, <1>8 DEF BalanceFollows, loopVars
<1>11. BalanceAsks'
  BY <1>1, <1>2, <1>8 DEF BalanceAsks, cacheVars
<1>12. QED
  BY <1>3, <1>6, <1>7, <1>9, <1>10, <1>11 DEF BalanceWork

\* What was read replaces the rows of the same balances.
LEMMA SaveFacts ==
    ASSUME BalanceWork, Save
    PROVE  /\ pc = "save" /\ pc' = "height" /\ tries' = 0
           /\ UNCHANGED <<loopVars, inHand, todo, batch, feedVars, taskNum, envVars,
                          history, nodeVars, fails>>
           /\ DOMAIN balances' = DOMAIN balances \cup asking /\ asking = DOMAIN answers
           /\ \A k \in asking : balances'[k] = answers[k]
           /\ \A k \in DOMAIN balances \ asking : balances'[k] = balances[k]
           /\ filter' = filter \cup asking /\ misled' = misled \ asking
           /\ Cardinality(DOMAIN lru') <= CacheSize
           /\ \A k \in DOMAIN lru' :
                 \/ k \in asking /\ lru'[k] = answers[k].height
                 \/ k \in DOMAIN lru \ asking /\ lru'[k] = lru[k]
           /\ asking' = {} /\ answers' = Empty /\ DOMAIN answers' = {} /\ lag' = 0
           /\ handled' = handled \cup ToSet(batch)
           /\ counted' = {b \in counted : b.num < batch[1].num}
                            \cup IF ForRevert THEN {} ELSE ToSet(batch)
<1>1. /\ pc = "save" /\ pc' = "height" /\ tries' = 0
      /\ balances' = Overlaid(balances, answers)
      /\ Add([k \in DOMAIN answers |-> answers[k].height])
      /\ asking' = {} /\ answers' = Empty /\ lag' = 0
      /\ handled' = handled \cup ToSet(batch) /\ misled' = misled \ DOMAIN answers
      /\ counted' = {b \in counted : b.num < batch[1].num}
                       \cup IF ForRevert THEN {} ELSE ToSet(batch)
      /\ UNCHANGED <<loopVars, inHand, todo, batch, feedVars, taskNum, envVars,
                     history, nodeVars, fails>>
  BY DEF Save
<1>2. DOMAIN answers = asking
  BY <1>1 DEF BalanceWork, BalanceAsks
<1>3. /\ DOMAIN Overlaid(balances, answers) = DOMAIN balances \cup DOMAIN answers
      /\ \A k \in DOMAIN answers : Overlaid(balances, answers)[k] = answers[k]
      /\ \A k \in DOMAIN balances \ DOMAIN answers :
            Overlaid(balances, answers)[k] = balances[k]
  BY OverlaidFacts
<1> DEFINE values == [k \in DOMAIN answers |-> answers[k].height]
<1>4. DOMAIN values = asking /\ \A k \in asking : values[k] = answers[k].height
  BY <1>2
<1>5. lru' \in Fits(Overlaid(lru, values)) /\ filter' = filter \cup DOMAIN values
  BY <1>1 DEF Add
<1> HIDE DEF values
<1>6. /\ DOMAIN Overlaid(lru, values) = DOMAIN lru \cup DOMAIN values
      /\ \A k \in DOMAIN values : Overlaid(lru, values)[k] = values[k]
      /\ \A k \in DOMAIN lru \ DOMAIN values : Overlaid(lru, values)[k] = lru[k]
  BY OverlaidFacts
<1>7. PICK full : full = Overlaid(lru, values)
  OBVIOUS
<1>8. /\ DOMAIN lru' \subseteq DOMAIN full
      /\ \A k \in DOMAIN lru' : lru'[k] = full[k]
      /\ Cardinality(DOMAIN lru') <= CacheSize
  BY <1>5, <1>7, FitsFacts
<1>9. \A k \in DOMAIN lru' : \/ k \in asking /\ lru'[k] = answers[k].height
                             \/ k \in DOMAIN lru \ asking /\ lru'[k] = lru[k]
  BY <1>4, <1>6, <1>7, <1>8
<1>10. DOMAIN answers' = {}
  BY <1>1 DEF Empty
<1>11. QED
  BY <1>1, <1>2, <1>3, <1>4, <1>5, <1>8, <1>9, <1>10

LEMMA SaveBalance == ASSUME BalanceWork, Save PROVE BalanceWork'
<1>1. /\ LoopTypeOK /\ FeedInv /\ BalanceTypeOK /\ RowsRead /\ BalanceHand
      /\ BalanceFollows /\ BalanceAsks
  BY DEF BalanceWork, BalanceTypeOK
<1>2. /\ pc = "save" /\ pc' = "height" /\ tries' = 0
      /\ UNCHANGED <<loopVars, inHand, todo, batch, feedVars, taskNum, envVars,
                     history, nodeVars, fails>>
      /\ DOMAIN balances' = DOMAIN balances \cup asking /\ asking = DOMAIN answers
      /\ \A k \in asking : balances'[k] = answers[k]
      /\ \A k \in DOMAIN balances \ asking : balances'[k] = balances[k]
      /\ misled' = misled \ asking
      /\ Cardinality(DOMAIN lru') <= CacheSize
      /\ asking' = {} /\ DOMAIN answers' = {} /\ lag' = 0
      /\ handled' = handled \cup ToSet(batch)
      /\ counted' = {b \in counted : b.num < batch[1].num}
                            \cup IF ForRevert THEN {} ELSE ToSet(batch)
  BY SaveFacts
<1>3. FeedInv' /\ FeedHeight' = FeedHeight
  BY <1>1, <1>2, FeedStays DEF FeedHeight, feedVars
<1>4. /\ pc \in Running /\ pc' \in Running /\ pc' \notin Between
      /\ 0 <= RetryTimes /\ 0 \in 0..(RetryTimes + 1)
  BY <1>2, AsyncTaskAssumption DEF Between, Running
<1>5. LoopTypeOK'
  BY <1>1, <1>2, <1>3, <1>4 DEF LoopTypeOK, loopVars, envVars, history, FeedInv
<1>6. RowsRead'
  BY <1>1, <1>2 DEF RowsRead, RowOK
<1>7. ToSet(batch) \subseteq Blocks
  BY <1>1, LenProperties, ElementOfSeq DEF LoopTypeOK, ToSet
<1>8. counted' \subseteq handled' /\ handled' \subseteq Blocks
  BY <1>1, <1>2, <1>7 DEF BalanceTypeOK
<1>9. 0 \in 0..MaxLag /\ 0 < Len(node)
  <2>1. lag \in 0..MaxLag /\ lag < Len(node) /\ Len(node) \in Nat /\ MaxLag \in Nat
    BY <1>1, LenProperties, BalanceTaskAssumption DEF BalanceTypeOK
  <2>2. QED
    BY <2>1
<1>10. BalanceTypeOK'
  BY <1>1, <1>2, <1>5, <1>8, <1>9 DEF BalanceTypeOK, nodeVars, Linked
<1>11. ForRevert' = ForRevert
  BY <1>2 DEF ForRevert
<1>12. BalanceHand'
  BY <1>1, <1>2, <1>4, <1>11 DEF BalanceHand
<1>13. BalanceFollows'
  BY <1>1, <1>2, <1>3, <1>11 DEF BalanceFollows, loopVars
<1>14. BalanceAsks'
  BY <1>2 DEF BalanceAsks
<1>15. QED
  BY <1>3, <1>6, <1>10, <1>12, <1>13, <1>14 DEF BalanceWork

\* The height is recorded, or an error is logged.
LEMMA UpdateFacts ==
    ASSUME BalanceTypeOK, NEW n \in Nat, Update(n)
    PROVE  taskNum' \in {n, taskNum} /\ taskNum' \in Nat /\ fails' \in 0..MaxFails
<1>1. fails \in 0..MaxFails /\ taskNum \in Nat /\ MaxFails \in Nat
  BY BalanceTaskAssumption DEF BalanceTypeOK, LoopTypeOK
<1>2. QED
  BY <1>1 DEF Update

LEMMA RecordBalance == ASSUME BalanceWork, RecordHeight PROVE BalanceWork'
<1>1. /\ LoopTypeOK /\ FeedInv /\ BalanceTypeOK /\ RowsRead /\ BalanceHand
      /\ BalanceFollows /\ BalanceAsks
  BY DEF BalanceWork, BalanceTypeOK
<1>2. /\ pc = "height" /\ ~ForRevert /\ Update(Last(batch).num)
      /\ curHeight' = Last(batch).num /\ batch' = <<>> /\ tries' = 0 /\ todo' = todo
      /\ pc' = (IF todo # <<>> THEN "handle"
                ELSE IF inHand # <<>> THEN "drain" ELSE "loop")
      /\ inHand' = (IF todo # <<>> THEN inHand ELSE <<>>)
      /\ UNCHANGED <<cache, latestHeight, compensation, feedVars, envVars, history,
                     nodeVars, queryVars, cacheVars, balances, handled, counted, misled>>
  BY DEF RecordHeight, Saved
<1>3. Last(batch).num \in Nat
  BY <1>2, BatchHand
<1>4. todo = <<>> /\ asking = {}
  <2>1. pc \in Running /\ pc \notin {"query", "save", "handle"}
    BY <1>2 DEF Running
  <2>2. QED
    BY <1>1, <2>1 DEF BalanceHand, BalanceAsks
<1>5. /\ inHand' = <<>> /\ todo' = <<>> /\ batch' = <<>> /\ tries' = 0 /\ ~ForRevert'
      /\ pc' \in Between /\ pc' \in Running
  BY <1>2, <1>4 DEF Between, Running, ForRevert
<1>6. taskNum' \in Nat /\ fails' \in 0..MaxFails
  BY <1>1, <1>2, <1>3, UpdateFacts
<1>7. FeedInv'
  BY <1>1, <1>2, FeedStays
<1>8. LoopTypeOK'
  <2>1. /\ <<>> \in Seq(Blocks) /\ <<>> \in Seq(Event) /\ Len(<<>>) = 0 /\ 0 <= 1
        /\ 0 \in 0..(RetryTimes + 1)
    BY EmptySeq, AsyncTaskAssumption
  <2>2. QED
    BY <1>1, <1>2, <1>3, <1>5, <1>6, <1>7, <2>1 DEF LoopTypeOK, envVars, history, FeedInv
<1>9. BalanceTypeOK'
  BY <1>1, <1>2, <1>6, <1>8 DEF BalanceTypeOK, nodeVars, queryVars, cacheVars, Linked
<1>10. RowsRead'
  BY <1>1, <1>2 DEF RowsRead, RowOK, queryVars
<1>11. BalanceHand'
  BY <1>5, AsyncTaskAssumption DEF BalanceHand, Between
<1>12. BalanceFollows'
  <2>1. DOMAIN <<>> = {}
    OBVIOUS
  <2>2. QED
    BY <1>5, <2>1 DEF BalanceFollows
<1>13. BalanceAsks'
  BY <1>2, <1>4, <1>5 DEF BalanceAsks, queryVars, Between
<1>14. QED
  BY <1>7, <1>9, <1>10, <1>11, <1>12, <1>13 DEF BalanceWork

LEMMA CleanBalance == ASSUME BalanceWork, CleanAndHandle PROVE BalanceWork'
<1>1. /\ LoopTypeOK /\ FeedInv /\ BalanceTypeOK /\ RowsRead /\ BalanceHand
      /\ BalanceFollows /\ BalanceAsks
  BY DEF BalanceWork, BalanceTypeOK
<1>2. /\ pc = "revert" /\ lru' = Empty /\ filter' = {}
      /\ todo' = <<inHand[1].blk>> /\ pc' = "handle"
      /\ UNCHANGED <<loopVars, inHand, batch, tries, feedVars, taskNum, envVars,
                   history, nodeVars, queryVars, tableVars>>
  BY DEF CleanAndHandle, Clean
<1>3. ForRevert /\ ForRevert' /\ batch = <<>> /\ tries = 0
  BY <1>1, <1>2 DEF BalanceHand, ForRevert
<1>4. inHand[1].blk \in Blocks
  BY <1>1, <1>3, RevertHand
<1>5. todo' \in Seq(Blocks) /\ todo' # <<>> /\ ToSet(todo') = {inHand[1].blk}
  BY <1>2, <1>4 DEF ToSet
<1>6. DOMAIN lru' = {} /\ Cardinality({}) = 0 /\ 0 <= CacheSize /\ 0 <= RetryTimes
  BY <1>2, FS_EmptySet, BalanceTaskAssumption, AsyncTaskAssumption DEF Empty
<1>7. FeedInv' /\ FeedHeight' = FeedHeight
  BY <1>1, <1>2, FeedStays DEF FeedHeight, feedVars
<1>8. pc \in Running /\ pc' \in Running /\ pc' \notin Between /\ asking = {}
  BY <1>1, <1>2 DEF Between, Running, BalanceAsks
<1>9. LoopTypeOK'
  BY <1>1, <1>2, <1>5, <1>7, <1>8 DEF LoopTypeOK, loopVars, envVars, history, FeedInv
<1>10. BalanceTypeOK'
  BY <1>1, <1>2, <1>6, <1>9 DEF BalanceTypeOK, nodeVars, queryVars, tableVars, Linked
<1>11. RowsRead'
  BY <1>1, <1>2 DEF RowsRead, RowOK, queryVars, tableVars
<1>12. BalanceHand'
  BY <1>2, <1>3, <1>5, <1>6, <1>8 DEF BalanceHand
<1>13. BalanceFollows'
  <2>1. ToSet(<<>>) = {}
    BY DEF ToSet
  <2>2. QED
    BY <1>1, <1>2, <1>3, <1>5, <1>7, <2>1 DEF BalanceFollows, loopVars
<1>14. BalanceAsks'
  BY <1>2, <1>6, <1>8 DEF BalanceAsks, queryVars
<1>15. QED
  BY <1>7, <1>10, <1>11, <1>12, <1>13, <1>14 DEF BalanceWork

LEMMA RecordRevertedBalance == ASSUME BalanceWork, RecordReverted PROVE BalanceWork'
<1>1. /\ LoopTypeOK /\ FeedInv /\ BalanceTypeOK /\ RowsRead /\ BalanceHand
      /\ BalanceFollows /\ BalanceAsks
  BY DEF BalanceWork, BalanceTypeOK
<1>2. /\ pc = "height" /\ ForRevert /\ Update(Last(batch).num)
      /\ curHeight' = Last(batch).num /\ batch' = <<>> /\ pc' = "record"
      /\ UNCHANGED <<cache, latestHeight, compensation, inHand, todo, tries,
                   feedVars, envVars, history,
                   nodeVars, queryVars, cacheVars, balances, handled, counted, misled>>
  BY DEF RecordReverted
<1>3. Last(batch).num \in Nat /\ Last(batch) = inHand[1].blk
  BY <1>2, BatchHand
<1>4. todo = <<>> /\ asking = {} /\ tries = 0 /\ pc' \in Running /\ pc' \notin Between
  <2>1. pc \in Running /\ pc \notin {"query", "save", "handle"}
    BY <1>2 DEF Running
  <2>2. QED
    BY <1>1, <1>2, <2>1 DEF BalanceHand, BalanceAsks, Between, Running
<1>5. taskNum' \in Nat /\ fails' \in 0..MaxFails
  BY <1>1, <1>2, <1>3, UpdateFacts
<1>6. FeedInv' /\ FeedHeight' = FeedHeight
  BY <1>1, <1>2, FeedStays DEF FeedHeight, feedVars
<1>7. LoopTypeOK'
  <2>1. <<>> \in Seq(Blocks)
    BY EmptySeq
  <2>2. QED
    BY <1>1, <1>2, <1>3, <1>4, <1>5, <1>6, <2>1 DEF LoopTypeOK, envVars, history, FeedInv
<1>8. BalanceTypeOK'
  BY <1>1, <1>2, <1>5, <1>7 DEF BalanceTypeOK, nodeVars, queryVars, cacheVars, Linked
<1>9. RowsRead'
  BY <1>1, <1>2 DEF RowsRead, RowOK, queryVars
<1>10. ForRevert'
  BY <1>2 DEF ForRevert
<1>11. BalanceHand'
  BY <1>1, <1>2, <1>4, <1>10, AsyncTaskAssumption DEF BalanceHand
<1>12. BalanceFollows'
  <2>1. ToSet(<<>>) = {}
    BY DEF ToSet
  <2>2. inHand[1].blk.num <= inHand[1].blk.num
    BY <1>3
  <2>3. QED
    BY <1>1, <1>2, <1>3, <1>4, <1>6, <1>10, <2>1, <2>2 DEF BalanceFollows
<1>13. BalanceAsks'
  BY <1>2, <1>4 DEF BalanceAsks, queryVars
<1>14. QED
  BY <1>6, <1>8, <1>9, <1>11, <1>12, <1>13 DEF BalanceWork

LEMMA RecordBelowBalance == ASSUME BalanceWork, RecordBelow PROVE BalanceWork'
<1>1. /\ LoopTypeOK /\ FeedInv /\ BalanceTypeOK /\ RowsRead /\ BalanceHand
      /\ BalanceFollows /\ BalanceAsks
  BY DEF BalanceWork, BalanceTypeOK
<1>2. /\ pc = "record" /\ Update(inHand[1].blk.num - 1)
      /\ curHeight' = inHand[1].blk.num - 1 /\ latestHeight' = inHand[1].blk.num - 1
      /\ inHand' = <<>> /\ tries' = 0 /\ pc' = "drain"
      /\ UNCHANGED <<cache, compensation, todo, batch, feedVars, envVars, history,
                   nodeVars, queryVars, cacheVars, balances, handled, counted, misled>>
  BY DEF RecordBelow, Reverted
<1>3. ForRevert /\ pc \in Running /\ todo = <<>> /\ batch = <<>> /\ asking = {}
  BY <1>1, <1>2 DEF BalanceHand, Running, BalanceAsks
<1>4. inHand[1].blk.num - 1 \in Nat
  BY <1>1, <1>3, RevertHand
<1>5. /\ inHand' = <<>> /\ todo' = <<>> /\ batch' = <<>> /\ tries' = 0 /\ ~ForRevert'
      /\ pc' \in Between /\ pc' \in Running
  BY <1>2, <1>3 DEF Between, Running, ForRevert
<1>6. taskNum' \in Nat /\ fails' \in 0..MaxFails
  BY <1>1, <1>2, <1>4, UpdateFacts
<1>7. FeedInv'
  BY <1>1, <1>2, FeedStays
<1>8. LoopTypeOK'
  <2>1. /\ <<>> \in Seq(Blocks) /\ <<>> \in Seq(Event) /\ Len(<<>>) = 0 /\ 0 <= 1
        /\ 0 \in 0..(RetryTimes + 1)
    BY EmptySeq, AsyncTaskAssumption
  <2>2. QED
    BY <1>1, <1>2, <1>4, <1>5, <1>6, <1>7, <2>1 DEF LoopTypeOK, envVars, history, FeedInv
<1>9. BalanceTypeOK'
  BY <1>1, <1>2, <1>6, <1>8 DEF BalanceTypeOK, nodeVars, queryVars, cacheVars, Linked
<1>10. RowsRead'
  BY <1>1, <1>2 DEF RowsRead, RowOK, queryVars
<1>11. BalanceHand'
  BY <1>5, AsyncTaskAssumption DEF BalanceHand, Between
<1>12. BalanceFollows'
  <2>1. DOMAIN <<>> = {}
    OBVIOUS
  <2>2. QED
    BY <1>5, <2>1 DEF BalanceFollows
<1>13. BalanceAsks'
  BY <1>2, <1>3, <1>5 DEF BalanceAsks, queryVars, Between
<1>14. QED
  BY <1>7, <1>9, <1>10, <1>11, <1>12, <1>13 DEF BalanceWork

\* The steps of the tasks, one by one.
LEMMA BalanceCases ==
    ASSUME NEW calls, BalanceNext(calls)
    PROVE  \/ Idle /\ UNCHANGED balanceVars
           \/ BaseApplies /\ UNCHANGED balanceVars
           \/ (\E e \in Event : PublishNode(e))
           \/ (\E e \in Event : PassedBy(e)) /\ UNCHANGED balanceVars
           \/ (\E e \in Event : ReceiveNext(e)) /\ UNCHANGED balanceVars
           \/ (\E e \in Event : ReceiveRevert(e)) /\ UNCHANGED balanceVars
           \/ NodeMoves \/ (QueryFails \/ SaveBalancesFail) \/ RestartBalance
           \/ \E end \in Nat : ReadFound(end) /\ UNCHANGED balanceVars
           \/ \E end \in Nat : end >= curHeight /\ Skip(end, "loop") /\ UNCHANGED balanceVars
           \/ ReadFails /\ UNCHANGED balanceVars
           \/ AskForTouched \/ ReadBalance(calls) \/ AnswersRead(calls)
           \/ Save \/ RecordHeight \/ CleanAndHandle \/ RecordReverted \/ RecordBelow
<1>1. CASE Common
  <2>1. CASE LoopStep /\ UNCHANGED balanceVars
    BY <2>1 DEF LoopStep, Receive, Idle, PassedBy
  <2>2. CASE (BaseApplies \/ Signal \/ Crash \/ TakeStop) /\ UNCHANGED balanceVars
    BY <2>2 DEF Idle
  <2>3. CASE (\E e \in Event : PublishNode(e)) \/ NodeMoves \/ QueryFails \/ SaveBalancesFail
                \/ RestartBalance
    BY <2>3
  <2>4. QED
    BY <1>1, <2>1, <2>2, <2>3 DEF Common
<1>2. CASE \E end \in Nat : end >= curHeight /\ CatchUp(end)
  BY <1>2 DEF CatchUp
<1>3. QED
  BY <1>1, <1>2 DEF BalanceNext

LEMMA NextBalance ==
    ASSUME BalanceWork, NEW calls, [BalanceNext(calls)]_taskVars PROVE BalanceWork'
<1>1. CASE Idle /\ UNCHANGED balanceVars
  BY <1>1, IdleBalance
<1>2. CASE BaseApplies /\ UNCHANGED balanceVars
  BY <1>2, FeedBalance
<1>3. CASE \E e \in Event : PublishNode(e)
  BY <1>3, FeedBalance DEF PublishNode
<1>4. CASE (\E e \in Event : PassedBy(e)) /\ UNCHANGED balanceVars
  BY <1>4, PassedByBalance
<1>5. CASE (\E e \in Event : ReceiveNext(e)) /\ UNCHANGED balanceVars
  BY <1>5, ReceiveNextBalance
<1>6. CASE (\E e \in Event : ReceiveRevert(e)) /\ UNCHANGED balanceVars
  BY <1>6, ReceiveRevertBalance
<1>7. CASE NodeMoves
  BY <1>7, NodeMovesBalance
<1>8. CASE QueryFails \/ SaveBalancesFail
  BY <1>8, FailsBalance
<1>9. CASE RestartBalance
  BY <1>9, RestartBalanceWork
<1>10. CASE \E end \in Nat : ReadFound(end) /\ UNCHANGED balanceVars
  BY <1>10, ReadFoundBalance
<1>11. CASE \E end \in Nat : end >= curHeight /\ Skip(end, "loop") /\ UNCHANGED balanceVars
  BY <1>11, SkipBalance
<1>12. CASE ReadFails /\ UNCHANGED balanceVars
  BY <1>12, ReadFailsBalance
<1>13. CASE AskForTouched
  BY <1>13, AskBalance
<1>14. CASE ReadBalance(calls)
  BY <1>14, ReadBalanceWork
<1>15. CASE AnswersRead(calls)
  BY <1>15, AnswersWork
<1>16. CASE Save
  BY <1>16, SaveBalance
<1>17. CASE RecordHeight
  BY <1>17, RecordBalance
<1>18. CASE CleanAndHandle
  BY <1>18, CleanBalance
<1>19. CASE RecordReverted
  BY <1>19, RecordRevertedBalance
<1>20. CASE RecordBelow
  BY <1>20, RecordBelowBalance
<1>21. CASE UNCHANGED taskVars
  <2>1. LoopTypeOK /\ FeedInv /\ BalanceTypeOK /\ RowsRead
    BY DEF BalanceWork, BalanceTypeOK
  <2>2. UNCHANGED <<pc, feedVars, loopVars, workVars, taskNum, envVars, history, balanceVars>>
    BY <1>21 DEF taskVars
  <2>3. FeedInv' /\ FeedHeight' = FeedHeight
    BY <2>1, <2>2, FeedStays DEF FeedHeight, feedVars
  <2>4. LoopTypeOK'
    BY <2>1, <2>2, <2>3 DEF LoopTypeOK, loopVars, workVars, envVars, history, FeedInv
  <2>5. BalanceTypeOK' /\ RowsRead'
    BY <2>1, <2>2, <2>4, BalanceTypesStay, RowsStay
  <2>6. QED
    BY <2>2, <2>3, <2>5, QuietBalance
       DEF workVars, loopVars, PcMoves, balanceVars, queryVars, cacheVars
<1>22. BalanceNext(calls) \/ UNCHANGED taskVars
  OBVIOUS
<1>23. QED
  BY <1>1, <1>2, <1>3, <1>4, <1>5, <1>6, <1>7, <1>8, <1>9, <1>10, <1>11, <1>12, <1>13,
     <1>14, <1>15, <1>16, <1>17, <1>18, <1>19, <1>20, <1>21, <1>22, BalanceCases

----------------------------------------------------------------------------
(* The steps of the three tasks are such steps. *)

\* The last block of the batch that touches k is not above its last.
LEMMA TouchedFacts ==
    ASSUME BalanceWork, pc = "query", NEW k \in asking
    PROVE  TouchedAt(k) \in Nat /\ TouchedAt(k) <= Last(batch).num
<1> DEFINE S == {b.num : b \in {x \in ToSet(batch) : k \in x.touches}}
           n == Last(batch).num
           above == {m \in Nat : \A i \in S : m >= i}
<1>1. /\ n \in Nat /\ \A b \in ToSet(batch) : b.num \in Nat /\ b.num <= n
  BY BatchHand
<1>2. \E b \in ToSet(batch) : k \in b.touches
  BY DEF BalanceWork, BalanceAsks
<1>3. S # {} /\ S \subseteq Nat /\ \A i \in S : i <= n
  BY <1>1, <1>2
<1> HIDE DEF S, n
<1>4. \E m \in S : \A i \in S : m >= i
  <2>1. n \in above
    BY <1>1, <1>3 DEF n
  <2>2. PICK m \in above : \A j \in above : m <= j
    BY <2>1, LeastNumber
  <2>3. m \in S
    <3> SUFFICES ASSUME m \notin S PROVE FALSE
      OBVIOUS
    <3>1. \A i \in S : i < m
      <4>1. \A i \in S : i \in Nat /\ m >= i /\ i # m
        BY <1>3, <2>2
      <4>2. QED
        BY <2>2, <4>1
    <3>2. m > 0
      <4>1. PICK i \in S : i \in Nat
        BY <1>3
      <4>2. i < m /\ m \in Nat
        BY <3>1
      <4>3. QED
        BY <4>1, <4>2
    <3>3. m - 1 \in above
      BY <1>3, <2>2, <3>1, <3>2
    <3>4. QED
      BY <2>2, <3>3
  <2>4. QED
    BY <2>2, <2>3
<1>5. TouchedAt(k) = Max(S)
  BY DEF TouchedAt, S
<1>6. Max(S) \in S
  BY <1>4 DEF Max
<1>7. QED
  BY <1>3, <1>5, <1>6 DEF n

\* What they have in common.
LEMMA SharedBalance ==
    ASSUME BalanceWork, NEW calls,
           \/ Common \/ CatchUp(curHeight + 1 + BatchBlockCount)
           \/ CatchUp(curHeight + BatchBlockCount)
           \/ AskForTouched \/ Save \/ RecordHeight
           \/ CleanAndHandle \/ RecordReverted \/ RecordBelow
    PROVE  BalanceNext(calls)
<1>1. /\ curHeight + 1 + BatchBlockCount \in Nat /\ curHeight + BatchBlockCount \in Nat
      /\ curHeight + 1 + BatchBlockCount >= curHeight
      /\ curHeight + BatchBlockCount >= curHeight
  <2>1. curHeight \in Nat /\ BatchBlockCount \in Nat
    BY AsyncTaskAssumption DEF BalanceWork, BalanceTypeOK, LoopTypeOK
  <2>2. QED
    BY <2>1
<1>2. QED
  BY <1>1 DEF BalanceNext

LEMMA ValueRead ==
    ASSUME BalanceWork, NEW k, ReadValue(k) PROVE ReadBalance(FALSE)
<1>1. /\ pc = "query" /\ k \in asking \ DOMAIN answers
      /\ answers' = Overlaid(answers, [j \in {k} |-> Balance(View, 0, FALSE)])
      /\ UNCHANGED <<pc, feedVars, loopVars, workVars, taskNum, envVars, history,
                     nodeVars, lag, asking, cacheVars, tableVars>>
  BY DEF ReadValue
<1>2. fails' \in fails..MaxFails
  BY <1>1, BalanceTaskAssumption DEF tableVars, BalanceWork, BalanceTypeOK
<1>3. UNCHANGED <<balances, handled, counted, misled>>
  BY <1>1 DEF tableVars
<1>4. 0 \in Nat /\ FALSE \in BOOLEAN /\ View \in {View, <<>>}
  OBVIOUS
<1>5. Timely(Balance(View, 0, FALSE))
  <2>1. Len(View) \in Nat
    BY ViewFacts DEF BalanceWork
  <2>2. Len(View) >= 0
    BY <2>1
  <2>3. QED
    BY <2>2 DEF Timely, Balance
<1>6. QED
  BY <1>1, <1>2, <1>3, <1>4, <1>5 DEF ReadBalance

LEMMA NativeBalanceStep ==
    ASSUME BalanceWork, [NativeBalanceNext]_taskVars
    PROVE  [BalanceNext(FALSE)]_taskVars
<1>1. CASE \E k \in Keys : ReadValue(k)
  <2>1. ReadBalance(FALSE)
    BY <1>1, ValueRead
  <2>2. QED
    BY <2>1 DEF BalanceNext
<1>2. CASE ReadHeight(Last(batch).num)
  BY <1>2 DEF BalanceNext, AnswersRead
<1>3. CASE \/ Common \/ CatchUp(curHeight + 1 + BatchBlockCount)
           \/ AskForTouched \/ Save \/ RecordHeight
           \/ CleanAndHandle \/ RecordReverted \/ RecordBelow
  BY <1>3, SharedBalance
<1>4. QED
  BY <1>1, <1>2, <1>3
     DEF NativeBalanceNext, NativeFixHistory, NativeHandleBlocks, NativeGetBalances,
         NativeSaveBalances, NativeRevertBlock

\* What a call of the contract leaves when no node had to have all blocks of
\* the batch, and when one had.
LEMMA CallReaches ==
    ASSUME BalanceWork, pc = "query", asking # {}, HighEnough(latestHeight)
    PROVE  /\ Len(View) \in Nat /\ View # <<>> /\ TooEarly \in BOOLEAN
           /\ TooEarly \/ Len(View) >= Last(batch).num
<1>1. Len(View) \in Nat /\ Len(View) >= 1
  BY ViewFacts DEF BalanceWork
<1>2. Len(View) >= latestHeight /\ latestHeight \in Nat
  BY DEF HighEnough, BalanceWork, BalanceTypeOK, LoopTypeOK
<1>3. Last(batch).num \in Nat
  BY BatchHand
<1>4. TooEarly \/ latestHeight >= Last(batch).num
  BY <1>2, <1>3 DEF TooEarly
<1>5. View # <<>>
  <2>1. Len(<<>>) = 0
    OBVIOUS
  <2>2. QED
    BY <1>1, <2>1
<1>6. QED
  BY <1>1, <1>2, <1>3, <1>4, <1>5 DEF TooEarly

LEMMA Erc20Called ==
    ASSUME BalanceWork, NEW k \in Keys, Erc20GetBalanceByMultiCall(k)
    PROVE  ReadBalance(TRUE)
<1>1. /\ pc = "query" /\ k \in asking \ DOMAIN answers /\ asking # {}
      /\ \/ /\ HighEnough(latestHeight)
            /\ answers' = Overlaid(answers,
                  [j \in {k} |-> Balance(View, Len(View), TooEarly)])
            /\ UNCHANGED fails
         \/ /\ fails < MaxFails /\ fails' = fails + 1
            /\ answers' = Overlaid(answers,
                  [j \in {k} |-> Balance(<<>>, TouchedAt(k), FALSE)])
      /\ UNCHANGED <<pc, feedVars, loopVars, workVars, taskNum, envVars, history,
                     nodeVars, lag, asking, cacheVars, balances, handled,
                     counted, misled>>
  BY DEF Erc20GetBalanceByMultiCall
<1>2. fails \in 0..MaxFails /\ MaxFails \in Nat
  BY BalanceTaskAssumption DEF BalanceWork, BalanceTypeOK
<1>3. fails' \in fails..MaxFails
  BY <1>1, <1>2
<1>4. CASE /\ HighEnough(latestHeight)
           /\ answers' = Overlaid(answers,
                 [j \in {k} |-> Balance(View, Len(View), TooEarly)])
  <2>1. /\ Len(View) \in Nat /\ TooEarly \in BOOLEAN
        /\ TooEarly \/ Len(View) >= Last(batch).num
    BY <1>1, <1>4, CallReaches
  <2> DEFINE row == Balance(View, Len(View), TooEarly)
  <2>2. row.at = View /\ row.height = Len(View) /\ row.unsure = TooEarly
    BY DEF Balance
  <2>3. Reaches(row, Last(batch).num)
    <3>1. CASE TooEarly
      BY <2>2, <3>1 DEF Reaches
    <3>2. CASE Len(View) >= Last(batch).num
      BY <2>2, <3>2 DEF Reaches
    <3>3. QED
      BY <2>1, <3>1, <3>2
  <2>4. Timely(row)
    <3>1. Len(row.at) >= row.height
      BY <2>1, <2>2
    <3>2. QED
      BY <3>1 DEF Timely
  <2>5. View \in {View, <<>>}
    OBVIOUS
  <2>6. QED
    BY <1>1, <1>3, <1>4, <2>1, <2>3, <2>4, <2>5 DEF ReadBalance
<1>5. CASE answers' = Overlaid(answers,
                 [j \in {k} |-> Balance(<<>>, TouchedAt(k), FALSE)])
  <2> DEFINE row == Balance(<<>>, TouchedAt(k), FALSE)
  <2>1. Unanswered(row)
    BY DEF Unanswered, Balance
  <2>2. Reaches(row, Last(batch).num) /\ Timely(row)
    BY <2>1 DEF Reaches, Timely
  <2>3. TouchedAt(k) \in Nat /\ FALSE \in BOOLEAN /\ <<>> \in {View, <<>>}
    BY <1>1, TouchedFacts
  <2>4. QED
    BY <1>1, <1>3, <1>5, <2>2, <2>3 DEF ReadBalance
<1>6. QED
  BY <1>1, <1>4, <1>5

LEMMA ElementReverted ==
    ASSUME BalanceWork, NEW k, ElementReverts(k) PROVE ReadBalance(FALSE)
<1>1. /\ pc = "query" /\ k \in asking \ DOMAIN answers
      /\ fails < MaxFails /\ fails' = fails + 1
      /\ answers' = Overlaid(answers, [j \in {k} |-> Balance(<<>>, 0, FALSE)])
      /\ UNCHANGED <<pc, feedVars, loopVars, workVars, taskNum, envVars, history,
                     nodeVars, lag, asking, cacheVars, balances, handled,
                     counted, misled>>
  BY DEF ElementReverts
<1>2. fails \in 0..MaxFails /\ MaxFails \in Nat
  BY BalanceTaskAssumption DEF BalanceWork, BalanceTypeOK
<1>3. fails' \in fails..MaxFails
  BY <1>1, <1>2
<1>4. 0 \in Nat /\ FALSE \in BOOLEAN /\ <<>> \in {View, <<>>}
  OBVIOUS
<1>5. Timely(Balance(<<>>, 0, FALSE))
  BY DEF Timely, Unanswered, Balance
<1>6. QED
  BY <1>1, <1>3, <1>4, <1>5 DEF ReadBalance

LEMMA Erc20BalanceStep ==
    ASSUME BalanceWork, [Erc20BalanceNext]_taskVars
    PROVE  [BalanceNext(MultiCallContract)]_taskVars
<1>1. CASE ~MultiCallContract /\ \E k \in Keys : ReadValue(k) \/ ElementReverts(k)
  <2>1. ReadBalance(FALSE)
    BY <1>1, ValueRead, ElementReverted
  <2>2. ReadBalance(MultiCallContract)
    BY <1>1, <2>1 DEF ReadBalance
  <2>3. QED
    BY <2>2 DEF BalanceNext
<1>2. CASE ~MultiCallContract /\ ReadHeight(Last(batch).num)
  BY <1>2 DEF BalanceNext, AnswersRead
<1>3. CASE \E k \in Keys : Erc20GetBalanceByMultiCall(k)
  <2>1. ReadBalance(TRUE) /\ MultiCallContract
    BY <1>3, Erc20Called DEF Erc20GetBalanceByMultiCall
  <2>2. ReadBalance(MultiCallContract)
    BY <2>1 DEF ReadBalance
  <2>3. QED
    BY <2>2 DEF BalanceNext
<1>4. CASE Erc20GetBalancesDone
  BY <1>4 DEF BalanceNext, AnswersRead, Erc20GetBalancesDone
<1>5. CASE \/ Common \/ CatchUp(curHeight + 1 + BatchBlockCount)
           \/ AskForTouched \/ Save \/ RecordHeight
           \/ CleanAndHandle \/ RecordReverted \/ RecordBelow
  <2>1. BalanceNext(MultiCallContract)
    BY <1>5, SharedBalance
  <2>2. QED
    BY <2>1
<1>6. QED
  BY <1>1, <1>2, <1>3, <1>4, <1>5
     DEF Erc20BalanceNext, Erc20FixHistory, Erc20HandleBlocks, Erc20GetBalancesBatch,
         Erc20SaveBalances, Erc20RevertBlock

LEMMA Erc1155Called ==
    ASSUME BalanceWork, NEW k \in Keys, Erc1155GetBalanceByMultiCall(k)
    PROVE  ReadBalance(TRUE)
<1>1. /\ pc = "query" /\ k \in asking \ DOMAIN answers /\ asking # {}
      /\ \E c \in {View, <<>>} :
          /\ answers' = Overlaid(answers,
                [j \in {k} |-> Balance(c, TouchedAt(k), TooEarly)])
          /\ IF c = <<>> THEN fails < MaxFails /\ fails' = fails + 1
             ELSE HighEnough(latestHeight) /\ UNCHANGED fails
      /\ UNCHANGED <<pc, feedVars, loopVars, workVars, taskNum, envVars, history,
                     nodeVars, lag, asking, cacheVars, balances, handled,
                     counted, misled>>
  BY DEF Erc1155GetBalanceByMultiCall
<1>2. PICK c \in {View, <<>>} :
          /\ answers' = Overlaid(answers,
                [j \in {k} |-> Balance(c, TouchedAt(k), TooEarly)])
          /\ IF c = <<>> THEN fails < MaxFails /\ fails' = fails + 1
             ELSE HighEnough(latestHeight) /\ UNCHANGED fails
  BY <1>1
<1>3. fails \in 0..MaxFails /\ MaxFails \in Nat
  BY BalanceTaskAssumption DEF BalanceWork, BalanceTypeOK
<1>4. fails' \in fails..MaxFails
  BY <1>2, <1>3
<1>5. /\ TouchedAt(k) \in Nat /\ TouchedAt(k) <= Last(batch).num /\ TooEarly \in BOOLEAN
      /\ Last(batch).num \in Nat
  BY <1>1, TouchedFacts, BatchHand DEF TooEarly
<1> DEFINE row == Balance(c, TouchedAt(k), TooEarly)
<1>6. row.at = c /\ row.height = TouchedAt(k) /\ row.unsure = TooEarly
  BY DEF Balance
<1>7. CASE c = <<>>
  <2>1. Reaches(row, Last(batch).num) /\ Timely(row)
    BY <1>6, <1>7 DEF Reaches, Timely, Unanswered
  <2>2. QED
    BY <1>1, <1>2, <1>4, <1>5, <2>1 DEF ReadBalance
<1>8. CASE c # <<>>
  <2>1. c = View /\ HighEnough(latestHeight)
    BY <1>2, <1>8
  <2>2. Len(View) \in Nat /\ (TooEarly \/ Len(View) >= Last(batch).num)
    BY <1>1, <2>1, CallReaches
  <2>3. Reaches(row, Last(batch).num)
    <3>1. CASE TooEarly
      BY <1>6, <3>1 DEF Reaches
    <3>2. CASE Len(View) >= Last(batch).num
      BY <1>6, <2>1, <3>2 DEF Reaches
    <3>3. QED
      BY <2>2, <3>1, <3>2
  <2>4. Timely(row)
    <3>1. CASE TooEarly
      BY <1>6, <3>1 DEF Timely
    <3>2. CASE Len(View) >= Last(batch).num
      <4>1. Len(View) >= TouchedAt(k)
        BY <1>5, <2>2, <3>2
      <4>2. Len(row.at) >= row.height
        BY <1>6, <2>1, <4>1
      <4>3. QED
        BY <4>2 DEF Timely
    <3>3. QED
      BY <2>2, <3>1, <3>2
  <2>5. QED
    BY <1>1, <1>2, <1>4, <1>5, <2>3, <2>4 DEF ReadBalance
<1>9. QED
  BY <1>7, <1>8

LEMMA Erc1155BalanceStep ==
    ASSUME BalanceWork, [Erc1155BalanceNext]_taskVars
    PROVE  [BalanceNext(TRUE)]_taskVars
<1>1. CASE \E k \in Keys : Erc1155GetBalanceByMultiCall(k)
  <2>1. ReadBalance(TRUE)
    BY <1>1, Erc1155Called
  <2>2. QED
    BY <2>1 DEF BalanceNext
<1>2. CASE Erc1155GetBalancesDone
  BY <1>2 DEF BalanceNext, AnswersRead, Erc1155GetBalancesDone
<1>3. CASE \/ Common \/ CatchUp(curHeight + BatchBlockCount)
           \/ AskForTouched \/ Save \/ RecordHeight
           \/ CleanAndHandle \/ RecordReverted \/ RecordBelow
  BY <1>3, SharedBalance
<1>4. QED
  BY <1>1, <1>2, <1>3
     DEF Erc1155BalanceNext, Erc1155FixHistory, Erc1155HandleBlocks,
         Erc1155SaveBalances, Erc1155RevertBlock

----------------------------------------------------------------------------
(* The node and the feed: what the node has given up and what it has.  The  *)
(* feed never sends a block it has given up, and takes back nothing else.   *)

NodeTold ==
    /\ BlocksKnown
    /\ ToSet(node) \cap abandoned = {}
    /\ ToSet(sent) \subseteq ToSet(node) \cup abandoned
    /\ \A b : RevertComing(b) => b \in abandoned
    /\ \A b : Reverting(b) \in ToSet(inHand) => b \in gone
    /\ gone \subseteq abandoned /\ astray \subseteq abandoned
    /\ handled \subseteq ToSet(sent) \cup abandoned
    /\ \A b \in ToSet(batch) \cup ToSet(todo) : Settled(b)

\* Nothing is forgotten of the blocks the task works on.
StaysSettled == \A x : Settled(x) => Settled(x)'

LEMMA SettledFacts ==
    ASSUME NodeTold
    PROVE  /\ \A b : Settled(b) => b \in ToSet(sent) \cup abandoned
           /\ \A b \in handled \cap ToSet(node) : Stands(b)
           /\ \A b : Stands(b) <=> b \in ToSet(sent)
           /\ \A b : RevertComing(b) => b \notin ToSet(node)
           /\ \A b \in handled : b \in ToSet(sent) \/ b \in abandoned
<1>1. \A b : Stands(b) <=> b \in ToSet(sent)
  BY DEF Stands, ToSet
<1>2. QED
  BY <1>1 DEF NodeTold, Settled

LEMMA InitNodeTold == ASSUME BalanceInit PROVE NodeTold
<1>1. /\ Init /\ node = StartChain /\ abandoned = {} /\ sent = StartChain
      /\ handled = ToSet(SubSeq(StartChain, 1, StartNumber))
      /\ inHand = <<>> /\ blockChan = <<>> /\ batch = <<>> /\ todo = <<>>
      /\ gone = {} /\ astray = {}
  BY DEF BalanceInit, Init, FeedInit
<1>2. ToSet(<<>>) = {}
  BY DEF ToSet
<1>3. BlocksKnown
  BY <1>1, InitKnown
<1>4. handled \subseteq ToSet(sent)
  <2> DEFINE s == SubSeq(StartChain, 1, StartNumber)
  <2>1. /\ StartNumber \in 0..Len(StartChain) /\ StartChain \in Seq(Blocks)
        /\ Len(StartChain) \in Nat /\ DOMAIN StartChain = 1..Len(StartChain)
        /\ \A i \in 1..Len(StartChain) : StartChain[i] \in Blocks
    BY AsyncTaskAssumption, TaskFeedAssumption, LenProperties, ElementOfSeq
  <2>2. PICK n \in Nat : n = StartNumber /\ n <= Len(StartChain)
    BY <2>1
  <2>3. /\ s \in Seq(Blocks) /\ Len(s) = IF 1 <= n THEN n - 1 + 1 ELSE 0
        /\ \A i \in 1..(n - 1 + 1) : s[i] = StartChain[1 + i - 1]
    BY <2>1, <2>2, SubSeqProperties
  <2> HIDE DEF s
  <2>4. DOMAIN s = 1..n /\ \A i \in 1..n : s[i] = StartChain[i]
    BY <2>2, <2>3, LenProperties
  <2>5. QED
    BY <1>1, <2>1, <2>2, <2>4 DEF s, ToSet
<1>5. QED
  BY <1>1, <1>2, <1>3, <1>4 DEF NodeTold, RevertComing

\* A step that leaves the feed alone.
LEMMA SteadyTold ==
    ASSUME NodeTold, UNCHANGED <<feedVars, gone, astray>>, abandoned \subseteq abandoned',
           ToSet(node) \cap abandoned = {} => ToSet(node') \cap abandoned' = {},
           ToSet(node) \subseteq ToSet(node') \cup abandoned',
           ToSet(cache') \subseteq ToSet(cache),
           \A x : Reverting(x) \in ToSet(inHand) <=> Reverting(x) \in ToSet(inHand'),
           \A b \in ToSet(batch') \cup ToSet(todo') :
              b \in ToSet(batch) \cup ToSet(todo) \/ RevertComing(b),
           handled' \subseteq handled \cup ToSet(batch)
    PROVE  NodeTold' /\ StaysSettled
<1>1. BlocksKnown /\ astray \subseteq astray'
  BY DEF NodeTold
<1>2. BlocksKnown' /\ \A x : Settled(x) => Settled(x)'
  BY <1>1, SteadyKnown
<1>3. sent' = sent /\ blockChan' = blockChan
  BY DEF feedVars
<1>4. /\ \A b : Settled(b) => b \in ToSet(sent) \cup abandoned
  BY SettledFacts
<1>5. handled' \subseteq ToSet(sent) \cup abandoned'
  BY <1>4 DEF NodeTold
<1>6. \A b : RevertComing(b)' => b \in abandoned'
  BY <1>3 DEF NodeTold, RevertComing
<1>7. \A b \in ToSet(batch') \cup ToSet(todo') : Settled(b)'
  BY <1>2 DEF NodeTold, Settled
<1>8. QED
  BY <1>2, <1>3, <1>5, <1>6, <1>7 DEF NodeTold, StaysSettled

LEMMA PublishTold ==
    ASSUME BalanceWork, NodeTold, NEW e \in Event, PublishNode(e)
    PROVE  NodeTold' /\ StaysSettled
<1>1. /\ (e.state = "ok") <=> (e.blk \in ToSet(node))
      /\ Publish(e) /\ UNCHANGED balanceVars /\ FeedInv
  BY DEF PublishNode, BalanceWork
<1>2. /\ pc \in Running /\ Deliver(e) /\ UNCHANGED <<loopVars, workVars, history>>
  BY <1>1 DEF Publish, Subscribed
<1>3. BlocksKnown' /\ \A x : Settled(x) => Settled(x)'
  BY <1>1, PublishKnown DEF NodeTold
<1>4. /\ Before(e) = Len(sent) /\ Len(sent') = After(e) /\ FeedInv'
      /\ \A i \in 1..After(e) : i <= Len(sent) => sent'[i] = sent[i]
      /\ e.state = "ok" => sent'[e.blk.num] = e.blk
      /\ blockChan' = Append(blockChan, e)
      /\ \A x : Stands(x) => Stands(x)' \/ e = Reverting(x)
  BY <1>1, <1>2, DeliverFacts, DeliverStands
<1>5. /\ DOMAIN sent = 1..Len(sent) /\ DOMAIN sent' = 1..Len(sent') /\ Len(sent) \in Nat
      /\ blockChan \in Seq(Event) /\ sent' \in Seq(Blocks)
  BY <1>1, <1>4, LenProperties DEF FeedInv, FeedTypeOK
<1>6. ToSet(sent') \subseteq ToSet(sent) \cup ToSet(node)
  <2> SUFFICES ASSUME NEW i \in 1..After(e), sent'[i] \notin ToSet(sent)
               PROVE  sent'[i] \in ToSet(node)
    BY <1>4, <1>5 DEF ToSet
  <2>1. ~(i <= Len(sent))
    BY <1>4, <1>5 DEF ToSet
  <2>2. e.state = "ok" /\ i = e.blk.num
    BY <1>4, <1>5, <2>1, EventFacts
  <2>3. QED
    BY <1>1, <1>4, <2>2
<1>7. e.state = "revert" => e.blk \in abandoned
  <2> SUFFICES ASSUME e.state = "revert" PROVE e.blk \in abandoned
    OBVIOUS
  <2>1. Follows(e, sent) /\ "revert" # "ok"
    BY <1>2 DEF Deliver
  <2>2. e.blk \notin ToSet(node)
    BY <1>1, <2>1
  <2>3. sent # <<>> /\ e.blk = sent[Len(sent)]
    BY <2>1 DEF Follows
  <2>4. Len(sent) \in DOMAIN sent
    <3>1. Len(sent) # 0
      BY <1>1, <2>3, EmptySeq DEF FeedInv, FeedTypeOK
    <3>2. QED
      BY <1>5, <3>1
  <2>5. QED
    BY <2>2, <2>3, <2>4 DEF ToSet, NodeTold
<1>8. \A b : RevertComing(b)' => b \in abandoned
  <2>1. \A x : x \in ToSet(blockChan') => x \in ToSet(blockChan) \/ x = e
    <3>1. /\ Len(blockChan') = Len(blockChan) + 1 /\ Len(blockChan) \in Nat
          /\ DOMAIN blockChan = 1..Len(blockChan) /\ DOMAIN blockChan' = 1..(Len(blockChan) + 1)
          /\ \A i \in 1..Len(blockChan) : blockChan'[i] = blockChan[i]
          /\ blockChan'[Len(blockChan) + 1] = e
      BY <1>4, <1>5, AppendProperties, LenProperties
    <3>2. QED
      BY <3>1 DEF ToSet
  <2>2. inHand' = inHand
    BY <1>2 DEF workVars
  <2> SUFFICES ASSUME NEW b, RevertComing(b)' PROVE b \in abandoned
    OBVIOUS
  <2>3. RevertComing(b) \/ e = Reverting(b)
    BY <2>1, <2>2 DEF RevertComing
  <2>4. e = Reverting(b) => e.state = "revert" /\ e.blk = b
    BY DEF Reverting
  <2>5. QED
    BY <1>7, <2>3, <2>4 DEF NodeTold
<1>9. ToSet(sent) \subseteq ToSet(sent') \cup abandoned
  <2> SUFFICES ASSUME NEW b \in ToSet(sent) PROVE b \in ToSet(sent') \cup abandoned
    OBVIOUS
  <2>1. Stands(b)' \/ e = Reverting(b)
    BY <1>4, SettledFacts
  <2>2. Stands(b)' => b \in ToSet(sent')
    BY DEF Stands, ToSet
  <2>3. e = Reverting(b) => e.state = "revert" /\ e.blk = b
    BY DEF Reverting
  <2>4. QED
    BY <1>7, <2>1, <2>2, <2>3
<1>10. UNCHANGED <<node, abandoned, handled, gone, astray, inHand, batch, todo>>
  BY <1>1, <1>2 DEF balanceVars, nodeVars, tableVars, history, workVars
<1>11. QED
  BY <1>3, <1>6, <1>8, <1>9, <1>10 DEF NodeTold, StaysSettled

LEMMA BaseTold ==
    ASSUME BalanceWork, NodeTold, BaseApplies, UNCHANGED balanceVars
    PROVE  NodeTold' /\ StaysSettled
<1>1. BlocksKnown' /\ \A x : Settled(x) => Settled(x)'
  BY BaseKnown DEF NodeTold, BalanceWork
<1>2. UNCHANGED <<blockChan, sent, inHand, node, abandoned, handled, gone, astray, batch, todo>>
  BY DEF BaseApplies, Apply, balanceVars, nodeVars, tableVars, history, workVars
<1>3. QED
  BY <1>1, <1>2 DEF NodeTold, StaysSettled, RevertComing

\* An event is received: only an event passed by is forgotten.
LEMMA ReceiveTold ==
    ASSUME BalanceWork, NodeTold, NEW e \in Event,
           PassedBy(e) \/ ReceiveNext(e) \/ ReceiveRevert(e), UNCHANGED balanceVars
    PROVE  /\ NodeTold'
           /\ StaysSettled \/ (ReceiveRevertAbove(e) /\ \A x : Settled(x) =>
                                  Settled(x)' \/ x = e.blk)
<1>1. LoopTypeOK /\ FeedInv /\ BalanceHand /\ BlocksKnown
  BY DEF BalanceWork, BalanceTypeOK, NodeTold
<1>2. Take(e)
  BY <1>1, PassedByFacts DEF ReceiveNext, ReceiveRevert
<1>3. /\ sent' = sent /\ blockChan # <<>> /\ e = blockChan[1] /\ blockChan' = Tail(blockChan)
      /\ pc \in Between
      /\ gone' = IF e.state = "revert" THEN gone \cup {e.blk} ELSE gone \ {e.blk}
      /\ UNCHANGED <<batch, astray>>
  BY <1>1, <1>2, TakenFacts
<1>4. inHand = <<>> /\ todo = <<>> /\ batch = <<>>
  BY <1>1, <1>3 DEF BalanceHand
<1>5. BlocksKnown'
  BY <1>1, <1>4, ReceiveKnown
<1>6. /\ \A x : Settled(x) => Settled(x)' \/ e = Reverting(x)
      /\ e.state = "ok" => Stands(e.blk)' \/ RevertComing(e.blk)'
  BY <1>1, <1>2, <1>4, TakeKnown
<1>7. e \in ToSet(blockChan) /\ ToSet(blockChan') \subseteq ToSet(blockChan)
  <2>1. /\ blockChan \in Seq(Event) /\ Len(blockChan) \in Nat /\ Len(blockChan) >= 1
        /\ DOMAIN blockChan = 1..Len(blockChan)
    BY <1>1, <1>3, LenProperties, EmptySeq DEF FeedInv, FeedTypeOK
  <2>2. /\ blockChan' \in Seq(Event) /\ Len(blockChan') = Len(blockChan) - 1
        /\ \A i \in 1..Len(blockChan') : blockChan'[i] = blockChan[i + 1]
    BY <1>3, <2>1, HeadTailProperties
  <2>3. DOMAIN blockChan' = 1..(Len(blockChan) - 1)
    BY <2>2, LenProperties
  <2>4. \A i \in DOMAIN blockChan' : i + 1 \in DOMAIN blockChan /\ blockChan'[i] = blockChan[i + 1]
    BY <2>1, <2>2, <2>3
  <2>5. 1 \in DOMAIN blockChan
    BY <2>1
  <2>6. QED
    BY <1>3, <2>4, <2>5 DEF ToSet
<1>8. \/ PassedBy(e) /\ inHand' = <<>> /\ todo' = <<>>
      \/ ReceiveNext(e) /\ inHand' = <<e>> /\ todo' = <<e.blk>> /\ e.state = "ok"
      \/ ReceiveRevert(e) /\ inHand' = <<e>> /\ todo' = <<>> /\ e.state = "revert"
  BY <1>1, <1>4, PassedByFacts DEF ReceiveNext, ReceiveRevert
<1>9. ToSet(inHand') \subseteq {e} /\ ToSet(<<>>) = {} /\ ToSet(<<e>>) = {e}
  BY <1>8 DEF ToSet
<1>10. \A x : e = Reverting(x) => e.state = "revert" /\ e.blk = x /\ x \in abandoned
  <2> SUFFICES ASSUME NEW x, e = Reverting(x)
               PROVE  e.state = "revert" /\ e.blk = x /\ x \in abandoned
    OBVIOUS
  <2>1. RevertComing(x)
    BY <1>7 DEF RevertComing
  <2>2. QED
    BY <2>1 DEF Reverting, NodeTold
<1>11. e.state = "revert" => e = Reverting(e.blk)
  BY DEF Event, Reverting
<1>12. UNCHANGED <<node, abandoned, handled>>
  BY DEF balanceVars, nodeVars, tableVars
<1>13. gone' \subseteq abandoned
  BY <1>3, <1>10, <1>11 DEF NodeTold
<1>14. /\ \A b : RevertComing(b)' => b \in abandoned
       /\ \A b : Reverting(b) \in ToSet(inHand') => b \in gone'
  BY <1>3, <1>7, <1>9, <1>10 DEF RevertComing, NodeTold
<1>15. \A b \in ToSet(batch') \cup ToSet(todo') : Settled(b)'
  <2>1. CASE todo' = <<>>
    BY <1>3, <1>4, <1>9, <2>1
  <2>2. CASE todo' = <<e.blk>> /\ e.state = "ok"
    <3>1. ToSet(todo') = {e.blk} /\ ToSet(batch') = {}
      BY <1>3, <1>4, <2>2 DEF ToSet
    <3>2. QED
      BY <1>6, <2>2, <3>1 DEF Settled
  <2>3. QED
    BY <1>8, <2>1, <2>2
<1>16. NodeTold'
  BY <1>3, <1>5, <1>12, <1>13, <1>14, <1>15 DEF NodeTold
<1>17. StaysSettled \/ (ReceiveRevertAbove(e) /\ \A x : Settled(x) => Settled(x)' \/ x = e.blk)
  <2>1. CASE e.state = "ok"
    <3>1. \A x : e # Reverting(x)
      BY <2>1 DEF Reverting
    <3>2. QED
      BY <1>6, <3>1 DEF StaysSettled
  <2>2. CASE ReceiveRevert(e)
    <3>1. \A x : e = Reverting(x) => RevertComing(x)'
      BY <1>8, <1>9, <2>2 DEF RevertComing, ReceiveRevert, ReceiveNext, PassedBy,
                              ReceiveAhead, ReceiveOld, ReceiveRevertAbove
    <3>2. QED
      BY <1>6, <3>1 DEF StaysSettled, Settled
  <2>3. CASE ReceiveRevertAbove(e)
    BY <1>6, <1>10, <2>3
  <2>4. QED
    BY <1>8, <2>1, <2>2, <2>3 DEF PassedBy, ReceiveAhead, ReceiveOld
<1>18. QED
  BY <1>16, <1>17

LEMMA ReadTold ==
    ASSUME BalanceWork, NodeTold, NEW end \in Nat, ReadFound(end), UNCHANGED balanceVars
    PROVE  NodeTold' /\ StaysSettled
<1>1. LoopTypeOK /\ FeedInv /\ BlocksKnown /\ BalanceHand /\ end \in Int
  BY DEF BalanceWork, BalanceTypeOK, NodeTold
<1>2. /\ pc = "catchup" /\ astray' = astray \cup (ToSet(todo') \cap gone)
      /\ UNCHANGED <<inHand, batch, feedVars, gone>>
  BY DEF ReadFound
<1>3. /\ BlocksKnown' /\ \A x : Settled(x) => Settled(x)'
      /\ \A b \in ToSet(todo') : Settled(b)'
  BY <1>1, ReadKnown
<1>4. batch' = <<>> /\ ToSet(<<>>) = {}
  BY <1>1, <1>2 DEF BalanceHand, Between, Running, ToSet
<1>5. UNCHANGED <<node, abandoned, handled, sent, blockChan>>
  BY <1>2 DEF balanceVars, nodeVars, tableVars, feedVars
<1>6. astray' \subseteq abandoned
  BY <1>2 DEF NodeTold
<1>7. QED
  BY <1>2, <1>3, <1>4, <1>5, <1>6 DEF NodeTold, StaysSettled, RevertComing

LEMMA RestartTold == ASSUME BalanceWork, NodeTold, RestartBalance PROVE NodeTold'
<1>1. /\ FeedAgain /\ cache' = <<>> /\ inHand' = <<>> /\ todo' = <<>> /\ batch' = <<>>
      /\ gone' = {} /\ astray' = astray \cup {}
      /\ handled' = handled \cap ToSet(Stored(1, taskNum))
      /\ UNCHANGED <<node, abandoned>>
  BY DEF RestartBalance, Restart, nodeVars
<1>2. FeedInv /\ taskNum \in Int
  BY DEF BalanceWork, BalanceTypeOK, LoopTypeOK
<1>3. /\ blockChan' = <<>> /\ sent' = chain
  BY <1>1 DEF FeedAgain
<1>4. BlocksKnown'
  BY <1>1, RestartKnown
<1>5. ToSet(<<>>) = {}
  BY DEF ToSet
<1>6. ToSet(Stored(1, taskNum)) \subseteq ToSet(chain)
  <2>1. 1 \in Nat \ {0}
    OBVIOUS
  <2>2. PICK bs : bs = Stored(1, taskNum)
    OBVIOUS
  <2>3. /\ DOMAIN bs = 1..Len(bs) /\ bs \in Seq(Blocks)
        /\ \A i \in DOMAIN bs : bs[i] = chain[1 + i - 1] /\ 1 + i - 1 <= Len(chain)
    BY <1>2, <2>1, <2>2, StoredFacts
  <2>4. Len(bs) \in Nat /\ Len(chain) \in Nat /\ DOMAIN chain = 1..Len(chain)
    BY <1>2, <2>3, LenProperties DEF FeedInv, FeedTypeOK
  <2>5. \A i \in DOMAIN bs : bs[i] = chain[i] /\ i \in DOMAIN chain
    BY <2>3, <2>4
  <2>6. QED
    BY <2>2, <2>5 DEF ToSet
<1>7. ToSet(chain) \subseteq ToSet(node) \cup abandoned
  <2>1. \A b \in ToSet(chain) : Known(b)
    BY DEF NodeTold, BlocksKnown
  <2>2. QED
    BY <2>1, SettledFacts DEF Known, NodeTold
<1>8. QED
  BY <1>1, <1>3, <1>4, <1>5, <1>6, <1>7 DEF NodeTold, RevertComing

\* The block in hand is reverted: it is forgotten.
LEMMA BelowTold ==
    ASSUME BalanceWork, NodeTold, RecordBelow
    PROVE  NodeTold' /\ \A x : Settled(x) => Settled(x)' \/ x = inHand[1].blk
<1>1. /\ pc = "record" /\ inHand' = <<>>
      /\ UNCHANGED <<cache, todo, batch, feedVars, history, node, abandoned, handled>>
  BY DEF RecordBelow, Reverted, nodeVars
<1>2. ForRevert /\ LoopTypeOK /\ todo = <<>> /\ batch = <<>>
  BY <1>1 DEF BalanceWork, BalanceTypeOK, BalanceHand, Running
<1> DEFINE b == inHand[1].blk
<1>3. inHand = <<Reverting(b)>>
  BY <1>2, RevertHand
<1> HIDE DEF b
<1>4. ToSet(inHand) = {Reverting(b)} /\ ToSet(inHand') = {} /\ ToSet(<<>>) = {}
  BY <1>1, <1>3 DEF ToSet
<1>5. \A x : Reverting(x) = Reverting(b) => x = b
  BY DEF Reverting
<1>6. b \in gone
  BY <1>4 DEF NodeTold
<1>7. UNCHANGED <<blockChan, toBase, chain, sent, gone, astray>>
  BY <1>1 DEF feedVars, history
<1>8. /\ \A x : Stands(x) => Stands(x)'
      /\ \A x : RevertComing(x) => RevertComing(x)' \/ x = b
  BY <1>4, <1>5, <1>7 DEF Stands, RevertComing
<1>9. (\A x : Known(x) => Known(x)') /\ (\A x : Settled(x) => Settled(x)' \/ x = b)
  BY <1>6, <1>7, <1>8 DEF Known, Settled
<1>10. BlocksKnown'
  BY <1>1, <1>7, <1>8, <1>9 DEF NodeTold, BlocksKnown
<1>11. NodeTold'
  BY <1>1, <1>2, <1>4, <1>7, <1>10 DEF NodeTold, RevertComing
<1>12. QED
  BY <1>9, <1>11 DEF b

\* The steps of the task that leave the feed alone.
LEMMA WorkTold ==
    ASSUME BalanceWork, NodeTold, NEW calls,
           \/ Idle /\ UNCHANGED balanceVars
           \/ NodeMoves \/ QueryFails \/ SaveBalancesFail
           \/ \E end \in Nat : Skip(end, "loop") /\ UNCHANGED balanceVars
           \/ ReadFails /\ UNCHANGED balanceVars
           \/ AskForTouched \/ ReadBalance(calls) \/ AnswersRead(calls)
           \/ Save \/ RecordHeight \/ CleanAndHandle \/ RecordReverted
           \/ UNCHANGED taskVars
    PROVE  NodeTold' /\ StaysSettled
<1>1. LoopTypeOK /\ FeedInv /\ BalanceTypeOK /\ BalanceHand
  BY DEF BalanceWork, BalanceTypeOK
<1>2. ToSet(<<>>) = {}
  BY DEF ToSet
<1>3. CASE NodeMoves
  <2>1. /\ abandoned \subseteq abandoned' /\ ToSet(node) \subseteq ToSet(node') \cup abandoned'
        /\ ToSet(node) \cap abandoned = {} => ToSet(node') \cap abandoned' = {}
        /\ UNCHANGED <<feedVars, loopVars, workVars, history, tableVars>>
    BY <1>1, <1>3, NodeFacts
  <2>2. UNCHANGED <<gone, astray, cache, inHand, batch, todo, handled>>
    BY <2>1 DEF loopVars, workVars, history, tableVars
  <2>3. QED
    BY <2>1, <2>2, SteadyTold
<1>4. CASE /\ UNCHANGED <<feedVars, gone, astray, node, abandoned, inHand, batch, todo, handled>>
           /\ ToSet(cache') \subseteq ToSet(cache)
  BY <1>4, SteadyTold
<1>5. CASE Idle /\ UNCHANGED balanceVars
  <2>1. UNCHANGED <<cache, workVars, feedVars, history>>
    BY <1>1, <1>5, IdleFacts
  <2>2. QED
    BY <1>4, <1>5, <2>1 DEF workVars, history, balanceVars, nodeVars, tableVars
<1>6. CASE QueryFails \/ SaveBalancesFail
  BY <1>4, <1>6 DEF QueryFails, SaveBalancesFail, Retry, history, loopVars, nodeVars,
                    tableVars, balanceVars
<1>7. CASE \E end \in Nat : Skip(end, "loop") /\ UNCHANGED balanceVars
  <2>1. /\ cache' = CacheLeft /\ UNCHANGED <<workVars, feedVars, gone, astray>>
        /\ UNCHANGED balanceVars
    BY <1>7 DEF Skip
  <2>2. \A i \in DOMAIN CacheLeft : \E j \in DOMAIN cache : CacheLeft[i] = cache[j]
    <3>1. 0 \in Int
      OBVIOUS
    <3>2. QED
      BY <1>1, <3>1, FoundFacts
  <2>3. ToSet(cache') \subseteq ToSet(cache)
    BY <2>1, <2>2 DEF ToSet
  <2>4. QED
    BY <1>4, <2>1, <2>3 DEF workVars, balanceVars, nodeVars, tableVars
<1>8. CASE ReadFails /\ UNCHANGED balanceVars
  <2>1. /\ UNCHANGED <<workVars, feedVars, history>>
        /\ \A i \in DOMAIN cache' : \E j \in DOMAIN cache : cache'[i] = cache[j]
    BY <1>1, <1>8, ReadFailsFacts
  <2>2. ToSet(cache') \subseteq ToSet(cache)
    BY <2>1 DEF ToSet
  <2>3. QED
    BY <1>4, <1>8, <2>1, <2>2 DEF workVars, history, balanceVars, nodeVars, tableVars
<1>9. CASE AskForTouched
  <2>1. /\ batch' = todo /\ todo' = <<>> /\ cache' = cache
        /\ UNCHANGED <<feedVars, gone, astray, node, abandoned, inHand, handled>>
    BY <1>9 DEF AskForTouched, history, nodeVars, loopVars
  <2>2. QED
    BY <1>2, <2>1, SteadyTold
<1>10. CASE ReadBalance(calls)
  BY <1>4, <1>10 DEF ReadBalance, workVars, loopVars, history, nodeVars
<1>11. CASE AnswersRead(calls)
  <2>1. UNCHANGED <<feedVars, loopVars, inHand, todo, batch, history, nodeVars, tableVars>>
    BY <1>11, AnswersFacts
  <2>2. QED
    BY <1>4, <2>1 DEF loopVars, history, nodeVars, tableVars
<1>12. CASE Save
  <2>1. /\ handled' = handled \cup ToSet(batch)
        /\ UNCHANGED <<feedVars, gone, astray, node, abandoned, inHand, batch, todo, cache>>
    BY <1>12 DEF Save, history, nodeVars, loopVars
  <2>2. QED
    BY <2>1, SteadyTold
<1>13. CASE RecordHeight
  <2>1. /\ batch' = <<>> /\ todo' = todo /\ ~ForRevert
        /\ inHand' = (IF todo # <<>> THEN inHand ELSE <<>>)
        /\ UNCHANGED <<feedVars, gone, astray, node, abandoned, handled, cache>>
    BY <1>13 DEF RecordHeight, Saved, history, nodeVars
  <2>2. \A x : Reverting(x) \notin ToSet(inHand)
    <3> SUFFICES ASSUME NEW x, NEW i \in DOMAIN inHand, inHand[i] = Reverting(x) PROVE FALSE
      BY DEF ToSet
    <3>1. inHand \in Seq(Event) /\ Len(inHand) <= 1
      BY <1>1 DEF LoopTypeOK
    <3>2. Len(inHand) \in Nat /\ DOMAIN inHand = 1..Len(inHand)
      BY <3>1, LenProperties
    <3>3. i = 1 /\ inHand # <<>>
      BY <3>1, <3>2
    <3>4. ForRevert
      BY <3>3 DEF ForRevert, Reverting
    <3>5. QED
      BY <2>1, <3>4
  <2>3. \A x : Reverting(x) \notin ToSet(inHand')
    BY <1>2, <2>1, <2>2
  <2>4. QED
    BY <1>2, <2>1, <2>2, <2>3, SteadyTold
<1>14. CASE CleanAndHandle
  <2>1. /\ pc = "revert" /\ todo' = <<inHand[1].blk>> /\ batch' = batch /\ cache' = cache
        /\ UNCHANGED <<feedVars, gone, astray, node, abandoned, inHand, handled>>
    BY <1>14 DEF CleanAndHandle, history, nodeVars, tableVars, loopVars
  <2>2. RevertComing(inHand[1].blk)
    BY <1>1, <2>1, RevertHand DEF BalanceHand
  <2>3. ToSet(todo') = {inHand[1].blk}
    BY <2>1 DEF ToSet
  <2>4. QED
    BY <2>1, <2>2, <2>3, SteadyTold
<1>15. CASE RecordReverted
  <2>1. /\ batch' = <<>>
        /\ UNCHANGED <<feedVars, gone, astray, node, abandoned, inHand, todo, handled, cache>>
    BY <1>15 DEF RecordReverted, history, nodeVars
  <2>2. QED
    BY <1>2, <2>1, SteadyTold
<1>16. CASE UNCHANGED taskVars
  BY <1>4, <1>16 DEF taskVars, loopVars, workVars, history, balanceVars, nodeVars, tableVars
<1>17. QED
  BY <1>3, <1>5, <1>6, <1>7, <1>8, <1>9, <1>10, <1>11, <1>12, <1>13, <1>14, <1>15, <1>16

\* What a step forgets.
LEMMA NextTold ==
    ASSUME BalanceWork, NodeTold, NEW calls, [BalanceNext(calls)]_taskVars
    PROVE  /\ NodeTold'
           /\ \/ StaysSettled
              \/ \E e \in Event : /\ ReceiveRevertAbove(e) /\ UNCHANGED balanceVars
                                  /\ \A x : Settled(x) => Settled(x)' \/ x = e.blk
              \/ RecordBelow /\ \A x : Settled(x) => Settled(x)' \/ x = inHand[1].blk
              \/ RestartBalance
<1>1. CASE BaseApplies /\ UNCHANGED balanceVars
  BY <1>1, BaseTold
<1>2. CASE \E e \in Event : PublishNode(e)
  BY <1>2, PublishTold
<1>3. CASE \E e \in Event : /\ PassedBy(e) \/ ReceiveNext(e) \/ ReceiveRevert(e)
                            /\ UNCHANGED balanceVars
  BY <1>3, ReceiveTold
<1>4. CASE \E end \in Nat : ReadFound(end) /\ UNCHANGED balanceVars
  BY <1>4, ReadTold
<1>5. CASE RestartBalance
  BY <1>5, RestartTold
<1>6. CASE RecordBelow
  BY <1>6, BelowTold
<1>7. CASE \/ Idle /\ UNCHANGED balanceVars
           \/ NodeMoves \/ QueryFails \/ SaveBalancesFail
           \/ \E end \in Nat : Skip(end, "loop") /\ UNCHANGED balanceVars
           \/ ReadFails /\ UNCHANGED balanceVars
           \/ AskForTouched \/ ReadBalance(calls) \/ AnswersRead(calls)
           \/ Save \/ RecordHeight \/ CleanAndHandle \/ RecordReverted
           \/ UNCHANGED taskVars
  BY <1>7, WorkTold
<1>8. BalanceNext(calls) \/ UNCHANGED taskVars
  OBVIOUS
<1>9. QED
  BY <1>1, <1>2, <1>3, <1>4, <1>5, <1>6, <1>7, <1>8, BalanceCases

----------------------------------------------------------------------------
(* No row keeps the change of a reverted block.  The blocks handled that a  *)
(* row was read from are not forgotten as long as the row could tell.       *)

\* The blocks handled are not above the height, but for those at work, unless
\* the feed is below it too.
HandledBelow ==
    pc \in Running => \/ \A c \in handled : c.num <= curHeight \/ c \in ToSet(batch)
                      \/ FeedHeight <= curHeight
                      \/ inHand # <<>>

\* Of the blocks a row was read from, those that touch it, and all while the
\* filter has it, that were handled.
RowsSound ==
    \A k \in DOMAIN balances : \A c \in ToSet(balances[k].at) \cap handled :
        k \in c.touches \/ k \in filter \ misled => Settled(c)

AnswersSound ==
    \A k \in DOMAIN answers : \A c \in ToSet(answers[k].at) \cap handled : Settled(c)

\* A block reverted is not in what is read for its revert.
Unwound ==
    ForRevert =>
        /\ pc \in {"query", "save"} =>
              \A k \in DOMAIN answers : inHand[1].blk \notin ToSet(answers[k].at)
        /\ pc \in {"height", "record"} =>
              /\ filter = inHand[1].blk.touches
              /\ \A k \in filter : /\ k \in DOMAIN balances
                                  /\ inHand[1].blk \notin ToSet(balances[k].at)

SoundInv == HandledBelow /\ RowsSound /\ AnswersSound /\ Unwound

\* Steps that change nothing the tables depend on.
Quietly ==
    /\ PcMoves /\ FeedHeight' = FeedHeight
    /\ UNCHANGED <<curHeight, inHand, todo, batch, taskNum, history, asking, answers,
                   lru, filter, balances, handled, counted, misled>>

LEMMA QuietFacts ==
    ASSUME BalanceWork,
           \/ Idle /\ UNCHANGED balanceVars
           \/ BaseApplies /\ UNCHANGED balanceVars
           \/ (\E e \in Event : PublishNode(e))
           \/ NodeMoves \/ SaveBalancesFail
           \/ ReadFails /\ UNCHANGED balanceVars
           \/ UNCHANGED taskVars
    PROVE  Quietly
<1>1. LoopTypeOK /\ FeedInv /\ BalanceTypeOK
  BY DEF BalanceWork, BalanceTypeOK
<1>2. CASE Idle /\ UNCHANGED balanceVars
  BY <1>1, <1>2, IdleFacts
     DEF Quietly, FeedHeight, feedVars, workVars, balanceVars, queryVars, cacheVars, tableVars
<1>3. CASE BaseApplies /\ UNCHANGED balanceVars
  BY <1>1, <1>3, ApplyFacts
     DEF BaseApplies, Quietly, PcMoves, FeedHeight, loopVars, workVars, balanceVars,
         queryVars, cacheVars, tableVars
<1>4. CASE \E e \in Event : PublishNode(e)
  BY <1>1, <1>4, DeliverFacts
     DEF PublishNode, Publish, Quietly, PcMoves, FeedHeight, loopVars, workVars, balanceVars,
         queryVars, cacheVars, tableVars
<1>5. CASE NodeMoves
  BY <1>5 DEF NodeMoves, Quietly, PcMoves, FeedHeight, feedVars, loopVars, workVars,
              queryVars, cacheVars, tableVars
<1>6. CASE SaveBalancesFail
  BY <1>6, RetryHand DEF SaveBalancesFail, Quietly, FeedHeight, feedVars, loopVars, balanceVars,
                         queryVars, cacheVars, tableVars
<1>7. CASE ReadFails /\ UNCHANGED balanceVars
  BY <1>1, <1>7, ReadFailsFacts
     DEF Quietly, FeedHeight, feedVars, workVars, balanceVars, queryVars, cacheVars, tableVars
<1>8. CASE UNCHANGED taskVars
  BY <1>8 DEF taskVars, Quietly, PcMoves, FeedHeight, feedVars, loopVars, workVars, history,
              balanceVars, queryVars, cacheVars, tableVars
<1>9. QED
  BY <1>2, <1>3, <1>4, <1>5, <1>6, <1>7, <1>8

\* The other steps.
LEMMA WorkCases ==
    ASSUME BalanceWork, NEW calls, [BalanceNext(calls)]_taskVars
    PROVE  \/ Quietly
           \/ (\E e \in Event : PassedBy(e)) /\ UNCHANGED balanceVars
           \/ (\E e \in Event : ReceiveNext(e)) /\ UNCHANGED balanceVars
           \/ (\E e \in Event : ReceiveRevert(e)) /\ UNCHANGED balanceVars
           \/ (\E end \in Nat : ReadFound(end)) /\ UNCHANGED balanceVars
           \/ (\E end \in Nat : end >= curHeight /\ Skip(end, "loop")) /\ UNCHANGED balanceVars
           \/ QueryFails \/ RestartBalance
           \/ AskForTouched \/ ReadBalance(calls) \/ AnswersRead(calls)
           \/ Save \/ RecordHeight \/ CleanAndHandle \/ RecordReverted \/ RecordBelow
<1>1. BalanceNext(calls) \/ UNCHANGED taskVars
  OBVIOUS
<1>2. QED
  BY <1>1, BalanceCases, QuietFacts

\* The blocks handled that a restart finds.
LEMMA LeftFacts ==
    ASSUME BalanceWork, RestartBalance
    PROVE  /\ taskNum \in Nat /\ curHeight' = taskNum /\ taskNum' = taskNum
           /\ sent' = chain /\ chain' = chain
           /\ \A n \in 1..taskNum : n <= Len(chain) =>
                 chain[n] \in ToSet(Stored(1, taskNum)) /\ n \in DOMAIN chain
           /\ \A b \in ToSet(Stored(1, taskNum)) :
                 /\ b \in Blocks /\ b \in ToSet(chain) /\ b.num \in 1..taskNum
                 /\ b.num <= Len(chain) /\ b = chain[b.num]
<1>1. /\ FeedAgain /\ curHeight' = taskNum /\ taskNum' = taskNum
  BY DEF RestartBalance, Restart
<1>2. FeedInv /\ taskNum \in Nat
  BY DEF BalanceWork, BalanceTypeOK, LoopTypeOK
<1>3. sent' = chain /\ chain' = chain
  BY <1>1 DEF FeedAgain
<1>4. PICK bs : bs = Stored(1, taskNum)
  OBVIOUS
<1>5. /\ DOMAIN bs = 1..Len(bs) /\ bs \in Seq(Blocks)
      /\ \A i \in DOMAIN bs : /\ bs[i] \in Blocks /\ bs[i] = chain[1 + i - 1]
                              /\ bs[i].num = 1 + i - 1
                              /\ 1 + i - 1 <= taskNum /\ 1 + i - 1 <= Len(chain)
      /\ bs = <<>> <=> 1 > taskNum \/ 1 > Len(chain)
  <2>1. 1 \in Nat \ {0} /\ taskNum \in Int
    BY <1>2
  <2>2. QED
    BY <1>2, <1>4, <2>1, StoredFacts
<1>6. Len(bs) \in Nat /\ Len(chain) \in Nat /\ DOMAIN chain = 1..Len(chain)
  BY <1>2, <1>5, LenProperties DEF FeedInv, FeedTypeOK
<1>7. \A i \in DOMAIN bs : /\ i \in 1..taskNum /\ i <= Len(chain) /\ bs[i] = chain[i]
                           /\ bs[i].num = i /\ i \in DOMAIN chain
  BY <1>2, <1>5, <1>6
<1>8. \A b \in ToSet(bs) : /\ b \in Blocks /\ b \in ToSet(chain) /\ b.num \in 1..taskNum
                           /\ b.num <= Len(chain) /\ b = chain[b.num]
  BY <1>5, <1>7 DEF ToSet
<1>9. \A n \in 1..taskNum : n <= Len(chain) => n \in DOMAIN bs
  <2> DEFINE top == IF taskNum < Len(chain) THEN taskNum ELSE Len(chain)
  <2>1. top \in Nat /\ top <= taskNum /\ top <= Len(chain)
        /\ (\A n \in 1..taskNum : n <= Len(chain) => n <= top /\ top >= 1)
    BY <1>2, <1>6
  <2>2. \A i \in 1..top : chain[i] \in Blocks
    BY <1>2, <1>6, <2>1, ElementOfSeq DEF FeedInv, FeedTypeOK
  <2>3. bs = SubSeq(chain, 1, top)
    BY <1>4 DEF Stored
  <2> HIDE DEF top
  <2>4. \A i \in 1..top : chain[i] \in Blocks /\ 1 \in Nat
    BY <2>2
  <2>5. Len(SubSeq(chain, 1, top)) = IF 1 <= top THEN top - 1 + 1 ELSE 0
    BY <2>1, <2>4, SubSeqProperties
  <2>6. top >= 1 => Len(bs) = top
    BY <2>1, <2>3, <2>5
  <2> SUFFICES ASSUME NEW n \in 1..taskNum, n <= Len(chain) PROVE n \in DOMAIN bs
    OBVIOUS
  <2>7. n <= top /\ top >= 1 /\ n \in Nat /\ n >= 1
    BY <1>2, <2>1
  <2>8. QED
    BY <1>5, <2>1, <2>6, <2>7
<1>10. \A n \in 1..taskNum : n <= Len(chain) => chain[n] \in ToSet(bs) /\ n \in DOMAIN chain
  BY <1>7, <1>9 DEF ToSet
<1>11. QED
  BY <1>1, <1>2, <1>3, <1>4, <1>8, <1>10

LEMMA HandledStep ==
    ASSUME BalanceWork, HandledBelow, NEW calls, [BalanceNext(calls)]_taskVars
    PROVE  HandledBelow'
<1>1. /\ LoopTypeOK /\ FeedInv /\ BalanceTypeOK /\ BalanceHand /\ BalanceFollows
      /\ curHeight \in Nat
  BY DEF BalanceWork, BalanceTypeOK, LoopTypeOK
<1>0. \A c \in handled : c.num \in Nat
  BY <1>1, TaskFeedAssumption DEF BalanceTypeOK
<1>2. /\ FeedHeight \in Nat /\ ToSet(<<>>) = {}
  <2>1. sent \in Seq(Blocks) /\ blockChan \in Seq(Event)
    BY <1>1 DEF FeedInv, FeedTypeOK
  <2>2. Len(sent) \in Nat /\ Len(blockChan) \in Nat
    BY <2>1, LenProperties
  <2>3. blockChan # <<>> => Before(blockChan[1]) \in Nat
    <3>1. blockChan # <<>> => 1 \in 1..Len(blockChan)
      BY <2>1, <2>2, EmptySeq
    <3>2. QED
      BY <2>1, <3>1, EventsFacts
  <2>4. QED
    BY <2>2, <2>3 DEF FeedHeight, Reached, ToSet
<1>3. CASE Quietly
  <2>1. pc' \in Running => pc \in Running
    BY <1>3 DEF Quietly, PcMoves, Between
  <2>2. QED
    BY <1>3, <2>1 DEF Quietly, HandledBelow
<1>4. CASE \E e \in Event : PassedBy(e) /\ UNCHANGED balanceVars
  <2>1. PICK e \in Event : PassedBy(e) /\ handled' = handled
    BY <1>4 DEF balanceVars, tableVars
  <2>2. /\ Take(e) /\ UNCHANGED <<curHeight, inHand, todo>>
    BY <1>1, <2>1, PassedByFacts
  <2>3. pc \in Between /\ batch' = batch /\ TakeEvent(e)
    BY <1>1, <2>2, TakenFacts DEF Take
  <2>4. inHand = <<>> /\ pc \in Running
    BY <1>1, <2>3 DEF BalanceHand, Between
  <2>5. FeedHeight = Before(e) /\ FeedHeight' = After(e)
    BY <1>1, <2>3, TakeFacts DEF FeedHeight
  <2>6. FeedHeight <= curHeight => FeedHeight' <= curHeight
    BY <1>1, <2>1, <2>5, EventFacts
       DEF PassedBy, ReceiveAhead, ReceiveOld, ReceiveRevertAbove
  <2>7. QED
    BY <2>1, <2>2, <2>3, <2>4, <2>6 DEF HandledBelow
<1>5. CASE \E e \in Event : ReceiveNext(e) \/ ReceiveRevert(e)
  <2>1. PICK e \in Event : inHand' = <<e>>
    BY <1>5 DEF ReceiveNext, ReceiveRevert
  <2>2. <<e>> # <<>>
    OBVIOUS
  <2>3. QED
    BY <2>1, <2>2 DEF HandledBelow
<1>6. CASE (\E end \in Nat : ReadFound(end)) /\ UNCHANGED balanceVars
  <2>1. /\ pc = "catchup" /\ UNCHANGED <<feedVars, curHeight, inHand, batch, handled>>
    BY <1>6 DEF ReadFound, balanceVars, tableVars
  <2>2. pc \in Running /\ FeedHeight' = FeedHeight
    BY <2>1 DEF Running, FeedHeight, feedVars
  <2>3. QED
    BY <2>1, <2>2 DEF HandledBelow
<1>7. CASE (\E end \in Nat : end >= curHeight /\ Skip(end, "loop")) /\ UNCHANGED balanceVars
  <2>1. /\ pc = "catchup" /\ UNCHANGED <<feedVars, workVars, handled>>
        /\ curHeight' >= curHeight /\ curHeight' \in Nat
    BY <1>7 DEF Skip, balanceVars, tableVars
  <2>2. pc \in Running /\ FeedHeight' = FeedHeight
    BY <2>1 DEF Running, FeedHeight, feedVars
  <2>3. FeedHeight <= curHeight => FeedHeight <= curHeight'
    BY <1>1, <1>2, <2>1
  <2>4. \A c \in handled : c.num <= curHeight => c.num <= curHeight'
    BY <1>0, <1>1, <2>1
  <2>5. QED
    BY <2>1, <2>2, <2>3, <2>4 DEF HandledBelow, workVars
<1>8. CASE \/ QueryFails \/ AskForTouched \/ ReadBalance(calls) \/ AnswersRead(calls)
           \/ CleanAndHandle
  <2>1. /\ pc \in Running
        /\ UNCHANGED <<feedVars, curHeight, inHand, handled>>
        /\ batch' = batch \/ pc = "handle"
    <3>1. CASE QueryFails
      BY <3>1 DEF QueryFails, Retry, loopVars, tableVars, Running
    <3>2. CASE AskForTouched
      BY <3>2 DEF AskForTouched, loopVars, Running
    <3>3. CASE ReadBalance(calls)
      BY <3>3 DEF ReadBalance, loopVars, workVars, Running
    <3>4. CASE AnswersRead(calls)
      BY <3>4, AnswersFacts DEF loopVars, tableVars, Running
    <3>5. CASE CleanAndHandle
      BY <3>5 DEF CleanAndHandle, loopVars, tableVars, Running
    <3>6. QED
      BY <1>8, <3>1, <3>2, <3>3, <3>4, <3>5
  <2>2. FeedHeight' = FeedHeight
    BY <2>1 DEF FeedHeight, feedVars
  <2>3. ToSet(batch) \subseteq ToSet(batch')
    BY <1>1, <1>2, <2>1 DEF BalanceHand
  <2>4. QED
    BY <2>1, <2>2, <2>3 DEF HandledBelow
<1>9. CASE Save
  <2>1. /\ pc \in Running /\ handled' = handled \cup ToSet(batch)
        /\ UNCHANGED <<feedVars, curHeight, inHand, batch>>
    BY <1>9 DEF Save, loopVars, Running
  <2>2. FeedHeight' = FeedHeight
    BY <2>1 DEF FeedHeight, feedVars
  <2>3. QED
    BY <2>1, <2>2 DEF HandledBelow
<1>10. CASE RecordHeight
  <2>1. /\ pc = "height" /\ ~ForRevert /\ curHeight' = Last(batch).num
        /\ UNCHANGED <<feedVars, handled>>
    BY <1>10 DEF RecordHeight, Saved
  <2>2. /\ pc \in Running /\ FeedHeight' = FeedHeight
    BY <2>1 DEF Running, FeedHeight, feedVars
  <2>3. /\ Last(batch).num = curHeight + Len(batch) /\ Len(batch) \in Nat /\ Len(batch) >= 1
        /\ \A b \in ToSet(batch) : b.num <= Last(batch).num
    BY <2>1, BatchHand
  <2>4. curHeight' > curHeight /\ curHeight' >= curHeight + 1 /\ curHeight' \in Nat
    BY <1>1, <2>1, <2>3
  <2>5. CASE \A c \in handled : c.num <= curHeight \/ c \in ToSet(batch)
    <3>1. \A c \in handled : c.num <= curHeight'
      BY <1>0, <1>1, <2>1, <2>3, <2>4, <2>5
    <3>2. QED
      BY <2>1, <3>1 DEF HandledBelow
  <2>6. CASE FeedHeight <= curHeight \/ inHand # <<>>
    <3>1. FeedHeight <= curHeight + 1
      BY <1>1, <1>2, <2>1, <2>6 DEF BalanceFollows
    <3>2. FeedHeight' <= curHeight'
      BY <1>1, <1>2, <2>2, <2>4, <3>1
    <3>3. QED
      BY <3>2 DEF HandledBelow
  <2>7. QED
    BY <2>2, <2>5, <2>6 DEF HandledBelow
<1>11. CASE RecordReverted
  <2>1. inHand' # <<>>
    BY <1>11 DEF RecordReverted, ForRevert
  <2>2. QED
    BY <2>1 DEF HandledBelow
<1>12. CASE RecordBelow
  <2>1. /\ pc = "record" /\ curHeight' = inHand[1].blk.num - 1 /\ UNCHANGED feedVars
    BY <1>12 DEF RecordBelow, Reverted
  <2>2. ForRevert
    BY <1>1, <2>1 DEF BalanceHand
  <2>3. FeedHeight' = inHand[1].blk.num - 1 /\ inHand[1].blk.num \in Nat
    BY <1>1, <2>1, <2>2, RevertHand DEF BalanceFollows, FeedHeight, feedVars
  <2>4. FeedHeight' <= curHeight'
    BY <2>1, <2>3
  <2>5. QED
    BY <2>4 DEF HandledBelow
<1>13. CASE RestartBalance
  <2>1. /\ curHeight' = taskNum /\ taskNum \in Nat
        /\ handled' \subseteq ToSet(Stored(1, taskNum))
        /\ \A b \in ToSet(Stored(1, taskNum)) : b.num \in 1..taskNum
    BY <1>13, LeftFacts DEF RestartBalance
  <2>2. \A c \in handled' : c.num <= curHeight'
    BY <2>1
  <2>3. QED
    BY <2>2 DEF HandledBelow
<1>14. QED
  BY <1>3, <1>4, <1>5, <1>6, <1>7, <1>8, <1>9, <1>10, <1>11, <1>12, <1>13, WorkCases

\* The tables are left as they are.
LEMMA SoundStays ==
    ASSUME RowsSound, AnswersSound, StaysSettled, UNCHANGED <<balances, handled>>,
           answers' = answers \/ DOMAIN answers' = {},
           filter' = filter \/ filter' = {}, misled \subseteq misled'
    PROVE  RowsSound' /\ AnswersSound'
BY DEF RowsSound, AnswersSound, StaysSettled

\* A block taken back is forgotten when no row can tell of it.
LEMMA SoundForgets ==
    ASSUME RowsSound, AnswersSound, UNCHANGED <<balances, handled, answers, filter, misled>>,
           DOMAIN answers = {}, NEW b, \A x : Settled(x) => Settled(x)' \/ x = b,
           b \in handled => \A k \in DOMAIN balances :
              k \in b.touches \/ k \in filter \ misled => b \notin ToSet(balances[k].at)
    PROVE  RowsSound' /\ AnswersSound'
BY DEF RowsSound, AnswersSound

LEMMA SaveSound ==
    ASSUME BalanceWork, NodeTold, RowsSound, AnswersSound, StaysSettled, Save
    PROVE  RowsSound' /\ AnswersSound'
<1>1. /\ DOMAIN balances' = DOMAIN balances \cup asking /\ asking = DOMAIN answers
      /\ \A k \in asking : balances'[k] = answers[k]
      /\ \A k \in DOMAIN balances \ asking : balances'[k] = balances[k]
      /\ filter' = filter \cup asking /\ misled' = misled \ asking
      /\ DOMAIN answers' = {} /\ handled' = handled \cup ToSet(batch)
  BY SaveFacts
<1>2. \A c \in ToSet(batch) : Settled(c)
  BY DEF NodeTold
<1>3. \A k \in DOMAIN balances' : \A c \in ToSet(balances'[k].at) \cap handled' :
         k \in c.touches \/ k \in filter' \ misled' => Settled(c)
  <2> SUFFICES ASSUME NEW k \in DOMAIN balances', NEW c \in handled',
                      c \in ToSet(balances'[k].at),
                      k \in c.touches \/ k \in filter' \ misled', c \notin ToSet(batch)
               PROVE  Settled(c)
    BY <1>2
  <2>1. c \in handled
    BY <1>1
  <2>2. CASE k \in asking
    BY <1>1, <2>1, <2>2 DEF AnswersSound
  <2>3. CASE k \notin asking
    <3>1. k \in DOMAIN balances /\ balances'[k] = balances[k]
      BY <1>1, <2>3
    <3>2. k \in c.touches \/ k \in filter \ misled
      BY <1>1, <2>3
    <3>3. QED
      BY <2>1, <3>1, <3>2 DEF RowsSound
  <2>4. QED
    BY <2>2, <2>3
<1>4. QED
  BY <1>1, <1>3 DEF RowsSound, AnswersSound, StaysSettled

LEMMA SoundStep ==
    ASSUME BalanceWork, NodeTold, SoundInv, NEW calls, [BalanceNext(calls)]_taskVars
    PROVE  RowsSound' /\ AnswersSound'
<1>1. /\ LoopTypeOK /\ FeedInv /\ BalanceTypeOK /\ BalanceHand /\ BalanceAsks
      /\ RowsSound /\ AnswersSound
  BY DEF BalanceWork, BalanceTypeOK, SoundInv
<1>2. CASE StaysSettled
  <2>1. CASE UNCHANGED balanceVars
    BY <1>1, <1>2, <2>1, SoundStays DEF balanceVars, queryVars, cacheVars, tableVars
  <2>2. CASE Quietly
    BY <1>1, <1>2, <2>2, SoundStays DEF Quietly
  <2>3. CASE QueryFails
    <3>1. DOMAIN answers' = {} /\ UNCHANGED <<filter, balances, handled, misled>>
      BY <1>1, <2>3, AskFacts DEF QueryFails, cacheVars, tableVars
    <3>2. QED
      BY <1>1, <1>2, <3>1, SoundStays
  <2>4. CASE AskForTouched
    <3>1. /\ DOMAIN answers' = {} /\ UNCHANGED <<filter, balances, handled>>
      BY <2>4, AskedFacts
    <3>2. misled \subseteq misled'
      BY <2>4 DEF AskForTouched
    <3>3. QED
      BY <1>1, <1>2, <3>1, <3>2, SoundStays
  <2>5. CASE ReadBalance(calls)
    <3>1. UNCHANGED <<filter, balances, handled, misled>>
      BY <2>5 DEF ReadBalance, cacheVars
    <3>2. PICK k \in asking \ DOMAIN answers :
              /\ DOMAIN answers' = DOMAIN answers \cup {k}
              /\ \A j \in DOMAIN answers : answers'[j] = answers[j]
              /\ ToSet(answers'[k].at) \subseteq ToSet(node)
      BY <2>5, ReadFacts
    <3>3. \A c \in ToSet(answers'[k].at) \cap handled : Settled(c)
      BY <3>2, SettledFacts DEF Settled
    <3>4. RowsSound'
      BY <1>1, <1>2, <3>1 DEF RowsSound, StaysSettled
    <3>5. AnswersSound'
      BY <1>1, <1>2, <3>1, <3>2, <3>3 DEF AnswersSound, StaysSettled
    <3>6. QED
      BY <3>4, <3>5
  <2>6. CASE AnswersRead(calls)
    <3>1. /\ UNCHANGED <<filter, balances, handled, misled>>
          /\ DOMAIN answers' = asking /\ DOMAIN answers = asking
          /\ \A k \in asking : answers'[k].at = answers[k].at
      BY <2>6, AnswersFacts DEF cacheVars, tableVars
    <3>2. RowsSound'
      BY <1>1, <1>2, <3>1 DEF RowsSound, StaysSettled
    <3>3. AnswersSound'
      BY <1>1, <1>2, <3>1 DEF AnswersSound, StaysSettled
    <3>4. QED
      BY <3>2, <3>3
  <2>7. CASE Save
    BY <1>1, <1>2, <2>7, SaveSound
  <2>8. CASE RecordHeight \/ RecordReverted \/ RecordBelow
    <3>1. UNCHANGED <<queryVars, cacheVars, balances, handled, misled>>
      BY <2>8 DEF RecordHeight, RecordReverted, RecordBelow
    <3>2. QED
      BY <1>1, <1>2, <3>1, SoundStays DEF queryVars, cacheVars
  <2>9. CASE CleanAndHandle
    <3>1. UNCHANGED <<queryVars, tableVars>> /\ filter' = {}
      BY <2>9 DEF CleanAndHandle, Clean
    <3>2. QED
      BY <1>1, <1>2, <3>1, SoundStays DEF queryVars, tableVars
  <2>10. CASE RestartBalance
    <3>1. DOMAIN answers' = {} /\ filter' = {} /\ balances' = balances
          /\ handled' \subseteq handled
      BY <2>10 DEF RestartBalance, Empty
    <3>2. QED
      BY <1>1, <1>2, <3>1 DEF RowsSound, AnswersSound, StaysSettled
  <2>11. QED
    BY <2>1, <2>2, <2>3, <2>4, <2>5, <2>6, <2>7, <2>8, <2>9, <2>10, WorkCases
<1>3. CASE \E e \in Event : /\ ReceiveRevertAbove(e) /\ UNCHANGED balanceVars
                            /\ \A x : Settled(x) => Settled(x)' \/ x = e.blk
  <2>1. PICK e \in Event : /\ ReceiveRevertAbove(e) /\ UNCHANGED balanceVars
                           /\ \A x : Settled(x) => Settled(x)' \/ x = e.blk
    BY <1>3
  <2>2. /\ e.state = "revert" /\ Take(e) /\ curHeight < e.blk.num
    BY <2>1 DEF ReceiveRevertAbove
  <2>3. pc \in Between /\ TakeEvent(e)
    BY <1>1, <2>2, TakenFacts DEF Take
  <2>4. inHand = <<>> /\ batch = <<>> /\ asking = {} /\ pc \in Running
    BY <1>1, <2>3 DEF BalanceHand, BalanceAsks, Between
  <2>5. FeedHeight = e.blk.num /\ e.blk.num \in Nat /\ curHeight \in Nat
    BY <1>1, <2>2, <2>3, TakeFacts, EventFacts DEF FeedHeight, LoopTypeOK
  <2>6. e.blk \notin handled
    <3>1. \A c \in handled : c.num <= curHeight \/ c \in ToSet(batch)
      BY <2>2, <2>4, <2>5 DEF SoundInv, HandledBelow
    <3>2. ToSet(batch) = {}
      BY <2>4 DEF ToSet
    <3>3. QED
      BY <2>2, <2>5, <3>1, <3>2
  <2>7. DOMAIN answers = {}
    BY <1>1, <2>4 DEF BalanceTypeOK
  <2>8. UNCHANGED <<balances, handled, answers, filter, misled>>
    BY <2>1 DEF balanceVars, queryVars, cacheVars, tableVars
  <2>9. QED
    BY <1>1, <2>1, <2>6, <2>7, <2>8, SoundForgets
<1>4. CASE RecordBelow /\ \A x : Settled(x) => Settled(x)' \/ x = inHand[1].blk
  <2>1. /\ pc = "record"
        /\ UNCHANGED <<queryVars, cacheVars, balances, handled, misled>>
    BY <1>4 DEF RecordBelow
  <2>2. ForRevert /\ asking = {}
    BY <1>1, <2>1 DEF BalanceHand, BalanceAsks, Running
  <2>3. /\ filter = inHand[1].blk.touches
        /\ \A k \in filter : inHand[1].blk \notin ToSet(balances[k].at)
    BY <2>1, <2>2 DEF SoundInv, Unwound
  <2>4. DOMAIN answers = {}
    BY <1>1, <2>2 DEF BalanceTypeOK
  <2> DEFINE b == inHand[1].blk
  <2>5. \A k \in DOMAIN balances :
              k \in b.touches \/ k \in filter \ misled => b \notin ToSet(balances[k].at)
    BY <2>3
  <2>6. UNCHANGED <<balances, handled, answers, filter, misled>>
    BY <2>1 DEF queryVars, cacheVars
  <2> HIDE DEF b
  <2>7. \A x : Settled(x) => Settled(x)' \/ x = b
    BY <1>4 DEF b
  <2>8. QED
    BY <1>1, <2>4, <2>5, <2>6, <2>7, SoundForgets
<1>5. CASE RestartBalance
  <2>1. /\ DOMAIN answers' = {} /\ filter' = {} /\ balances' = balances
        /\ handled' \subseteq ToSet(Stored(1, taskNum)) /\ sent' = chain
        /\ ToSet(Stored(1, taskNum)) \subseteq ToSet(chain)
    BY <1>5, LeftFacts DEF RestartBalance, Empty
  <2>2. \A c \in handled' : Settled(c)'
    BY <2>1 DEF Settled, Stands, ToSet
  <2>3. QED
    BY <2>1, <2>2 DEF RowsSound, AnswersSound
<1>6. QED
  BY <1>2, <1>3, <1>4, <1>5, NextTold

LEMMA UnwoundStep ==
    ASSUME BalanceWork, NodeTold, Unwound, NEW calls, [BalanceNext(calls)]_taskVars
    PROVE  Unwound'
<1>1. /\ LoopTypeOK /\ FeedInv /\ BalanceTypeOK /\ BalanceHand /\ BalanceAsks
  BY DEF BalanceWork, BalanceTypeOK
<1>2. CASE Quietly
  <2>1. CASE pc' \in {"query", "save", "height", "record"}
    <3>1. pc' = pc
      BY <1>2, <2>1 DEF Quietly, PcMoves, Between, Running
    <3>2. QED
      BY <1>2, <3>1 DEF Quietly, Unwound, ForRevert
  <2>2. QED
    BY <2>1 DEF Unwound
<1>3. CASE pc' \notin {"query", "save", "height", "record"}
  BY <1>3 DEF Unwound
<1>4. CASE QueryFails
  <2>1. DOMAIN answers' = {} /\ inHand' = inHand /\ pc' \notin {"height", "record"}
    BY <1>1, <1>4, AskFacts DEF QueryFails, Retry
  <2>2. QED
    BY <2>1 DEF Unwound
<1>5. CASE AskForTouched
  <2>1. DOMAIN answers' = {} /\ pc' = "query"
    BY <1>5, AskedFacts
  <2>2. QED
    BY <2>1 DEF Unwound
<1>6. CASE ReadBalance(calls)
  <2>1. pc = "query" /\ UNCHANGED <<pc, inHand>>
    BY <1>6 DEF ReadBalance, workVars
  <2>2. PICK k \in asking \ DOMAIN answers :
              /\ DOMAIN answers' = DOMAIN answers \cup {k}
              /\ \A j \in DOMAIN answers : answers'[j] = answers[j]
              /\ ToSet(answers'[k].at) \subseteq ToSet(node)
    BY <1>6, ReadFacts
  <2>3. ForRevert => inHand[1].blk \notin ToSet(node)
    BY <1>1, RevertHand, SettledFacts
  <2>4. QED
    BY <2>1, <2>2, <2>3 DEF Unwound, ForRevert
<1>7. CASE AnswersRead(calls)
  <2>1. /\ pc = "query" /\ pc' = "save" /\ inHand' = inHand
        /\ DOMAIN answers' = asking /\ DOMAIN answers = asking
        /\ \A k \in asking : answers'[k].at = answers[k].at
    BY <1>7, AnswersFacts
  <2>2. QED
    BY <2>1 DEF Unwound, ForRevert
<1>8. CASE Save
  <2>1. /\ pc = "save" /\ pc' = "height" /\ inHand' = inHand
        /\ DOMAIN balances' = DOMAIN balances \cup asking /\ asking = DOMAIN answers
        /\ \A k \in asking : balances'[k] = answers[k]
        /\ filter' = filter \cup asking
    BY <1>8, SaveFacts
  <2>2. ForRevert => asking = inHand[1].blk.touches /\ filter = {}
    BY <1>1, <2>1 DEF BalanceAsks
  <2>3. QED
    BY <2>1, <2>2 DEF Unwound, ForRevert
<1>9. CASE RecordReverted
  <2>1. /\ pc = "height" /\ pc' = "record" /\ UNCHANGED <<inHand, cacheVars, balances>>
    BY <1>9 DEF RecordReverted
  <2>2. QED
    BY <2>1 DEF Unwound, ForRevert, cacheVars
<1>10. CASE \/ (\E e \in Event : PassedBy(e) \/ ReceiveNext(e) \/ ReceiveRevert(e))
            \/ (\E end \in Nat : ReadFound(end) \/ Skip(end, "loop"))
            \/ RestartBalance \/ CleanAndHandle \/ RecordBelow
  BY <1>3, <1>10 DEF PassedBy, ReceiveAhead, ReceiveOld, ReceiveRevertAbove, ReceiveNext,
     ReceiveRevert, ReadFound, Skip, RestartBalance, Restart, CleanAndHandle, RecordBelow, Reverted
<1>11. CASE RecordHeight
  <2>1. ~ForRevert /\ inHand' \in {inHand, <<>>}
    BY <1>11 DEF RecordHeight, Saved
  <2>2. ~ForRevert'
    BY <2>1 DEF ForRevert
  <2>3. QED
    BY <2>2 DEF Unwound
<1>12. QED
  BY <1>2, <1>4, <1>5, <1>6, <1>7, <1>8, <1>9, <1>10, <1>11, WorkCases

LEMMA SavedStart ==
    ASSUME BalanceInit
    PROVE  /\ curHeight = StartNumber /\ sent = StartChain /\ pc = "created"
           /\ inHand = <<>> /\ DOMAIN answers = {} /\ ~ForRevert
           /\ \A c \in handled : c \in ToSet(sent) /\ c.num \in 1..StartNumber
           /\ \A n \in 1..StartNumber : n \in DOMAIN StartChain /\ StartChain[n] \in handled
                                        /\ StartChain[n].num = n
           /\ counted = handled
<1>1. /\ Init /\ answers = Empty /\ curHeight = StartNumber /\ sent = StartChain
      /\ pc = "created" /\ inHand = <<>>
      /\ handled = ToSet(SubSeq(StartChain, 1, StartNumber)) /\ counted = handled
  BY DEF BalanceInit, Init, FeedInit
<1> DEFINE s == SubSeq(StartChain, 1, StartNumber)
<1>2. /\ StartNumber \in 0..Len(StartChain) /\ StartChain \in Seq(Blocks)
      /\ Len(StartChain) \in Nat /\ DOMAIN StartChain = 1..Len(StartChain)
      /\ \A i \in 1..Len(StartChain) : StartChain[i] \in Blocks /\ StartChain[i].num = i
  BY AsyncTaskAssumption, TaskFeedAssumption, LenProperties, ElementOfSeq
<1>3. PICK n \in Nat : n = StartNumber /\ n <= Len(StartChain)
  BY <1>2
<1>4. /\ s \in Seq(Blocks) /\ Len(s) = IF 1 <= n THEN n - 1 + 1 ELSE 0
      /\ \A i \in 1..(n - 1 + 1) : s[i] = StartChain[1 + i - 1]
  BY <1>2, <1>3, SubSeqProperties
<1>5. handled = ToSet(s)
  BY <1>1
<1> HIDE DEF s
<1>6. DOMAIN s = 1..n /\ \A i \in 1..n : s[i] = StartChain[i]
  BY <1>3, <1>4, LenProperties
<1>7. \A i \in 1..n : i \in DOMAIN StartChain /\ StartChain[i].num = i
  BY <1>2, <1>3
<1>8. \A c \in handled : c \in ToSet(sent) /\ c.num \in 1..StartNumber
  BY <1>1, <1>3, <1>5, <1>6, <1>7 DEF ToSet
<1>9. \A i \in 1..StartNumber : i \in DOMAIN StartChain /\ StartChain[i] \in handled
                                /\ StartChain[i].num = i
  BY <1>3, <1>5, <1>6, <1>7 DEF ToSet
<1>10. DOMAIN answers = {} /\ ~ForRevert
  BY <1>1 DEF Empty, ForRevert
<1>11. QED
  BY <1>1, <1>8, <1>9, <1>10

LEMMA InitSound == ASSUME BalanceInit PROVE SoundInv
<1>1. /\ curHeight = StartNumber /\ inHand = <<>> /\ DOMAIN answers = {} /\ ~ForRevert
      /\ \A c \in handled : c \in ToSet(sent) /\ c.num \in 1..StartNumber
  BY SavedStart
<1>2. StartNumber \in Int
  BY AsyncTaskAssumption
<1>3. \A c \in handled : c.num <= curHeight /\ Settled(c)
  BY <1>1, <1>2 DEF Settled, Stands, ToSet
<1>4. QED
  BY <1>1, <1>3 DEF SoundInv, HandledBelow, RowsSound, AnswersSound, Unwound

BalanceSafe == BalanceWork /\ NodeTold /\ SoundInv

LEMMA InitSafe == BalanceInit => BalanceSafe
BY InitBalance, InitNodeTold, InitSound DEF BalanceSafe

LEMMA NextSafe ==
    ASSUME BalanceSafe, NEW calls, [BalanceNext(calls)]_taskVars PROVE BalanceSafe'
<1>1. BalanceWork' /\ NodeTold'
  BY NextBalance, NextTold DEF BalanceSafe
<1>2. HandledBelow' /\ RowsSound' /\ AnswersSound' /\ Unwound'
  BY HandledStep, SoundStep, UnwoundStep DEF BalanceSafe, SoundInv
<1>3. QED
  BY <1>1, <1>2 DEF BalanceSafe, SoundInv

LEMMA SafeStands == BalanceSafe => BalanceTypeOK /\ BalanceStands
<1> SUFFICES ASSUME BalanceSafe PROVE BalanceTypeOK /\ BalanceStands
  OBVIOUS
<1>1. BalanceTypeOK /\ LoopTypeOK /\ RowsSound
  BY DEF BalanceSafe, BalanceWork, BalanceTypeOK, SoundInv
<1>2. \A b : Settled(b) => Stands(b) \/ ToRevert(b) \/ PassedOver(b.num)
  BY <1>1, ToApplyFacts DEF Settled, PassedOver
<1>3. QED
  BY <1>1, <1>2 DEF BalanceStands, RowsSound

----------------------------------------------------------------------------
(* The rows of what a block touches are from a chain with this block.       *)

\* The cache has the heights of rows, and the filter knows of them, or is
\* believed to.
CacheTrue ==
    \A k \in DOMAIN lru : /\ k \in DOMAIN balances /\ lru[k] = balances[k].height
                          /\ k \in filter \cup misled

\* What a block touches and is not asked for has been saved at its height or
\* above.
NotAsked ==
    pc \in {"query", "save"} =>
        \A b \in ToSet(batch) : \A k \in b.touches \ asking :
            /\ k \in DOMAIN balances /\ balances[k].height >= b.num
            /\ k \in filter \cup misled

AnswersReach(calls) ==
    pc = "save" \/ (calls /\ pc = "query") =>
        \A k \in DOMAIN answers : Reaches(answers[k], Last(batch).num)

AllTimely == /\ \A k \in DOMAIN answers : Timely(answers[k])
             /\ \A k \in DOMAIN balances : Timely(balances[k])

\* The rows of what a block touches reach the block.
CountedReach ==
    \A b \in counted : \A k \in b.touches : k \in DOMAIN balances /\ Reaches(balances[k], b.num)

\* What was handled at the height of a block, and a row it touches was read
\* from, is not forgotten.
CountedSound ==
    \A b \in counted : \A k \in b.touches : \A c \in handled :
        c \in ToSet(balances[k].at) /\ c.num = b.num => k \in misled \/ Settled(c)

\* What is counted of the work at hand.
BatchCounted ==
    /\ pc = "height" /\ ~ForRevert => ToSet(batch) \subseteq counted
    /\ pc \in {"height", "record"} /\ ForRevert => \A b \in counted : b.num < inHand[1].blk.num

\* The heights handled, less those a revert in hand takes back.
Kept == IF ForRevert THEN inHand[1].blk.num - 1 ELSE curHeight

CountedCover == \A n \in 1..Kept : n \in skipped \/ \E b \in counted : b.num = n /\ Settled(b)

FreshInv(calls) ==
    /\ CacheTrue /\ NotAsked /\ AnswersReach(calls) /\ AllTimely
    /\ CountedReach /\ CountedSound /\ BatchCounted /\ CountedCover

\* What reaches a block reaches those below it.
LEMMA ReachesBelow ==
    ASSUME NEW row, RowOK(row), NEW n \in Nat, NEW m \in Nat, m <= n, Reaches(row, n)
    PROVE  Reaches(row, m)
<1>1. Len(row.at) \in Nat
  BY LenProperties DEF RowOK
<1>2. QED
  BY <1>1 DEF Reaches

\* The tables change when the rows are saved, and what is known of them when
\* the process starts again.
LEMMA TablesKept ==
    ASSUME BalanceWork, NEW calls, [BalanceNext(calls)]_taskVars
    PROVE  \/ Save \/ RestartBalance
           \/ UNCHANGED <<balances, handled, counted>> /\ misled \subseteq misled'
<1>1. CASE Quietly
  BY <1>1 DEF Quietly
<1>2. CASE UNCHANGED balanceVars
  BY <1>2 DEF balanceVars, tableVars
<1>3. CASE QueryFails \/ CleanAndHandle \/ AnswersRead(calls)
  BY <1>3, AnswersFacts DEF QueryFails, CleanAndHandle, tableVars
<1>4. CASE AskForTouched
  BY <1>4 DEF AskForTouched
<1>5. CASE ReadBalance(calls)
  BY <1>5 DEF ReadBalance
<1>6. CASE RecordHeight \/ RecordReverted \/ RecordBelow
  BY <1>6 DEF RecordHeight, RecordReverted, RecordBelow
<1>7. QED
  BY <1>1, <1>2, <1>3, <1>4, <1>5, <1>6, WorkCases

\* Where a step leaves the task while it asks and saves.
LEMMA QueryKept ==
    ASSUME BalanceWork, NEW calls, [BalanceNext(calls)]_taskVars, pc' \in {"query", "save"}
    PROVE  \/ Quietly /\ pc' = pc
           \/ QueryFails \/ AskForTouched \/ ReadBalance(calls) \/ AnswersRead(calls)
<1>1. CASE Quietly
  <2>1. pc' = pc
    BY <1>1 DEF Quietly, PcMoves, Between, Running
  <2>2. QED
    BY <1>1, <2>1
<1>2. ~(\E e \in Event : PassedBy(e) \/ ReceiveNext(e) \/ ReceiveRevert(e))
  BY DEF PassedBy, ReceiveAhead, ReceiveOld, ReceiveRevertAbove, ReceiveNext, ReceiveRevert
<1>3. ~(\E end \in Nat : ReadFound(end) \/ Skip(end, "loop"))
  BY DEF ReadFound, Skip
<1>4. ~RestartBalance /\ ~Save /\ ~CleanAndHandle /\ ~RecordReverted /\ ~RecordBelow
  BY DEF RestartBalance, Restart, Save, CleanAndHandle, RecordReverted, RecordBelow, Reverted
<1>5. ~RecordHeight
  BY DEF RecordHeight, Saved
<1>6. QED
  BY <1>1, <1>2, <1>3, <1>4, <1>5, WorkCases

\* handleBlocks asks for what it does not find saved high enough.
LEMMA AskedKnown ==
    ASSUME BalanceWork, CacheTrue, AskForTouched PROVE CacheTrue' /\ NotAsked'
<1>1. /\ LoopTypeOK /\ BalanceTypeOK /\ RowsRead
  BY DEF BalanceWork, BalanceTypeOK
<1>2. /\ batch' = todo /\ pc' = "query" /\ UNCHANGED <<filter, balances>>
  BY DEF AskForTouched
<1>3. PICK seen \in [Touched(todo) -> {Missing} \cup 0..(WordSize - 1)] :
         /\ \A k \in DOMAIN seen : seen[k] \in Get(k, Heights)
         /\ Keep(seen) /\ misled' = misled \cup FalselyKnown(seen)
         /\ Ask({k \in DOMAIN seen : \E b \in ToSet(todo) :
                                         k \in b.touches /\ Stale(seen[k], b.num)})
  BY DEF AskForTouched
<1>4. DOMAIN seen = UNION {b.touches : b \in ToSet(todo)}
  BY DEF Touched
<1>5. asking' = {k \in DOMAIN seen : \E b \in ToSet(todo) :
                                         k \in b.touches /\ Stale(seen[k], b.num)}
  BY <1>3 DEF Ask
<1>6. misled' = misled \cup
         {k \in DOMAIN seen : seen[k] # Missing /\ k \notin DOMAIN lru \cup filter}
  BY <1>3 DEF FalselyKnown
<1>7. \A k \in DOMAIN seen : seen[k] # Missing =>
         /\ k \in DOMAIN balances /\ seen[k] = balances[k].height
         /\ k \in filter \cup misled'
  <2> SUFFICES ASSUME NEW k \in DOMAIN seen, seen[k] # Missing
               PROVE  /\ k \in DOMAIN balances /\ seen[k] = balances[k].height
                      /\ k \in filter \cup misled'
    OBVIOUS
  <2>1. seen[k] \in Get(k, Heights)
    BY <1>3
  <2>2. CASE k \in DOMAIN lru
    BY <1>6, <2>1, <2>2 DEF Get, CacheTrue
  <2>3. CASE k \notin DOMAIN lru
    <3>1. k \in DOMAIN Heights /\ seen[k] = Heights[k]
      BY <2>1, <2>3 DEF Get
    <3>2. k \in DOMAIN balances /\ seen[k] = balances[k].height
      BY <3>1 DEF Heights
    <3>3. k \in filter \cup misled'
      BY <1>6, <2>3
    <3>4. QED
      BY <3>2, <3>3
  <2>4. QED
    BY <2>2, <2>3
<1> DEFINE new == [k \in {j \in DOMAIN seen : seen[j] # Missing} |-> seen[k]]
<1>8. /\ DOMAIN new = {j \in DOMAIN seen : seen[j] # Missing}
      /\ \A k \in DOMAIN new : new[k] = seen[k]
  OBVIOUS
<1>9. lru' \in Fits(Overlaid(new, lru))
  BY <1>3 DEF Keep
<1> HIDE DEF new
<1>10. PICK full : full = Overlaid(new, lru)
  OBVIOUS
<1>11. /\ DOMAIN full = DOMAIN new \cup DOMAIN lru
       /\ \A k \in DOMAIN lru : full[k] = lru[k]
       /\ \A k \in DOMAIN new \ DOMAIN lru : full[k] = new[k]
  <2>1. /\ DOMAIN Overlaid(new, lru) = DOMAIN new \cup DOMAIN lru
        /\ \A k \in DOMAIN lru : Overlaid(new, lru)[k] = lru[k]
        /\ \A k \in DOMAIN new \ DOMAIN lru : Overlaid(new, lru)[k] = new[k]
    BY OverlaidFacts
  <2>2. QED
    BY <1>10, <2>1
<1>12. DOMAIN lru' \subseteq DOMAIN full /\ \A k \in DOMAIN lru' : lru'[k] = full[k]
  BY <1>9, <1>10, FitsFacts
<1>13. CacheTrue'
  <2> SUFFICES ASSUME NEW k \in DOMAIN lru'
               PROVE  /\ k \in DOMAIN balances /\ lru'[k] = balances[k].height
                      /\ k \in filter \cup misled'
    BY <1>2 DEF CacheTrue
  <2>1. CASE k \in DOMAIN lru
    BY <1>6, <1>11, <1>12, <2>1 DEF CacheTrue
  <2>2. CASE k \notin DOMAIN lru
    BY <1>7, <1>8, <1>11, <1>12, <2>2
  <2>3. QED
    BY <2>1, <2>2
<1>14. NotAsked'
  <2> SUFFICES ASSUME NEW b \in ToSet(todo), NEW k \in b.touches, k \notin asking'
               PROVE  /\ k \in DOMAIN balances /\ balances[k].height >= b.num
                      /\ k \in filter \cup misled'
    BY <1>2 DEF NotAsked
  <2>1. k \in DOMAIN seen /\ ~Stale(seen[k], b.num)
    BY <1>4, <1>5
  <2>2. b \in Blocks /\ b.num \in Nat
    BY <1>1, LenProperties, ElementOfSeq, TaskFeedAssumption DEF LoopTypeOK, ToSet
  <2>3. seen[k] # Missing
    BY <2>1, <2>2 DEF Stale, Missing
  <2>4. balances[k].height \in Nat /\ seen[k] = balances[k].height
    BY <1>1, <1>7, <2>1, <2>3 DEF RowsRead, RowOK
  <2>5. QED
    BY <1>7, <2>1, <2>2, <2>3, <2>4 DEF Stale
<1>15. QED
  BY <1>13, <1>14

LEMMA CacheStep ==
    ASSUME BalanceWork, CacheTrue, NEW calls, [BalanceNext(calls)]_taskVars
    PROVE  CacheTrue'
<1>1. CASE UNCHANGED <<lru, filter, balances>> /\ misled \subseteq misled'
  BY <1>1 DEF CacheTrue
<1>2. CASE Quietly
  BY <1>1, <1>2 DEF Quietly
<1>3. CASE UNCHANGED balanceVars
  BY <1>1, <1>3 DEF balanceVars, cacheVars, tableVars
<1>4. CASE QueryFails \/ AnswersRead(calls)
  BY <1>1, <1>4, AnswersFacts DEF QueryFails, cacheVars, tableVars
<1>5. CASE AskForTouched
  BY <1>5, AskedKnown
<1>6. CASE ReadBalance(calls)
  BY <1>1, <1>6 DEF ReadBalance, cacheVars
<1>7. CASE RecordHeight \/ RecordReverted \/ RecordBelow
  BY <1>1, <1>7 DEF RecordHeight, RecordReverted, RecordBelow, cacheVars
<1>8. CASE CleanAndHandle \/ RestartBalance
  <2>1. DOMAIN lru' = {}
    BY <1>8 DEF CleanAndHandle, RestartBalance, Clean, Empty
  <2>2. QED
    BY <2>1 DEF CacheTrue
<1>9. CASE Save
  <2>1. /\ DOMAIN balances' = DOMAIN balances \cup asking
        /\ \A k \in asking : balances'[k] = answers[k]
        /\ \A k \in DOMAIN balances \ asking : balances'[k] = balances[k]
        /\ filter' = filter \cup asking /\ misled' = misled \ asking
        /\ \A k \in DOMAIN lru' :
              \/ k \in asking /\ lru'[k] = answers[k].height
              \/ k \in DOMAIN lru \ asking /\ lru'[k] = lru[k]
    BY <1>9, SaveFacts
  <2> SUFFICES ASSUME NEW k \in DOMAIN lru'
               PROVE  /\ k \in DOMAIN balances' /\ lru'[k] = balances'[k].height
                      /\ k \in filter' \cup misled'
    BY DEF CacheTrue
  <2>2. CASE k \in asking
    BY <2>1, <2>2
  <2>3. CASE k \notin asking
    <3>1. k \in DOMAIN lru /\ lru'[k] = lru[k]
      BY <2>1, <2>3
    <3>2. k \in DOMAIN balances /\ lru[k] = balances[k].height /\ k \in filter \cup misled
      BY <3>1 DEF CacheTrue
    <3>3. QED
      BY <2>1, <2>3, <3>1, <3>2
  <2>4. QED
    BY <2>2, <2>3
<1>10. QED
  BY <1>2, <1>3, <1>4, <1>5, <1>6, <1>7, <1>8, <1>9, WorkCases

LEMMA AskedStep ==
    ASSUME BalanceWork, CacheTrue, NotAsked, NEW calls, [BalanceNext(calls)]_taskVars
    PROVE  NotAsked'
<1> SUFFICES ASSUME pc' \in {"query", "save"} PROVE NotAsked'
  BY DEF NotAsked
<1>1. CASE /\ pc \in {"query", "save"}
           /\ UNCHANGED <<batch, asking, filter, balances, misled>>
  BY <1>1 DEF NotAsked
<1>2. CASE Quietly /\ pc' = pc
  BY <1>1, <1>2 DEF Quietly
<1>3. CASE QueryFails
  BY <1>1, <1>3 DEF QueryFails, Retry, Ask, cacheVars, tableVars
<1>4. CASE AskForTouched
  BY <1>4, AskedKnown
<1>5. CASE ReadBalance(calls)
  BY <1>1, <1>5 DEF ReadBalance, workVars, cacheVars
<1>6. CASE AnswersRead(calls)
  BY <1>1, <1>6, AnswersFacts DEF cacheVars, tableVars
<1>7. QED
  BY <1>2, <1>3, <1>4, <1>5, <1>6, QueryKept

LEMMA AnsweredStep ==
    ASSUME BalanceWork, NEW calls, AnswersReach(calls), [BalanceNext(calls)]_taskVars
    PROVE  AnswersReach(calls)'
<1> SUFFICES ASSUME pc' \in {"query", "save"} PROVE AnswersReach(calls)'
  BY DEF AnswersReach
<1>1. CASE DOMAIN answers' = {}
  BY <1>1 DEF AnswersReach
<1>2. CASE Quietly /\ pc' = pc
  BY <1>2 DEF Quietly, AnswersReach
<1>3. CASE QueryFails
  BY <1>1, <1>3, AskFacts DEF QueryFails, BalanceWork
<1>4. CASE AskForTouched
  BY <1>1, <1>4, AskedFacts
<1>5. CASE ReadBalance(calls)
  <2>1. pc = "query" /\ pc' = pc /\ batch' = batch
    BY <1>5 DEF ReadBalance, workVars
  <2>2. PICK k \in asking \ DOMAIN answers :
              /\ DOMAIN answers' = DOMAIN answers \cup {k}
              /\ \A j \in DOMAIN answers : answers'[j] = answers[j]
              /\ calls => Reaches(answers'[k], Last(batch).num)
    BY <1>5, ReadFacts
  <2> SUFFICES ASSUME calls, NEW j \in DOMAIN answers'
               PROVE  Reaches(answers'[j], Last(batch).num)
    BY <2>1 DEF AnswersReach
  <2>3. CASE j = k
    BY <2>2, <2>3
  <2>4. CASE j # k
    BY <2>1, <2>2, <2>4 DEF AnswersReach
  <2>5. QED
    BY <2>3, <2>4
<1>6. CASE AnswersRead(calls)
  <2>1. /\ pc = "query" /\ batch' = batch
        /\ DOMAIN answers' = asking /\ DOMAIN answers = asking
        /\ \A k \in asking : Reaches(answers'[k], Last(batch).num)
                                \/ (calls /\ answers'[k] = answers[k])
    BY <1>6, AnswersFacts
  <2>2. \A k \in asking : Reaches(answers'[k], Last(batch).num)
    BY <2>1 DEF AnswersReach
  <2>3. QED
    BY <2>1, <2>2 DEF AnswersReach
<1>7. QED
  BY <1>2, <1>3, <1>4, <1>5, <1>6, QueryKept

LEMMA TimelyStep ==
    ASSUME BalanceWork, AllTimely, NEW calls, [BalanceNext(calls)]_taskVars
    PROVE  AllTimely'
<1>1. CASE Save
  <2>1. /\ DOMAIN balances' = DOMAIN balances \cup asking /\ asking = DOMAIN answers
        /\ \A k \in asking : balances'[k] = answers[k]
        /\ \A k \in DOMAIN balances \ asking : balances'[k] = balances[k]
        /\ DOMAIN answers' = {}
    BY <1>1, SaveFacts
  <2>2. \A k \in DOMAIN balances' : Timely(balances'[k])
    BY <2>1 DEF AllTimely
  <2>3. QED
    BY <2>1, <2>2 DEF AllTimely, Timely
<1>2. CASE balances' = balances /\ (answers' = answers \/ DOMAIN answers' = {})
  BY <1>2 DEF AllTimely, Timely
<1>3. CASE Quietly
  BY <1>2, <1>3 DEF Quietly
<1>4. CASE UNCHANGED balanceVars
  BY <1>2, <1>4 DEF balanceVars, queryVars, tableVars
<1>5. CASE QueryFails
  BY <1>2, <1>5, AskFacts DEF QueryFails, tableVars, BalanceWork
<1>6. CASE AskForTouched
  BY <1>2, <1>6, AskedFacts
<1>7. CASE AnswersRead(calls)
  <2>1. /\ balances' = balances /\ DOMAIN answers' = asking /\ DOMAIN answers = asking
        /\ \A k \in asking : Timely(answers'[k]) \/ answers'[k] = answers[k]
    BY <1>7, AnswersFacts DEF tableVars
  <2>2. \A k \in DOMAIN answers' : Timely(answers'[k])
    BY <2>1 DEF AllTimely
  <2>3. \A k \in DOMAIN balances' : Timely(balances'[k])
    BY <2>1 DEF AllTimely
  <2>4. QED
    BY <2>2, <2>3 DEF AllTimely, Timely
<1>8. CASE RecordHeight \/ RecordReverted \/ RecordBelow \/ CleanAndHandle
  BY <1>2, <1>8 DEF RecordHeight, RecordReverted, RecordBelow, CleanAndHandle, queryVars,
                    tableVars
<1>9. CASE RestartBalance
  BY <1>2, <1>9 DEF RestartBalance, Empty
<1>10. CASE ReadBalance(calls)
  <2>1. balances' = balances
    BY <1>10 DEF ReadBalance
  <2>2. PICK k \in asking \ DOMAIN answers :
              /\ DOMAIN answers' = DOMAIN answers \cup {k}
              /\ \A j \in DOMAIN answers : answers'[j] = answers[j]
              /\ Timely(answers'[k])
    BY <1>10, ReadFacts
  <2>3. \A j \in DOMAIN answers' : Timely(answers'[j])
    BY <2>2 DEF AllTimely
  <2>4. \A j \in DOMAIN balances' : Timely(balances'[j])
    BY <2>1 DEF AllTimely
  <2>5. QED
    BY <2>3, <2>4 DEF AllTimely, Timely
<1>11. QED
  BY <1>1, <1>3, <1>4, <1>5, <1>6, <1>7, <1>8, <1>9, <1>10, WorkCases

LEMMA ReachStep ==
    ASSUME BalanceWork, NotAsked, AllTimely, CountedReach, NEW calls, AnswersReach(calls),
           [BalanceNext(calls)]_taskVars
    PROVE  CountedReach'
<1>1. CASE UNCHANGED <<balances, handled, counted>>
  BY <1>1 DEF CountedReach
<1>2. CASE RestartBalance
  BY <1>2 DEF RestartBalance, CountedReach
<1>3. CASE Save
  <2>1. /\ pc = "save"
        /\ DOMAIN balances' = DOMAIN balances \cup asking /\ asking = DOMAIN answers
        /\ \A k \in asking : balances'[k] = answers[k]
        /\ \A k \in DOMAIN balances \ asking : balances'[k] = balances[k]
        /\ counted' = {b \in counted : b.num < batch[1].num}
                            \cup IF ForRevert THEN {} ELSE ToSet(batch)
    BY <1>3, SaveFacts
  <2>2. /\ Last(batch).num \in Nat /\ batch[1].num \in Nat
        /\ batch[1] \in ToSet(batch)
        /\ \A b \in ToSet(batch) : b \in Blocks /\ b.num <= Last(batch).num /\ b.num \in Nat
    BY <2>1, BatchHand
  <2>3. \A b \in counted : b.num \in Nat
    BY TaskFeedAssumption DEF BalanceWork, BalanceTypeOK
  <2>4. /\ \A k \in DOMAIN answers : RowOK(answers[k])
        /\ \A k \in DOMAIN balances : RowOK(balances[k])
    BY DEF BalanceWork, RowsRead
  <2> SUFFICES ASSUME NEW b \in counted', NEW k \in b.touches
               PROVE  k \in DOMAIN balances' /\ Reaches(balances'[k], b.num)
    BY DEF CountedReach
  <2>5. b \in ToSet(batch) \/ (b \in counted /\ b.num < batch[1].num)
    BY <2>1
  <2>6. b.num \in Nat /\ b.num <= Last(batch).num
    <3>1. CASE b \in ToSet(batch)
      BY <2>2, <3>1
    <3>2. CASE b \in counted /\ b.num < batch[1].num
      <4>1. batch[1].num <= Last(batch).num
        BY <2>2
      <4>2. QED
        BY <2>2, <2>3, <3>2, <4>1
    <3>3. QED
      BY <2>5, <3>1, <3>2
  <2>7. CASE k \in asking
    <3>1. Reaches(answers[k], Last(batch).num)
      BY <2>1, <2>7 DEF AnswersReach
    <3>2. RowOK(answers[k])
      BY <2>1, <2>4, <2>7
    <3>3. Reaches(answers[k], b.num)
      BY <2>2, <2>6, <3>1, <3>2, ReachesBelow
    <3>4. QED
      BY <2>1, <2>7, <3>3
  <2>8. CASE k \notin asking /\ b \in ToSet(batch)
    <3>1. k \in DOMAIN balances /\ balances[k].height >= b.num
      BY <2>1, <2>8 DEF NotAsked
    <3>2. RowOK(balances[k]) /\ balances'[k] = balances[k]
      BY <2>1, <2>4, <2>8, <3>1
    <3>3. PICK l \in Nat : l = Len(balances[k].at)
      BY <3>2, LenProperties DEF RowOK
    <3>4. balances[k].height \in Nat
      BY <3>2 DEF RowOK
    <3>5. Timely(balances[k])
      BY <3>1 DEF AllTimely
    <3>6. Reaches(balances[k], b.num)
      <4>1. CASE balances[k].unsure \/ Unanswered(balances[k])
        BY <4>1 DEF Reaches
      <4>2. CASE Len(balances[k].at) >= balances[k].height
        BY <2>6, <3>1, <3>3, <3>4, <4>2 DEF Reaches
      <4>3. QED
        BY <3>5, <4>1, <4>2 DEF Timely
    <3>7. QED
      BY <2>1, <3>1, <3>2, <3>6
  <2>9. CASE k \notin asking /\ b \in counted
    <3>1. k \in DOMAIN balances /\ Reaches(balances[k], b.num)
      BY <2>9 DEF CountedReach
    <3>2. QED
      BY <2>1, <2>9, <3>1
  <2>10. QED
    BY <2>5, <2>7, <2>8, <2>9
<1>4. QED
  BY <1>1, <1>2, <1>3, TablesKept

\* A revert of a block above the height: it was not handled.
LEMMA AboveUnhandled ==
    ASSUME BalanceWork, HandledBelow, NEW e \in Event, ReceiveRevertAbove(e)
    PROVE  e.blk \notin handled /\ curHeight' = curHeight /\ inHand = <<>> /\ inHand' = <<>>
           /\ skipped' = skipped
<1>1. LoopTypeOK /\ FeedInv /\ BalanceHand /\ BalanceTypeOK
  BY DEF BalanceWork, BalanceTypeOK
<1>2. /\ e.state = "revert" /\ Take(e) /\ curHeight < e.blk.num
      /\ UNCHANGED <<curHeight, inHand>>
  BY DEF ReceiveRevertAbove
<1>3. pc \in Between /\ TakeEvent(e) /\ skipped' = skipped
  BY <1>1, <1>2, TakenFacts DEF Take
<1>4. inHand = <<>> /\ batch = <<>> /\ pc \in Running
  BY <1>1, <1>3 DEF BalanceHand, Between
<1>5. FeedHeight = e.blk.num /\ e.blk.num \in Nat /\ curHeight \in Nat
  BY <1>1, <1>2, <1>3, TakeFacts, EventFacts DEF FeedHeight, LoopTypeOK
<1>6. \A c \in handled : c.num <= curHeight \/ c \in ToSet(batch)
  BY <1>2, <1>4, <1>5 DEF HandledBelow
<1>7. ToSet(batch) = {}
  BY <1>4 DEF ToSet
<1>8. e.blk \notin handled
  BY <1>2, <1>5, <1>6, <1>7
<1>9. QED
  BY <1>2, <1>3, <1>4, <1>8

LEMMA SoundCountStep ==
    ASSUME BalanceWork, NodeTold, SoundInv, NotAsked, CountedReach, CountedSound,
           BatchCounted, NEW calls, [BalanceNext(calls)]_taskVars
    PROVE  CountedSound'
<1>0. /\ HandledBelow /\ RowsSound /\ AnswersSound /\ counted \subseteq handled
      /\ \A b \in handled : b \in Blocks /\ b.num \in Nat
  BY TaskFeedAssumption DEF BalanceWork, BalanceTypeOK, SoundInv
<1>1. CASE RestartBalance
  <2>1. /\ balances' = balances /\ handled' \subseteq ToSet(Stored(1, taskNum)) /\ sent' = chain
        /\ ToSet(Stored(1, taskNum)) \subseteq ToSet(chain)
    BY <1>1, LeftFacts DEF RestartBalance
  <2>2. \A c \in handled' : Settled(c)'
    BY <2>1 DEF Settled, Stands, ToSet
  <2>3. QED
    BY <2>2 DEF CountedSound
<1>2. CASE StaysSettled /\ UNCHANGED <<balances, handled, counted>> /\ misled \subseteq misled'
  BY <1>2 DEF CountedSound, StaysSettled
<1>3. CASE StaysSettled /\ Save
  <2>1. /\ pc = "save"
        /\ DOMAIN balances' = DOMAIN balances \cup asking /\ asking = DOMAIN answers
        /\ \A k \in asking : balances'[k] = answers[k]
        /\ \A k \in DOMAIN balances \ asking : balances'[k] = balances[k]
        /\ misled' = misled \ asking
        /\ handled' = handled \cup ToSet(batch)
        /\ counted' = {b \in counted : b.num < batch[1].num}
                            \cup IF ForRevert THEN {} ELSE ToSet(batch)
    BY <1>3, SaveFacts
  <2>2. /\ \A b \in ToSet(batch) : Settled(b)
    BY DEF NodeTold
  <2> SUFFICES ASSUME NEW b \in counted', NEW k \in b.touches, NEW c \in handled',
                      c \in ToSet(balances'[k].at), c.num = b.num, k \notin misled'
               PROVE  Settled(c)
    BY <1>3 DEF CountedSound, StaysSettled
  <2>3. CASE c \in ToSet(batch)
    BY <2>2, <2>3
  <2>4. CASE c \in handled /\ k \in asking
    BY <1>0, <2>1, <2>4 DEF AnswersSound
  <2>5. CASE c \in handled /\ k \notin asking /\ b \in ToSet(batch)
    <3>1. k \in DOMAIN balances /\ k \in filter \cup misled
      BY <2>1, <2>5 DEF NotAsked
    <3>2. k \in filter \ misled /\ balances'[k] = balances[k]
      BY <2>1, <2>5, <3>1
    <3>3. QED
      BY <1>0, <2>5, <3>1, <3>2 DEF RowsSound
  <2>6. CASE c \in handled /\ k \notin asking /\ b \in counted
    <3>1. k \notin misled
      BY <2>1, <2>6
    <3>2. CASE k \in DOMAIN balances
      BY <2>1, <2>6, <3>1, <3>2 DEF CountedSound
    <3>3. CASE k \notin DOMAIN balances
      <4>1. k \in DOMAIN balances
        BY <2>6 DEF CountedReach
      <4>2. QED
        BY <3>3, <4>1
    <3>4. QED
      BY <3>2, <3>3
  <2>7. QED
    BY <2>1, <2>3, <2>4, <2>5, <2>6
<1>4. CASE \E e \in Event : /\ ReceiveRevertAbove(e) /\ UNCHANGED balanceVars
                            /\ \A x : Settled(x) => Settled(x)' \/ x = e.blk
  <2>1. PICK e \in Event : /\ ReceiveRevertAbove(e) /\ UNCHANGED balanceVars
                           /\ \A x : Settled(x) => Settled(x)' \/ x = e.blk
    BY <1>4
  <2>2. e.blk \notin handled
    BY <1>0, <2>1, AboveUnhandled
  <2>3. UNCHANGED <<balances, handled, counted, misled>>
    BY <2>1 DEF balanceVars, tableVars
  <2>4. \A c \in handled : Settled(c) => Settled(c)'
    BY <2>1, <2>2
  <2>5. QED
    BY <2>3, <2>4 DEF CountedSound
<1>5. CASE RecordBelow /\ \A x : Settled(x) => Settled(x)' \/ x = inHand[1].blk
  <2>1. pc = "record" /\ UNCHANGED <<balances, handled, counted, misled>>
    BY <1>5 DEF RecordBelow
  <2>2. ForRevert
    BY <2>1 DEF BalanceWork, BalanceHand, Running
  <2>3. \A b \in counted : b.num < inHand[1].blk.num
    BY <2>1, <2>2 DEF BatchCounted
  <2>4. inHand[1].blk.num \in Nat
    BY <2>2, RevertHand DEF BalanceWork, BalanceTypeOK
  <2>5. \A b \in counted : \A c : c.num = b.num => c # inHand[1].blk
    BY <1>0, <2>3, <2>4
  <2>6. \A b \in counted : \A c : c.num = b.num /\ Settled(c) => Settled(c)'
    BY <1>5, <2>5
  <2>7. QED
    BY <2>1, <2>6 DEF CountedSound
<1>6. QED
  BY <1>1, <1>2, <1>3, <1>4, <1>5, TablesKept, NextTold

LEMMA BatchStep ==
    ASSUME BalanceWork, BatchCounted, NEW calls, [BalanceNext(calls)]_taskVars
    PROVE  BatchCounted'
<1>1. CASE pc' \notin {"height", "record"}
  BY <1>1 DEF BatchCounted
<1>2. CASE Quietly
  <2>1. pc' = pc \/ pc' \notin {"height", "record"}
    BY <1>2 DEF Quietly, PcMoves, Between, Running
  <2>2. QED
    BY <1>1, <1>2, <2>1 DEF Quietly, BatchCounted, ForRevert
<1>3. CASE \/ (\E e \in Event : PassedBy(e) \/ ReceiveNext(e) \/ ReceiveRevert(e))
           \/ (\E end \in Nat : ReadFound(end) \/ Skip(end, "loop"))
           \/ RestartBalance \/ CleanAndHandle \/ AskForTouched \/ ReadBalance(calls)
           \/ AnswersRead(calls) \/ RecordBelow
  BY <1>1, <1>3, AnswersFacts DEF PassedBy, ReceiveAhead, ReceiveOld, ReceiveRevertAbove,
     ReceiveNext, ReceiveRevert, ReadFound, Skip, RestartBalance, Restart, CleanAndHandle,
     AskForTouched, ReadBalance, RecordBelow, Reverted
<1>4. CASE QueryFails
  BY <1>1, <1>4 DEF QueryFails, Retry
<1>5. CASE RecordHeight
  BY <1>1, <1>5 DEF RecordHeight, Saved
<1>6. CASE RecordReverted
  <2>1. /\ pc = "height" /\ ForRevert /\ inHand' = inHand /\ counted' = counted
        /\ pc' = "record"
    BY <1>6 DEF RecordReverted
  <2>2. QED
    BY <2>1 DEF BatchCounted, ForRevert
<1>7. CASE Save
  <2>1. /\ pc = "save" /\ pc' = "height" /\ batch' = batch /\ inHand' = inHand
        /\ counted' = {b \in counted : b.num < batch[1].num}
                            \cup IF ForRevert THEN {} ELSE ToSet(batch)
    BY <1>7, SaveFacts
  <2>2. ForRevert => batch[1] = inHand[1].blk
    BY <2>1, BatchHand
  <2>3. QED
    BY <2>1, <2>2 DEF BatchCounted, ForRevert
<1>8. QED
  BY <1>2, <1>3, <1>4, <1>5, <1>6, <1>7, WorkCases

\* A step that keeps what is counted and what stands keeps what is covered.
LEMMA CoverStays ==
    ASSUME CountedCover, Kept \in Int, Kept' \in Int, Kept' <= Kept, skipped \subseteq skipped',
           \A b \in counted : b.num \in 1..Kept' /\ Settled(b) => b \in counted' /\ Settled(b)'
    PROVE  CountedCover'
<1> SUFFICES ASSUME NEW n \in 1..Kept'
             PROVE  n \in skipped' \/ \E b \in counted' : b.num = n /\ Settled(b)'
  BY DEF CountedCover
<1>1. n \in 1..Kept
  OBVIOUS
<1>2. QED
  BY <1>1 DEF CountedCover

LEMMA KeptFacts ==
    ASSUME BalanceWork PROVE Kept \in Nat /\ curHeight \in Nat /\ Kept <= curHeight
<1>1. /\ LoopTypeOK /\ BalanceFollows /\ curHeight \in Nat
  BY DEF BalanceWork, BalanceTypeOK, LoopTypeOK
<1>2. CASE ForRevert
  <2>1. inHand[1].blk.num \in Nat /\ inHand[1].blk.num >= 1 /\ inHand[1].blk.num <= curHeight
    BY <1>1, <1>2, RevertHand DEF BalanceFollows
  <2>2. QED
    BY <1>1, <1>2, <2>1 DEF Kept
<1>3. CASE ~ForRevert
  BY <1>1, <1>3 DEF Kept
<1>4. QED
  BY <1>2, <1>3

LEMMA CoverStep ==
    ASSUME BalanceWork, NodeTold, SoundInv, BatchCounted, CountedCover,
           NEW calls, [BalanceNext(calls)]_taskVars
    PROVE  CountedCover'
<1>0. /\ HandledBelow /\ counted \subseteq handled /\ LoopTypeOK /\ BalanceFollows
      /\ \A b \in handled : b \in Blocks /\ b.num \in Nat
      /\ Kept \in Nat /\ curHeight \in Nat /\ Kept <= curHeight
  BY TaskFeedAssumption, KeptFacts DEF BalanceWork, BalanceTypeOK, SoundInv
<1>1. Kept' \in Nat
  <2>1. BalanceWork'
    BY NextBalance
  <2>2. LoopTypeOK' /\ BalanceFollows' /\ curHeight' \in Nat
    BY <2>1 DEF BalanceWork, BalanceTypeOK, LoopTypeOK
  <2>3. CASE ForRevert'
    <3>1. inHand'[1] \in Event
      <4>1. inHand' \in Seq(Event) /\ inHand' # <<>>
        BY <2>2, <2>3 DEF LoopTypeOK, ForRevert
      <4>2. Len(inHand') \in Nat /\ Len(inHand') # 0 /\ DOMAIN inHand' = 1..Len(inHand')
        BY <4>1, LenProperties, EmptySeq
      <4>3. 1 \in 1..Len(inHand')
        BY <4>2
      <4>4. QED
        BY <4>1, <4>2, <4>3, ElementOfSeq
    <3>2. inHand'[1].blk.num \in Nat \ {0}
      BY <3>1, TaskFeedAssumption DEF Event
    <3>3. QED
      BY <2>3, <3>2 DEF Kept
  <2>4. CASE ~ForRevert'
    BY <2>2, <2>4 DEF Kept
  <2>5. QED
    BY <2>3, <2>4
<1>2. CASE RestartBalance
  <2>1. /\ taskNum \in Nat /\ curHeight' = taskNum /\ sent' = chain /\ chain' = chain
        /\ \A n \in 1..taskNum : n <= Len(chain) =>
                 chain[n] \in ToSet(Stored(1, taskNum)) /\ n \in DOMAIN chain
        /\ \A b \in ToSet(Stored(1, taskNum)) : b.num \in 1..taskNum /\ b \in ToSet(chain)
    BY <1>2, LeftFacts
  <2>2. /\ skipped' = (skipped \cap 1..taskNum) \cup Missed /\ inHand' = <<>>
        /\ counted' = counted \cap ToSet(Stored(1, taskNum))
    BY <1>2 DEF RestartBalance, Restart
  <2>3. Kept' = taskNum
    BY <2>1, <2>2 DEF Kept, ForRevert
  <2>4. Numbered(chain)
    BY DEF BalanceWork, FeedInv
  <2> SUFFICES ASSUME NEW n \in 1..taskNum, n \notin Missed
               PROVE  \E b \in counted' : b.num = n /\ Settled(b)'
    BY <2>2, <2>3 DEF CountedCover
  <2>5. n <= Len(chain) /\ chain[n] \in counted
    <3>1. Len(chain) \in Nat /\ n \in Nat
      BY <2>1, LenProperties DEF BalanceWork, FeedInv, FeedTypeOK
    <3>2. ~(n > Len(chain)) /\ chain[n] \in counted
      BY DEF Missed
    <3>3. QED
      BY <3>1, <3>2
  <2>6. chain[n] \in counted' /\ n \in DOMAIN chain
    BY <2>1, <2>2, <2>5
  <2>7. chain[n].num = n
    BY <2>4, <2>6 DEF Numbered
  <2>8. PICK c : c = chain[n]
    OBVIOUS
  <2>9. Settled(c)'
    BY <2>1, <2>6, <2>8 DEF Settled, Stands
  <2>10. QED
    BY <2>6, <2>7, <2>8, <2>9
<1>3. CASE StaysSettled /\ counted' = counted /\ Kept' <= Kept /\ skipped' = skipped
  BY <1>0, <1>1, <1>3, CoverStays DEF StaysSettled
<1>4. CASE \E e \in Event : /\ ReceiveRevertAbove(e) /\ UNCHANGED balanceVars
                            /\ \A x : Settled(x) => Settled(x)' \/ x = e.blk
  <2>1. PICK e \in Event : /\ ReceiveRevertAbove(e) /\ UNCHANGED balanceVars
                           /\ \A x : Settled(x) => Settled(x)' \/ x = e.blk
    BY <1>4
  <2>2. e.blk \notin handled /\ UNCHANGED <<curHeight, inHand, skipped>>
    BY <1>0, <2>1, AboveUnhandled
  <2>3. counted' = counted /\ Kept' = Kept
    BY <2>1, <2>2 DEF balanceVars, tableVars, Kept, ForRevert
  <2>4. \A b \in counted : Settled(b) => Settled(b)'
    BY <1>0, <2>1, <2>2
  <2>5. QED
    BY <1>0, <1>1, <2>2, <2>3, <2>4, CoverStays
<1>5. CASE RecordBelow /\ \A x : Settled(x) => Settled(x)' \/ x = inHand[1].blk
  <2>1. /\ pc = "record" /\ counted' = counted /\ skipped' = skipped
        /\ inHand' = <<>> /\ curHeight' = inHand[1].blk.num - 1
    BY <1>5 DEF RecordBelow, Reverted, history
  <2>2. ForRevert /\ ~ForRevert'
    BY <2>1 DEF BalanceWork, BalanceHand, Running, ForRevert
  <2>3. Kept' = Kept
    BY <2>1, <2>2 DEF Kept
  <2>4. \A b \in counted : b # inHand[1].blk
    <3>1. \A b \in counted : b.num < inHand[1].blk.num
      BY <2>1, <2>2 DEF BatchCounted
    <3>2. inHand[1].blk.num \in Nat
      BY <1>0, <2>2, RevertHand
    <3>3. QED
      BY <1>0, <3>1, <3>2
  <2>5. \A b \in counted : Settled(b) => Settled(b)'
    BY <1>5, <2>4
  <2>6. QED
    BY <1>0, <1>1, <2>1, <2>3, <2>5, CoverStays
<1>6. CASE StaysSettled
  <2>1. CASE Quietly
    BY <1>0, <1>3, <1>6, <2>1 DEF Quietly, history, Kept, ForRevert
  <2>2. CASE (\E e \in Event : PassedBy(e)) /\ UNCHANGED balanceVars
    <3>1. PICK e \in Event : PassedBy(e) /\ UNCHANGED balanceVars
      BY <2>2
    <3>2. Take(e) /\ UNCHANGED <<curHeight, inHand>>
      BY <1>0, <3>1, PassedByFacts
    <3>3. skipped' = skipped /\ counted' = counted
      BY <3>1, <3>2 DEF Take, balanceVars, tableVars
    <3>4. Kept' = Kept
      BY <3>2 DEF Kept, ForRevert
    <3>5. QED
      BY <1>0, <1>3, <1>6, <3>3, <3>4
  <2>3. CASE (\E e \in Event : ReceiveNext(e)) /\ UNCHANGED balanceVars
    <3>1. PICK e \in Event : ReceiveNext(e) /\ UNCHANGED balanceVars
      BY <2>3
    <3>2. /\ Take(e) /\ curHeight' = curHeight /\ inHand' = <<e>> /\ e.state = "ok"
          /\ inHand'[1] = e
      BY <3>1 DEF ReceiveNext
    <3>3. skipped' = skipped /\ counted' = counted
      BY <3>1, <3>2 DEF Take, balanceVars, tableVars
    <3>4. ~ForRevert /\ ~ForRevert'
      <4>1. TakeEvent(e) /\ pc \in Between
        BY <1>0, <3>2, TakenFacts DEF Take, BalanceWork
      <4>2. inHand = <<>>
        BY <4>1 DEF BalanceWork, BalanceHand
      <4>3. QED
        BY <3>2, <4>2 DEF ForRevert
    <3>5. Kept' = Kept
      BY <3>2, <3>4 DEF Kept
    <3>6. QED
      BY <1>0, <1>3, <1>6, <3>3, <3>5
  <2>4. CASE (\E e \in Event : ReceiveRevert(e)) /\ UNCHANGED balanceVars
    <3>1. PICK e \in Event : ReceiveRevert(e) /\ UNCHANGED balanceVars
      BY <2>4
    <3>2. /\ Take(e) /\ curHeight' = curHeight /\ inHand' = <<e>> /\ e.state = "revert"
          /\ inHand'[1] = e /\ curHeight >= e.blk.num
      BY <3>1 DEF ReceiveRevert
    <3>3. skipped' = skipped /\ counted' = counted
      BY <3>1, <3>2 DEF Take, balanceVars, tableVars
    <3>4. ~ForRevert /\ ForRevert'
      <4>1. TakeEvent(e) /\ pc \in Between
        BY <1>0, <3>2, TakenFacts DEF Take, BalanceWork
      <4>2. inHand = <<>>
        BY <4>1 DEF BalanceWork, BalanceHand
      <4>3. QED
        BY <3>2, <4>2 DEF ForRevert
    <3>5. Kept = curHeight /\ Kept' = e.blk.num - 1
      BY <3>2, <3>4 DEF Kept
    <3>6. Kept' <= Kept
      BY <1>0, <3>2, <3>5, EventFacts
    <3>7. QED
      BY <1>3, <1>6, <3>3, <3>6
  <2>5. CASE (\E end \in Nat : ReadFound(end)) /\ UNCHANGED balanceVars
    <3>1. /\ UNCHANGED <<curHeight, inHand, skipped>> /\ counted' = counted
      BY <2>5 DEF ReadFound, balanceVars, tableVars
    <3>2. Kept' = Kept
      BY <3>1 DEF Kept, ForRevert
    <3>3. QED
      BY <1>0, <1>3, <1>6, <3>1, <3>2
  <2>6. CASE (\E end \in Nat : end >= curHeight /\ Skip(end, "loop")) /\ UNCHANGED balanceVars
    <3>1. PICK end \in Nat : end >= curHeight /\ Skip(end, "loop") /\ UNCHANGED balanceVars
      BY <2>6
    <3>2. /\ pc = "catchup" /\ curHeight' = end /\ inHand' = inHand /\ counted' = counted
          /\ skipped' = skipped \cup ((curHeight + 1)..end)
      BY <3>1 DEF Skip, workVars, balanceVars, tableVars
    <3>3. ~ForRevert /\ ~ForRevert'
      BY <3>2 DEF BalanceWork, BalanceHand, Between, Running, ForRevert
    <3>4. Kept = curHeight /\ Kept' = end
      BY <3>2, <3>3 DEF Kept
    <3> SUFFICES ASSUME NEW n \in 1..end
                 PROVE  n \in skipped' \/ \E b \in counted' : b.num = n /\ Settled(b)'
      BY <3>4 DEF CountedCover
    <3>5. CASE n <= curHeight
      <4>1. n \in 1..Kept
        BY <1>0, <3>4, <3>5
      <4>2. n \in skipped \/ \E b \in counted : b.num = n /\ Settled(b)
        BY <4>1 DEF CountedCover
      <4>3. QED
        BY <1>6, <3>2, <4>2 DEF StaysSettled
    <3>6. CASE n > curHeight
      BY <1>0, <3>2, <3>6
    <3>7. QED
      BY <1>0, <3>5, <3>6
  <2>7. CASE QueryFails \/ AnswersRead(calls) \/ AskForTouched \/ ReadBalance(calls)
              \/ CleanAndHandle
    <3>1. UNCHANGED <<curHeight, inHand, skipped, counted>>
      BY <2>7, AnswersFacts DEF QueryFails, Retry, AskForTouched, ReadBalance, CleanAndHandle,
         history, tableVars, loopVars, workVars
    <3>2. Kept' = Kept
      BY <3>1 DEF Kept, ForRevert
    <3>3. QED
      BY <1>0, <1>3, <1>6, <3>1, <3>2
  <2>8. CASE Save
    <3>1. /\ pc = "save" /\ UNCHANGED <<loopVars, inHand, history>>
          /\ counted' = {b \in counted : b.num < batch[1].num}
                            \cup IF ForRevert THEN {} ELSE ToSet(batch)
      BY <2>8, SaveFacts
    <3>2. Kept' = Kept /\ skipped' = skipped
      BY <3>1 DEF Kept, ForRevert, loopVars, history
    <3>3. batch[1].num = Kept + 1
      <4>1. CASE ForRevert
        <5>1. batch[1] = inHand[1].blk /\ inHand[1].blk.num \in Nat
          BY <1>0, <3>1, <4>1, BatchHand, RevertHand
        <5>2. QED
          BY <4>1, <5>1 DEF Kept
      <4>2. CASE ~ForRevert
        BY <3>1, <4>2, BatchHand DEF Kept
      <4>3. QED
        BY <4>1, <4>2
    <3>4. \A b \in counted : b.num \in 1..Kept => b \in counted'
      BY <1>0, <3>1, <3>3
    <3>5. QED
      BY <1>0, <1>1, <1>6, <3>2, <3>4, CoverStays DEF StaysSettled
  <2>9. CASE RecordHeight
    <3>1. /\ pc = "height" /\ ~ForRevert /\ curHeight' = Last(batch).num
          /\ inHand' \in {inHand, <<>>} /\ counted' = counted /\ skipped' = skipped
      BY <2>9 DEF RecordHeight, Saved, history
    <3>2. ~ForRevert'
      BY <3>1 DEF ForRevert
    <3>3. Kept = curHeight /\ Kept' = Last(batch).num
      BY <3>1, <3>2 DEF Kept
    <3>4. /\ ToSet(batch) \subseteq counted /\ \A b \in ToSet(batch) : Settled(b)
      BY <3>1 DEF BatchCounted, NodeTold
    <3>5. /\ Last(batch).num = curHeight + Len(batch) /\ Len(batch) \in Nat
          /\ DOMAIN batch = 1..Len(batch)
          /\ \A i \in DOMAIN batch : batch[i].num = curHeight + i
      BY <1>0, <3>1, BatchHand DEF BalanceFollows
    <3> SUFFICES ASSUME NEW n \in 1..Last(batch).num
                 PROVE  n \in skipped \/ \E b \in counted : b.num = n /\ Settled(b)
      BY <1>6, <3>1, <3>3 DEF CountedCover, StaysSettled
    <3>6. CASE n <= curHeight
      <4>1. n \in 1..Kept
        BY <1>0, <3>3, <3>5, <3>6
      <4>2. QED
        BY <4>1 DEF CountedCover
    <3>7. CASE n > curHeight
      <4>1. PICK i \in Nat : i = n - curHeight /\ i >= 1 /\ i <= Len(batch)
        BY <1>0, <3>5, <3>7
      <4>2. i \in DOMAIN batch /\ curHeight + i = n
        BY <1>0, <3>5, <4>1
      <4>3. batch[i] \in ToSet(batch) /\ batch[i].num = n
        BY <3>5, <4>2 DEF ToSet
      <4>4. QED
        BY <3>4, <4>3
    <3>8. QED
      BY <1>0, <3>5, <3>6, <3>7
  <2>10. CASE RecordReverted
    <3>1. ForRevert /\ inHand' = inHand /\ counted' = counted /\ skipped' = skipped
      BY <2>10 DEF RecordReverted, history
    <3>2. Kept' = Kept
      BY <3>1 DEF Kept, ForRevert
    <3>3. QED
      BY <1>0, <1>3, <1>6, <3>1, <3>2
  <2>11. CASE RecordBelow
    BY <1>5, <1>6, <2>11 DEF StaysSettled
  <2>12. QED
    BY <1>2, <2>1, <2>2, <2>3, <2>4, <2>5, <2>6, <2>7, <2>8, <2>9, <2>10, <2>11, WorkCases
<1>7. QED
  BY <1>2, <1>4, <1>5, <1>6, NextTold

LEMMA InitFresh == ASSUME BalanceInit, NEW calls PROVE FreshInv(calls)
<1>1. /\ curHeight = StartNumber /\ sent = StartChain /\ pc = "created"
      /\ DOMAIN answers = {} /\ ~ForRevert
      /\ \A c \in handled : c \in ToSet(sent) /\ c.num \in 1..StartNumber
      /\ \A n \in 1..StartNumber : n \in DOMAIN StartChain /\ StartChain[n] \in handled
                                   /\ StartChain[n].num = n
      /\ counted = handled
  BY SavedStart
<1>2. PICK m \in StartNumber..Len(StartChain) :
         balances = [k \in Touched(SubSeq(StartChain, 1, StartNumber)) |->
                        Balance(SubSeq(StartChain, 1, m), m, FALSE)]
  BY DEF BalanceInit
<1>3. /\ StartNumber \in Nat /\ Len(StartChain) \in Nat /\ StartChain \in Seq(Blocks)
      /\ \A i \in 1..Len(StartChain) : StartChain[i] \in Blocks
      /\ m \in Nat /\ m <= Len(StartChain) /\ StartNumber <= m
  BY AsyncTaskAssumption, TaskFeedAssumption, LenProperties, ElementOfSeq
<1> DEFINE s == SubSeq(StartChain, 1, m)
<1>4. Len(s) = m
  <2>1. Len(s) = IF 1 <= m THEN m - 1 + 1 ELSE 0
    <3>1. \A i \in 1..m : StartChain[i] \in Blocks
      BY <1>3
    <3>2. QED
      BY <1>3, <3>1, SubSeqProperties
  <2> HIDE DEF s
  <2>2. QED
    BY <1>3, <2>1
<1>5. \A k \in DOMAIN balances : /\ balances[k].at = s /\ balances[k].height = m
                                 /\ Len(balances[k].at) = m
  BY <1>2, <1>4 DEF Balance
<1>6. \A b \in handled : \A k \in b.touches : k \in DOMAIN balances
  <2>1. handled = ToSet(SubSeq(StartChain, 1, StartNumber))
    BY DEF BalanceInit
  <2>2. QED
    BY <1>2, <2>1 DEF Touched
<1> HIDE DEF s
<1>7. AllTimely
  <2>1. \A k \in DOMAIN balances : Len(balances[k].at) >= balances[k].height
    BY <1>3, <1>5
  <2>2. QED
    BY <1>1, <2>1 DEF AllTimely, Timely
<1>8. CountedReach
  <2>1. \A b \in counted : b.num \in Nat /\ b.num <= m
    BY <1>1, <1>3
  <2>2. QED
    BY <1>1, <1>5, <1>6, <2>1 DEF CountedReach, Reaches
<1>9. \A c \in handled : Settled(c)
  BY <1>1 DEF Settled, Stands, ToSet
<1>10. CountedSound
  BY <1>9 DEF CountedSound
<1>11. CountedCover
  <2>1. Kept = StartNumber
    BY <1>1 DEF Kept
  <2>2. QED
    BY <1>1, <1>9, <2>1 DEF CountedCover
<1>12. CacheTrue
  <2>1. DOMAIN lru = {}
    BY DEF BalanceInit, CacheInit, Empty
  <2>2. QED
    BY <2>1 DEF CacheTrue
<1>13. NotAsked /\ AnswersReach(calls) /\ BatchCounted
  BY <1>1 DEF NotAsked, AnswersReach, BatchCounted
<1>14. QED
  BY <1>7, <1>8, <1>10, <1>11, <1>12, <1>13 DEF FreshInv

BalanceInv(calls) == BalanceSafe /\ FreshInv(calls)

LEMMA NextFresh ==
    ASSUME NEW calls, BalanceInv(calls), [BalanceNext(calls)]_taskVars
    PROVE  BalanceInv(calls)'
<1>1. /\ BalanceSafe /\ BalanceWork /\ NodeTold /\ SoundInv
      /\ CacheTrue /\ NotAsked /\ AnswersReach(calls) /\ AllTimely
      /\ CountedReach /\ CountedSound /\ BatchCounted /\ CountedCover
  BY DEF BalanceInv, BalanceSafe, FreshInv
<1>2. BalanceSafe'
  BY <1>1, NextSafe
<1>3. CacheTrue' /\ NotAsked' /\ AnswersReach(calls)'
  BY <1>1, CacheStep, AskedStep, AnsweredStep
<1>4. AllTimely'
  BY <1>1, TimelyStep
<1>5. CountedReach' /\ CountedSound'
  BY <1>1, ReachStep, SoundCountStep
<1>6. BatchCounted' /\ CountedCover'
  BY <1>1, BatchStep, CoverStep
<1>7. QED
  BY <1>2, <1>3, <1>4, <1>5, <1>6 DEF BalanceInv, FreshInv

\* A block the task has passed is counted, and what was handled at its height
\* and not forgotten is this block.
LEMMA PassedFacts ==
    ASSUME NEW calls, BalanceInv(calls), NEW b \in ToSet(sent), Passed(b)
    PROVE  /\ b \in counted
           /\ \A c : Settled(c) /\ c.num = b.num => c = b
<1>1. /\ LoopTypeOK /\ BalanceFollows /\ Numbered(sent) /\ sent \in Seq(Blocks)
      /\ BalanceWork /\ CountedCover
  BY DEF BalanceInv, BalanceSafe, BalanceWork, BalanceTypeOK, FeedInv, FeedTypeOK, FreshInv
<1>2. b \in Blocks /\ b.num \in Nat \ {0}
  BY <1>1, LenProperties, ElementOfSeq, TaskFeedAssumption DEF ToSet
<1>3. /\ b.num <= curHeight /\ ~PassedOver(b.num) /\ ~ToRedo(b.num)
  BY DEF Passed
<1>4. \A x : RevertComing(x) => ~(x.num <= b.num)
  <2> SUFFICES ASSUME NEW x, RevertComing(x), x.num <= b.num PROVE FALSE
    OBVIOUS
  <2>1. PICK j \in DOMAIN ToApply : ToApply[j] = Reverting(x)
    BY <1>1, ToApplyFacts DEF ToRevert, Reverting
  <2>2. ToApply[j].state = "revert" /\ ToApply[j].blk = x
    BY <2>1 DEF Reverting
  <2>3. QED
    BY <1>3, <2>2 DEF ToRedo
<1>5. b.num \in 1..Kept
  <2>1. Kept \in Nat /\ curHeight \in Nat
    BY <1>1, KeptFacts
  <2>2. CASE ForRevert
    <3>1. RevertComing(inHand[1].blk) /\ inHand[1].blk.num \in Nat
      BY <1>1, <2>2, RevertHand
    <3>2. ~(inHand[1].blk.num <= b.num)
      BY <1>4, <3>1
    <3>3. QED
      BY <1>2, <2>2, <3>1, <3>2 DEF Kept
  <2>3. CASE ~ForRevert
    BY <1>2, <1>3, <2>1, <2>3 DEF Kept
  <2>4. QED
    BY <2>2, <2>3
<1>6. \A c : Settled(c) /\ c.num = b.num => c = b
  <2> SUFFICES ASSUME NEW c, Settled(c), c.num = b.num PROVE c = b
    OBVIOUS
  <2>1. CASE Stands(c)
    <3>1. PICK i \in DOMAIN sent : sent[i] = c
      BY <2>1 DEF Stands
    <3>2. PICK j \in DOMAIN sent : sent[j] = b
      BY DEF ToSet
    <3>3. i = c.num /\ j = b.num
      BY <1>1, <3>1, <3>2 DEF Numbered
    <3>4. QED
      BY <3>1, <3>2, <3>3
  <2>2. CASE RevertComing(c)
    BY <1>2, <1>4, <2>2
  <2>3. CASE c \in astray
    BY <1>3, <2>3 DEF PassedOver
  <2>4. QED
    BY <2>1, <2>2, <2>3 DEF Settled
<1>7. b \in counted
  <2>1. b.num \in skipped \/ \E c \in counted : c.num = b.num /\ Settled(c)
    BY <1>1, <1>5 DEF CountedCover
  <2>2. b.num \notin skipped
    BY <1>3 DEF PassedOver
  <2>3. QED
    BY <1>6, <2>1, <2>2
<1>8. QED
  BY <1>6, <1>7

LEMMA FreshRows ==
    ASSUME NEW calls, BalanceInv(calls)
    PROVE  BalanceFresh
<1>1. /\ RowsRead /\ CountedReach /\ CountedSound /\ AllTimely
  BY DEF BalanceInv, BalanceSafe, BalanceWork, FreshInv
<1>2. \A b \in ToSet(sent) : Passed(b) =>
         \A k \in b.touches : /\ k \in DOMAIN balances
                              /\ \/ Excused(k) \/ b \in ToSet(balances[k].at)
                                 \/ Untold(balances[k], b.num)
  <2> SUFFICES ASSUME NEW b \in ToSet(sent), Passed(b), NEW k \in b.touches
               PROVE  /\ k \in DOMAIN balances
                      /\ \/ Excused(k) \/ b \in ToSet(balances[k].at)
                         \/ Untold(balances[k], b.num)
    OBVIOUS
  <2>1. b \in counted /\ \A c : Settled(c) /\ c.num = b.num => c = b
    BY PassedFacts
  <2>2. k \in DOMAIN balances /\ Reaches(balances[k], b.num)
    BY <1>1, <2>1 DEF CountedReach
  <2>3. CASE balances[k].unsure \/ Unanswered(balances[k])
    BY <2>2, <2>3 DEF Excused
  <2>4. CASE Len(balances[k].at) >= b.num
    <3>1. balances[k].at \in Seq(Blocks) /\ Numbered(balances[k].at)
      BY <1>1, <2>2 DEF RowsRead, RowOK
    <3>2. b.num \in Nat \ {0}
      <4>1. sent \in Seq(Blocks)
        BY DEF BalanceInv, BalanceSafe, BalanceWork, FeedInv, FeedTypeOK
      <4>2. QED
        BY <4>1, LenProperties, ElementOfSeq, TaskFeedAssumption DEF ToSet
    <3>3. PICK l \in Nat : l = Len(balances[k].at)
      BY <3>1, LenProperties
    <3>4. DOMAIN balances[k].at = 1..l
      BY <3>1, <3>3, LenProperties
    <3>5. b.num \in 1..l
      BY <2>4, <3>2, <3>3
    <3>6. PICK c : c = balances[k].at[b.num]
      OBVIOUS
    <3>7. c \in ToSet(balances[k].at) /\ c.num = b.num
      BY <3>1, <3>4, <3>5, <3>6 DEF ToSet, Numbered
    <3>8. CASE c \notin handled
      BY <2>2, <3>7, <3>8 DEF Untold
    <3>9. CASE c \in handled
      <4>1. k \in misled \/ Settled(c)
        BY <1>1, <2>1, <3>7, <3>9 DEF CountedSound
      <4>2. k \in misled \/ c = b
        BY <2>1, <3>7, <4>1
      <4>3. QED
        BY <2>2, <3>7, <4>2 DEF Excused
    <3>10. QED
      BY <3>8, <3>9
  <2>5. QED
    BY <2>2, <2>3, <2>4 DEF Reaches
<1>3. QED
  BY <1>2 DEF BalanceFresh

----------------------------------------------------------------------------
(* The three tasks. *)

LEMMA InitBalances ==
    ASSUME BalanceInit, NEW calls PROVE BalanceInv(calls)
BY InitSafe, InitFresh DEF BalanceInv

LEMMA NativeInv == NativeBalanceSpec => []BalanceInv(FALSE)
<1>1. BalanceInv(FALSE) /\ [NativeBalanceNext]_taskVars => BalanceInv(FALSE)'
  BY NativeBalanceStep, NextFresh DEF BalanceInv, BalanceSafe
<1>2. BalanceInit => BalanceInv(FALSE)
  BY InitBalances
<1>3. QED
  BY <1>1, <1>2, PTL DEF NativeBalanceSpec

LEMMA Erc20Inv == Erc20BalanceSpec => []BalanceInv(MultiCallContract)
<1>1. BalanceInv(MultiCallContract) /\ [Erc20BalanceNext]_taskVars
         => BalanceInv(MultiCallContract)'
  BY Erc20BalanceStep, NextFresh DEF BalanceInv, BalanceSafe
<1>2. BalanceInit => BalanceInv(MultiCallContract)
  BY InitBalances
<1>3. QED
  BY <1>1, <1>2, PTL DEF Erc20BalanceSpec

LEMMA Erc1155Inv == Erc1155BalanceSpec => []BalanceInv(TRUE)
<1>1. BalanceInv(TRUE) /\ [Erc1155BalanceNext]_taskVars => BalanceInv(TRUE)'
  BY Erc1155BalanceStep, NextFresh DEF BalanceInv, BalanceSafe
<1>2. BalanceInit => BalanceInv(TRUE)
  BY InitBalances
<1>3. QED
  BY <1>1, <1>2, PTL DEF Erc1155BalanceSpec

LEMMA InvHolds ==
    ASSUME NEW calls, BalanceInv(calls)
    PROVE  BalanceTypeOK /\ BalanceStands /\ BalanceFresh
BY SafeStands, FreshRows DEF BalanceInv

\* The variables of the balance tasks keep their types: the node's chain is
\* linked, the node that answers has at least one block, only what is asked is
\* answered, and the cache keeps its size.
THEOREM BalanceTypesHold ==
    /\ NativeBalanceSpec => []BalanceTypeOK
    /\ Erc20BalanceSpec => []BalanceTypeOK
    /\ Erc1155BalanceSpec => []BalanceTypeOK
<1>1. /\ BalanceInv(FALSE) => BalanceTypeOK
      /\ BalanceInv(MultiCallContract) => BalanceTypeOK
      /\ BalanceInv(TRUE) => BalanceTypeOK
  BY InvHolds
<1>2. QED
  BY <1>1, NativeInv, Erc20Inv, Erc1155Inv, PTL

\* No row of a balance keeps the change of a block that was reverted, in any
\* of the tasks (native_balance_task.go, erc20_balance_task.go and
\* erc1155_task.go: the cache is cleaned before the reverted block is handled).
THEOREM NoRevertedBalance ==
    /\ NativeBalanceSpec => []BalanceStands
    /\ Erc20BalanceSpec => []BalanceStands
    /\ Erc1155BalanceSpec => []BalanceStands
<1>1. /\ BalanceInv(FALSE) => BalanceStands
      /\ BalanceInv(MultiCallContract) => BalanceStands
      /\ BalanceInv(TRUE) => BalanceStands
  BY InvHolds
<1>2. QED
  BY <1>1, NativeInv, Erc20Inv, Erc1155Inv, PTL

\* Once a task has passed a block, neither the cache nor a node that is behind
\* leaves an older balance of what the block touches, but where the filter was
\* wrong, a call failed or the node that answered may have been below the block.
THEOREM NoOlderBalance ==
    /\ NativeBalanceSpec => []BalanceFresh
    /\ Erc20BalanceSpec => []BalanceFresh
    /\ Erc1155BalanceSpec => []BalanceFresh
<1>1. /\ BalanceInv(FALSE) => BalanceFresh
      /\ BalanceInv(MultiCallContract) => BalanceFresh
      /\ BalanceInv(TRUE) => BalanceFresh
  BY InvHolds
<1>2. QED
  BY <1>1, NativeInv, Erc20Inv, Erc1155Inv, PTL
=============================================================================

--------------------------- MODULE DelayTaskProof ---------------------------
(***************************************************************************)
(* Theorems about DelayTask for every value of the constants: the block sent *)
(* is the one whose turn it is (SendsDue), none before its delay (NotEarly), *)
(* and, with base_data at hand, what is sent is what DelayedLog promises.   *)
(***************************************************************************)
EXTENDS DelayTask, TaskFeedProof

\* The queue has no gap, and ends with the block numbered latest.
QueueRuns == \A i \in DOMAIN q : q[i].num = latest - Len(q) + i

\* What is sent is due; a turn that is under way has a block at its rear.
TurnsAreDue ==
    /\ pc # "exited"
    /\ pc = "get" => q # <<>> /\ curNum + Delay = latest
    /\ catchUP => q # <<>>
    /\ pc \in {"send", "record"} => toSend # <<>>
    /\ \A i \in DOMAIN toSend : /\ q # <<>>
                                /\ toSend[i].blk.num = toSend[i].num
                                /\ toSend[i].num <= latest - Delay

\* The next event is not ahead of the rear of the queue.
HeightsMeet ==
    /\ q # <<>> => cur <= latest /\ Reached(blockChan, Len(sent)) <= latest
    /\ latest <= highest
    /\ \A i \in DOMAIN blockChan :
          blockChan[i].state = "ok" => blockChan[i].blk.num <= highest

DelayInv == TypeOK /\ FeedInv /\ QueueRuns /\ TurnsAreDue /\ HeightsMeet

----------------------------------------------------------------------------
(* With base_data at hand: the blocks with Delay blocks above them stand.   *)

\* What is on its way concerns no block with Delay blocks above it.
PendingIsFresh ==
    \A i \in DOMAIN blockChan :
       /\ q # <<>> => blockChan[i].blk.num > latest - Delay
       /\ \A j \in 1..(i - 1) : blockChan[j].state = "ok" =>
             blockChan[i].blk.num > blockChan[j].blk.num - Delay

\* Is a block with number n on its way?
Coming(n) == \E i \in DOMAIN blockChan :
                blockChan[i].state = "ok" /\ blockChan[i].blk.num = n

\* The last block with a number to be sent is the one the chain has.
PendingIsSent ==
    \A i \in DOMAIN blockChan :
       LET n == blockChan[i].blk.num
       IN  (/\ blockChan[i].state = "ok" /\ n <= Len(sent)
            /\ \A j \in (i + 1)..Len(blockChan) :
                  ~(blockChan[j].state = "ok" /\ blockChan[j].blk.num = n))
           => sent[n] = blockChan[i].blk

\* The queue holds the blocks of the chain, but for those that are replaced by
\* what is on its way.
QueueIsSent ==
    \A i \in DOMAIN q :
       (q[i].num > cur /\ q[i].num <= Len(sent) /\ ~Coming(q[i].num))
       => q[i] = sent[q[i].num]

\* The turns follow each other, and the height of the task follows them.
TurnsFollow ==
    /\ cur = taskNum
    /\ \A i \in DOMAIN toSend : /\ toSend[i].num = toSend[1].num + i - 1
                                /\ toSend[i].blk = sent[toSend[i].num]
    /\ pc \in {"send", "record"} => toSend[1].num > taskNum
    /\ pc = "send" => \/ toSend[1].num = taskNum + 1
                      \/ kafka # <<>> /\ kafka[Len(kafka)].num + 1 = toSend[1].num
    /\ pc = "record" => kafka # <<>> /\ kafka[Len(kafka)].num = toSend[1].num

ChainStands == /\ Len(sent) <= highest /\ Len(sent) >= highest - Delay
               /\ PendingIsFresh /\ PendingIsSent /\ QueueIsSent /\ TurnsFollow

----------------------------------------------------------------------------
(* The operators of the task. *)

\* addBlock keeps the queue without gaps, and a block in it is the new one or
\* has another number.
LEMMA AddedFacts ==
    ASSUME q \in Seq(Blocks), Len(q) <= Delay + 1, latest \in Nat, QueueRuns,
           NEW b \in Blocks, q # <<>> => b.num <= latest + 1
    PROVE  LET r == Added(b)
               last == IF q = <<>> \/ b.num > latest THEN b.num ELSE latest
           IN  /\ r \in Seq(Blocks) /\ r # <<>> /\ Len(r) <= Delay + 1
               /\ Last(r).num = last
               /\ \A i \in DOMAIN r : /\ r[i].num = last - Len(r) + i
                                      /\ r[i].num = b.num => r[i] = b
                                      /\ r[i].num # b.num => \E j \in DOMAIN q : q[j] = r[i]
<1> DEFINE r == Added(b)
           n == Len(q)
           last == IF q = <<>> \/ b.num > latest THEN b.num ELSE latest
           Good(s, l) == /\ s \in Seq(Blocks) /\ s # <<>> /\ Len(s) <= Delay + 1
                         /\ Last(s).num = l
                         /\ \A i \in DOMAIN s :
                               /\ s[i].num = l - Len(s) + i
                               /\ s[i].num = b.num => s[i] = b
                               /\ s[i].num # b.num => \E j \in DOMAIN q : q[j] = s[i]
<1>1. /\ n \in Nat /\ DOMAIN q = 1..n /\ Delay \in Nat /\ b.num \in Nat
      /\ \A i \in 1..n : q[i] \in Blocks /\ q[i].num = latest - n + i
      /\ q = <<>> <=> n = 0
  BY LenProperties, ElementOfSeq, EmptySeq, DelayTaskAssumption, TaskFeedAssumption
     DEF QueueRuns
<1> HIDE DEF n, last, r
<1>2. q # <<>> => Last(q).num = latest /\ q[1].num = latest - n + 1
  <2> SUFFICES ASSUME q # <<>> PROVE Last(q).num = latest /\ q[1].num = latest - n + 1
    OBVIOUS
  <2>1. n \in 1..n /\ 1 \in 1..n
    BY <1>1
  <2>2. Last(q) = q[n]
    BY DEF Last, n
  <2>3. q[n].num = latest - n + n /\ q[1].num = latest - n + 1
    BY <1>1, <2>1
  <2>4. QED
    BY <1>1, <2>2, <2>3
<1>3. CASE q # <<>> /\ b.num < q[1].num
  <2>1. r = q /\ last = latest
    <3>1. b.num <= latest
      BY <1>1, <1>2, <1>3
    <3>2. QED
      BY <1>1, <1>3, <3>1 DEF r, Added, last
  <2>2. \A i \in 1..n : q[i].num # b.num
    BY <1>1, <1>2, <1>3
  <2>3. Good(q, latest)
    BY <1>1, <1>2, <1>3, <2>2 DEF n
  <2>4. QED
    BY <2>1, <2>3 DEF r, last
<1>4. CASE q # <<>> /\ ~(b.num < q[1].num) /\ b.num <= Last(q).num
  <2>1. r = Replaced(b) /\ last = latest
    BY <1>1, <1>2, <1>4 DEF r, Added, last
  <2>2. /\ DOMAIN Replaced(b) = 1..n
        /\ \A i \in 1..n : Replaced(b)[i] = IF q[i].num = b.num THEN b ELSE q[i]
    BY <1>1 DEF Replaced
  <2>3. Replaced(b) \in Seq(Blocks) /\ Len(Replaced(b)) = n
    <3>1. \A i \in 1..n : Replaced(b)[i] \in Blocks
      BY <1>1, <2>2
    <3>2. Replaced(b) = [i \in 1..n |-> IF q[i].num = b.num THEN b ELSE q[i]]
      BY <1>1 DEF Replaced
    <3>3. Replaced(b) \in [1..n -> Blocks]
      BY <3>1, <3>2, <2>2
    <3>4. Replaced(b) \in Seq(Blocks)
      BY <1>1, <3>3
    <3>5. QED
      BY <1>1, <2>2, <3>4, LenProperties
  <2>4. \A i \in 1..n : /\ Replaced(b)[i].num = latest - n + i
                        /\ Replaced(b)[i].num = b.num => Replaced(b)[i] = b
                        /\ Replaced(b)[i].num # b.num => Replaced(b)[i] = q[i]
    BY <1>1, <2>2
  <2>5. Replaced(b) # <<>> /\ Last(Replaced(b)).num = latest
    <3>1. n \in 1..n
      BY <1>1, <1>4
    <3>2. Replaced(b)[n].num = latest
      BY <1>1, <2>4, <3>1
    <3>3. QED
      BY <1>1, <1>4, <2>3, <3>2, EmptySeq DEF Last
  <2> DEFINE s == Replaced(b)
  <2>6. s \in Seq(Blocks) /\ Len(s) = n /\ DOMAIN s = 1..n
    BY <2>2, <2>3
  <2>7. \A i \in 1..n : /\ s[i].num = latest - n + i
                        /\ s[i].num = b.num => s[i] = b
                        /\ s[i].num # b.num => s[i] = q[i]
    BY <2>4
  <2>8. s # <<>> /\ Last(s).num = latest
    BY <2>5
  <2> HIDE DEF s
  <2>9. Good(s, latest)
    BY <1>1, <2>6, <2>7, <2>8 DEF n
  <2>10. QED
    BY <2>1, <2>9 DEF r, last, s
<1>5. CASE q = <<>> \/ b.num > Last(q).num
  <2> DEFINE t == IF Full THEN Tail(q) ELSE q
             m == Len(t)
  <2>1. /\ m \in Nat /\ m <= Delay /\ t \in Seq(Blocks) /\ DOMAIN t = 1..m
        /\ \A i \in 1..m : \E j \in 1..n : t[i] = q[j] /\ j = n - m + i
    <3>1. CASE ~Full
      <4>1. t = q
        BY <3>1
      <4>2. n <= Delay + 1 /\ n # Delay + 1
        BY <3>1 DEF Full, n
      <4>3. n \in Nat /\ Delay \in Nat
        BY <1>1
      <4>4. n <= Delay
        BY <4>2, <4>3
      <4>5. m = n /\ t \in Seq(Blocks) /\ DOMAIN t = 1..m
        BY <1>1, <4>1 DEF n
      <4> HIDE DEF t, m
      <4>6. \A i \in 1..m : i \in 1..n /\ t[i] = q[i] /\ i = n - m + i
        BY <4>1, <4>3, <4>5
      <4>7. QED
        BY <4>3, <4>4, <4>5, <4>6
    <3>2. CASE Full
      <4>1. t = Tail(q) /\ n = Delay + 1 /\ q # <<>>
        BY <1>1, <3>2 DEF Full, n
      <4>2. /\ Tail(q) \in Seq(Blocks) /\ Len(Tail(q)) = n - 1
            /\ \A i \in 1..Len(Tail(q)) : Tail(q)[i] = q[i + 1]
        BY <4>1, HeadTailProperties DEF n
      <4>3. t \in Seq(Blocks) /\ m = n - 1 /\ \A i \in 1..(n - 1) : t[i] = q[i + 1]
        BY <4>1, <4>2
      <4>4. DOMAIN t = 1..m
        BY <4>3, LenProperties
      <4> HIDE DEF t, m
      <4>5. \A i \in 1..m : i + 1 \in 1..n /\ t[i] = q[i + 1] /\ i + 1 = n - m + i
        BY <1>1, <4>3
      <4>6. QED
        BY <1>1, <4>1, <4>3, <4>4, <4>5
    <3>3. QED
      BY <3>1, <3>2
  <2>2. r = Append(t, b)
    BY <1>1, <1>2, <1>5 DEF r, Added
  <2> HIDE DEF t
  <2>3. /\ r \in Seq(Blocks) /\ r # <<>> /\ Len(r) = m + 1
        /\ \A i \in 1..m : r[i] = t[i]
        /\ r[m + 1] = b
    BY <2>1, <2>2, AppendProperties
  <2>4. DOMAIN r = 1..(m + 1)
    BY <2>3, LenProperties
  <2> HIDE DEF m
  <2>5. last = b.num /\ (q # <<>> => b.num = latest + 1)
    BY <1>1, <1>2, <1>5 DEF last
  <2>6. \A i \in 1..m : /\ r[i].num = b.num - (m + 1) + i /\ r[i].num # b.num
                        /\ \E j \in 1..n : q[j] = r[i]
    <3> SUFFICES ASSUME NEW i \in 1..m
                 PROVE  /\ r[i].num = b.num - (m + 1) + i /\ r[i].num # b.num
                        /\ \E j \in 1..n : q[j] = r[i]
      OBVIOUS
    <3>1. PICK j \in 1..n : t[i] = q[j] /\ j = n - m + i
      BY <2>1
    <3>2. r[i] = q[j] /\ q[j].num = latest - n + j /\ q # <<>>
      BY <1>1, <2>3, <3>1
    <3>3. r[i].num = latest - m + i /\ b.num = latest + 1
      BY <1>1, <2>1, <2>5, <3>1, <3>2
    <3>4. QED
      BY <1>1, <2>1, <3>2, <3>3
  <2>7. Last(r).num = b.num
    BY <2>3 DEF Last
  <2>8. r[m + 1].num = b.num - (m + 1) + (m + 1)
    BY <1>1, <2>1, <2>3
  <2>9. \A i \in DOMAIN r : /\ r[i].num = b.num - Len(r) + i
                            /\ r[i].num = b.num => r[i] = b
                            /\ r[i].num # b.num => \E j \in DOMAIN q : q[j] = r[i]
    <3> SUFFICES ASSUME NEW i \in DOMAIN r
                 PROVE  /\ r[i].num = b.num - Len(r) + i
                        /\ r[i].num = b.num => r[i] = b
                        /\ r[i].num # b.num => \E j \in DOMAIN q : q[j] = r[i]
      OBVIOUS
    <3>1. CASE i = m + 1
      BY <2>3, <2>8, <3>1
    <3>2. CASE i # m + 1
      <4>1. i \in 1..m
        BY <2>1, <2>4, <3>2
      <4>2. QED
        BY <1>1, <2>3, <2>6, <4>1
    <3>3. QED
      BY <3>1, <3>2
  <2>10. Len(r) <= Delay + 1
    <3>1. Delay \in Nat /\ m \in Nat /\ m <= Delay /\ Len(r) = m + 1
      BY <1>1, <2>1, <2>3
    <3>2. QED
      BY <3>1
  <2>11. QED
    BY <2>3, <2>5, <2>7, <2>9, <2>10 DEF r, last
<1>6. QED
  BY <1>1, <1>2, <1>3, <1>4, <1>5

\* The range of catch-up ends with what has Delay blocks above it.
LEMMA CatchUpFacts ==
    ASSUME latest \in Nat, cur \in Nat
    PROVE  CatchUpEnd \in Int /\ CatchUpEnd <= latest - Delay
<1>1. curNum + QueryBatch \in Int /\ latest - Delay \in Int
  BY DelayTaskAssumption DEF curNum
<1>2. QED
  BY <1>1, MinOfTwo DEF CatchUpEnd

----------------------------------------------------------------------------
(* DelayInv is inductive. *)

LEMMA InitDelayInv == Init => DelayInv
<1> SUFFICES ASSUME Init PROVE DelayInv
  OBVIOUS
<1>1. FeedInv /\ blockChan = <<>> /\ sent = StartChain
  BY InitFeedInv DEF Init, FeedInit
<1>2. Len(StartChain) \in Nat /\ Len(<<>>) = 0 /\ DOMAIN <<>> = {}
  BY LenProperties, TaskFeedAssumption, EmptySeq
<1>3. TypeOK
  <2>1. <<>> \in Seq(Blocks) /\ <<>> \in Seq([blk : Blocks, num : Nat]) /\ StartNumber \in Nat
    BY <1>2, EmptySeq, DelayTaskAssumption
  <2>2. FeedTypeOK
    BY <1>1 DEF FeedInv
  <2>3. q \in Seq(Blocks) /\ Len(q) <= Delay + 1 /\ kafka \in Seq(Blocks)
        /\ toSend \in Seq([blk : Blocks, num : Nat])
    BY <1>2, <2>1, DelayTaskAssumption DEF Init
  <2>4. /\ pc = "loop" /\ cur = StartNumber /\ latest = 0 /\ catchUP = FALSE
        /\ taskNum = StartNumber /\ highest = Len(StartChain)
        /\ restarts = 0 /\ failures = 0
    BY DEF Init
  <2>5. restarts \in 0..MaxRestarts /\ failures \in 0..MaxFailures
    BY <2>4, DelayTaskAssumption
  <2>6. pc \in Running \cup {"exited", "down"} /\ catchUP \in BOOLEAN
    BY <2>4 DEF Running
  <2>7. QED
    BY <1>2, <2>1, <2>2, <2>3, <2>4, <2>5, <2>6 DEF TypeOK
<1>4. QueueRuns /\ TurnsAreDue /\ HeightsMeet
  BY <1>1, <1>2 DEF Init, QueueRuns, TurnsAreDue, HeightsMeet
<1>5. QED
  BY <1>1, <1>3, <1>4 DEF DelayInv

\* A step that leaves the feed and the queue alone leaves where they meet alone.
LEMMA QuietMeet ==
    ASSUME DelayInv, UNCHANGED <<feedVars, q, latest, highest>>,
           cur' = cur \/ cur' <= latest
    PROVE  FeedInv' /\ QueueRuns' /\ HeightsMeet'
<1>1. /\ blockChan' = blockChan /\ sent' = sent /\ q' = q /\ latest' = latest
      /\ highest' = highest
  BY DEF feedVars
<1>2. FeedInv'
  BY FeedStays DEF DelayInv
<1>3. QueueRuns'
  BY <1>1 DEF DelayInv, QueueRuns
<1>4. HeightsMeet'
  BY <1>1 DEF DelayInv, HeightsMeet
<1>5. QED
  BY <1>2, <1>3, <1>4

LEMMA PublishKeeps ==
    ASSUME DelayInv, NEW e \in Event, Publish(e) PROVE DelayInv'
<1>1. /\ pc \in Running /\ Deliver(e) /\ highest' = Max({highest, Len(sent')})
      /\ q' = q /\ latest' = latest /\ cur' = cur /\ pc' = pc /\ catchUP' = catchUP
      /\ toSend' = toSend /\ kafka' = kafka /\ taskNum' = taskNum
      /\ restarts' = restarts /\ failures' = failures
  BY DEF Publish, taskVars
<1>2. TypeOK /\ FeedInv /\ QueueRuns /\ TurnsAreDue /\ HeightsMeet
  BY DEF DelayInv
<1>3. /\ Before(e) = Len(sent) /\ Len(sent') = After(e)
      /\ blockChan' = Append(blockChan, e)
      /\ Reached(blockChan', Len(sent')) = Reached(blockChan, Len(sent))
      /\ FeedInv'
  BY <1>1, <1>2, DeliverFacts
<1>4. highest \in Nat /\ latest \in Nat /\ Len(sent') \in Nat /\ blockChan \in Seq(Event)
  BY <1>2, <1>3, EventFacts DEF TypeOK, FeedTypeOK
<1>5. highest' \in Nat /\ highest' >= highest /\ highest' >= Len(sent')
  BY <1>1, <1>4, MaxOfTwo
<1>6. TypeOK'
  BY <1>1, <1>2, <1>3, <1>5 DEF TypeOK, FeedInv
<1>7. QueueRuns' /\ TurnsAreDue'
  BY <1>1, <1>2 DEF QueueRuns, TurnsAreDue, curNum
<1>8. HeightsMeet'
  <2>1. q' # <<>> => cur' <= latest' /\ Reached(blockChan', Len(sent')) <= latest'
    BY <1>1, <1>2, <1>3 DEF HeightsMeet
  <2>2. latest' <= highest'
    BY <1>1, <1>2, <1>4, <1>5 DEF HeightsMeet
  <2>3. \A i \in DOMAIN blockChan' :
           blockChan'[i].state = "ok" => blockChan'[i].blk.num <= highest'
    <3> DEFINE n == Len(blockChan)
    <3>1. /\ n \in Nat /\ DOMAIN blockChan = 1..n /\ DOMAIN blockChan' = 1..(n + 1)
          /\ \A i \in 1..n : blockChan'[i] = blockChan[i] /\ blockChan[i] \in Event
          /\ blockChan'[n + 1] = e
      BY <1>3, <1>4, AppendProperties, LenProperties, ElementOfSeq
    <3> HIDE DEF n
    <3>2. SUFFICES ASSUME NEW i \in 1..(n + 1), blockChan'[i].state = "ok"
                   PROVE  blockChan'[i].blk.num <= highest'
      BY <3>1
    <3>3. CASE i = n + 1
      BY <1>3, <1>5, <3>1, <3>2, <3>3, EventFacts
    <3>4. CASE i # n + 1
      <4>1. i \in 1..n /\ blockChan'[i] = blockChan[i] /\ blockChan[i] \in Event
        BY <3>1, <3>4
      <4>2. blockChan[i].blk.num \in Nat /\ blockChan[i].blk.num <= highest
        BY <1>2, <3>1, <3>2, <4>1, EventFacts DEF HeightsMeet
      <4>3. QED
        BY <1>4, <1>5, <4>1, <4>2
    <3>5. QED
      BY <3>3, <3>4
  <2>4. QED
    BY <2>1, <2>2, <2>3 DEF HeightsMeet
<1>9. QED
  BY <1>3, <1>6, <1>7, <1>8 DEF DelayInv

LEMMA BaseKeeps == ASSUME DelayInv, BaseApplies PROVE DelayInv'
<1>1. /\ Apply /\ q' = q /\ latest' = latest /\ cur' = cur /\ pc' = pc
      /\ catchUP' = catchUP /\ toSend' = toSend /\ kafka' = kafka
      /\ taskNum' = taskNum /\ highest' = highest /\ restarts' = restarts
      /\ failures' = failures
  BY DEF BaseApplies, taskVars, envVars
<1>2. FeedInv' /\ blockChan' = blockChan /\ sent' = sent
  BY <1>1, ApplyFacts DEF DelayInv
<1>3. TypeOK'
  BY <1>1, <1>2 DEF DelayInv, TypeOK, FeedInv
<1>4. QueueRuns' /\ TurnsAreDue' /\ HeightsMeet'
  BY <1>1, <1>2 DEF DelayInv, QueueRuns, TurnsAreDue, HeightsMeet, curNum
<1>5. QED
  BY <1>2, <1>3, <1>4 DEF DelayInv

LEMMA RestartKeeps == ASSUME DelayInv, Restart PROVE DelayInv'
<1>1. /\ pc' = "loop" /\ q' = <<>> /\ cur' = taskNum /\ latest' = 0
      /\ catchUP' = FALSE /\ toSend' = <<>> /\ kafka' = kafka /\ taskNum' = taskNum
      /\ highest' = highest /\ restarts' = restarts + 1 /\ restarts < MaxRestarts
      /\ failures' = failures /\ FeedAgain
  BY DEF Restart
<1>2. FeedInv' /\ blockChan' = <<>>
  BY <1>1, FeedAgainFacts DEF DelayInv
<1>3. TypeOK
  BY DEF DelayInv
<1>4. /\ Len(<<>>) = 0 /\ DOMAIN <<>> = {} /\ Delay \in Nat /\ MaxRestarts \in Nat
      /\ <<>> \in Seq(Blocks) /\ <<>> \in Seq([blk : Blocks, num : Nat])
  BY EmptySeq, DelayTaskAssumption
<1>5. TypeOK'
  <2>1. q' \in Seq(Blocks) /\ Len(q') <= Delay + 1 /\ kafka' \in Seq(Blocks)
        /\ toSend' \in Seq([blk : Blocks, num : Nat])
    BY <1>1, <1>3, <1>4 DEF TypeOK
  <2>2. restarts' \in 0..MaxRestarts /\ failures' \in 0..MaxFailures
    BY <1>1, <1>3, <1>4 DEF TypeOK
  <2>3. pc' \in Running \cup {"exited", "down"} /\ catchUP' \in BOOLEAN
    BY <1>1 DEF Running
  <2>4. FeedTypeOK'
    BY <1>2 DEF FeedInv
  <2>5. cur' \in Nat /\ latest' \in Nat /\ taskNum' \in Nat /\ highest' \in Nat
    BY <1>1, <1>3 DEF TypeOK
  <2>6. QED
    BY <2>1, <2>2, <2>3, <2>4, <2>5 DEF TypeOK
<1>6. QueueRuns' /\ TurnsAreDue' /\ HeightsMeet'
  BY <1>1, <1>2, <1>3, <1>4 DEF QueueRuns, TurnsAreDue, HeightsMeet, TypeOK
<1>7. QED
  BY <1>2, <1>5, <1>6 DEF DelayInv

\* The goroutine is stopped, or gives up what it was about to do.
LEMMA LeaveKeeps ==
    ASSUME DelayInv, Crash \/ TakeStop \/ GetFails \/ CatchUpEnds PROVE DelayInv'
<1>1. /\ q' = q /\ latest' = latest /\ cur' = cur /\ pc' \in {"down", "loop"}
      /\ catchUP' = catchUP \/ catchUP' = FALSE
      /\ toSend' = toSend /\ kafka' = kafka
      /\ taskNum' = taskNum /\ highest' = highest /\ restarts' = restarts
      /\ failures' = failures /\ UNCHANGED feedVars
  BY DEF Crash, TakeStop, GetFails, CatchUpEnds, envVars
<1>2. FeedInv' /\ QueueRuns' /\ HeightsMeet'
  BY <1>1, QuietMeet
<1>3. TypeOK'
  BY <1>1, <1>2 DEF DelayInv, TypeOK, FeedInv, Running
<1>4. TurnsAreDue'
  BY <1>1 DEF DelayInv, TurnsAreDue
<1>5. QED
  BY <1>2, <1>3, <1>4 DEF DelayInv

LEMMA EnterKeeps == ASSUME DelayInv, Enter PROVE DelayInv'
<1>1. /\ q' = q /\ latest' = latest /\ cur' = cur /\ pc' = "select"
      /\ catchUP' = (catchUP \/ Catching) /\ toSend' = toSend /\ kafka' = kafka
      /\ taskNum' = taskNum /\ highest' = highest /\ restarts' = restarts
      /\ failures' = failures /\ UNCHANGED feedVars
  BY DEF Enter, envVars
<1>2. FeedInv' /\ QueueRuns' /\ HeightsMeet'
  BY <1>1, QuietMeet
<1>3. catchUP' \in BOOLEAN /\ (catchUP' => q # <<>>)
  BY <1>1 DEF DelayInv, TypeOK, TurnsAreDue, Catching
<1>4. TypeOK'
  BY <1>1, <1>2, <1>3 DEF DelayInv, TypeOK, FeedInv, Running
<1>5. TurnsAreDue'
  BY <1>1, <1>3 DEF DelayInv, TurnsAreDue
<1>6. QED
  BY <1>2, <1>4, <1>5 DEF DelayInv

\* The event at hand is for the height reached, at or below the rear.
LEMMA EventAtHand ==
    ASSUME DelayInv, NEW e \in Event, TakeEvent(e)
    PROVE  /\ e.blk \in Blocks /\ e.blk.num \in Nat /\ e.blk.num >= 1
           /\ q # <<>> => e.blk.num <= latest + 1
           /\ q # <<>> => Before(e) <= latest
           /\ e.state = "ok" => e.blk.num <= highest
           /\ Reached(blockChan', Len(sent')) = After(e)
           /\ FeedInv' /\ blockChan' = Tail(blockChan) /\ sent' = sent
           /\ \A i \in DOMAIN blockChan' :
                 i + 1 \in DOMAIN blockChan /\ blockChan'[i] = blockChan[i + 1]
<1>1. FeedInv /\ HeightsMeet /\ latest \in Nat /\ blockChan \in Seq(Event)
  BY DEF DelayInv, TypeOK, FeedTypeOK
<1>2. /\ FeedInv' /\ sent' = sent /\ blockChan # <<>> /\ e = blockChan[1]
      /\ blockChan' = Tail(blockChan)
      /\ Reached(blockChan, Len(sent)) = Before(e)
      /\ Reached(blockChan', Len(sent')) = After(e)
  BY <1>1, TakeFacts
<1>3. /\ e.blk \in Blocks /\ e.blk.num \in Nat /\ e.blk.num >= 1
      /\ e.state = "ok" => Before(e) = e.blk.num - 1
      /\ e.state # "ok" => Before(e) = e.blk.num
  BY EventFacts
<1>4. q # <<>> => Before(e) <= latest /\ e.blk.num <= latest + 1
  BY <1>1, <1>2, <1>3 DEF HeightsMeet
<1>5. /\ Len(blockChan) \in Nat /\ Len(blockChan) >= 1 /\ DOMAIN blockChan = 1..Len(blockChan)
      /\ blockChan' \in Seq(Event) /\ Len(blockChan') = Len(blockChan) - 1
      /\ \A i \in 1..Len(blockChan') : blockChan'[i] = blockChan[i + 1]
  BY <1>1, <1>2, LenProperties, HeadTailProperties, EmptySeq
<1>6. DOMAIN blockChan' = 1..(Len(blockChan) - 1)
  BY <1>5, LenProperties
<1>7. e.state = "ok" => e.blk.num <= highest
  BY <1>1, <1>2, <1>5 DEF HeightsMeet
<1>8. QED
  BY <1>2, <1>3, <1>4, <1>5, <1>6, <1>7

LEMMA IgnoreKeeps ==
    ASSUME DelayInv, NEW e \in Event, Ignore(e) PROVE DelayInv'
<1>1. /\ q' = q /\ latest' = latest /\ cur' = cur /\ pc' = "loop" /\ catchUP' = catchUP
      /\ toSend' = toSend /\ kafka' = kafka /\ taskNum' = taskNum
      /\ highest' = highest /\ restarts' = restarts /\ failures' = failures
      /\ TakeEvent(e) /\ Ignored(e)
  BY DEF Ignore, envVars
<1>2. /\ e.blk.num \in Nat /\ e.blk.num >= 1 /\ FeedInv'
      /\ q # <<>> => Before(e) <= latest
      /\ Reached(blockChan', Len(sent')) = After(e)
      /\ \A i \in DOMAIN blockChan' :
             i + 1 \in DOMAIN blockChan /\ blockChan'[i] = blockChan[i + 1]
  BY <1>1, EventAtHand
<1>3. /\ e.state = "ok" => After(e) = e.blk.num
      /\ e.state # "ok" => After(e) = e.blk.num - 1 /\ Before(e) = e.blk.num
  BY EventFacts
<1>4. TypeOK /\ QueueRuns /\ TurnsAreDue /\ HeightsMeet
  BY DEF DelayInv
<1>5. cur \in Nat /\ latest \in Nat
  BY <1>4 DEF TypeOK
<1>6. q # <<>> => After(e) <= latest
  <2> SUFFICES ASSUME q # <<>> PROVE After(e) <= latest
    OBVIOUS
  <2>1. cur <= latest /\ Before(e) <= latest
    BY <1>2, <1>4 DEF HeightsMeet
  <2>2. CASE e.state = "ok"
    <3>1. e.blk.num < cur + 1
      BY <1>1, <2>2 DEF Ignored, curNum
    <3>2. QED
      BY <1>2, <1>3, <1>5, <2>1, <2>2, <3>1
  <2>3. CASE e.state # "ok"
    BY <1>2, <1>3, <1>5, <2>1, <2>3
  <2>4. QED
    BY <2>2, <2>3
<1>7. TypeOK'
  BY <1>1, <1>2, <1>4 DEF TypeOK, FeedInv, Running
<1>8. QueueRuns' /\ TurnsAreDue'
  BY <1>1, <1>4 DEF QueueRuns, TurnsAreDue, curNum
<1>9. HeightsMeet'
  BY <1>1, <1>2, <1>4, <1>6 DEF HeightsMeet
<1>10. QED
  BY <1>2, <1>7, <1>8, <1>9 DEF DelayInv

\* The queue is never asked to hold a block that does not continue it.
LEMMA NothingUnexpected ==
    ASSUME DelayInv, NEW e \in Event, ReceiveUnexpected(e) PROVE FALSE
<1>1. TakeEvent(e) /\ q # <<>> /\ e.blk.num > Last(q).num + 1
  BY DEF ReceiveUnexpected, Unexpected
<1>2. e.blk.num \in Nat /\ e.blk.num <= latest + 1
  BY <1>1, EventAtHand
<1>3. /\ Len(q) \in Nat /\ Len(q) >= 1 /\ DOMAIN q = 1..Len(q) /\ latest \in Nat
      /\ \A i \in DOMAIN q : q[i].num = latest - Len(q) + i
  BY <1>1, LenProperties, EmptySeq DEF DelayInv, TypeOK, QueueRuns
<1>4. Last(q).num = latest
  BY <1>3 DEF Last
<1>5. QED
  BY <1>1, <1>2, <1>3, <1>4

LEMMA ReceiveFacts ==
    ASSUME DelayInv, NEW e \in Event, Receive(e)
    PROVE  /\ q' = Added(e.blk) /\ e.state = "ok" /\ e.blk.num >= curNum
           /\ q' \in Seq(Blocks) /\ q' # <<>> /\ Len(q') <= Delay + 1
           /\ latest' = IF q = <<>> \/ e.blk.num > latest THEN e.blk.num ELSE latest
           /\ latest' \in Nat
           /\ \A i \in DOMAIN q' :
                 /\ q'[i].num = latest' - Len(q') + i
                 /\ q'[i].num = e.blk.num => q'[i] = e.blk
                 /\ q'[i].num # e.blk.num => \E j \in DOMAIN q : q[j] = q'[i]
<1>1. /\ q' = Added(e.blk) /\ latest' = Last(q').num /\ TakeEvent(e)
      /\ ~Ignored(e)
  BY DEF Receive
<1>2. /\ e.blk \in Blocks /\ e.blk.num \in Nat
      /\ q # <<>> => e.blk.num <= latest + 1
  BY <1>1, EventAtHand
<1>3. q \in Seq(Blocks) /\ Len(q) <= Delay + 1 /\ latest \in Nat /\ QueueRuns
      /\ cur \in Nat
  BY DEF DelayInv, TypeOK
<1>4. e.state = "ok" /\ e.blk.num >= curNum
  BY <1>1, <1>2, <1>3, EventFacts DEF Ignored, curNum
<1> DEFINE last == IF q = <<>> \/ e.blk.num > latest THEN e.blk.num ELSE latest
           r == Added(e.blk)
<1>5. /\ r \in Seq(Blocks) /\ r # <<>> /\ Len(r) <= Delay + 1
      /\ Last(r).num = last
      /\ \A i \in DOMAIN r : /\ r[i].num = last - Len(r) + i
                             /\ r[i].num = e.blk.num => r[i] = e.blk
                             /\ r[i].num # e.blk.num => \E j \in DOMAIN q : q[j] = r[i]
  BY <1>2, <1>3, AddedFacts
<1>6. last \in Nat
  BY <1>2, <1>3
<1>7. q' = r
  BY <1>1
<1> HIDE DEF r, last
<1>8. latest' = last
  BY <1>1, <1>5, <1>7
<1>9. /\ q' \in Seq(Blocks) /\ q' # <<>> /\ Len(q') <= Delay + 1
      /\ latest' \in Nat
      /\ \A i \in DOMAIN q' :
            /\ q'[i].num = latest' - Len(q') + i
            /\ q'[i].num = e.blk.num => q'[i] = e.blk
            /\ q'[i].num # e.blk.num => \E j \in DOMAIN q : q[j] = q'[i]
  <2>1. q' \in Seq(Blocks) /\ q' # <<>> /\ Len(q') <= Delay + 1 /\ latest' \in Nat
    BY <1>5, <1>6, <1>7, <1>8
  <2>2. ASSUME NEW i \in DOMAIN r
        PROVE  /\ r[i].num = latest' - Len(r) + i
               /\ r[i].num = e.blk.num => r[i] = e.blk
               /\ r[i].num # e.blk.num => \E j \in DOMAIN q : q[j] = r[i]
    <3>1. r[i].num = last - Len(r) + i /\ (r[i].num = e.blk.num => r[i] = e.blk)
      BY <1>5
    <3>2. r[i].num # e.blk.num => \E j \in DOMAIN q : q[j] = r[i]
      BY <1>5
    <3>3. QED
      BY <1>8, <3>1, <3>2
  <2>3. QED
    BY <1>7, <2>1, <2>2
<1>10. QED
  BY <1>1, <1>4, <1>8, <1>9 DEF last

LEMMA ReceiveKeeps ==
    ASSUME DelayInv, NEW e \in Event, Receive(e) PROVE DelayInv'
<1>1. /\ cur' = cur /\ catchUP' = catchUP
      /\ toSend' = toSend /\ kafka' = kafka /\ taskNum' = taskNum
      /\ highest' = highest /\ restarts' = restarts /\ failures' = failures
      /\ TakeEvent(e) /\ pc = "select"
      /\ pc' = IF curNum + Delay = latest' THEN "get" ELSE "loop"
  BY DEF Receive, envVars
<1>2. /\ e.blk.num \in Nat /\ e.blk.num >= 1 /\ FeedInv'
      /\ e.state = "ok" => e.blk.num <= highest
      /\ Reached(blockChan', Len(sent')) = After(e)
      /\ \A i \in DOMAIN blockChan' :
             i + 1 \in DOMAIN blockChan /\ blockChan'[i] = blockChan[i + 1]
  BY <1>1, EventAtHand
<1>3. /\ q' = Added(e.blk) /\ e.state = "ok" /\ e.blk.num >= curNum
      /\ q' \in Seq(Blocks) /\ q' # <<>> /\ Len(q') <= Delay + 1
      /\ latest' = IF q = <<>> \/ e.blk.num > latest THEN e.blk.num ELSE latest
      /\ latest' \in Nat
      /\ \A i \in DOMAIN q' : q'[i].num = latest' - Len(q') + i
  BY ReceiveFacts
<1>4. TypeOK /\ TurnsAreDue /\ HeightsMeet
  BY DEF DelayInv
<1>5. cur \in Nat /\ latest \in Nat /\ highest \in Nat
  BY <1>4 DEF TypeOK
<1>6. e.blk.num <= latest' /\ (q # <<>> => latest <= latest') /\ latest' <= highest
  <2>1. e.blk.num <= highest /\ latest <= highest
    BY <1>2, <1>3, <1>4 DEF HeightsMeet
  <2>2. QED
    BY <1>2, <1>3, <1>5, <2>1
<1>7. TypeOK'
  BY <1>1, <1>2, <1>3, <1>4 DEF TypeOK, FeedInv, Running
<1>8. QueueRuns'
  BY <1>3 DEF QueueRuns
<1>9. TurnsAreDue'
  <2>1. pc' # "exited" /\ pc' \notin {"send", "record"}
        /\ (pc' = "get" => curNum + Delay = latest')
    BY <1>1
  <2>2. curNum' = curNum
    BY <1>1 DEF curNum
  <2>3. \A i \in DOMAIN toSend' : /\ q' # <<>>
                                  /\ toSend'[i].blk.num = toSend'[i].num
                                  /\ toSend'[i].num <= latest' - Delay
    <3> SUFFICES ASSUME NEW i \in DOMAIN toSend
                 PROVE  /\ toSend[i].blk.num = toSend[i].num
                        /\ toSend[i].num <= latest' - Delay
      BY <1>1, <1>3
    <3>1. /\ q # <<>> /\ toSend[i].blk.num = toSend[i].num
          /\ toSend[i].num <= latest - Delay
      BY <1>4 DEF TurnsAreDue
    <3>2. toSend[i].num \in Nat
      <4>1. toSend \in Seq([blk : Blocks, num : Nat]) /\ DOMAIN toSend = 1..Len(toSend)
        BY <1>4, LenProperties DEF TypeOK
      <4>2. toSend[i] \in [blk : Blocks, num : Nat]
        BY <4>1, ElementOfSeq
      <4>3. QED
        BY <4>2
    <3>3. QED
      BY <1>3, <1>5, <1>6, <3>1, <3>2, DelayTaskAssumption
  <2>4. QED
    BY <1>3, <2>1, <2>2, <2>3 DEF TurnsAreDue
<1>10. HeightsMeet'
  <2>1. cur' <= latest' /\ Reached(blockChan', Len(sent')) <= latest'
    <3>1. After(e) = e.blk.num
      BY <1>3, EventFacts
    <3>2. QED
      BY <1>1, <1>2, <1>3, <1>5, <1>6, <3>1 DEF curNum
  <2>2. latest' <= highest'
    BY <1>1, <1>6
  <2>3. \A i \in DOMAIN blockChan' :
          blockChan'[i].state = "ok" => blockChan'[i].blk.num <= highest'
    BY <1>1, <1>2, <1>4 DEF HeightsMeet
  <2>4. QED
    BY <2>1, <2>2, <2>3 DEF HeightsMeet
<1>11. QED
  BY <1>2, <1>7, <1>8, <1>9, <1>10 DEF DelayInv

Turn == [blk : Blocks, num : Nat]
Turns == Seq(Turn)

LEMMA MappingIsSeq == ASSUME NEW S, NEW n \in Nat, NEW f \in [1..n -> S] PROVE f \in Seq(S)
OBVIOUS

\* Blocks that are read to be sent are turns.
LEMMA TurnsOf ==
    ASSUME NEW bs \in Seq(Blocks), NEW F, \A i \in DOMAIN bs : F[i] \in Nat
    PROVE  LET ts == [i \in DOMAIN bs |-> [blk |-> bs[i], num |-> F[i]]]
           IN  /\ ts \in Turns /\ DOMAIN ts = DOMAIN bs /\ Len(ts) = Len(bs)
               /\ ts = <<>> <=> bs = <<>>
<1> DEFINE ts == [i \in DOMAIN bs |-> [blk |-> bs[i], num |-> F[i]]]
           n == Len(bs)
<1>1. n \in Nat /\ DOMAIN bs = 1..n /\ \A i \in 1..n : bs[i] \in Blocks
  BY LenProperties, ElementOfSeq
<1> HIDE DEF n
<1>2. DOMAIN ts = 1..n /\ \A i \in 1..n : ts[i] \in Turn
  BY <1>1 DEF Turn
<1>3. ts = [i \in 1..n |-> [blk |-> bs[i], num |-> F[i]]]
  BY <1>1
<1>4. ts \in [1..n -> Turn]
  BY <1>2, <1>3
<1> HIDE DEF ts
<1>5. ts \in Turns
  BY <1>1, <1>4, MappingIsSeq DEF Turns
<1>6. Len(ts) = n
  BY <1>1, <1>2, <1>5, LenProperties DEF Turns
<1>7. ts = <<>> <=> bs = <<>>
  BY <1>1, <1>5, <1>6, EmptySeq DEF Turns, n
<1>8. QED
  BY <1>1, <1>2, <1>5, <1>6, <1>7 DEF ts, n

LEMMA TurnsFacts ==
    ASSUME toSend \in Turns, toSend # <<>>
    PROVE  /\ Head(toSend) = toSend[1] /\ 1 \in DOMAIN toSend
           /\ Head(toSend).blk \in Blocks /\ Head(toSend).num \in Nat
           /\ Head(toSend).blk.num \in Nat
           /\ Tail(toSend) \in Turns
           /\ \A i \in DOMAIN Tail(toSend) :
                 i + 1 \in DOMAIN toSend /\ Tail(toSend)[i] = toSend[i + 1]
<1> DEFINE t == Tail(toSend)
<1>1. /\ Len(toSend) \in Nat /\ DOMAIN toSend = 1..Len(toSend) /\ Len(toSend) >= 1
  BY LenProperties, EmptySeq DEF Turns
<1>2. /\ Head(toSend) \in Turn /\ t \in Turns
      /\ Len(t) = Len(toSend) - 1 /\ \A i \in 1..Len(t) : t[i] = toSend[i + 1]
  BY HeadTailProperties DEF Turns
<1>3. DOMAIN t = 1..Len(t)
  BY <1>2, LenProperties DEF Turns
<1> HIDE DEF t
<1>4. \A i \in DOMAIN t : i + 1 \in DOMAIN toSend /\ t[i] = toSend[i + 1]
  BY <1>1, <1>2, <1>3
<1>5. Head(toSend).blk \in Blocks /\ Head(toSend).num \in Nat
  BY <1>2 DEF Turn
<1>6. Head(toSend) = toSend[1] /\ 1 \in DOMAIN toSend
  BY <1>1
<1>7. Head(toSend).blk.num \in Nat
  BY <1>5, TaskFeedAssumption
<1>8. QED
  BY <1>2, <1>4, <1>5, <1>6, <1>7 DEF t

\* getBlock returns the block that is due, or none.
LEMMA DueFacts ==
    ASSUME DelayInv, pc = "get"
    PROVE  /\ Due \in Seq(Blocks) /\ Len(Due) <= 1
           /\ \A i \in DOMAIN Due : Due[i].num = curNum
           /\ Due # <<>> => \/ \E j \in DOMAIN q : Due[1] = q[j]
                            \/ curNum <= Len(chain) /\ Due[1] = chain[curNum]
<1>1. /\ FeedInv /\ q \in Seq(Blocks) /\ Len(q) <= Delay + 1 /\ QueueRuns
      /\ q # <<>> /\ curNum + Delay = latest /\ cur \in Nat /\ latest \in Nat
      /\ Delay \in Nat
  BY DelayTaskAssumption DEF DelayInv, TypeOK, TurnsAreDue
<1>2. /\ Len(q) \in Nat /\ DOMAIN q = 1..Len(q) /\ \A i \in 1..Len(q) : q[i] \in Blocks
      /\ 1 \in DOMAIN q
  BY <1>1, LenProperties, ElementOfSeq, EmptySeq
<1>3. \A b \in Blocks : /\ <<b>> \in Seq(Blocks) /\ Len(<<b>>) = 1 /\ DOMAIN <<b>> = {1}
                        /\ <<b>>[1] = b /\ <<b>> # <<>>
  OBVIOUS
<1>4. CASE Full
  <2>1. Due = <<q[1]>>
    BY <1>4 DEF Due
  <2>2. q[1] \in Blocks /\ q[1].num = curNum
    BY <1>1, <1>2, <1>4 DEF QueueRuns, Full, curNum
  <2>3. QED
    BY <1>2, <1>3, <2>1, <2>2
<1>5. CASE ~Full /\ InQueue(curNum) # <<>>
  <2>1. PICK j \in DOMAIN q : q[j].num = curNum /\ Due = <<q[j]>>
    <3>1. \E i \in DOMAIN q : q[i].num = curNum
      BY <1>5 DEF InQueue
    <3>2. Due = <<q[CHOOSE i \in DOMAIN q : q[i].num = curNum]>>
      BY <1>5, <3>1 DEF Due, InQueue
    <3>3. QED
      BY <3>1, <3>2
  <2>2. q[j] \in Blocks
    BY <1>2
  <2>3. QED
    BY <1>3, <2>1, <2>2
<1>6. CASE ~Full /\ InQueue(curNum) = <<>>
  <2> DEFINE bs == Stored(curNum, curNum)
  <2>1. Due = bs /\ curNum \in Nat \ {0}
    BY <1>1, <1>6 DEF Due, StoredAt, curNum
  <2>2. /\ bs \in Seq(Blocks) /\ DOMAIN bs = 1..Len(bs)
        /\ \A i \in DOMAIN bs : /\ bs[i] = chain[curNum + i - 1]
                                /\ bs[i].num = curNum + i - 1
                                /\ curNum + i - 1 <= curNum
                                /\ curNum + i - 1 <= Len(chain)
    <3>1. FeedInv /\ curNum \in Nat \ {0} /\ curNum \in Int
      BY <1>1, <2>1
    <3>2. PICK n \in Nat \ {0} : n = curNum /\ n \in Int
      BY <3>1
    <3> DEFINE cs == Stored(n, n)
    <3>3. /\ cs \in Seq(Blocks) /\ DOMAIN cs = 1..Len(cs)
          /\ \A i \in DOMAIN cs : /\ cs[i] = chain[n + i - 1]
                                  /\ cs[i].num = n + i - 1
                                  /\ n + i - 1 <= n
                                  /\ n + i - 1 <= Len(chain)
      BY <3>1, <3>2, StoredFacts
    <3> HIDE DEF cs
    <3>4. bs = cs
      BY <3>2 DEF cs
    <3>5. QED
      BY <3>2, <3>3, <3>4
  <2> HIDE DEF bs
  <2>3. \A i \in DOMAIN bs : i = 1 /\ bs[i].num = curNum
    BY <2>1, <2>2
  <2>4. Len(bs) \in Nat /\ (bs = <<>> <=> Len(bs) = 0)
    BY <2>2, LenProperties, EmptySeq
  <2>5. Len(bs) <= 1
    <3>1. Len(bs) > 1 => 2 \in DOMAIN bs
      BY <2>2, <2>4
    <3>2. QED
      BY <2>3, <2>4, <3>1
  <2>6. bs # <<>> => 1 \in DOMAIN bs
    BY <2>2, <2>4
  <2>7. bs # <<>> => curNum <= Len(chain) /\ bs[1] = chain[curNum]
    <3> SUFFICES ASSUME bs # <<>> PROVE curNum <= Len(chain) /\ bs[1] = chain[curNum]
      OBVIOUS
    <3>1. bs[1] = chain[curNum + 1 - 1] /\ curNum + 1 - 1 <= Len(chain)
      BY <2>2, <2>6
    <3>2. curNum + 1 - 1 = curNum
      BY <2>1
    <3>3. QED
      BY <3>1, <3>2
  <2>8. QED
    BY <2>1, <2>2, <2>3, <2>5, <2>7
<1>7. QED
  BY <1>4, <1>5, <1>6

LEMMA GetBlockKeeps == ASSUME DelayInv, GetBlock PROVE DelayInv'
<1>1. /\ q' = q /\ latest' = latest /\ cur' = cur /\ catchUP' = catchUP
      /\ kafka' = kafka /\ taskNum' = taskNum /\ highest' = highest
      /\ restarts' = restarts /\ failures' = failures /\ UNCHANGED feedVars
      /\ pc = "get" /\ pc' = IF Due = <<>> THEN "loop" ELSE "send"
      /\ toSend' = [i \in DOMAIN Due |-> [blk |-> Due[i], num |-> curNum]]
  BY DEF GetBlock, envVars
<1>2. FeedInv' /\ QueueRuns' /\ HeightsMeet'
  BY <1>1, QuietMeet
<1>3. Due \in Seq(Blocks) /\ \A i \in DOMAIN Due : Due[i].num = curNum
  BY <1>1, DueFacts
<1>4. /\ q # <<>> /\ curNum + Delay = latest /\ cur \in Nat /\ latest \in Nat
      /\ curNum \in Nat
  BY <1>1 DEF DelayInv, TypeOK, TurnsAreDue, curNum
<1>5. /\ toSend' \in Turns /\ DOMAIN toSend' = DOMAIN Due
      /\ toSend' = <<>> <=> Due = <<>>
  <2> DEFINE F == [i \in DOMAIN Due |-> curNum]
  <2>1. \A i \in DOMAIN Due : F[i] = curNum /\ F[i] \in Nat
    BY <1>4
  <2> HIDE DEF F
  <2> DEFINE ts == [i \in DOMAIN Due |-> [blk |-> Due[i], num |-> F[i]]]
  <2>2. toSend' = ts
    BY <1>1, <2>1
  <2>3. Due \in Seq(Blocks) /\ \A i \in DOMAIN Due : F[i] \in Nat
    BY <1>3, <2>1
  <2>4. /\ ts \in Turns /\ DOMAIN ts = DOMAIN Due /\ (ts = <<>> <=> Due = <<>>)
    BY ONLY <2>3, TurnsOf
  <2> HIDE DEF ts
  <2>5. QED
    BY <1>1, <2>2, <2>4
<1>6. TypeOK'
  BY <1>1, <1>2, <1>5 DEF DelayInv, TypeOK, FeedInv, Running, Turns, Turn
<1>7. \A i \in DOMAIN toSend' : /\ toSend'[i].blk.num = toSend'[i].num
                                /\ toSend'[i].num <= latest - Delay
  <2> SUFFICES ASSUME NEW i \in DOMAIN Due
               PROVE  /\ toSend'[i].blk.num = toSend'[i].num
                      /\ toSend'[i].num <= latest - Delay
    BY <1>5
  <2>1. toSend'[i].blk = Due[i] /\ toSend'[i].num = curNum
    BY <1>1
  <2>2. curNum <= latest - Delay
    BY <1>4, DelayTaskAssumption
  <2>3. QED
    BY <1>3, <2>1, <2>2
<1>8. TurnsAreDue'
  BY <1>1, <1>4, <1>5, <1>7 DEF DelayInv, TurnsAreDue
<1>9. QED
  BY <1>2, <1>6, <1>8 DEF DelayInv

\* A turn ends, or goes on with the next block.
LEMMA TurnKeeps ==
    ASSUME DelayInv, Send \/ SendFails \/ Record \/ RecordFails PROVE DelayInv'
<1>1. /\ q' = q /\ latest' = latest /\ catchUP' = catchUP /\ highest' = highest
      /\ restarts' = restarts /\ UNCHANGED feedVars
      /\ pc \in {"send", "record"}
  BY DEF Send, SendFails, Record, RecordFails, Next1, envVars
<1>2. /\ toSend \in Turns /\ toSend # <<>> /\ TypeOK /\ TurnsAreDue
  BY <1>1 DEF DelayInv, TypeOK, TurnsAreDue, Turns, Turn
<1>3. /\ Head(toSend) = toSend[1] /\ 1 \in DOMAIN toSend
      /\ Head(toSend).blk \in Blocks /\ Head(toSend).num \in Nat
      /\ Tail(toSend) \in Turns
      /\ \A i \in DOMAIN Tail(toSend) :
            i + 1 \in DOMAIN toSend /\ Tail(toSend)[i] = toSend[i + 1]
  BY <1>2, TurnsFacts
<1>4. Head(toSend).num <= latest
  <2>1. toSend[1].num <= latest - Delay /\ latest \in Nat /\ Delay \in Nat
    BY <1>2, <1>3, DelayTaskAssumption DEF TurnsAreDue, TypeOK
  <2>2. QED
    BY <1>3, <2>1
<1>5. /\ cur' = cur \/ cur' = Head(toSend).num
      /\ taskNum' = taskNum \/ taskNum' = Head(toSend).num
      /\ kafka' = kafka \/ kafka' = Append(kafka, Head(toSend).blk)
      /\ toSend' = toSend \/ toSend' = Tail(toSend) \/ toSend' = <<>>
      /\ failures' = failures \/ (failures < MaxFailures /\ failures' = failures + 1)
  BY DEF Send, SendFails, Record, RecordFails, Next1, Failing, envVars
<1>5a. /\ pc' \in {"record", "loop", "send"}
       /\ pc' # "loop" => toSend' # <<>>
  <2>1. CASE Send
    BY <1>2, <2>1 DEF Send
  <2>2. CASE SendFails
    BY <2>2 DEF SendFails
  <2>3. CASE Record \/ RecordFails
    BY <2>3 DEF Record, RecordFails, Next1
  <2>4. QED
    BY <2>1, <2>2, <2>3
<1>6. FeedInv' /\ QueueRuns' /\ HeightsMeet'
  BY <1>1, <1>4, <1>5, QuietMeet
<1>7. TypeOK'
  <2>1. kafka' \in Seq(Blocks)
    <3>1. kafka \in Seq(Blocks)
      BY <1>2 DEF TypeOK
    <3>2. Append(kafka, Head(toSend).blk) \in Seq(Blocks)
      BY <1>3, <3>1, AppendProperties
    <3>3. QED
      BY <1>5, <3>1, <3>2
  <2>2. toSend' \in Turns
    <3>1. <<>> \in Turns
      BY DEF Turns
    <3>2. QED
      BY <1>2, <1>3, <1>5, <3>1
  <2>3. failures' \in 0..MaxFailures
    BY <1>2, <1>5, DelayTaskAssumption DEF TypeOK
  <2>4. cur' \in Nat /\ taskNum' \in Nat
    BY <1>2, <1>3, <1>5 DEF TypeOK
  <2>5. pc' \in Running
    BY <1>5a DEF Running
  <2>6. QED
    BY <1>1, <1>2, <1>6, <2>1, <2>2, <2>3, <2>4, <2>5 DEF TypeOK, FeedInv, Turns, Turn
<1>8. \A i \in DOMAIN toSend' : /\ q # <<>> /\ toSend'[i].blk.num = toSend'[i].num
                                /\ toSend'[i].num <= latest - Delay
  <2>1. DOMAIN <<>> = {}
    OBVIOUS
  <2>2. QED
    BY <1>2, <1>3, <1>5, <2>1 DEF TurnsAreDue
<1>9. TurnsAreDue'
  BY <1>1, <1>2, <1>5a, <1>8 DEF TurnsAreDue
<1>10. QED
  BY <1>6, <1>7, <1>9 DEF DelayInv

LEMMA CatchUpKeeps == ASSUME DelayInv, CatchUp PROVE DelayInv'
<1> DEFINE bs == Stored(curNum, CatchUpEnd)
<1>1. /\ q' = q /\ latest' = latest /\ cur' = cur /\ catchUP /\ catchUP' = FALSE
      /\ kafka' = kafka /\ taskNum' = taskNum /\ highest' = highest
      /\ restarts' = restarts /\ failures' = failures /\ UNCHANGED feedVars
      /\ pc' = "send" /\ bs # <<>>
      /\ toSend' = [i \in DOMAIN bs |-> [blk |-> bs[i], num |-> bs[i].num]]
  BY DEF CatchUp, envVars
<1>2. FeedInv' /\ QueueRuns' /\ HeightsMeet'
  BY <1>1, QuietMeet
<1>3. /\ FeedInv /\ TypeOK /\ q # <<>> /\ latest \in Nat /\ cur \in Nat
      /\ curNum \in Nat \ {0} /\ Delay \in Nat
  BY <1>1, DelayTaskAssumption DEF DelayInv, TypeOK, TurnsAreDue, curNum
<1>4. CatchUpEnd \in Int /\ CatchUpEnd <= latest - Delay
  BY <1>3, CatchUpFacts
<1>5. /\ bs \in Seq(Blocks)
      /\ \A i \in DOMAIN bs : /\ bs[i] \in Blocks /\ bs[i].num = curNum + i - 1
                              /\ curNum + i - 1 <= CatchUpEnd
  BY <1>3, <1>4, StoredFacts
<1> HIDE DEF bs
<1>6. \A i \in DOMAIN bs : bs[i].num \in Nat /\ bs[i].num <= latest - Delay
  <2>1. \A b \in Blocks : b.num \in Nat
    BY TaskFeedAssumption
  <2> SUFFICES ASSUME NEW i \in DOMAIN bs
               PROVE  bs[i].num \in Nat /\ bs[i].num <= latest - Delay
    OBVIOUS
  <2>2. bs[i].num \in Nat /\ bs[i].num <= CatchUpEnd
    BY <1>5, <2>1
  <2>3. QED
    BY <1>3, <1>4, <2>2
<1>7. toSend' \in Turns /\ DOMAIN toSend' = DOMAIN bs /\ toSend' # <<>>
  <2> DEFINE F == [i \in DOMAIN bs |-> bs[i].num]
  <2>1. \A i \in DOMAIN bs : F[i] = bs[i].num /\ F[i] \in Nat
    BY <1>6
  <2> HIDE DEF F
  <2> DEFINE ts == [i \in DOMAIN bs |-> [blk |-> bs[i], num |-> F[i]]]
  <2>2. toSend' = ts
    BY <1>1, <2>1
  <2>3. bs \in Seq(Blocks) /\ \A i \in DOMAIN bs : F[i] \in Nat
    BY <1>5, <2>1
  <2>4. /\ ts \in Turns /\ DOMAIN ts = DOMAIN bs /\ (ts = <<>> <=> bs = <<>>)
    BY ONLY <2>3, TurnsOf
  <2> HIDE DEF ts
  <2>5. QED
    BY <1>1, <2>2, <2>4
<1>8. \A i \in DOMAIN toSend' : /\ toSend'[i].blk.num = toSend'[i].num
                                /\ toSend'[i].num <= latest - Delay
  BY <1>1, <1>6, <1>7
<1>9. TypeOK'
  BY <1>1, <1>2, <1>3, <1>7 DEF TypeOK, FeedInv, Running, Turns, Turn
<1>10. TurnsAreDue'
  BY <1>1, <1>3, <1>7, <1>8 DEF TurnsAreDue
<1>11. QED
  BY <1>2, <1>9, <1>10 DEF DelayInv

LEMMA SkipKeeps == ASSUME DelayInv, CatchUpSkips PROVE DelayInv'
<1>1. /\ q' = q /\ latest' = latest /\ catchUP' = FALSE /\ toSend' = toSend
      /\ kafka' = kafka /\ highest' = highest /\ pc' = "loop"
      /\ restarts' = restarts /\ failures' = failures /\ UNCHANGED feedVars
      /\ curNum <= CatchUpEnd /\ taskNum' = CatchUpEnd /\ cur' = CatchUpEnd
  BY DEF CatchUpSkips, envVars
<1>2. TypeOK /\ latest \in Nat /\ cur \in Nat /\ curNum \in Nat /\ Delay \in Nat
  BY DelayTaskAssumption DEF DelayInv, TypeOK, curNum
<1>3. CatchUpEnd \in Nat /\ CatchUpEnd <= latest
  <2>1. CatchUpEnd \in Int /\ CatchUpEnd <= latest - Delay
    BY <1>2, CatchUpFacts
  <2>2. QED
    BY <1>1, <1>2, <2>1
<1>4. FeedInv' /\ QueueRuns' /\ HeightsMeet'
  BY <1>1, <1>3, QuietMeet
<1>5. TypeOK'
  BY <1>1, <1>2, <1>3, <1>4 DEF TypeOK, FeedInv, Running
<1>6. TurnsAreDue'
  BY <1>1 DEF DelayInv, TurnsAreDue
<1>7. QED
  BY <1>4, <1>5, <1>6 DEF DelayInv

LEMMA StutterKeeps == ASSUME DelayInv, UNCHANGED vars PROVE DelayInv'
<1>1. /\ q' = q /\ latest' = latest /\ cur' = cur /\ pc' = pc /\ catchUP' = catchUP
      /\ toSend' = toSend /\ kafka' = kafka /\ taskNum' = taskNum
      /\ highest' = highest /\ restarts' = restarts /\ failures' = failures
      /\ UNCHANGED feedVars
  BY DEF vars, taskVars, envVars
<1>2. FeedInv' /\ QueueRuns' /\ HeightsMeet'
  BY <1>1, QuietMeet
<1>3. TypeOK'
  BY <1>1, <1>2 DEF DelayInv, TypeOK, FeedInv
<1>4. TurnsAreDue'
  BY <1>1 DEF DelayInv, TurnsAreDue, curNum
<1>5. QED
  BY <1>2, <1>3, <1>4 DEF DelayInv

LEMMA DelayInvNext == DelayInv /\ [Next]_vars => DelayInv'
<1> SUFFICES ASSUME DelayInv, [Next]_vars PROVE DelayInv'
  OBVIOUS
<1>1. CASE Step
  <2>1. CASE Enter
    BY <2>1, EnterKeeps
  <2>2. CASE GetBlock
    BY <2>2, GetBlockKeeps
  <2>3. CASE Send \/ Record
    BY <2>3, TurnKeeps
  <2>4. CASE CatchUp
    BY <2>4, CatchUpKeeps
  <2>5. CASE CatchUpSkips
    BY <2>5, SkipKeeps
  <2>6. CASE \E e \in Event : Ignore(e) \/ Receive(e) \/ ReceiveUnexpected(e)
    BY <2>6, IgnoreKeeps, ReceiveKeeps, NothingUnexpected
  <2>7. QED
    BY <1>1, <2>1, <2>2, <2>3, <2>4, <2>5, <2>6 DEF Step
<1>2. CASE Failure
  BY <1>2, LeaveKeeps, TurnKeeps DEF Failure
<1>3. CASE BaseApplies
  BY <1>3, BaseKeeps
<1>4. CASE Crash \/ TakeStop
  BY <1>4, LeaveKeeps
<1>5. CASE Restart
  BY <1>5, RestartKeeps
<1>6. CASE \E e \in Event : Publish(e)
  BY <1>6, PublishKeeps
<1>7. CASE UNCHANGED vars
  BY <1>7, StutterKeeps
<1>8. QED
  BY <1>1, <1>2, <1>3, <1>4, <1>5, <1>6, <1>7 DEF Next

THEOREM DelayInvariant == Spec => []DelayInv
BY InitDelayInv, DelayInvNext, PTL DEF Spec

----------------------------------------------------------------------------
(* What follows from it. *)

\* The variables keep their types.
THEOREM DelayTypesHold == Spec => []TypeOK
<1>1. DelayInv => TypeOK
  BY DEF DelayInv
<1>2. QED
  BY <1>1, DelayInvariant, PTL

\* The block sent is the one whose turn it is, whatever reorganisations, catch-up
\* and failures there have been, and the queue is never given a block it cannot
\* take.
THEOREM DueIsSent == Spec => []SendsDue
<1>1. DelayInv => SendsDue
  BY DEF DelayInv, TurnsAreDue, SendsDue
<1>2. QED
  BY <1>1, DelayInvariant, PTL

LEMMA SendIsLate ==
    ASSUME DelayInv, Send \/ SendFails, kafka' # kafka
    PROVE  /\ kafka' = Append(kafka, toSend[1].blk) /\ kafka \in Seq(Blocks)
           /\ toSend[1].blk \in Blocks /\ toSend[1].blk.num = toSend[1].num
           /\ toSend[1].num + Delay <= highest
<1>1. pc = "send" /\ kafka' = Append(kafka, Head(toSend).blk)
  BY DEF Send, SendFails
<1>2. /\ toSend \in Turns /\ toSend # <<>> /\ TurnsAreDue /\ HeightsMeet
      /\ kafka \in Seq(Blocks) /\ latest \in Nat /\ highest \in Nat /\ Delay \in Nat
  BY <1>1, DelayTaskAssumption DEF DelayInv, TypeOK, TurnsAreDue, Turns, Turn
<1>3. /\ Head(toSend) = toSend[1] /\ 1 \in DOMAIN toSend
      /\ Head(toSend).blk \in Blocks /\ Head(toSend).num \in Nat
  BY <1>2, TurnsFacts
<1>4. /\ toSend[1].blk.num = toSend[1].num
      /\ toSend[1].num <= latest - Delay /\ latest <= highest
  BY <1>2, <1>3 DEF TurnsAreDue, HeightsMeet
<1>5. toSend[1].num \in Nat /\ toSend[1].num + Delay <= highest
  BY <1>2, <1>3, <1>4
<1>6. QED
  BY <1>1, <1>2, <1>3, <1>4, <1>5

\* No block is sent before Delay blocks have come after it, also when base_data
\* is behind or ahead of the task.
THEOREM NothingIsEarly == Spec => NotEarly
<1>1. DelayInv /\ [Next]_vars =>
        [Len(kafka') > Len(kafka) => Last(kafka').num + Delay <= highest]_vars
  <2> SUFFICES ASSUME DelayInv, Next, Len(kafka') > Len(kafka)
               PROVE  Last(kafka').num + Delay <= highest
    OBVIOUS
  <2>1. kafka' # kafka
    <3>1. kafka \in Seq(Blocks) /\ Len(kafka) \in Nat
      BY LenProperties DEF DelayInv, TypeOK
    <3>2. QED
      BY <3>1
  <2>2. Send \/ SendFails
    BY <2>1 DEF Next, Step, Failure, Enter, GetBlock, Record, CatchUp, CatchUpSkips,
                Ignore, Receive, ReceiveUnexpected, GetFails, RecordFails,
                CatchUpEnds, BaseApplies, Crash, Restart, TakeStop, Publish, taskVars
  <2>3. /\ kafka' = Append(kafka, toSend[1].blk) /\ kafka \in Seq(Blocks)
        /\ toSend[1].blk \in Blocks /\ toSend[1].blk.num = toSend[1].num
        /\ toSend[1].num + Delay <= highest
    BY <2>1, <2>2, SendIsLate
  <2>4. Last(kafka') = toSend[1].blk
    <3>1. Len(kafka') = Len(kafka) + 1 /\ kafka'[Len(kafka) + 1] = toSend[1].blk
      BY <2>3, AppendProperties
    <3>2. QED
      BY <3>1 DEF Last
  <2>5. QED
    BY <2>3, <2>4
<1>2. QED
  BY <1>1, DelayInvariant, PTL DEF Spec, NotEarly

----------------------------------------------------------------------------
(* ChainStands is inductive when base_data is at hand.                      *)

LEMMA InitChainStands == BaseFirst /\ Init => ChainStands
<1> SUFFICES ASSUME Init PROVE ChainStands
  OBVIOUS
<1>1. /\ blockChan = <<>> /\ sent = StartChain /\ q = <<>> /\ toSend = <<>>
      /\ cur = StartNumber /\ taskNum = StartNumber /\ pc = "loop"
      /\ highest = Len(StartChain)
  BY DEF Init, FeedInit
<1>2. DOMAIN <<>> = {} /\ Len(StartChain) \in Nat /\ Delay \in Nat
  BY LenProperties, TaskFeedAssumption, DelayTaskAssumption
<1>3. PendingIsFresh /\ PendingIsSent /\ QueueIsSent /\ TurnsFollow
  BY <1>1, <1>2 DEF PendingIsFresh, PendingIsSent, QueueIsSent, TurnsFollow
<1>4. QED
  BY <1>1, <1>2, <1>3 DEF ChainStands

\* The types of what the lemmas below speak of.
LEMMA DelayTypes ==
    ASSUME DelayInv
    PROVE  /\ FeedInv /\ cur \in Nat /\ latest \in Nat /\ highest \in Nat /\ Delay \in Nat
           /\ taskNum \in Nat /\ Len(sent) \in Nat /\ latest <= highest
           /\ DOMAIN blockChan = 1..Len(blockChan) /\ Len(blockChan) \in Nat
           /\ \A i \in DOMAIN blockChan :
                 /\ blockChan[i] \in Event /\ blockChan[i].blk \in Blocks
                 /\ blockChan[i].blk.num \in Nat /\ blockChan[i].blk.num >= 1
                 /\ blockChan[i].state = "ok" => blockChan[i].blk.num <= highest
           /\ \A i \in DOMAIN q : q[i] \in Blocks /\ q[i].num \in Nat
           /\ DOMAIN toSend = 1..Len(toSend) /\ Len(toSend) \in Nat
           /\ \A i \in DOMAIN toSend :
                 /\ toSend[i] \in Turn /\ toSend[i].num \in Nat /\ toSend[i].num >= 1
                 /\ toSend[i].num <= latest - Delay
<1>1. TypeOK /\ FeedInv /\ TurnsAreDue /\ HeightsMeet
  BY DEF DelayInv
<1>2. /\ cur \in Nat /\ latest \in Nat /\ highest \in Nat /\ Delay \in Nat
      /\ taskNum \in Nat /\ latest <= highest /\ sent \in Seq(Blocks)
      /\ blockChan \in Seq(Event) /\ q \in Seq(Blocks) /\ toSend \in Seq(Turn)
  BY <1>1, DelayTaskAssumption DEF TypeOK, FeedTypeOK, HeightsMeet, Turn
<1>3. /\ Len(sent) \in Nat /\ Len(blockChan) \in Nat /\ Len(toSend) \in Nat
      /\ DOMAIN blockChan = 1..Len(blockChan)
      /\ DOMAIN q = 1..Len(q) /\ DOMAIN toSend = 1..Len(toSend)
  BY <1>2, LenProperties
<1>4. \A i \in DOMAIN blockChan : blockChan[i] \in Event
  BY <1>2, <1>3, ElementOfSeq
<1>5. \A i \in DOMAIN blockChan :
         /\ blockChan[i].blk \in Blocks
         /\ blockChan[i].blk.num \in Nat /\ blockChan[i].blk.num >= 1
  BY <1>4, EventFacts
<1>6. \A i \in DOMAIN q : q[i] \in Blocks /\ q[i].num \in Nat
  BY <1>2, <1>3, ElementOfSeq, TaskFeedAssumption
<1>7. \A i \in DOMAIN toSend : toSend[i] \in Turn
  BY <1>2, <1>3, ElementOfSeq
<1>8. \A i \in DOMAIN toSend : /\ toSend[i].num \in Nat /\ toSend[i].num >= 1
                               /\ toSend[i].num <= latest - Delay
  <2> SUFFICES ASSUME NEW i \in DOMAIN toSend
               PROVE  /\ toSend[i].num \in Nat /\ toSend[i].num >= 1
                      /\ toSend[i].num <= latest - Delay
    OBVIOUS
  <2>1. toSend[i].blk \in Blocks /\ toSend[i].num \in Nat
    BY <1>7 DEF Turn
  <2>2. toSend[i].blk.num = toSend[i].num /\ toSend[i].num <= latest - Delay
    BY <1>1 DEF TurnsAreDue
  <2>3. toSend[i].blk.num # 0
    BY <2>1, TaskFeedAssumption
  <2>4. QED
    BY <2>1, <2>2, <2>3
<1>9. \A i \in DOMAIN blockChan :
         blockChan[i].state = "ok" => blockChan[i].blk.num <= highest
  BY <1>1 DEF HeightsMeet
<1>10. QED
  BY <1>1, <1>2, <1>3, <1>4, <1>5, <1>6, <1>7, <1>8, <1>9

\* A step that leaves the feed and the queue alone.
LEMMA QuietStands ==
    ASSUME DelayInv, ChainStands, UNCHANGED <<feedVars, q, latest, highest>>,
           cur' \in Nat, cur' >= cur
    PROVE  /\ Len(sent') <= highest' /\ Len(sent') >= highest' - Delay
           /\ PendingIsFresh' /\ PendingIsSent' /\ QueueIsSent'
<1>1. /\ blockChan' = blockChan /\ sent' = sent /\ q' = q /\ latest' = latest
      /\ highest' = highest
  BY DEF feedVars
<1>2. /\ Len(sent) <= highest /\ Len(sent) >= highest - Delay
      /\ PendingIsFresh /\ PendingIsSent /\ QueueIsSent
  BY DEF ChainStands
<1>3. PendingIsFresh'
  BY <1>1, <1>2 DEF PendingIsFresh
<1>4. PendingIsSent'
  BY <1>1, <1>2 DEF PendingIsSent
<1>5. QueueIsSent'
  <2> SUFFICES ASSUME NEW i \in DOMAIN q, q[i].num > cur', q[i].num <= Len(sent),
                      ~Coming(q[i].num)
               PROVE  q[i] = sent[q[i].num]
    BY <1>1 DEF QueueIsSent, Coming
  <2>1. q[i].num > cur
    BY DelayTypes
  <2>2. QED
    BY <1>2, <2>1 DEF QueueIsSent
<1>6. QED
  BY <1>1, <1>2, <1>3, <1>4, <1>5

\* What is sent changes the chain at the number of the event only.
LEMMA SentMoves ==
    ASSUME DelayInv, NEW e \in Event, Publish(e), ChainStands
    PROVE  /\ e.blk.num \in Nat /\ e.blk.num > highest - Delay
           /\ Len(sent') \in Nat /\ highest' \in Nat /\ highest' >= highest
           /\ Len(sent') <= highest' /\ Len(sent') >= highest' - Delay
           /\ e.state = "ok" => sent'[e.blk.num] = e.blk
           /\ \A m \in Nat \ {0} :
                 (m <= Len(sent') /\ ~(e.state = "ok" /\ e.blk.num = m))
                 => m <= Len(sent) /\ sent'[m] = sent[m]
           /\ blockChan' = Append(blockChan, e)
           /\ DOMAIN blockChan' = 1..(Len(blockChan) + 1)
           /\ blockChan'[Len(blockChan) + 1] = e
           /\ \A i \in 1..Len(blockChan) : blockChan'[i] = blockChan[i]
<1>1. /\ Deliver(e) /\ (e.state = "revert" => e.blk.num > highest - Delay)
      /\ highest' = Max({highest, Len(sent')})
  BY DEF Publish
<1>2. /\ FeedInv /\ highest \in Nat /\ Len(sent) \in Nat /\ Delay \in Nat
      /\ Len(sent) <= highest /\ Len(sent) >= highest - Delay
      /\ blockChan \in Seq(Event)
  BY DelayTypes DEF ChainStands, FeedInv, FeedTypeOK
<1>3. /\ Before(e) = Len(sent) /\ Len(sent') = After(e)
      /\ \A i \in 1..After(e) : i <= Len(sent) => sent'[i] = sent[i]
      /\ e.state = "ok" => sent'[e.blk.num] = e.blk
      /\ blockChan' = Append(blockChan, e)
  BY <1>1, <1>2, DeliverFacts
<1>4. /\ e.blk.num \in Nat /\ e.blk.num >= 1 /\ e.state \in {"ok", "revert"}
      /\ After(e) \in Nat
      /\ e.state = "ok" => After(e) = e.blk.num /\ Before(e) = e.blk.num - 1
      /\ e.state # "ok" => After(e) = e.blk.num - 1 /\ Before(e) = e.blk.num
  BY EventFacts
<1>5. highest' = IF Len(sent') > highest THEN Len(sent') ELSE highest
  BY <1>1, <1>2, <1>3, <1>4, MaxOfTwo
<1>6. e.blk.num > highest - Delay
  BY <1>1, <1>2, <1>3, <1>4
<1>7. highest' \in Nat /\ highest' >= highest /\ Len(sent') <= highest'
  BY <1>2, <1>3, <1>4, <1>5
<1>8. Len(sent') >= highest' - Delay
  <2>1. CASE e.state = "ok"
    BY <1>2, <1>3, <1>4, <1>5, <2>1
  <2>2. CASE e.state # "ok"
    BY <1>2, <1>3, <1>4, <1>5, <1>6, <2>2
  <2>3. QED
    BY <2>1, <2>2
<1>9. \A m \in Nat \ {0} :
         (m <= Len(sent') /\ ~(e.state = "ok" /\ e.blk.num = m))
         => m <= Len(sent) /\ sent'[m] = sent[m]
  <2> SUFFICES ASSUME NEW m \in Nat \ {0}, m <= After(e),
                      ~(e.state = "ok" /\ e.blk.num = m)
               PROVE  m <= Len(sent) /\ sent'[m] = sent[m]
    BY <1>3
  <2>1. m <= Len(sent) /\ m \in 1..After(e)
    BY <1>2, <1>3, <1>4
  <2>2. QED
    BY <1>3, <2>1
<1>10. /\ DOMAIN blockChan' = 1..(Len(blockChan) + 1)
       /\ blockChan'[Len(blockChan) + 1] = e
       /\ \A i \in 1..Len(blockChan) : blockChan'[i] = blockChan[i]
  BY <1>2, <1>3, AppendProperties, LenProperties
<1>11. QED
  BY <1>3, <1>4, <1>6, <1>7, <1>8, <1>9, <1>10

LEMMA PublishStands ==
    ASSUME DelayInv, ChainStands, NEW e \in Event, Publish(e) PROVE ChainStands'
<1> DEFINE n == Len(blockChan)
<1>1. /\ q' = q /\ latest' = latest /\ cur' = cur /\ pc' = pc
      /\ toSend' = toSend /\ kafka' = kafka /\ taskNum' = taskNum
  BY DEF Publish, taskVars
<1>2. /\ e.blk.num \in Nat /\ e.blk.num > highest - Delay
      /\ Len(sent') \in Nat /\ highest' \in Nat /\ highest' >= highest
      /\ Len(sent') <= highest' /\ Len(sent') >= highest' - Delay
      /\ e.state = "ok" => sent'[e.blk.num] = e.blk
      /\ \A m \in Nat \ {0} :
            (m <= Len(sent') /\ ~(e.state = "ok" /\ e.blk.num = m))
            => m <= Len(sent) /\ sent'[m] = sent[m]
      /\ DOMAIN blockChan' = 1..(n + 1) /\ blockChan'[n + 1] = e
      /\ \A i \in 1..n : blockChan'[i] = blockChan[i]
  BY SentMoves
<1>3. /\ cur \in Nat /\ latest \in Nat /\ highest \in Nat /\ Delay \in Nat
      /\ latest <= highest /\ n \in Nat /\ DOMAIN blockChan = 1..n
      /\ \A i \in 1..n :
            /\ blockChan[i].blk.num \in Nat /\ blockChan[i].blk.num >= 1
            /\ blockChan[i].state = "ok" => blockChan[i].blk.num <= highest
      /\ \A i \in DOMAIN q : q[i].num \in Nat
      /\ \A i \in DOMAIN toSend : /\ toSend[i].num \in Nat /\ toSend[i].num >= 1
                                  /\ toSend[i].num <= latest - Delay
  BY DelayTypes
<1>4. PendingIsFresh /\ PendingIsSent /\ QueueIsSent /\ TurnsFollow
  BY DEF ChainStands
<1> HIDE DEF n
<1>5. PendingIsFresh'
  <2> SUFFICES ASSUME NEW i \in 1..(n + 1)
               PROVE  /\ q # <<>> => blockChan'[i].blk.num > latest - Delay
                      /\ \A j \in 1..(i - 1) : blockChan'[j].state = "ok" =>
                            blockChan'[i].blk.num > blockChan'[j].blk.num - Delay
    BY <1>1, <1>2 DEF PendingIsFresh
  <2>1. CASE i = n + 1
    <3>1. \A j \in 1..(i - 1) : j \in 1..n /\ blockChan'[j] = blockChan[j]
      <4>1. i - 1 = n
        BY <1>3, <2>1
      <4>2. QED
        BY <1>2, <4>1
    <3>2. blockChan'[i] = e
      BY <1>2, <2>1
    <3>3. e.blk.num > latest - Delay
      BY <1>2, <1>3
    <3>4. \A j \in 1..n : blockChan[j].state = "ok" => e.blk.num > blockChan[j].blk.num - Delay
      BY <1>2, <1>3
    <3>5. QED
      BY <3>1, <3>2, <3>3, <3>4
  <2>2. CASE i # n + 1
    <3>1. i \in 1..n /\ \A j \in 1..(i - 1) : j \in 1..n
      BY <1>3, <2>2
    <3>2. QED
      BY <1>2, <1>3, <1>4, <3>1 DEF PendingIsFresh
  <2>3. QED
    BY <2>1, <2>2
<1>6. PendingIsSent'
  <2> SUFFICES ASSUME NEW i \in 1..(n + 1), blockChan'[i].state = "ok",
                      blockChan'[i].blk.num <= Len(sent'),
                      \A j \in (i + 1)..(n + 1) :
                         ~(blockChan'[j].state = "ok" /\ blockChan'[j].blk.num = blockChan'[i].blk.num)
               PROVE  sent'[blockChan'[i].blk.num] = blockChan'[i].blk
    <3>1. Len(blockChan') = n + 1
      <4>1. blockChan' \in Seq(Event)
        BY DelayInvNext DEF DelayInv, FeedInv, FeedTypeOK, Next
      <4>2. DOMAIN blockChan' = 1..Len(blockChan') /\ Len(blockChan') \in Nat
        BY <4>1, LenProperties
      <4>3. QED
        BY <1>2, <1>3, <4>2
    <3>2. QED
      BY <1>2, <3>1 DEF PendingIsSent
  <2>1. CASE i = n + 1
    BY <1>2, <2>1
  <2>2. CASE i # n + 1
    <3> DEFINE m == blockChan[i].blk.num
    <3>1. i \in 1..n /\ blockChan'[i] = blockChan[i]
      BY <1>2, <1>3, <2>2
    <3>2. m \in Nat \ {0} /\ m <= Len(sent')
      BY <1>3, <3>1
    <3>3. ~(e.state = "ok" /\ e.blk.num = m)
      <4>1. n + 1 \in (i + 1)..(n + 1)
        BY <1>3, <3>1
      <4>2. QED
        BY <1>2, <3>1, <4>1
    <3>4. m <= Len(sent) /\ sent'[m] = sent[m]
      BY <1>2, <3>2, <3>3
    <3>5. \A j \in (i + 1)..n : ~(blockChan[j].state = "ok" /\ blockChan[j].blk.num = m)
      <4>1. \A j \in (i + 1)..n : /\ j \in (i + 1)..(n + 1)
                                  /\ blockChan'[j] = blockChan[j]
        BY <1>2, <1>3, <3>1
      <4>2. QED
        BY <3>1, <4>1
    <3>6. sent[m] = blockChan[i].blk
      BY <1>3, <1>4, <3>1, <3>4, <3>5 DEF PendingIsSent, n
    <3>7. QED
      BY <3>1, <3>4, <3>6
  <2>3. QED
    BY <2>1, <2>2
<1>7. QueueIsSent'
  <2> SUFFICES ASSUME NEW i \in DOMAIN q, q[i].num > cur, q[i].num <= Len(sent'),
                      ~Coming(q[i].num)'
               PROVE  q[i] = sent'[q[i].num]
    BY <1>1 DEF QueueIsSent
  <2>1. q' = q
    BY <1>1
  <2>2. \A k \in 1..(n + 1) : ~(blockChan'[k].state = "ok" /\ blockChan'[k].blk.num = q[i].num)
    BY <1>2, <2>1 DEF Coming
  <2>3. ~Coming(q[i].num) /\ ~(e.state = "ok" /\ e.blk.num = q[i].num)
    <3>1. \A k \in 1..n : k \in 1..(n + 1) /\ blockChan'[k] = blockChan[k]
      BY <1>2, <1>3
    <3>2. n + 1 \in 1..(n + 1)
      BY <1>3
    <3>3. QED
      BY <1>2, <1>3, <2>2, <3>1, <3>2 DEF Coming
  <2>4. q[i].num \in Nat \ {0}
    BY <1>3
  <2>5. q[i].num <= Len(sent) /\ sent'[q[i].num] = sent[q[i].num]
    BY <1>2, <2>3, <2>4
  <2>6. QED
    BY <1>4, <2>3, <2>5 DEF QueueIsSent
<1>8. TurnsFollow'
  <2>1. \A i \in DOMAIN toSend : sent'[toSend[i].num] = sent[toSend[i].num]
    <3> SUFFICES ASSUME NEW i \in DOMAIN toSend
                 PROVE  sent'[toSend[i].num] = sent[toSend[i].num]
      OBVIOUS
    <3>1. /\ toSend[i].num \in Nat \ {0} /\ toSend[i].num <= highest - Delay
      BY <1>3
    <3>2. toSend[i].num <= Len(sent') /\ ~(e.blk.num = toSend[i].num)
      BY <1>2, <1>3, <3>1
    <3>3. QED
      BY <1>2, <3>1, <3>2
  <2>2. QED
    BY <1>1, <1>4, <2>1 DEF TurnsFollow
<1>9. QED
  BY <1>2, <1>5, <1>6, <1>7, <1>8 DEF ChainStands

\* The task receives an event: what is left on its way moves up.
LEMMA TakeStands ==
    ASSUME DelayInv, ChainStands, NEW e \in Event, TakeEvent(e)
    PROVE  /\ sent' = sent /\ 1 \in DOMAIN blockChan /\ e = blockChan[1]
           /\ \A i \in DOMAIN blockChan' :
                 i + 1 \in DOMAIN blockChan /\ blockChan'[i] = blockChan[i + 1]
           /\ \A i \in DOMAIN blockChan :
                 i # 1 => i - 1 \in DOMAIN blockChan' /\ blockChan[i] = blockChan'[i - 1]
           /\ \A m : Coming(m) => Coming(m)' \/ (e.state = "ok" /\ e.blk.num = m)
           /\ PendingIsSent'
<1> DEFINE n == Len(blockChan)
<1>1. FeedInv /\ blockChan \in Seq(Event)
  BY DelayTypes DEF FeedInv, FeedTypeOK
<1>2. /\ sent' = sent /\ blockChan # <<>> /\ e = blockChan[1]
      /\ blockChan' = Tail(blockChan) /\ FeedInv'
  BY <1>1, TakeFacts
<1>3. /\ n \in Nat /\ n >= 1 /\ DOMAIN blockChan = 1..n
      /\ blockChan' \in Seq(Event) /\ Len(blockChan') = n - 1
      /\ \A i \in 1..(n - 1) : blockChan'[i] = blockChan[i + 1]
  <2>1. /\ Len(blockChan) \in Nat /\ Len(blockChan) >= 1
        /\ DOMAIN blockChan = 1..Len(blockChan)
    BY <1>1, <1>2, LenProperties, EmptySeq
  <2>2. /\ blockChan' \in Seq(Event) /\ Len(blockChan') = Len(blockChan) - 1
        /\ \A i \in 1..Len(blockChan') : blockChan'[i] = blockChan[i + 1]
    BY <1>1, <1>2, HeadTailProperties
  <2>3. QED
    BY <2>1, <2>2
<1>4. DOMAIN blockChan' = 1..(n - 1)
  BY <1>3, LenProperties
<1> HIDE DEF n
<1>5. \A i \in DOMAIN blockChan' :
         i + 1 \in DOMAIN blockChan /\ blockChan'[i] = blockChan[i + 1]
  BY <1>3, <1>4
<1>6. \A i \in DOMAIN blockChan :
         i # 1 => i - 1 \in DOMAIN blockChan' /\ blockChan[i] = blockChan'[i - 1]
  <2> SUFFICES ASSUME NEW i \in 1..n, i # 1
               PROVE  i - 1 \in DOMAIN blockChan' /\ blockChan[i] = blockChan'[i - 1]
    BY <1>3
  <2>1. i - 1 \in 1..(n - 1) /\ (i - 1) + 1 = i
    BY <1>3
  <2>2. QED
    BY <1>3, <1>4, <2>1
<1>7. ASSUME NEW m, Coming(m), ~Coming(m)'
      PROVE  e.state = "ok" /\ e.blk.num = m
  <2>1. PICK i \in DOMAIN blockChan : blockChan[i].state = "ok" /\ blockChan[i].blk.num = m
    BY <1>7 DEF Coming
  <2>2. i # 1 => i - 1 \in DOMAIN blockChan' /\ blockChan[i] = blockChan'[i - 1]
    BY <1>6
  <2>3. \A k \in DOMAIN blockChan' :
           ~(blockChan'[k].state = "ok" /\ blockChan'[k].blk.num = m)
    BY <1>7 DEF Coming
  <2>4. i = 1
    BY <2>1, <2>2, <2>3
  <2>5. QED
    BY <1>2, <2>1, <2>4
<1>8. PendingIsSent'
  <2> SUFFICES ASSUME NEW i \in 1..(n - 1), blockChan'[i].state = "ok",
                      blockChan'[i].blk.num <= Len(sent),
                      \A j \in (i + 1)..(n - 1) :
                         ~(blockChan'[j].state = "ok" /\ blockChan'[j].blk.num = blockChan'[i].blk.num)
               PROVE  sent[blockChan'[i].blk.num] = blockChan'[i].blk
    BY <1>2, <1>3, <1>4 DEF PendingIsSent
  <2>1. i + 1 \in DOMAIN blockChan /\ blockChan'[i] = blockChan[i + 1]
    BY <1>4, <1>5
  <2>2. \A j \in ((i + 1) + 1)..n :
           ~(blockChan[j].state = "ok" /\ blockChan[j].blk.num = blockChan[i + 1].blk.num)
    <3> SUFFICES ASSUME NEW j \in ((i + 1) + 1)..n
                 PROVE  ~(blockChan[j].state = "ok" /\ blockChan[j].blk.num = blockChan[i + 1].blk.num)
      OBVIOUS
    <3>1. j - 1 \in (i + 1)..(n - 1) /\ j \in 1..n /\ j # 1
      BY <1>3
    <3>2. blockChan[j] = blockChan'[j - 1]
      BY <1>3, <1>6, <3>1
    <3>3. QED
      BY <2>1, <3>1, <3>2
  <2>3. PendingIsSent
    BY DEF ChainStands
  <2>4. QED
    BY <2>1, <2>2, <2>3 DEF PendingIsSent, n
<1>9. \A m : Coming(m) => Coming(m)' \/ (e.state = "ok" /\ e.blk.num = m)
  BY <1>7
<1>10. QED
  BY <1>2, <1>3, <1>5, <1>6, <1>8, <1>9

LEMMA TakeLength ==
    ASSUME DelayInv, NEW e \in Event, TakeEvent(e)
    PROVE  DOMAIN blockChan' = 1..(Len(blockChan) - 1)
<1>1. blockChan \in Seq(Event) /\ blockChan # <<>> /\ blockChan' = Tail(blockChan)
  BY DEF DelayInv, FeedInv, FeedTypeOK, TakeEvent
<1>2. blockChan' \in Seq(Event) /\ Len(blockChan') = Len(blockChan) - 1
  BY <1>1, HeadTailProperties
<1>3. QED
  BY <1>2, LenProperties

LEMMA IgnoreStands ==
    ASSUME DelayInv, ChainStands, NEW e \in Event, Ignore(e) PROVE ChainStands'
<1>1. /\ q' = q /\ latest' = latest /\ cur' = cur /\ pc' = "loop" /\ toSend' = toSend
      /\ kafka' = kafka /\ taskNum' = taskNum /\ highest' = highest
      /\ TakeEvent(e) /\ Ignored(e)
  BY DEF Ignore, envVars
<1>2. /\ sent' = sent
      /\ \A i \in DOMAIN blockChan' :
            i + 1 \in DOMAIN blockChan /\ blockChan'[i] = blockChan[i + 1]
      /\ \A m : Coming(m) => Coming(m)' \/ (e.state = "ok" /\ e.blk.num = m)
      /\ PendingIsSent'
  BY <1>1, TakeStands
<1>3. /\ Len(sent) <= highest /\ Len(sent) >= highest - Delay
      /\ PendingIsFresh /\ QueueIsSent /\ TurnsFollow
  BY DEF ChainStands
<1>4. /\ cur \in Nat /\ DOMAIN blockChan = 1..Len(blockChan) /\ Len(blockChan) \in Nat
      /\ \A i \in DOMAIN q : q[i].num \in Nat
  BY DelayTypes
<1>5. PendingIsFresh'
  <2> SUFFICES ASSUME NEW i \in DOMAIN blockChan'
               PROVE  /\ q # <<>> => blockChan'[i].blk.num > latest - Delay
                      /\ \A j \in 1..(i - 1) : blockChan'[j].state = "ok" =>
                            blockChan'[i].blk.num > blockChan'[j].blk.num - Delay
    BY <1>1 DEF PendingIsFresh
  <2>1. i + 1 \in DOMAIN blockChan /\ blockChan'[i] = blockChan[i + 1]
    BY <1>2
  <2>2. i \in Int
    BY <1>4, <2>1, TakeLength, <1>1
  <2>3. \A j \in 1..(i - 1) : j + 1 \in 1..((i + 1) - 1) /\ j \in DOMAIN blockChan'
    BY <1>1, <1>4, <2>1, <2>2, TakeLength
  <2>4. \A j \in 1..(i - 1) : blockChan'[j] = blockChan[j + 1]
    BY <1>2, <2>3
  <2>5. QED
    BY <1>3, <2>1, <2>3, <2>4 DEF PendingIsFresh
<1>6. QueueIsSent'
  <2> SUFFICES ASSUME NEW i \in DOMAIN q, q[i].num > cur, q[i].num <= Len(sent),
                      ~Coming(q[i].num)'
               PROVE  q[i] = sent[q[i].num]
    BY <1>1, <1>2 DEF QueueIsSent
  <2>1. PICK m : m = q[i].num
    OBVIOUS
  <2>2. ~Coming(m)'
    BY <1>1, <2>1 DEF Coming
  <2>3. ~(e.state = "ok" /\ e.blk.num = m)
    <3>1. e.blk.num \in Nat /\ m \in Nat /\ m > cur
      BY <1>4, <2>1, EventFacts
    <3>2. QED
      BY <1>1, <1>4, <3>1 DEF Ignored, curNum
  <2>4. ~Coming(m)
    BY <1>2, <2>2, <2>3
  <2>5. QED
    BY <1>3, <2>1, <2>4 DEF QueueIsSent
<1>7. TurnsFollow'
  BY <1>1, <1>2, <1>3 DEF TurnsFollow
<1>8. QED
  BY <1>1, <1>2, <1>3, <1>5, <1>6, <1>7 DEF ChainStands

LEMMA ReceiveStands ==
    ASSUME DelayInv, ChainStands, NEW e \in Event, Receive(e) PROVE ChainStands'
<1>1. /\ cur' = cur /\ toSend' = toSend /\ kafka' = kafka /\ taskNum' = taskNum
      /\ highest' = highest /\ TakeEvent(e) /\ pc' \in {"get", "loop"}
  BY DEF Receive, envVars
<1>2. /\ sent' = sent /\ 1 \in DOMAIN blockChan /\ e = blockChan[1]
      /\ \A i \in DOMAIN blockChan' :
            i + 1 \in DOMAIN blockChan /\ blockChan'[i] = blockChan[i + 1]
      /\ \A i \in DOMAIN blockChan :
            i # 1 => i - 1 \in DOMAIN blockChan' /\ blockChan[i] = blockChan'[i - 1]
      /\ \A m : Coming(m) => Coming(m)' \/ (e.state = "ok" /\ e.blk.num = m)
      /\ PendingIsSent'
  BY <1>1, TakeStands
<1>3. /\ Len(sent) <= highest /\ Len(sent) >= highest - Delay
      /\ PendingIsFresh /\ PendingIsSent /\ QueueIsSent /\ TurnsFollow
  BY DEF ChainStands
<1>4. /\ cur \in Nat /\ DOMAIN blockChan = 1..Len(blockChan) /\ Len(blockChan) \in Nat
      /\ latest \in Nat /\ Delay \in Nat
      /\ \A i \in DOMAIN blockChan : blockChan[i].blk.num \in Nat
  BY DelayTypes
<1>5. /\ e.state = "ok" /\ q' # <<>>
      /\ latest' = IF q = <<>> \/ e.blk.num > latest THEN e.blk.num ELSE latest
      /\ \A i \in DOMAIN q' :
            /\ q'[i].num = e.blk.num => q'[i] = e.blk
            /\ q'[i].num # e.blk.num => \E j \in DOMAIN q : q[j] = q'[i]
  BY ReceiveFacts
<1>6. PendingIsFresh'
  <2> SUFFICES ASSUME NEW i \in DOMAIN blockChan'
               PROVE  /\ blockChan'[i].blk.num > latest' - Delay
                      /\ \A j \in 1..(i - 1) : blockChan'[j].state = "ok" =>
                            blockChan'[i].blk.num > blockChan'[j].blk.num - Delay
    BY DEF PendingIsFresh
  <2>1. i + 1 \in DOMAIN blockChan /\ blockChan'[i] = blockChan[i + 1]
    BY <1>2
  <2>2. i \in Nat /\ i >= 1
    BY <1>1, <1>4, TakeLength
  <2>3. \A j \in 1..(i - 1) : j + 1 \in 1..((i + 1) - 1) /\ j \in DOMAIN blockChan'
    BY <1>1, <1>4, <2>1, <2>2, TakeLength
  <2>4. \A j \in 1..(i - 1) : blockChan'[j] = blockChan[j + 1]
    BY <1>2, <2>3
  <2>5. blockChan[i + 1].blk.num > e.blk.num - Delay
    <3>1. 1 \in 1..((i + 1) - 1)
      BY <2>2
    <3>2. QED
      BY <1>2, <1>3, <1>5, <2>1, <3>1 DEF PendingIsFresh
  <2>6. q # <<>> => blockChan[i + 1].blk.num > latest - Delay
    BY <1>3, <2>1 DEF PendingIsFresh
  <2>7. blockChan'[i].blk.num > latest' - Delay
    BY <1>5, <2>1, <2>5, <2>6
  <2>8. QED
    BY <1>3, <2>1, <2>3, <2>4, <2>7 DEF PendingIsFresh
<1>7. QueueIsSent'
  <2> SUFFICES ASSUME NEW i \in DOMAIN q', q'[i].num > cur, q'[i].num <= Len(sent),
                      ~Coming(q[i].num)'
               PROVE  q'[i] = sent[q'[i].num]
    BY <1>1, <1>2 DEF QueueIsSent
  <2>1. PICK m : m = q'[i].num
    OBVIOUS
  <2>2. ~Coming(m)'
    BY <2>1 DEF Coming
  <2>3. CASE m = e.blk.num
    <3>1. q'[i] = e.blk
      BY <1>5, <2>1, <2>3
    <3>2. \A j \in (1 + 1)..Len(blockChan) :
             ~(blockChan[j].state = "ok" /\ blockChan[j].blk.num = m)
      <4> SUFFICES ASSUME NEW j \in (1 + 1)..Len(blockChan)
                   PROVE  ~(blockChan[j].state = "ok" /\ blockChan[j].blk.num = m)
        OBVIOUS
      <4>1. j \in DOMAIN blockChan /\ j # 1
        BY <1>4
      <4>2. j - 1 \in DOMAIN blockChan' /\ blockChan[j] = blockChan'[j - 1]
        BY <1>2, <4>1
      <4>3. QED
        BY <2>2, <4>2 DEF Coming
    <3>3. sent[m] = e.blk
      BY <1>2, <1>3, <1>5, <2>1, <2>3, <3>2 DEF PendingIsSent
    <3>4. QED
      BY <2>1, <3>1, <3>3
  <2>4. CASE m # e.blk.num
    <3>1. PICK j \in DOMAIN q : q[j] = q'[i]
      BY <1>5, <2>1, <2>4
    <3>2. ~Coming(m)
      BY <1>2, <2>2, <2>4
    <3>3. QED
      BY <1>3, <2>1, <3>1, <3>2 DEF QueueIsSent
  <2>5. QED
    BY <2>3, <2>4
<1>8. TurnsFollow'
  BY <1>1, <1>2, <1>3 DEF TurnsFollow
<1>9. QED
  BY <1>1, <1>2, <1>3, <1>6, <1>7, <1>8 DEF ChainStands

LEMMA RestartStands ==
    ASSUME BaseFirst, DelayInv, ChainStands, Restart
    PROVE  ChainStands' /\ sent' = sent
<1>1. /\ pc' = "loop" /\ q' = <<>> /\ cur' = taskNum /\ toSend' = <<>>
      /\ kafka' = kafka /\ taskNum' = taskNum /\ highest' = highest /\ FeedAgain
  BY DEF Restart
<1>2. FeedInv /\ chain = sent
  BY DEF DelayInv, FeedInv
<1>3. blockChan' = <<>> /\ sent' = sent
  BY <1>1, <1>2, FeedAgainFacts
<1>4. DOMAIN <<>> = {}
  OBVIOUS
<1>5. PendingIsFresh' /\ PendingIsSent' /\ QueueIsSent'
  BY <1>1, <1>3, <1>4 DEF PendingIsFresh, PendingIsSent, QueueIsSent
<1>6. TurnsFollow'
  BY <1>1, <1>4 DEF TurnsFollow
<1>7. QED
  BY <1>1, <1>3, <1>5, <1>6 DEF ChainStands

\* What is read, from the queue or from the tables, is in the chain.
LEMMA GetBlockStands ==
    ASSUME BaseFirst, DelayInv, ChainStands, GetBlock PROVE ChainStands'
<1>1. /\ q' = q /\ latest' = latest /\ cur' = cur /\ kafka' = kafka
      /\ taskNum' = taskNum /\ highest' = highest /\ UNCHANGED feedVars /\ sent' = sent
      /\ pc = "get" /\ pc' = IF Due = <<>> THEN "loop" ELSE "send"
      /\ toSend' = [i \in DOMAIN Due |-> [blk |-> Due[i], num |-> curNum]]
  BY DEF GetBlock, envVars, feedVars
<1>2. /\ Due \in Seq(Blocks) /\ Len(Due) <= 1
      /\ \A i \in DOMAIN Due : Due[i].num = curNum
      /\ Due # <<>> => \/ \E j \in DOMAIN q : Due[1] = q[j]
                       \/ curNum <= Len(chain) /\ Due[1] = chain[curNum]
  BY <1>1, DueFacts
<1>3. /\ cur \in Nat /\ latest \in Nat /\ highest \in Nat /\ Delay \in Nat
      /\ Len(sent) \in Nat /\ latest <= highest
  BY DelayTypes
<1>4. /\ Len(sent) >= highest - Delay /\ PendingIsFresh /\ QueueIsSent /\ TurnsFollow
      /\ chain = sent
  BY DEF ChainStands, DelayInv, FeedInv
<1>5. q # <<>> /\ curNum + Delay = latest
  BY <1>1 DEF DelayInv, TurnsAreDue
<1>6. curNum = latest - Delay /\ curNum = cur + 1 /\ curNum <= Len(sent)
  BY <1>3, <1>4, <1>5 DEF curNum
<1>7. /\ Len(Due) \in Nat /\ DOMAIN Due = 1..Len(Due) /\ (Due = <<>> <=> Len(Due) = 0)
  BY <1>2, LenProperties, EmptySeq
<1>8. \A i \in DOMAIN Due : i = 1
  BY <1>2, <1>7
<1>9. Due # <<>> => Due[1] = sent[curNum] /\ 1 \in DOMAIN Due
  <2> SUFFICES ASSUME Due # <<>> PROVE Due[1] = sent[curNum] /\ 1 \in DOMAIN Due
    OBVIOUS
  <2>1. 1 \in DOMAIN Due
    BY <1>2, <1>7
  <2>2. CASE \E j \in DOMAIN q : Due[1] = q[j]
    <3>1. PICK j \in DOMAIN q : Due[1] = q[j]
      BY <2>2
    <3>2. q[j].num = curNum
      BY <1>2, <2>1, <3>1
    <3>3. ~Coming(q[j].num)
      <4>1. \A i \in DOMAIN blockChan : /\ blockChan[i].blk.num > latest - Delay
                                        /\ blockChan[i].blk.num \in Nat
        BY <1>4, <1>5, DelayTypes DEF PendingIsFresh
      <4>2. \A i \in DOMAIN blockChan : blockChan[i].blk.num # curNum
        BY <1>3, <1>6, <4>1
      <4>3. QED
        BY <3>2, <4>2 DEF Coming
    <3>4. q[j].num > cur /\ q[j].num <= Len(sent)
      BY <1>3, <1>6, <3>2
    <3>5. q[j] = sent[q[j].num]
      BY <1>4, <3>3, <3>4 DEF QueueIsSent
    <3>6. QED
      BY <2>1, <3>1, <3>2, <3>5
  <2>3. CASE curNum <= Len(chain) /\ Due[1] = chain[curNum]
    BY <1>4, <2>1, <2>3
  <2>4. QED
    BY <1>2, <2>2, <2>3
<1>10. /\ DOMAIN toSend' = DOMAIN Due
       /\ \A i \in DOMAIN Due : toSend'[i].blk = Due[i] /\ toSend'[i].num = curNum
  BY <1>1
<1>11. \A i \in DOMAIN toSend' : /\ toSend'[i].num = toSend'[1].num + i - 1
                                 /\ toSend'[i].blk = sent[toSend'[i].num]
  <2> SUFFICES ASSUME NEW i \in DOMAIN Due
               PROVE  /\ toSend'[i].num = toSend'[1].num + i - 1
                      /\ toSend'[i].blk = sent[toSend'[i].num]
    BY <1>10
  <2>1. i = 1 /\ 1 \in DOMAIN Due /\ Due # <<>>
    BY <1>7, <1>8
  <2>2. toSend'[1].num = curNum /\ toSend'[1].blk = sent[curNum]
    BY <1>9, <1>10, <2>1
  <2>3. curNum = curNum + 1 - 1
    BY <1>3, <1>6
  <2>4. QED
    BY <2>1, <2>2, <2>3
<1>12. TurnsFollow'
  <2>1. cur' = taskNum'
    BY <1>1, <1>4 DEF TurnsFollow
  <2>2. pc' = "send" => toSend'[1].num = taskNum + 1
    BY <1>1, <1>4, <1>6, <1>9, <1>10 DEF TurnsFollow
  <2>3. pc' # "record" /\ taskNum \in Nat
    BY <1>1, <1>3, <1>4 DEF TurnsFollow
  <2>4. taskNum + 1 > taskNum
    BY <2>3
  <2>5. QED
    BY <1>1, <1>11, <2>1, <2>2, <2>3, <2>4 DEF TurnsFollow
<1>13. QED
  BY <1>1, <1>3, <1>12, QuietStands DEF ChainStands

LEMMA CatchUpStands ==
    ASSUME BaseFirst, DelayInv, ChainStands, CatchUp PROVE ChainStands'
<1> DEFINE bs == Stored(curNum, CatchUpEnd)
<1>1. /\ q' = q /\ latest' = latest /\ cur' = cur /\ kafka' = kafka
      /\ taskNum' = taskNum /\ highest' = highest /\ UNCHANGED feedVars /\ sent' = sent
      /\ pc' = "send" /\ bs # <<>>
      /\ toSend' = [i \in DOMAIN bs |-> [blk |-> bs[i], num |-> bs[i].num]]
  BY DEF CatchUp, envVars, feedVars
<1>2. /\ FeedInv /\ cur \in Nat /\ latest \in Nat /\ curNum \in Nat \ {0}
      /\ curNum = cur + 1 /\ cur = taskNum /\ chain = sent
  BY DelayTypes DEF curNum, ChainStands, TurnsFollow, FeedInv
<1>3. CatchUpEnd \in Int
  BY <1>2, CatchUpFacts
<1>4. /\ bs \in Seq(Blocks) /\ DOMAIN bs = 1..Len(bs)
      /\ \A i \in DOMAIN bs : /\ bs[i] = chain[curNum + i - 1]
                              /\ bs[i].num = curNum + i - 1
  BY <1>2, <1>3, StoredFacts
<1> HIDE DEF bs
<1>5. 1 \in DOMAIN bs
  BY <1>1, <1>4, LenProperties, EmptySeq
<1>6. /\ DOMAIN toSend' = DOMAIN bs
      /\ \A i \in DOMAIN bs : toSend'[i].blk = bs[i] /\ toSend'[i].num = bs[i].num
  BY <1>1
<1>7. toSend'[1].num = curNum
  <2>1. toSend'[1].num = curNum + 1 - 1
    BY <1>4, <1>5, <1>6
  <2>2. QED
    BY <1>2, <2>1
<1>8. \A i \in DOMAIN toSend' : /\ toSend'[i].num = toSend'[1].num + i - 1
                                /\ toSend'[i].blk = sent[toSend'[i].num]
  BY <1>2, <1>4, <1>6, <1>7
<1>9. TurnsFollow'
  <2>1. toSend'[1].num = taskNum + 1 /\ toSend'[1].num > taskNum
    BY <1>2, <1>7
  <2>2. QED
    BY <1>1, <1>2, <1>8, <2>1 DEF TurnsFollow
<1>10. QED
  BY <1>1, <1>2, <1>9, QuietStands DEF ChainStands

\* With base_data at hand there is always something to read where catch-up reads.
LEMMA NothingSkipped ==
    ASSUME BaseFirst, DelayInv, ChainStands, CatchUpSkips PROVE FALSE
<1>1. curNum <= CatchUpEnd /\ Stored(curNum, CatchUpEnd) = <<>>
  BY DEF CatchUpSkips
<1>2. /\ FeedInv /\ cur \in Nat /\ latest \in Nat /\ curNum \in Nat \ {0}
      /\ highest \in Nat /\ Delay \in Nat /\ latest <= highest /\ Len(sent) \in Nat
      /\ Len(sent) >= highest - Delay /\ chain = sent
  BY DelayTypes DEF curNum, ChainStands, FeedInv
<1>3. CatchUpEnd \in Int /\ CatchUpEnd <= latest - Delay
  BY <1>2, CatchUpFacts
<1>4. curNum > CatchUpEnd \/ curNum > Len(chain)
  BY <1>1, <1>2, <1>3, StoredFacts
<1>5. QED
  BY <1>1, <1>2, <1>3, <1>4

\* The steps of a turn.
LEMMA TurnStands ==
    ASSUME DelayInv, ChainStands, Send \/ SendFails \/ Record \/ RecordFails
    PROVE  ChainStands'
<1> DEFINE t == toSend[1]
<1>1. /\ q' = q /\ latest' = latest /\ highest' = highest /\ UNCHANGED feedVars
      /\ sent' = sent /\ pc \in {"send", "record"}
  BY DEF Send, SendFails, Record, RecordFails, Next1, envVars, feedVars
<1>2. /\ toSend \in Turns /\ toSend # <<>> /\ kafka \in Seq(Blocks)
  BY <1>1 DEF DelayInv, TypeOK, TurnsAreDue, Turns, Turn
<1>3. /\ Head(toSend) = t /\ 1 \in DOMAIN toSend
      /\ t.blk \in Blocks /\ t.num \in Nat
      /\ Tail(toSend) \in Turns
      /\ \A i \in DOMAIN Tail(toSend) :
            i + 1 \in DOMAIN toSend /\ Tail(toSend)[i] = toSend[i + 1]
  BY <1>2, TurnsFacts
<1>4. /\ cur = taskNum /\ cur \in Nat
      /\ \A i \in DOMAIN toSend : /\ toSend[i].num = t.num + i - 1
                                  /\ toSend[i].blk = sent[toSend[i].num]
      /\ t.num > taskNum
      /\ pc = "record" => kafka # <<>> /\ kafka[Len(kafka)].num = t.num
  BY <1>1, DelayTypes DEF ChainStands, TurnsFollow
<1>5. t.blk.num = t.num
  BY <1>3 DEF DelayInv, TurnsAreDue
<1>6. /\ Tail(toSend) # <<>> => 1 \in DOMAIN Tail(toSend) /\ Tail(toSend)[1].num = t.num + 1
      /\ \A i \in DOMAIN Tail(toSend) :
            /\ Tail(toSend)[i].num = Tail(toSend)[1].num + i - 1
            /\ Tail(toSend)[i].blk = sent[Tail(toSend)[i].num]
  <2> DEFINE u == Tail(toSend)
  <2>1. Len(u) \in Nat /\ DOMAIN u = 1..Len(u) /\ (u = <<>> <=> Len(u) = 0)
    BY <1>3, LenProperties, EmptySeq DEF Turns
  <2>2. \A i \in DOMAIN u : i + 1 \in DOMAIN toSend /\ u[i] = toSend[i + 1]
    BY <1>3
  <2> HIDE DEF u
  <2>3. u # <<>> => 1 \in DOMAIN u
    BY <2>1
  <2>4. \A i \in DOMAIN u : u[i].num = t.num + (i + 1) - 1 /\ u[i].blk = sent[u[i].num]
    BY <1>4, <2>2
  <2>5. \A i \in DOMAIN u : i \in Nat /\ 1 \in DOMAIN u
    BY <2>1
  <2>6. 1 \in DOMAIN u => u[1].num = t.num + 1
    <3> SUFFICES ASSUME 1 \in DOMAIN u PROVE u[1].num = t.num + 1
      OBVIOUS
    <3>1. u[1].num = t.num + (1 + 1) - 1
      BY <2>4
    <3>2. QED
      BY <1>3, <3>1
  <2>7. \A i \in DOMAIN u : u[i].num = u[1].num + i - 1
    <3> SUFFICES ASSUME NEW i \in DOMAIN u PROVE u[i].num = u[1].num + i - 1
      OBVIOUS
    <3>1. i \in Nat /\ t.num \in Nat /\ u[1].num = t.num + 1
      BY <1>3, <2>5, <2>6
    <3>2. u[i].num = t.num + (i + 1) - 1
      BY <2>4
    <3> HIDE DEF t
    <3>3. QED
      BY <3>1, <3>2
  <2>8. QED
    BY <2>3, <2>4, <2>6, <2>7 DEF u
<1> HIDE DEF t
<1>7. CASE Send
  <2>1. /\ cur' = cur /\ taskNum' = taskNum /\ toSend' = toSend /\ pc' = "record"
        /\ kafka' = Append(kafka, t.blk)
    BY <1>3, <1>7 DEF Send, envVars
  <2>2. kafka' # <<>> /\ kafka'[Len(kafka')] = t.blk
    BY <1>2, <1>3, <2>1, AppendProperties
  <2>3. TurnsFollow'
    BY <1>1, <1>4, <1>5, <2>1, <2>2 DEF TurnsFollow, t
  <2>4. QED
    BY <1>1, <1>4, <2>1, <2>3, QuietStands DEF ChainStands
<1>8. CASE SendFails
  <2>1. cur' = cur /\ taskNum' = taskNum /\ toSend' = <<>> /\ pc' = "loop"
    BY <1>8 DEF SendFails
  <2>2. DOMAIN <<>> = {}
    OBVIOUS
  <2>3. TurnsFollow'
    BY <1>4, <2>1, <2>2 DEF TurnsFollow
  <2>4. QED
    BY <1>1, <1>4, <2>1, <2>3, QuietStands DEF ChainStands
<1>9. CASE Record
  <2>1. /\ cur' = t.num /\ taskNum' = t.num /\ toSend' = Tail(toSend) /\ kafka' = kafka
        /\ pc' = IF toSend' = <<>> THEN "loop" ELSE "send"
    BY <1>3, <1>9 DEF Record, Next1
  <2>2. pc' = "send" => toSend'[1].num = t.num + 1
    BY <1>6, <2>1
  <2>3. t.num + 1 > t.num /\ t.num >= cur
    BY <1>3, <1>4
  <2>4. TurnsFollow'
    <3>1. \A i \in DOMAIN toSend' : /\ toSend'[i].num = toSend'[1].num + i - 1
                                    /\ toSend'[i].blk = sent'[toSend'[i].num]
      BY <1>1, <1>6, <2>1
    <3>2. pc' # "record"
      BY <2>1
    <3>3. QED
      BY <2>1, <2>2, <2>3, <3>1, <3>2 DEF TurnsFollow
  <2>5. QED
    BY <1>1, <1>3, <1>4, <2>1, <2>3, <2>4, QuietStands DEF ChainStands
<1>10. CASE RecordFails
  <2>1. /\ cur' = cur /\ taskNum' = taskNum /\ toSend' = Tail(toSend) /\ kafka' = kafka
        /\ pc = "record" /\ pc' = IF toSend' = <<>> THEN "loop" ELSE "send"
    BY <1>10 DEF RecordFails, Next1
  <2>2. pc' = "send" => toSend'[1].num = t.num + 1
    BY <1>6, <2>1
  <2>3. t.num + 1 > taskNum /\ kafka # <<>> /\ kafka[Len(kafka)].num + 1 = t.num + 1
    BY <1>3, <1>4, <2>1
  <2>4. TurnsFollow'
    <3>1. \A i \in DOMAIN toSend' : /\ toSend'[i].num = toSend'[1].num + i - 1
                                    /\ toSend'[i].blk = sent'[toSend'[i].num]
      BY <1>1, <1>6, <2>1
    <3>2. pc' # "record"
      BY <2>1
    <3>3. QED
      BY <1>4, <2>1, <2>2, <2>3, <3>1, <3>2 DEF TurnsFollow
  <2>5. QED
    BY <1>1, <1>4, <2>1, <2>4, QuietStands DEF ChainStands
<1>11. QED
  BY <1>7, <1>8, <1>9, <1>10

\* The goroutine is stopped, enters the select, or gives up before a turn.
LEMMA LeaveStands ==
    ASSUME DelayInv, ChainStands,
           Enter \/ Crash \/ TakeStop \/ GetFails \/ CatchUpEnds \/ UNCHANGED vars
    PROVE  ChainStands' /\ UNCHANGED <<sent, highest, taskNum, kafka>>
<1>1. /\ q' = q /\ latest' = latest /\ highest' = highest /\ UNCHANGED feedVars
      /\ cur' = cur /\ toSend' = toSend /\ kafka' = kafka /\ taskNum' = taskNum
      /\ pc' = pc \/ pc' \in {"select", "down", "loop"}
  BY DEF Enter, Crash, TakeStop, GetFails, CatchUpEnds, vars, taskVars, envVars
<1>2. sent' = sent
  BY <1>1 DEF feedVars
<1>3. TurnsFollow'
  BY <1>1, <1>2 DEF ChainStands, TurnsFollow
<1>4. QED
  BY <1>1, <1>2, <1>3, DelayTypes, QuietStands DEF ChainStands

----------------------------------------------------------------------------
(* With base_data at hand the task is a DelayedLog. *)

Promised == INSTANCE DelayedLog
    WITH Start <- StartChain, chain <- sent, mark <- taskNum, log <- kafka

LEMMA PublishMoves ==
    ASSUME DelayInv, ChainStands, NEW e \in Event, Publish(e) PROVE Promised!Move
<1>1. /\ Deliver(e) /\ (e.state = "revert" => e.blk.num > highest - Delay)
      /\ highest' = Max({highest, Len(sent')}) /\ taskNum' = taskNum /\ kafka' = kafka
  BY DEF Publish, taskVars
<1>2. FeedInv /\ highest \in Nat /\ Len(sent) \in Nat /\ Len(sent') \in Nat
  BY DelayTypes, SentMoves
<1>3. Before(e) = Len(sent) /\ sent' = Applied(sent, e)
  BY <1>1, <1>2, DeliverFacts DEF Deliver
<1>4. /\ e.blk \in Blocks /\ e.state \in {"ok", "revert"}
      /\ e.state # "ok" => Before(e) = e.blk.num
  BY EventFacts
<1>5. highest' = IF Len(sent') > highest THEN Len(sent') ELSE highest
  BY <1>1, <1>2, MaxOfTwo
<1>6. \/ \E b \in Blocks : sent' = Append(sent, b)
      \/ Len(sent) > highest - Delay /\ sent' = SubSeq(sent, 1, Len(sent) - 1)
  <2>1. CASE e.state = "ok"
    BY <1>3, <1>4, <2>1 DEF Applied
  <2>2. CASE e.state = "revert"
    BY <1>1, <1>3, <1>4, <2>2 DEF Applied
  <2>3. QED
    BY <1>4, <2>1, <2>2
<1>7. QED
  BY <1>1, <1>5, <1>6 DEF Promised!Move

LEMMA SendSends ==
    ASSUME DelayInv, ChainStands, Send \/ SendFails, kafka' # kafka PROVE Promised!Send
<1> DEFINE t == toSend[1]
<1>1. /\ pc = "send" /\ UNCHANGED feedVars /\ highest' = highest /\ taskNum' = taskNum
      /\ sent' = sent
  BY DEF Send, SendFails, envVars, feedVars
<1>2. /\ kafka' = Append(kafka, t.blk) /\ t.blk.num = t.num /\ t.num + Delay <= highest
  BY SendIsLate
<1>3. toSend # <<>> /\ kafka \in Seq(Blocks)
  BY <1>1 DEF DelayInv, TypeOK, TurnsAreDue
<1>4. 1 \in DOMAIN toSend
  BY <1>1, TurnsFacts DEF DelayInv, TypeOK, TurnsAreDue, Turns, Turn
<1>5. /\ t.blk = sent[t.num] /\ t.num > taskNum /\ t.num \in Nat /\ taskNum \in Nat
      /\ \/ t.num = taskNum + 1
         \/ kafka # <<>> /\ kafka[Len(kafka)].num + 1 = t.num
  BY <1>1, <1>4, DelayTypes DEF ChainStands, TurnsFollow
<1>6. kafka # <<>> => kafka[Len(kafka)].num \in Nat
  <2>1. /\ Len(kafka) \in Nat /\ (kafka = <<>> <=> Len(kafka) = 0)
        /\ \A i \in 1..Len(kafka) : kafka[i] \in Blocks
    BY <1>3, LenProperties, EmptySeq, ElementOfSeq
  <2>2. kafka # <<>> => kafka[Len(kafka)] \in Blocks
    BY <2>1
  <2>3. QED
    BY <2>2, TaskFeedAssumption
<1> HIDE DEF t
<1>7. t.num \in (taskNum + 1)..(Promised!Top + 1)
  <2>1. CASE t.num = taskNum + 1
    <3>1. Promised!Top \in Nat /\ Promised!Top >= taskNum
      BY <1>5, <1>6 DEF Promised!Top
    <3>2. QED
      BY <1>5, <2>1, <3>1
  <2>2. CASE kafka # <<>> /\ kafka[Len(kafka)].num + 1 = t.num
    <3>1. Promised!Top \in Nat /\ Promised!Top >= kafka[Len(kafka)].num
      BY <1>5, <1>6, <2>2 DEF Promised!Top
    <3>2. QED
      BY <1>5, <1>6, <2>2, <3>1
  <2>3. QED
    BY <1>5, <2>1, <2>2
<1>8. QED
  BY <1>1, <1>2, <1>5, <1>7 DEF Promised!Send

LEMMA RecordRecords ==
    ASSUME DelayInv, ChainStands, Record PROVE Promised!Record
<1>1. /\ pc = "record" /\ taskNum' = Head(toSend).num /\ sent' = sent
      /\ highest' = highest /\ kafka' = kafka
  BY DEF Record, envVars, feedVars
<1>2. Head(toSend) = toSend[1] /\ Head(toSend).num \in Nat
  BY <1>1, TurnsFacts DEF DelayInv, TypeOK, TurnsAreDue, Turns, Turn
<1>3. /\ toSend[1].num > taskNum /\ taskNum \in Nat
      /\ kafka # <<>> /\ kafka[Len(kafka)].num = toSend[1].num
  BY <1>1, DelayTypes DEF ChainStands, TurnsFollow
<1>4. Promised!Top = toSend[1].num
  BY <1>3 DEF Promised!Top
<1>5. QED
  BY <1>1, <1>2, <1>3, <1>4 DEF Promised!Record

LEMMA PromisedStep ==
    BaseFirst /\ DelayInv /\ ChainStands /\ [Next]_vars =>
       ChainStands' /\ [Promised!Next]_<<sent, highest, taskNum, kafka>>
<1> SUFFICES ASSUME BaseFirst, DelayInv, ChainStands, [Next]_vars
             PROVE  /\ ChainStands'
                    /\ Promised!Next \/ UNCHANGED <<sent, highest, taskNum, kafka>>
  OBVIOUS
<1>1. CASE Send \/ SendFails \/ Record \/ RecordFails
  <2>1. ChainStands'
    BY <1>1, TurnStands
  <2>2. /\ sent' = sent /\ highest' = highest
        /\ ~Record => taskNum' = taskNum
        /\ ~(Send \/ SendFails) => kafka' = kafka
    BY <1>1 DEF Send, SendFails, Record, RecordFails, envVars, feedVars
  <2>3. CASE (Send \/ SendFails) /\ kafka' # kafka
    BY <2>1, <2>3, SendSends DEF Promised!Next
  <2>4. CASE (Send \/ SendFails) /\ kafka' = kafka
    BY <2>1, <2>2, <2>4 DEF Send, SendFails, Record
  <2>5. CASE Record
    BY <2>1, <2>5, RecordRecords DEF Promised!Next
  <2>6. CASE RecordFails
    BY <2>1, <2>2, <2>6 DEF RecordFails, Send, SendFails, Record
  <2>7. QED
    BY <1>1, <2>3, <2>4, <2>5, <2>6
<1>2. CASE Enter \/ Crash \/ TakeStop \/ GetFails \/ CatchUpEnds \/ UNCHANGED vars
  BY <1>2, LeaveStands
<1>3. CASE GetBlock
  BY <1>3, GetBlockStands DEF GetBlock, envVars, feedVars
<1>4. CASE CatchUp
  BY <1>4, CatchUpStands DEF CatchUp, envVars, feedVars
<1>5. CASE CatchUpSkips
  BY <1>5, NothingSkipped
<1>6. ASSUME NEW e \in Event, Ignore(e) \/ Receive(e) \/ ReceiveUnexpected(e)
      PROVE  ChainStands' /\ UNCHANGED <<sent, highest, taskNum, kafka>>
  BY <1>6, IgnoreStands, ReceiveStands, NothingUnexpected
     DEF Ignore, Receive, TakeEvent, envVars
<1>7. CASE BaseApplies
  BY <1>7 DEF BaseApplies, Apply, DelayInv, FeedInv
<1>8. CASE Restart
  BY <1>8, RestartStands DEF Restart
<1>9. ASSUME NEW e \in Event, Publish(e) PROVE ChainStands' /\ Promised!Next
  BY <1>9, PublishStands, PublishMoves DEF Promised!Next
<1>10. QED
  BY <1>1, <1>2, <1>3, <1>4, <1>5, <1>6, <1>7, <1>8, <1>9 DEF Next, Step, Failure

\* With base_data at hand, and no reorganisation deeper than the delay, what is
\* sent is a DelayedLog: the blocks of the chain by their numbers, none left out,
\* none that does not stand, and repeated only above the height recorded.
THEOREM DelayTaskImplementsDelayedLog ==
    ASSUME BaseFirst
    PROVE  Spec => Promised!Spec
<1>1. Init => Promised!Init
  <2>1. StartNumber \in 0..Len(StartChain)
    BY DelayTaskAssumption
  <2>2. QED
    BY <2>1 DEF Init, FeedInit, Promised!Init
<1>2. Init => ChainStands
  BY InitChainStands
<1>3. DelayInv /\ ChainStands /\ [Next]_vars =>
        ChainStands' /\ [Promised!Next]_<<sent, highest, taskNum, kafka>>
  BY PromisedStep
<1>4. QED
  BY <1>1, <1>2, <1>3, DelayInvariant, PTL DEF Spec, Promised!Spec
=============================================================================

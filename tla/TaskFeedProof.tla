--------------------------- MODULE TaskFeedProof ---------------------------
(***************************************************************************)
(* What every task knows of its feed and of the tables of base_data, for    *)
(* every value of the constants: the blocks are numbered as they stand, and *)
(* the events on their way lead, height by height, to what the feed sent.   *)
(***************************************************************************)
EXTENDS TaskFeed, SequenceTheorems, WellFoundedInduction, TLAPS

\* The height of the chain before and after an event.
Before(e) == IF e.state = "ok" THEN e.blk.num - 1 ELSE e.blk.num
After(e) == IF e.state = "ok" THEN e.blk.num ELSE e.blk.num - 1

Numbered(s) == \A i \in DOMAIN s : s[i].num = i

\* The events es lead to height h, each beginning where the one before ends.
Leads(es, h) ==
    /\ \A i \in 1..(Len(es) - 1) : After(es[i]) = Before(es[i + 1])
    /\ es # <<>> => After(es[Len(es)]) = h

\* The height they lead from.
Reached(es, h) == IF es = <<>> THEN h ELSE Before(es[1])

FeedInv ==
    /\ FeedTypeOK
    /\ Numbered(chain) /\ Numbered(sent)
    /\ Leads(blockChan, Len(sent))
    /\ Leads(toBase, Len(sent)) /\ Reached(toBase, Len(sent)) = Len(chain)
    /\ BaseFirst => toBase = <<>> /\ chain = sent

----------------------------------------------------------------------------
(* The least number of a set, the lesser and the greater of two. *)

LEMMA LeastNumber ==
    ASSUME NEW T, T \subseteq Nat, T # {}
    PROVE  \E x \in T : \A y \in T : x <= y
<1>1. IsWellFoundedOn(OpToRel(<, Nat), Nat)
  BY NatLessThanWellFounded
<1>2. PICK x \in T : \A y \in T : ~(<<y, x>> \in OpToRel(<, Nat))
  BY <1>1, WFMin
<1>3. \A y, z \in Nat : y < z => <<y, z>> \in OpToRel(<, Nat)
  BY DEF OpToRel
<1>4. \A y \in T : ~(y < x)
  <2> SUFFICES ASSUME NEW y \in T, y < x PROVE FALSE
    OBVIOUS
  <2>1. <<y, x>> \in OpToRel(<, Nat)
    BY <1>3
  <2>2. QED
    BY <1>2, <2>1
<1>5. QED
  BY <1>4

LEMMA MinOfTwo == ASSUME NEW a \in Int, NEW b \in Int
                  PROVE  Min({a, b}) \in {a, b} /\ Min({a, b}) <= a /\ Min({a, b}) <= b
<1>1. \E x \in {a, b} : \A y \in {a, b} : x <= y
  BY a <= b \/ b <= a
<1>2. Min({a, b}) \in {a, b} /\ \A y \in {a, b} : Min({a, b}) <= y
  BY <1>1 DEF Min
<1>3. QED
  BY <1>2

LEMMA MaxOfTwo == ASSUME NEW a \in Int, NEW b \in Int
                  PROVE  Max({a, b}) = IF b > a THEN b ELSE a
<1>1. \E x \in {a, b} : \A y \in {a, b} : x >= y
  BY a >= b \/ b >= a
<1>2. Max({a, b}) \in {a, b} /\ \A y \in {a, b} : Max({a, b}) >= y
  BY <1>1 DEF Max
<1>3. QED
  BY <1>2

----------------------------------------------------------------------------
(* Events and chains. *)

LEMMA EventFacts ==
    ASSUME NEW e \in Event
    PROVE  /\ e.blk \in Blocks /\ e.blk.num \in Nat /\ e.blk.num >= 1
           /\ e.state \in {"ok", "revert"}
           /\ Before(e) \in Nat /\ After(e) \in Nat
           /\ e.state = "ok" => After(e) = e.blk.num /\ Before(e) = e.blk.num - 1
           /\ e.state # "ok" => After(e) = e.blk.num - 1 /\ Before(e) = e.blk.num
<1>1. e.blk \in Blocks /\ e.state \in {"ok", "revert"}
  BY DEF Event
<1>2. e.blk.num \in Nat /\ e.blk.num >= 1
  BY <1>1, TaskFeedAssumption
<1>3. QED
  BY <1>1, <1>2 DEF Before, After

LEMMA EventsFacts ==
    ASSUME NEW es \in Seq(Event)
    PROVE  /\ Len(es) \in Nat
           /\ \A i \in 1..Len(es) : /\ es[i] \in Event
                                    /\ Before(es[i]) \in Nat /\ After(es[i]) \in Nat
<1>1. Len(es) \in Nat
  BY LenProperties
<1>2. \A i \in 1..Len(es) : es[i] \in Event
  BY ElementOfSeq
<1>3. QED
  BY <1>1, <1>2, EventFacts

\* The feed sends what fits the height of its chain.
LEMMA FollowsFits ==
    ASSUME NEW s \in Seq(Blocks), Numbered(s), NEW e \in Event, Follows(e, s)
    PROVE  Before(e) = Len(s)
<1>1. Len(s) \in Nat /\ DOMAIN s = 1..Len(s)
  BY LenProperties
<1>2. s # <<>> => Len(s) \in 1..Len(s)
  BY <1>1, EmptySeq
<1>3. s # <<>> => s[Len(s)] \in Blocks /\ s[Len(s)].num = Len(s)
  BY <1>1, <1>2, ElementOfSeq DEF Numbered
<1>4. CASE e.state = "ok" /\ s = <<>>
  <2>1. e.blk.parent = GenesisHash
    BY <1>4 DEF Follows
  <2>2. e.blk.num = 1
    BY <2>1, EventFacts, TaskFeedAssumption
  <2>3. QED
    BY <1>4, <2>2, EventFacts, EmptySeq
<1>5. CASE e.state = "ok" /\ s # <<>>
  <2>1. e.blk.parent = s[Len(s)].hash
    BY <1>5 DEF Follows
  <2>2. e.blk.num = s[Len(s)].num + 1
    BY <1>3, <1>5, <2>1, EventFacts, TaskFeedAssumption
  <2>3. QED
    BY <1>1, <1>3, <1>5, <2>2, EventFacts
<1>6. CASE e.state # "ok"
  <2>1. s # <<>> /\ e.blk = s[Len(s)]
    BY <1>6 DEF Follows
  <2>2. QED
    BY <1>3, <1>6, <2>1, EventFacts
<1>7. QED
  BY <1>4, <1>5, <1>6

\* An event at the height of a chain changes its top only.
LEMMA AppliedFacts ==
    ASSUME NEW s \in Seq(Blocks), Numbered(s), NEW e \in Event, Before(e) = Len(s)
    PROVE  /\ Applied(s, e) \in Seq(Blocks) /\ Numbered(Applied(s, e))
           /\ Len(Applied(s, e)) = After(e)
           /\ \A i \in 1..After(e) : i <= Len(s) => Applied(s, e)[i] = s[i]
           /\ e.state = "ok" => Applied(s, e)[e.blk.num] = e.blk
<1> DEFINE t == Applied(s, e)
<1>1. Len(s) \in Nat /\ DOMAIN s = 1..Len(s)
  BY LenProperties
<1>2. \A i \in 1..Len(s) : s[i] \in Blocks /\ s[i].num = i
  BY <1>1, ElementOfSeq DEF Numbered
<1>3. CASE e.state = "ok"
  <2>1. t = Append(s, e.blk) /\ e.blk \in Blocks /\ e.blk.num = Len(s) + 1
    BY <1>1, <1>3, EventFacts DEF Applied
  <2>2. /\ t \in Seq(Blocks) /\ Len(t) = Len(s) + 1 /\ t[Len(s) + 1] = e.blk
        /\ \A i \in 1..Len(s) : t[i] = s[i]
    BY <2>1, AppendProperties
  <2>3. DOMAIN t = 1..(Len(s) + 1)
    BY <2>2, LenProperties
  <2> HIDE DEF t
  <2>4. Numbered(t)
    BY <1>1, <1>2, <2>1, <2>2, <2>3 DEF Numbered
  <2>5. After(e) = Len(s) + 1
    BY <1>3, <2>1, EventFacts
  <2>6. QED
    BY <1>1, <1>3, <2>1, <2>2, <2>4, <2>5 DEF t
<1>4. CASE e.state # "ok"
  <2>1. e.blk.num = Len(s) /\ After(e) = Len(s) - 1 /\ Len(s) >= 1
    BY <1>1, <1>4, EventFacts
  <2>2. t = SubSeq(s, 1, Len(s) - 1)
    BY <1>4, <2>1 DEF Applied
  <2>3. /\ t \in Seq(Blocks) /\ Len(t) = Len(s) - 1
        /\ \A i \in 1..(Len(s) - 1) : t[i] = s[i]
    <3>1. \A i \in 1..(Len(s) - 1) : s[i] \in Blocks
      BY <1>1, <1>2
    <3>2. /\ t \in Seq(Blocks)
          /\ Len(t) = IF 1 <= Len(s) - 1 THEN Len(s) - 1 - 1 + 1 ELSE 0
          /\ \A i \in 1..(Len(s) - 1 - 1 + 1) : t[i] = s[1 + i - 1]
      BY <1>1, <2>2, <3>1, SubSeqProperties
    <3> HIDE DEF t
    <3>3. Len(s) - 1 - 1 + 1 = Len(s) - 1 /\ \A i \in 1..Len(s) : 1 + i - 1 = i
      BY <1>1
    <3>4. QED
      BY <1>1, <2>1, <3>2, <3>3
  <2>4. DOMAIN t = 1..(Len(s) - 1)
    BY <2>3, LenProperties
  <2> HIDE DEF t
  <2>5. Numbered(t)
    BY <1>1, <1>2, <2>3, <2>4 DEF Numbered
  <2>6. QED
    BY <1>4, <2>1, <2>3, <2>5 DEF t
<1>5. QED
  BY <1>3, <1>4

\* One more event at the end, one less at the front.
LEMMA LeadsAppend ==
    ASSUME NEW es \in Seq(Event), NEW h \in Nat, Leads(es, h),
           NEW e \in Event, Before(e) = h
    PROVE  /\ Append(es, e) \in Seq(Event)
           /\ Leads(Append(es, e), After(e))
           /\ Reached(Append(es, e), After(e)) = Reached(es, h)
<1> DEFINE n == Len(es)
           fs == Append(es, e)
<1>1. /\ n \in Nat /\ fs \in Seq(Event) /\ fs # <<>> /\ Len(fs) = n + 1
      /\ \A i \in 1..n : fs[i] = es[i]
      /\ fs[n + 1] = e
  BY LenProperties, AppendProperties
<1>2. es # <<>> => n >= 1 /\ After(es[n]) = h
  BY <1>1, EmptySeq DEF Leads
<1>3. es = <<>> => n = 0
  BY EmptySeq
<1>4. \A i \in 1..(n - 1) : After(es[i]) = Before(es[i + 1])
  BY DEF Leads
<1> HIDE DEF n, fs
<1>5. \A i \in 1..n : After(fs[i]) = Before(fs[i + 1])
  <2> SUFFICES ASSUME NEW i \in 1..n PROVE After(fs[i]) = Before(fs[i + 1])
    OBVIOUS
  <2>1. CASE i = n
    <3>1. es # <<>> /\ fs[i] = es[n] /\ fs[i + 1] = e
      BY <1>1, <1>3, <2>1
    <3>2. QED
      BY <1>2, <3>1
  <2>2. CASE i # n
    <3>1. i \in 1..(n - 1) /\ i + 1 \in 1..n
      BY <1>1, <2>2
    <3>2. fs[i] = es[i] /\ fs[i + 1] = es[i + 1]
      BY <1>1, <3>1
    <3>3. QED
      BY <1>4, <3>1, <3>2
  <2>3. QED
    BY <2>1, <2>2
<1>6. Leads(fs, After(e))
  <2>1. (n + 1) - 1 = n
    BY <1>1
  <2>2. QED
    BY <1>1, <1>5, <2>1 DEF Leads
<1>7. Reached(fs, After(e)) = Reached(es, h)
  <2>1. Reached(fs, After(e)) = Before(fs[1])
    BY <1>1 DEF Reached
  <2>2. CASE es = <<>>
    <3>1. fs[1] = e
      BY <1>1, <1>3, <2>2
    <3>2. QED
      BY <2>1, <2>2, <3>1 DEF Reached
  <2>3. CASE es # <<>>
    <3>1. fs[1] = es[1]
      BY <1>1, <1>2, <2>3
    <3>2. QED
      BY <2>1, <2>3, <3>1 DEF Reached
  <2>4. QED
    BY <2>2, <2>3
<1>8. QED
  BY <1>1, <1>6, <1>7 DEF fs

LEMMA LeadsTail ==
    ASSUME NEW es \in Seq(Event), NEW h \in Nat, Leads(es, h), es # <<>>
    PROVE  /\ Tail(es) \in Seq(Event) /\ Len(Tail(es)) = Len(es) - 1
           /\ Head(es) \in Event /\ Head(es) = es[1]
           /\ Leads(Tail(es), h)
           /\ Reached(es, h) = Before(Head(es))
           /\ Reached(Tail(es), h) = After(Head(es))
<1> DEFINE n == Len(es)
           fs == Tail(es)
<1>1. /\ n \in Nat /\ n >= 1 /\ fs \in Seq(Event) /\ Len(fs) = n - 1
      /\ \A i \in 1..(n - 1) : fs[i] = es[i + 1]
      /\ Head(es) \in Event
  <2>1. Len(es) \in Nat \ {0}
    BY EmptySeq
  <2>2. /\ Tail(es) \in Seq(Event) /\ Len(Tail(es)) = Len(es) - 1
        /\ \A i \in 1..Len(Tail(es)) : Tail(es)[i] = es[i + 1]
        /\ Head(es) \in Event
    BY HeadTailProperties
  <2>3. QED
    BY <2>1, <2>2
<1>2. Head(es) = es[1]
  OBVIOUS
<1>3. \A i \in 1..(n - 1) : After(es[i]) = Before(es[i + 1])
  BY DEF Leads
<1>4. After(es[n]) = h
  BY DEF Leads
<1> HIDE DEF n, fs
<1>5. fs = <<>> => n = 1
  BY <1>1, EmptySeq
<1>6. fs # <<>> => n >= 2
  BY <1>1, EmptySeq
<1>7. Leads(fs, h)
  <2>1. \A i \in 1..(Len(fs) - 1) : After(fs[i]) = Before(fs[i + 1])
    <3> SUFFICES ASSUME NEW i \in 1..(Len(fs) - 1)
                 PROVE  After(fs[i]) = Before(fs[i + 1])
      OBVIOUS
    <3>1. i \in 1..(n - 1) /\ i + 1 \in 1..(n - 1)
      BY <1>1
    <3>2. fs[i] = es[i + 1] /\ fs[i + 1] = es[(i + 1) + 1]
      BY <1>1, <3>1
    <3>3. QED
      BY <1>3, <3>1, <3>2
  <2>2. fs # <<>> => After(fs[Len(fs)]) = h
    <3> SUFFICES ASSUME fs # <<>> PROVE After(fs[Len(fs)]) = h
      OBVIOUS
    <3>1. n - 1 \in 1..(n - 1) /\ (n - 1) + 1 = n
      BY <1>1, <1>6
    <3>2. fs[n - 1] = es[n]
      BY <1>1, <3>1
    <3>3. QED
      BY <1>1, <1>4, <3>2
  <2>3. QED
    BY <2>1, <2>2 DEF Leads
<1>8. Reached(fs, h) = After(es[1])
  <2>1. CASE fs = <<>>
    BY <1>4, <1>5, <2>1 DEF Reached
  <2>2. CASE fs # <<>>
    <3>1. 1 \in 1..(n - 1) /\ 1 + 1 = 2
      BY <1>1, <1>6, <2>2
    <3>2. fs[1] = es[2] /\ After(es[1]) = Before(es[2])
      BY <1>1, <1>3, <3>1
    <3>3. QED
      BY <2>2, <3>2 DEF Reached
  <2>3. QED
    BY <2>1, <2>2
<1>9. QED
  BY <1>1, <1>2, <1>7, <1>8 DEF fs, n, Reached

----------------------------------------------------------------------------
(* The steps of the feed and of base_data. *)

LEMMA InitFeedInv == FeedInit => FeedInv
<1> SUFFICES ASSUME FeedInit PROVE FeedInv
  OBVIOUS
<1>1. Numbered(StartChain) /\ StartChain \in Seq(Blocks)
  BY TaskFeedAssumption DEF Numbered
<1>2. /\ blockChan = <<>> /\ toBase = <<>> /\ chain = StartChain
      /\ sent = StartChain /\ events = 0
  BY DEF FeedInit
<1>3. /\ <<>> \in Seq(Event) /\ Len(<<>>) = 0
  BY EmptySeq
<1>4. \A h : Leads(<<>>, h)
  BY <1>3 DEF Leads
<1>5. FeedTypeOK
  BY <1>1, <1>2, <1>3, TaskFeedAssumption DEF FeedTypeOK
<1>6. QED
  BY <1>1, <1>2, <1>4, <1>5 DEF FeedInv, Reached

\* What is sent fits the feed's chain, and base_data's too when it is at hand.
LEMMA DeliverFacts ==
    ASSUME FeedInv, NEW e \in Event, Deliver(e)
    PROVE  /\ Before(e) = Len(sent) /\ Len(sent') = After(e)
           /\ \A i \in 1..After(e) : i <= Len(sent) => sent'[i] = sent[i]
           /\ e.state = "ok" => sent'[e.blk.num] = e.blk
           /\ blockChan' = Append(blockChan, e)
           /\ Reached(blockChan', Len(sent')) = Reached(blockChan, Len(sent))
           /\ FeedInv'
<1>1. /\ events < MaxEvents /\ events' = events + 1
      /\ Follows(e, sent) /\ sent' = Applied(sent, e)
      /\ Len(blockChan) < BufferSize /\ blockChan' = Append(blockChan, e)
      /\ IF BaseFirst THEN chain' = Applied(chain, e) /\ UNCHANGED toBase
         ELSE toBase' = Append(toBase, e) /\ UNCHANGED chain
  BY DEF Deliver
<1>2. /\ FeedTypeOK /\ Numbered(chain) /\ Numbered(sent)
      /\ Leads(blockChan, Len(sent))
      /\ Leads(toBase, Len(sent)) /\ Reached(toBase, Len(sent)) = Len(chain)
      /\ BaseFirst => toBase = <<>> /\ chain = sent
  BY DEF FeedInv
<1>3. /\ blockChan \in Seq(Event) /\ chain \in Seq(Blocks) /\ toBase \in Seq(Event)
      /\ sent \in Seq(Blocks) /\ events \in 0..MaxEvents /\ Len(sent) \in Nat
      /\ Len(blockChan) \in Nat /\ BufferSize \in Nat /\ MaxEvents \in Nat
  BY <1>2, LenProperties, TaskFeedAssumption DEF FeedTypeOK
<1>4. Before(e) = Len(sent)
  BY <1>1, <1>2, <1>3, FollowsFits
<1>5. /\ sent' \in Seq(Blocks) /\ Numbered(sent') /\ Len(sent') = After(e)
      /\ \A i \in 1..After(e) : i <= Len(sent) => sent'[i] = sent[i]
      /\ e.state = "ok" => sent'[e.blk.num] = e.blk
  BY <1>1, <1>2, <1>3, <1>4, AppliedFacts
<1>6. /\ blockChan' \in Seq(Event) /\ Leads(blockChan', Len(sent'))
      /\ Reached(blockChan', Len(sent')) = Reached(blockChan, Len(sent))
  BY <1>1, <1>2, <1>3, <1>4, <1>5, LeadsAppend
<1>7. Len(blockChan') <= BufferSize /\ events' \in 0..MaxEvents
  <2>1. Len(blockChan') = Len(blockChan) + 1
    BY <1>1, <1>3, AppendProperties
  <2>2. QED
    BY <1>1, <1>3, <2>1
<1>8. /\ toBase' \in Seq(Event) /\ chain' \in Seq(Blocks) /\ Numbered(chain')
      /\ Leads(toBase', Len(sent')) /\ Reached(toBase', Len(sent')) = Len(chain')
      /\ BaseFirst => toBase' = <<>> /\ chain' = sent'
  <2>1. CASE BaseFirst
    <3>1. /\ toBase = <<>> /\ toBase' = <<>> /\ chain = sent /\ chain' = sent'
      BY <1>1, <1>2, <2>1
    <3>2. Leads(<<>>, Len(sent')) /\ Reached(<<>>, Len(sent')) = Len(sent')
      BY EmptySeq DEF Leads, Reached
    <3>3. QED
      BY <1>3, <1>5, <3>1, <3>2
  <2>2. CASE ~BaseFirst
    <3>1. toBase' = Append(toBase, e) /\ chain' = chain
      BY <1>1, <2>2
    <3>2. /\ toBase' \in Seq(Event) /\ Leads(toBase', Len(sent'))
          /\ Reached(toBase', Len(sent')) = Reached(toBase, Len(sent))
      BY <1>2, <1>3, <1>4, <1>5, <3>1, LeadsAppend
    <3>3. QED
      BY <1>2, <1>3, <2>2, <3>1, <3>2
  <2>3. QED
    BY <2>1, <2>2
<1>9. FeedTypeOK'
  BY <1>5, <1>6, <1>7, <1>8 DEF FeedTypeOK
<1>10. FeedInv'
  BY <1>5, <1>6, <1>8, <1>9 DEF FeedInv
<1>11. QED
  BY <1>1, <1>4, <1>5, <1>6, <1>10

\* base_data applies the next event to the height it is made for.
LEMMA ApplyFacts ==
    ASSUME FeedInv, Apply
    PROVE  /\ FeedInv' /\ blockChan' = blockChan /\ sent' = sent
           /\ Len(chain') = After(Head(toBase)) /\ Len(chain) = Before(Head(toBase))
           /\ Head(toBase) \in Event
           /\ \A i \in 1..Len(chain') : i <= Len(chain) => chain'[i] = chain[i]
<1>1. /\ toBase # <<>> /\ toBase' = Tail(toBase)
      /\ chain' = Applied(chain, Head(toBase))
      /\ blockChan' = blockChan /\ sent' = sent /\ events' = events
  BY DEF Apply
<1>2. /\ FeedTypeOK /\ Numbered(chain) /\ Numbered(sent)
      /\ Leads(blockChan, Len(sent))
      /\ Leads(toBase, Len(sent)) /\ Reached(toBase, Len(sent)) = Len(chain)
      /\ BaseFirst => toBase = <<>> /\ chain = sent
  BY DEF FeedInv
<1>3. /\ blockChan \in Seq(Event) /\ chain \in Seq(Blocks) /\ toBase \in Seq(Event)
      /\ sent \in Seq(Blocks) /\ events \in 0..MaxEvents /\ Len(sent) \in Nat
      /\ Len(blockChan) <= BufferSize
  BY <1>2, LenProperties DEF FeedTypeOK
<1>4. /\ toBase' \in Seq(Event) /\ Leads(toBase', Len(sent))
      /\ Head(toBase) \in Event
      /\ Len(chain) = Before(Head(toBase))
      /\ Reached(toBase', Len(sent)) = After(Head(toBase))
  BY <1>1, <1>2, <1>3, LeadsTail
<1>5. /\ chain' \in Seq(Blocks) /\ Numbered(chain')
      /\ Len(chain') = After(Head(toBase))
      /\ \A i \in 1..After(Head(toBase)) : i <= Len(chain) => chain'[i] = chain[i]
  BY <1>1, <1>2, <1>3, <1>4, AppliedFacts
<1>6. ~BaseFirst
  BY <1>1, <1>2
<1>7. FeedTypeOK'
  BY <1>1, <1>3, <1>4, <1>5 DEF FeedTypeOK
<1>8. FeedInv'
  BY <1>1, <1>2, <1>4, <1>5, <1>6, <1>7 DEF FeedInv
<1>9. QED
  BY <1>1, <1>4, <1>5, <1>8

LEMMA FeedAgainFacts ==
    ASSUME FeedInv, FeedAgain
    PROVE  /\ FeedInv' /\ blockChan' = <<>> /\ sent' = chain /\ chain' = chain
<1>1. /\ blockChan' = <<>> /\ sent' = chain /\ toBase' = <<>>
      /\ chain' = chain /\ events' = events
  BY DEF FeedAgain
<1>2. /\ chain \in Seq(Blocks) /\ Numbered(chain) /\ events \in 0..MaxEvents
  BY DEF FeedInv, FeedTypeOK
<1>3. /\ <<>> \in Seq(Event) /\ Len(<<>>) = 0 /\ BufferSize >= 0
      /\ \A h : Leads(<<>>, h)
  BY EmptySeq, TaskFeedAssumption DEF Leads
<1>4. FeedTypeOK'
  BY <1>1, <1>2, <1>3 DEF FeedTypeOK
<1>5. QED
  BY <1>1, <1>2, <1>3, <1>4 DEF FeedInv, Reached

\* The event the task receives is made for the height reached.
LEMMA TakeFacts ==
    ASSUME FeedInv, NEW e \in Event, TakeEvent(e)
    PROVE  /\ FeedInv' /\ sent' = sent /\ chain' = chain
           /\ blockChan # <<>> /\ e = blockChan[1] /\ blockChan' = Tail(blockChan)
           /\ Reached(blockChan, Len(sent)) = Before(e)
           /\ Reached(blockChan', Len(sent')) = After(e)
<1>1. /\ blockChan # <<>> /\ e = Head(blockChan) /\ blockChan' = Tail(blockChan)
      /\ chain' = chain /\ toBase' = toBase /\ sent' = sent /\ events' = events
  BY DEF TakeEvent
<1>2. /\ FeedTypeOK /\ Leads(blockChan, Len(sent))
      /\ blockChan \in Seq(Event) /\ Len(blockChan) <= BufferSize
      /\ sent \in Seq(Blocks) /\ Len(sent) \in Nat /\ Len(blockChan) \in Nat
      /\ BufferSize \in Nat
  BY LenProperties, TaskFeedAssumption DEF FeedInv, FeedTypeOK
<1>3. /\ blockChan' \in Seq(Event) /\ Len(blockChan') = Len(blockChan) - 1
      /\ Leads(blockChan', Len(sent)) /\ e = blockChan[1]
      /\ Reached(blockChan, Len(sent)) = Before(e)
      /\ Reached(blockChan', Len(sent)) = After(e)
  BY <1>1, <1>2, LeadsTail
<1>4. FeedTypeOK'
  BY <1>1, <1>2, <1>3 DEF FeedTypeOK
<1>5. FeedInv'
  BY <1>1, <1>3, <1>4 DEF FeedInv
<1>6. QED
  BY <1>1, <1>3, <1>5

LEMMA FeedStays == FeedInv /\ UNCHANGED feedVars => FeedInv'
<1> SUFFICES ASSUME FeedInv, UNCHANGED feedVars PROVE FeedInv'
  OBVIOUS
<1>1. /\ blockChan' = blockChan /\ chain' = chain /\ toBase' = toBase
      /\ sent' = sent /\ events' = events
  BY DEF feedVars
<1>2. FeedTypeOK'
  BY <1>1 DEF FeedInv, FeedTypeOK
<1>3. QED
  BY <1>1, <1>2 DEF FeedInv

----------------------------------------------------------------------------
\* What is read from the tables of base_data: the blocks with these numbers,
\* in the order of their numbers, up to the height of the tables.
LEMMA StoredFacts ==
    ASSUME FeedInv, NEW start \in Nat \ {0}, NEW end \in Int
    PROVE  LET bs == Stored(start, end)
           IN  /\ bs \in Seq(Blocks) /\ DOMAIN bs = 1..Len(bs)
               /\ \A i \in DOMAIN bs : /\ bs[i] \in Blocks
                                       /\ bs[i] = chain[start + i - 1]
                                       /\ bs[i].num = start + i - 1
                                       /\ start + i - 1 <= end
                                       /\ start + i - 1 <= Len(chain)
               /\ bs = <<>> <=> start > end \/ start > Len(chain)
<1> DEFINE n == IF end < Len(chain) THEN end ELSE Len(chain)
           bs == SubSeq(chain, start, n)
<1>1. /\ Len(chain) \in Nat /\ DOMAIN chain = 1..Len(chain) /\ n \in Int
      /\ n <= end /\ n <= Len(chain)
  BY LenProperties DEF FeedInv, FeedTypeOK
<1>2. \A i \in 1..Len(chain) : chain[i] \in Blocks /\ chain[i].num = i
  BY <1>1, ElementOfSeq DEF FeedInv, FeedTypeOK, Numbered
<1>3. n = end \/ n = Len(chain)
  OBVIOUS
<1> HIDE DEF n
<1>4. \A i \in start..n : chain[i] \in Blocks
  BY <1>1, <1>2
<1>5. /\ bs \in Seq(Blocks)
      /\ Len(bs) = IF start <= n THEN n - start + 1 ELSE 0
      /\ \A i \in 1..(n - start + 1) : bs[i] = chain[start + i - 1]
  BY <1>1, <1>4, SubSeqProperties
<1>6. DOMAIN bs = 1..Len(bs) /\ (bs = <<>> <=> Len(bs) = 0)
  BY <1>5, LenProperties, EmptySeq
<1> HIDE DEF bs
<1>7. \A i \in DOMAIN bs : /\ i \in 1..(n - start + 1) /\ start + i - 1 \in 1..Len(chain)
                           /\ start + i - 1 <= n
  BY <1>1, <1>5, <1>6
<1>8. \A i \in DOMAIN bs : /\ bs[i] \in Blocks /\ bs[i] = chain[start + i - 1]
                           /\ bs[i].num = start + i - 1
                           /\ start + i - 1 <= end /\ start + i - 1 <= Len(chain)
  BY <1>1, <1>2, <1>5, <1>7
<1>9. bs = <<>> <=> start > end \/ start > Len(chain)
  <2>1. start > n <=> start > end \/ start > Len(chain)
    <3>1. start \in Nat /\ n \in Int /\ Len(chain) \in Nat
          /\ n <= end /\ n <= Len(chain)
      BY <1>1
    <3>2. CASE n = end
      BY <3>1, <3>2
    <3>3. CASE n = Len(chain)
      BY <3>1, <3>3
    <3>4. QED
      BY <1>3, <3>2, <3>3
  <2>2. Len(bs) = 0 <=> start > n
    BY <1>1, <1>5
  <2>3. QED
    BY <1>6, <2>1, <2>2
<1>10. QED
  BY <1>5, <1>6, <1>8, <1>9 DEF bs, n, Stored
=============================================================================

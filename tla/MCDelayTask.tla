---------------------------- MODULE MCDelayTask ----------------------------
(***************************************************************************)
(* Instances of DelayTask for TLC: a chain of Height blocks and a branch    *)
(* that leaves it above block Fork.  Init chooses whether base_data may be  *)
(* behind the task; when it is not, the task has less time to lose and      *)
(* more events to go through.                                               *)
(***************************************************************************)
EXTENDS DelayTask

CONSTANTS Height, Fork, Stored0, EventsAtHand

VARIABLE behind

BlockOf(n, k) ==
    [num |-> n, hash |-> <<n, k>>,
     parent |-> IF n <= Fork + 1 THEN <<n - 1, 0>> ELSE <<n - 1, k>>]

BlockTree == {BlockOf(n, 0) : n \in 1..Height}
             \cup {BlockOf(n, 1) : n \in (Fork + 1)..Height}

GenesisBlockHash == <<0, 0>>

FirstChain == [n \in 1..Stored0 |-> BlockOf(n, 0)]

AtHand == INSTANCE DelayTask WITH BaseFirst <- TRUE, MaxEvents <- EventsAtHand

DelayVars == <<vars, behind>>

BehindDoes(A) == behind /\ A /\ UNCHANGED behind
AtHandDoes(A) == ~behind /\ A /\ UNCHANGED behind

DelayInit == Init /\ behind \in BOOLEAN

DelaySpec == /\ DelayInit
             /\ [][BehindDoes(Next) \/ AtHandDoes(AtHand!Next)]_DelayVars

\* The goroutine runs, select takes each case now and then, and database and
\* Kafka answer now and then; asked only where base_data may be behind.
DelayFairSpec ==
    /\ DelaySpec
    /\ WF_DelayVars(BehindDoes(Step)) /\ WF_DelayVars(BehindDoes(BaseApplies))
    /\ SF_DelayVars(BehindDoes(\E e \in Event : Ignore(e) \/ Receive(e)))
    /\ SF_DelayVars(BehindDoes(CatchUp \/ CatchUpSkips))
    /\ SF_DelayVars(BehindDoes(Send)) /\ SF_DelayVars(BehindDoes(Record))

----------------------------------------------------------------------------
\* When base_data is not behind, what is sent keeps the promise of DelayedLog.
Delayed == INSTANCE DelayedLog
    WITH Start   <- StartChain,
         chain   <- IF behind THEN StartChain ELSE sent,
         highest <- IF behind THEN Len(StartChain) ELSE highest,
         mark    <- IF behind THEN 0 ELSE taskNum,
         log     <- IF behind THEN <<>> ELSE kafka

\* When it is, no block is sent before its delay all the same.
KeepsDelay == Delayed!Spec /\ NotEarly

\* The task does not stay more than its delay, and the one block a failure may
\* cost, behind the last block it received.
DelayCatchesUp ==
    behind => <>[](cur + Delay + 1 >= latest \/ pc \notin Running)
=============================================================================

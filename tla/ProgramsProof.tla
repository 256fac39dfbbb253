---------------------------- MODULE ProgramsProof ----------------------------
(***************************************************************************)
(* Theorems about the programs, for every value of the constants.  Process: *)
(* the end of the process comes in order.  Compensation: the balances of    *)
(* the range are asked for (Compensated).  ItxPatcher: rows that are        *)
(* deleted have new ones on the way (DeletedIsPending), and no block is     *)
(* dropped on the way (NoneIsDropped).                                      *)
(***************************************************************************)
EXTENDS Process, SequenceTheorems, WellFoundedInduction, TLAPS

Loops == {"start", "top", "select", "busy", "leaving", "ended"}

\* The number of targets the goroutine stops, and the mark that it is done.
NTargets == Len(Targets)

\* The goroutine stops its targets in their order: while the fetcher runs it is
\* at the fetcher, and a task that it has stopped and waited for has ended.
OrderInv ==
    /\ stopped \in 0..(NTargets + 1)
    /\ main = "run" => stopped = 0
    /\ stopped # 0 => fetch = "ended"
    /\ \A i \in 2..NTargets : i <= stopped /\ Kind[Targets[i]] # "delay" =>
          loop[Targets[i]] = "ended"

\* A flag says that its task has ended; while the fetcher runs, a task leaves
\* its loop only by unsubscribing first.
LeaveInv ==
    /\ loop \in [Names -> Loops]
    /\ stoped \in [Names -> BOOLEAN] /\ closed \in [Names -> BOOLEAN]
    /\ \A t \in Names : stoped[t] => loop[t] = "ended"
    /\ stopped = 0 =>
          \A t \in Names : /\ ~closed[t]
                           /\ loop[t] \in {"leaving", "ended"} => t \notin subs
    /\ subs \subseteq Names

\* One signal is not taken for two, and the goroutine's own comes last.
SignalInv ==
    /\ main \in {"run", "stopping", "terminated", "forced"}
    /\ fetch \in {"loop", "sending", "ended"}
    /\ signals \in Nat
    /\ sigCh \in {<<>>, <<"os">>, <<"stopped">>}
    /\ sigCh = <<"os">> => signals >= 1
    /\ sigCh = <<"stopped">> => stopped = NTargets + 1
    /\ main # "run" => signals >= 1
    /\ main # "run" /\ sigCh = <<"os">> => signals >= 2
    /\ main = "terminated" => signals >= 2 \/ stopped = NTargets + 1

PInv == OrderInv /\ LeaveInv /\ SignalInv

----------------------------------------------------------------------------
LEMMA TargetFacts ==
    /\ NTargets \in Nat /\ NTargets >= 1 /\ Targets[1] = "fetcher"
    /\ \A i \in 2..NTargets : Targets[i] \in Names
    /\ \A t \in Names : t # "fetcher" /\ \E i \in 2..NTargets : Targets[i] = t
<1> DEFINE S == Names \cup {"fetcher"}
           n == Len(Tasks)
<1>1. Tasks \in Seq(Names) /\ "fetcher" \notin Names
  BY ProcessAssumption DEF Names
<1>2. n \in Nat /\ DOMAIN Tasks = 1..n
  BY <1>1, LenProperties
<1>3. Names = {Tasks[i] : i \in 1..n}
  BY <1>2 DEF Names, ToSet
<1>4. Tasks \in Seq(S) /\ <<"fetcher">> \in Seq(S) /\ Len(<<"fetcher">>) = 1
  <2>1. Tasks \in [1..n -> S]
    BY <1>1, <1>2, ElementOfSeq, LenProperties
  <2>2. Tasks \in Seq(S)
    BY <1>2, <2>1, SeqDef
  <2>3. QED
    BY <2>2
<1> HIDE DEF S, n
<1>5. /\ NTargets = 1 + n
      /\ \A i \in 1..(1 + n) :
            Targets[i] = IF i <= 1 THEN <<"fetcher">>[i] ELSE Tasks[i - 1]
  <2>1. /\ NTargets = Len(<<"fetcher">>) + Len(Tasks)
        /\ \A i \in 1..(Len(<<"fetcher">>) + Len(Tasks)) :
              Targets[i] = IF i <= Len(<<"fetcher">>) THEN <<"fetcher">>[i]
                           ELSE Tasks[i - Len(<<"fetcher">>)]
    BY <1>4, ConcatProperties DEF Targets, NTargets
  <2>2. QED
    BY <1>4, <2>1, Zenon DEF n
<1>6. Targets[1] = "fetcher"
  BY <1>2, <1>5
<1>7. \A i \in 2..NTargets : Targets[i] = Tasks[i - 1] /\ i - 1 \in 1..n
  BY <1>2, <1>5
<1>8. \A i \in 2..NTargets : Targets[i] \in Names
  BY <1>3, <1>7
<1>9. ASSUME NEW t \in Names PROVE \E i \in 2..NTargets : Targets[i] = t
  <2>1. PICK j \in 1..n : Tasks[j] = t
    BY <1>3
  <2>2. j + 1 \in 2..NTargets /\ (j + 1) - 1 = j
    BY <1>2, <1>5
  <2>3. Targets[j + 1] = t
    BY <1>7, <2>1, <2>2
  <2>4. QED
    BY <2>2, <2>3
<1>10. QED
  BY <1>1, <1>2, <1>5, <1>6, <1>8, <1>9

LEMMA InitPInv == Init => PInv
<1> SUFFICES ASSUME Init PROVE PInv
  OBVIOUS
<1>1. OrderInv
  BY TargetFacts DEF Init, OrderInv
<1>2. LeaveInv
  BY DEF Init, LeaveInv, Loops
<1>3. SignalInv
  BY DEF Init, SignalInv
<1>4. QED
  BY <1>1, <1>2, <1>3 DEF PInv

\* A task that is a target comes after the fetcher.
LEMMA TaskIsLater ==
    ASSUME PInv, NEW t \in Names, Stopping(t)
    PROVE  /\ stopped # 0 /\ stopped + 1 \in 2..NTargets /\ stopped \in Nat
           /\ Targets[stopped + 1] = t /\ main = "stopping"
           /\ fetch = "ended"
<1>1. /\ main = "stopping" /\ stopped < NTargets /\ Targets[stopped + 1] = t
      /\ stopped \in 0..(NTargets + 1) /\ NTargets \in Nat
  BY TargetFacts DEF Stopping, PInv, OrderInv, NTargets
<1>2. stopped + 1 # 1
  BY <1>1, TargetFacts
<1>3. QED
  BY <1>1, <1>2 DEF PInv, OrderInv

----------------------------------------------------------------------------
(* A step keeps PInv. *)

\* The loops only move on; one that has ended stays so.
LEMMA LoopSteps ==
    ASSUME PInv, NEW t \in Names, NEW from \in Loops \ {"ended"},
           NEW to \in Loops, Move(t, from, to)
    PROVE  /\ loop' \in [Names -> Loops] /\ loop'[t] = to
           /\ \A u \in Names : u # t => loop'[u] = loop[u]
           /\ \A u \in Names : loop[u] = "ended" => loop'[u] = "ended"
  BY DEF PInv, LeaveInv, Move

LEMMA MainKeeps == PInv /\ Living /\ (Signal \/ ReceiveSignal \/ Expire) => PInv'
<1> SUFFICES ASSUME PInv, Living, Signal \/ ReceiveSignal \/ Expire PROVE PInv'
  OBVIOUS
<1> USE DEF PInv
<1>1. UNCHANGED <<stopVars, fetchVars, taskVars>>
  BY DEF Signal, ReceiveSignal, Expire
<1>2. main' = "run" => main = "run"
  BY DEF Signal, ReceiveSignal, Expire, Living
<1>3. OrderInv'
  BY <1>1, <1>2 DEF OrderInv, stopVars, fetchVars, taskVars, NTargets
<1>4. LeaveInv'
  BY <1>1 DEF LeaveInv, stopVars, fetchVars, taskVars
<1>5. SignalInv'
  <2>1. stopped' = stopped /\ fetch' = fetch
    BY <1>1 DEF stopVars, fetchVars
  <2>2. CASE Signal
    <3>1. signals' = signals + 1 /\ main' = main /\ signals' \in Nat
      BY <2>2 DEF Signal, SignalInv
    <3>2. (sigCh' = sigCh) \/ (sigCh = <<>> /\ sigCh' = <<"os">>)
      <4>1. Append(<<>>, "os") = <<"os">>
        OBVIOUS
      <4>2. Len(<<"os">>) = 1 /\ Len(<<"stopped">>) = 1
        OBVIOUS
      <4>3. sigCh # <<>> => Len(sigCh) = 1
        BY <4>2 DEF SignalInv
      <4>4. sigCh' = Append(sigCh, "os") \/ sigCh' = sigCh
        BY <2>2 DEF Signal
      <4>5. sigCh # <<>> => sigCh' = sigCh
        BY <2>2, <4>3 DEF Signal, Room
      <4>6. QED
        BY <4>1, <4>4, <4>5
    <3>3. QED
      BY <2>1, <3>1, <3>2 DEF SignalInv, NTargets
  <2>3. CASE ReceiveSignal
    <3>1. /\ sigCh # <<>> /\ sigCh' = <<>> /\ signals' = signals
          /\ main' = IF main = "run" THEN "stopping" ELSE "terminated"
      BY <2>3 DEF ReceiveSignal, SignalInv
    <3>2. main = "run" => sigCh = <<"os">>
      <4>1. NTargets \in Nat
        BY TargetFacts
      <4>2. QED
        BY <3>1, <4>1 DEF SignalInv, OrderInv
    <3>3. QED
      BY <2>1, <3>1, <3>2 DEF SignalInv, NTargets
  <2>4. CASE Expire
    BY <2>1, <2>4 DEF Expire, SignalInv, NTargets
  <2>5. QED
    BY <2>2, <2>3, <2>4
<1>6. QED
  BY <1>3, <1>4, <1>5

\* The goroutine is done with a target.
LEMMA NextKeeps ==
    ASSUME PInv, main = "stopping", stopped < NTargets, fetch = "ended", NextTarget,
           UNCHANGED <<mainVars, fetchVars, subs>>,
           loop' \in [Names -> Loops], stoped' \in [Names -> BOOLEAN],
           closed' \in [Names -> BOOLEAN],
           \A u \in Names : loop[u] = "ended" => loop'[u] = "ended",
           \A u \in Names : stoped'[u] => loop'[u] = "ended",
           stopped # 0 /\ Kind[Targets[stopped + 1]] # "delay" =>
              loop'[Targets[stopped + 1]] = "ended"
    PROVE  PInv'
<1> USE DEF PInv
<1>1. NTargets \in Nat /\ stopped \in Nat /\ stopped' = stopped + 1
      /\ NTargets' = NTargets
  BY TargetFacts DEF OrderInv, NextTarget, NTargets
<1>2. UNCHANGED <<main, sigCh, signals, fetch, subs>>
  BY DEF mainVars, fetchVars
<1>3. OrderInv'
  <2>1. stopped' \in 0..(NTargets + 1)
    BY <1>1
  <2>2. ASSUME NEW i \in 2..NTargets, i <= stopped', Kind[Targets[i]] # "delay"
        PROVE  loop'[Targets[i]] = "ended"
    <3>1. CASE i <= stopped
      <4>1. loop[Targets[i]] = "ended" /\ Targets[i] \in Names
        BY <2>2, <3>1, TargetFacts DEF OrderInv
      <4>2. QED
        BY <4>1
    <3>2. CASE i = stopped + 1
      <4>1. stopped # 0
        BY <1>1, <3>2
      <4>2. QED
        BY <2>2, <3>2, <4>1
    <3>3. QED
      BY <1>1, <2>2, <3>1, <3>2
  <2>3. QED
    BY <1>1, <1>2, <2>1, <2>2 DEF OrderInv
<1>4. LeaveInv'
  BY <1>1, <1>2 DEF LeaveInv
<1>5. SignalInv'
  <2>1. stopped # NTargets + 1
    BY <1>1
  <2>2. sigCh # <<"stopped">>
    BY <2>1 DEF SignalInv
  <2>3. QED
    BY <1>1, <1>2, <2>2 DEF SignalInv
<1>6. QED
  BY <1>3, <1>4, <1>5

LEMMA StopperKeeps == PInv /\ Stopper => PInv'
<1> SUFFICES ASSUME PInv, Stopper PROVE PInv'
  OBVIOUS
<1> USE DEF PInv
<1>0. /\ loop \in [Names -> Loops] /\ stoped \in [Names -> BOOLEAN]
      /\ closed \in [Names -> BOOLEAN]
      /\ \A u \in Names : stoped[u] => loop[u] = "ended"
  BY DEF LeaveInv
<1>1. CASE InterruptFetcher
  <2>1. /\ UNCHANGED <<main, sigCh, signals, stopped, closed, fetch, subs, loop,
                       stoped>>
    BY <1>1 DEF InterruptFetcher, mainVars, fetchVars, taskVars
  <2>2. QED
    BY <2>1 DEF OrderInv, LeaveInv, SignalInv, NTargets
<1>2. CASE FetcherStopped
  <2>1. /\ main = "stopping" /\ stopped < NTargets /\ fetch = "ended" /\ NextTarget
        /\ Targets[stopped + 1] = "fetcher"
        /\ UNCHANGED <<mainVars, fetchVars, taskVars, closed>>
    BY <1>2 DEF FetcherStopped, Stopping, NTargets
  <2>2. stopped = 0
    <3>1. stopped \in Nat /\ NTargets \in Nat
      BY TargetFacts DEF OrderInv
    <3>2. stopped + 1 \notin 2..NTargets
      BY <2>1, TargetFacts
    <3>3. QED
      BY <2>1, <3>1, <3>2
  <2>3. UNCHANGED <<subs, loop, stoped>>
    BY <2>1 DEF taskVars
  <2>4. QED
    BY <1>0, <2>1, <2>2, <2>3, NextKeeps
<1>3. CASE ReportStopped
  <2>1. /\ main = "stopping" /\ stopped = NTargets /\ sigCh' = <<"stopped">>
        /\ stopped' = stopped + 1
        /\ UNCHANGED <<main, signals, closed, fetch, subs, loop, stoped>>
    BY <1>3 DEF ReportStopped, NTargets, fetchVars, taskVars
  <2>2. NTargets \in Nat /\ NTargets >= 1 /\ NTargets' = NTargets
    BY TargetFacts DEF NTargets
  <2>3. OrderInv'
    BY <2>1, <2>2 DEF OrderInv
  <2>4. LeaveInv' /\ SignalInv'
    BY <2>1, <2>2 DEF LeaveInv, SignalInv
  <2>5. QED
    BY <2>3, <2>4
<1>4. ASSUME NEW t \in Names, StopBase(t) \/ StopAsync(t)
      PROVE  PInv'
  <2>1. /\ Stopping(t) /\ Receives(t) /\ EndLoop(t) /\ NextTarget
        /\ UNCHANGED <<mainVars, fetchVars, subs, closed>>
        /\ stoped' = stoped \/ stoped' = [stoped EXCEPT ![t] = TRUE]
    BY <1>4 DEF StopBase, StopAsync, stopVars
  <2>2. /\ stopped # 0 /\ stopped < NTargets /\ Targets[stopped + 1] = t
        /\ main = "stopping" /\ fetch = "ended"
    BY <2>1, TaskIsLater DEF Stopping, NTargets
  <2>3. /\ loop' \in [Names -> Loops] /\ loop'[t] = "ended"
        /\ \A u \in Names : loop[u] = "ended" => loop'[u] = "ended"
    BY <1>0, <2>1 DEF EndLoop, Receives, Loops
  <2>4. /\ stoped' \in [Names -> BOOLEAN]
        /\ \A u \in Names : stoped'[u] => loop'[u] = "ended"
    BY <1>0, <2>1, <2>3
  <2>5. QED
    BY <1>0, <2>1, <2>2, <2>3, <2>4, NextKeeps
<1>5. ASSUME NEW t \in Names, CheckStoped(t) PROVE PInv'
  <2>1. /\ Stopping(t)
        /\ UNCHANGED <<mainVars, fetchVars, taskVars, closed>>
    BY <1>5 DEF CheckStoped
  <2>2. /\ stopped # 0 /\ stopped < NTargets /\ Targets[stopped + 1] = t
        /\ main = "stopping" /\ fetch = "ended"
    BY <2>1, TaskIsLater DEF Stopping, NTargets
  <2>3. CASE stoped[t]
    <3>1. NextTarget /\ loop[t] = "ended"
      BY <1>0, <1>5, <2>3 DEF CheckStoped
    <3>2. UNCHANGED <<subs, loop, stoped>>
      BY <2>1 DEF taskVars
    <3>3. QED
      BY <1>0, <2>1, <2>2, <3>1, <3>2, NextKeeps
  <2>4. CASE ~stoped[t]
    <3>1. UNCHANGED <<main, sigCh, signals, stopped, closed, fetch, subs, loop,
                      stoped>>
      BY <1>5, <2>1, <2>4 DEF CheckStoped, mainVars, fetchVars, taskVars
    <3>2. QED
      BY <3>1 DEF OrderInv, LeaveInv, SignalInv, NTargets
  <2>5. QED
    BY <2>3, <2>4
<1>6. ASSUME NEW t \in Names, StopDelay(t) PROVE PInv'
  <2>1. /\ Kind[t] = "delay" /\ Stopping(t) /\ NextTarget
        /\ closed' = [closed EXCEPT ![t] = TRUE]
        /\ UNCHANGED <<mainVars, fetchVars, taskVars>>
    BY <1>6 DEF StopDelay
  <2>2. /\ stopped # 0 /\ stopped < NTargets /\ Targets[stopped + 1] = t
        /\ main = "stopping" /\ fetch = "ended"
    BY <2>1, TaskIsLater DEF Stopping, NTargets
  <2>3. UNCHANGED <<subs, loop, stoped>> /\ closed' \in [Names -> BOOLEAN]
    BY <1>0, <2>1 DEF taskVars
  <2>4. QED
    BY <1>0, <2>1, <2>2, <2>3, NextKeeps
<1>7. QED
  BY <1>1, <1>2, <1>3, <1>4, <1>5, <1>6 DEF Stopper

\* The fetcher's own steps and the deliveries.
LEMMA FetcherKeeps ==
    ASSUME PInv, SendBlock \/ SendReturns \/ FetchEnds
                 \/ \E t \in Names : Deliver(t)
    PROVE  PInv'
<1> USE DEF PInv
<1>1. UNCHANGED <<mainVars, stopVars, subs, loop, stoped>>
  BY DEF SendBlock, SendReturns, FetchEnds, Deliver, taskVars
<1>2. /\ fetch = "ended" => fetch' = "ended"
      /\ fetch' \in {"loop", "sending", "ended"}
  BY DEF SendBlock, SendReturns, FetchEnds, Deliver, SignalInv
<1>3. UNCHANGED <<main, sigCh, signals, stopped, closed>>
  BY <1>1 DEF mainVars, stopVars
<1>4. OrderInv'
  BY <1>1, <1>2, <1>3 DEF OrderInv, NTargets
<1>5. LeaveInv' /\ SignalInv'
  BY <1>1, <1>2, <1>3 DEF LeaveInv, SignalInv, NTargets
<1>6. QED
  BY <1>4, <1>5

\* The loop of a task: it ends on a stop, or by leaving the feed first.
LEMMA TaskKeeps == ASSUME PInv, NEW t \in Names, Task(t) PROVE PInv'
<1> USE DEF PInv
<1>1. UNCHANGED <<mainVars, stopVars, fetchVars>>
  BY DEF Task, Subscribe, ToSelect, TakeBlock, TakeMore, BlockDone, Unsubscribe,
         Leave, SeesClosed
<1>2. UNCHANGED <<main, sigCh, signals, stopped, closed, fetch>>
  BY <1>1 DEF mainVars, stopVars, fetchVars
<1>3. /\ loop' \in [Names -> Loops]
      /\ \A u \in Names : loop[u] = "ended" => loop'[u] = "ended"
  <2>1. CASE TakeMore(t)
    BY <2>1 DEF TakeMore, LeaveInv
  <2>2. CASE ~TakeMore(t)
    BY <2>2, LoopSteps
    DEF Task, Subscribe, ToSelect, TakeBlock, BlockDone, Unsubscribe, Leave,
        SeesClosed, Loops
  <2>3. QED
    BY <2>1, <2>2
<1>4. OrderInv'
  BY <1>2, <1>3, TargetFacts DEF OrderInv, NTargets
<1>5. SignalInv'
  BY <1>2 DEF SignalInv, NTargets
<1>6. /\ stoped' \in [Names -> BOOLEAN] /\ subs' \subseteq Names
      /\ \A u \in Names : stoped'[u] => loop'[u] = "ended"
  <2>1. CASE Leave(t)
    <3>1. stoped' = [stoped EXCEPT ![t] = TRUE] /\ subs' = subs
      BY <2>1 DEF Leave
    <3>2. loop'[t] = "ended"
      BY <2>1, LoopSteps DEF Leave, Loops
    <3>3. QED
      BY <1>3, <3>1, <3>2 DEF LeaveInv
  <2>2. CASE ~Leave(t)
    <3>1. stoped' = stoped /\ subs' \subseteq subs \cup {t}
      BY <2>2 DEF Task, Subscribe, ToSelect, TakeBlock, TakeMore, BlockDone,
                  Unsubscribe, SeesClosed
    <3>2. QED
      BY <1>3, <3>1 DEF LeaveInv
  <2>3. QED
    BY <2>1, <2>2
<1>7. ASSUME stopped = 0, NEW u \in Names, loop'[u] \in {"leaving", "ended"}
      PROVE  u \notin subs'
  <2>1. ~closed[t] /\ (loop[u] \in {"leaving", "ended"} => u \notin subs)
        /\ loop \in [Names -> Loops]
    BY <1>7 DEF LeaveInv
  <2>2. CASE Subscribe(t)
    <3>1. subs' = subs \cup {t} /\ loop'[t] = "top"
          /\ (u # t => loop'[u] = loop[u])
      BY <2>2, LoopSteps DEF Subscribe, Loops
    <3>2. QED
      BY <1>7, <2>1, <3>1
  <2>3. CASE Unsubscribe(t)
    <3>1. subs' = subs \ {t} /\ (u # t => loop'[u] = loop[u])
      BY <2>3, LoopSteps DEF Unsubscribe, Loops
    <3>2. QED
      BY <1>7, <2>1, <3>1
  <2>4. CASE Leave(t)
    <3>1. subs' = subs /\ loop[t] = "leaving" /\ (u # t => loop'[u] = loop[u])
      BY <2>4, LoopSteps DEF Leave, Move, Loops
    <3>2. QED
      BY <1>7, <2>1, <3>1
  <2>5. CASE ToSelect(t) \/ TakeBlock(t) \/ TakeMore(t) \/ BlockDone(t)
    <3>1. subs' = subs /\ (loop'[t] \in {"top", "select", "busy"})
          /\ (u # t => loop'[u] = loop[u])
      <4>1. CASE TakeMore(t)
        BY <4>1 DEF TakeMore
      <4>2. CASE ToSelect(t) \/ TakeBlock(t) \/ BlockDone(t)
        BY <4>2, LoopSteps DEF ToSelect, TakeBlock, BlockDone, Loops
      <4>3. QED
        BY <2>5, <4>1, <4>2
    <3>2. QED
      BY <1>7, <2>1, <3>1
  <2>6. QED
    BY <2>1, <2>2, <2>3, <2>4, <2>5 DEF Task, SeesClosed
<1>8. LeaveInv'
  BY <1>2, <1>3, <1>6, <1>7 DEF LeaveInv
<1>9. QED
  BY <1>4, <1>5, <1>8

LEMMA StepKeepsPInv == PInv /\ [Next]_vars => PInv'
<1> SUFFICES ASSUME PInv, [Next]_vars PROVE PInv'
  OBVIOUS
<1>1. CASE Living /\ (Signal \/ ReceiveSignal \/ Expire)
  BY <1>1, MainKeeps
<1>2. CASE Stopper
  BY <1>2, StopperKeeps
<1>3. CASE \/ SendBlock \/ SendReturns \/ FetchEnds
           \/ \E t \in Names : Deliver(t)
  BY <1>3, FetcherKeeps
<1>4. CASE \E t \in Names : Task(t)
  BY <1>4, TaskKeeps
<1>5. CASE UNCHANGED vars
  <2>1. UNCHANGED <<main, sigCh, signals, stopped, closed, fetch, subs, loop,
                    stoped>>
    BY <1>5 DEF vars, mainVars, stopVars, fetchVars, taskVars
  <2>2. QED
    BY <2>1 DEF PInv, OrderInv, LeaveInv, SignalInv, NTargets
<1>6. QED
  BY <1>1, <1>2, <1>3, <1>4, <1>5 DEF Next

LEMMA AlwaysPInv == Spec => []PInv
  BY InitPInv, StepKeepsPInv, PTL DEF Spec

----------------------------------------------------------------------------
\* The fetcher never waits for ever in Send for a task that has left its loop:
\* the tasks are stopped after it, and one that ends by itself is off the feed.
THEOREM NoWaitForEnded == Spec => []NoSendToEnded
<1>1. PInv => NoSendToEnded
  BY DEF PInv, OrderInv, LeaveInv, NoSendToEnded
<1>2. QED
  BY <1>1, AlwaysPInv, PTL

\* After one signal "all tasks terminated" is said only when the fetcher and all
\* the tasks that are waited for have left their loops.
THEOREM TerminatedIsTrue == Spec => []TerminatedMeansEnded
<1>1. PInv => TerminatedMeansEnded
  <2> SUFFICES ASSUME PInv, main = "terminated", signals <= 1
               PROVE  /\ fetch = "ended"
                      /\ \A t \in Names : Kind[t] # "delay" => loop[t] = "ended"
    BY DEF TerminatedMeansEnded
  <2>1. stopped = NTargets + 1 /\ NTargets \in Nat
    BY TargetFacts DEF PInv, SignalInv
  <2>2. fetch = "ended"
    BY <2>1 DEF PInv, OrderInv
  <2>3. ASSUME NEW t \in Names, Kind[t] # "delay" PROVE loop[t] = "ended"
    <3>1. PICK i \in 2..NTargets : Targets[i] = t
      BY TargetFacts
    <3>2. i <= stopped
      BY <2>1, <3>1
    <3>3. QED
      BY <2>3, <3>1, <3>2 DEF PInv, OrderInv
  <2>4. QED
    BY <2>2, <2>3
<1>2. QED
  BY <1>1, AlwaysPInv, PTL

----------------------------------------------------------------------------
(* The tool compensation.                                                   *)

CONSTANTS StartHeight, EndHeight, BatchBlockCount, MultiCallContract, Touches, Heads, MaxHead,
          RetryTimes, MaxFailures, U64, Keys, CacheSize, FalsePositives

VARIABLES compPc, curHeight, found, asking, answers, table, tries, head, failed, raced, lru, filter

Comp == INSTANCE Compensation WITH pc <- compPc

\* What was read for these balances does not count.
Excepted == failed \cup raced

AtEnd(k, row) == row.at \in Nat /\ (row.at >= EndHeight \/ k \in Excepted)

CompTypes ==
    /\ compPc \in {"loop", "handle", "query", "save", "done", "exited"}
    /\ curHeight \in Nat /\ curHeight >= StartHeight - 1 /\ head \in Nat
    /\ asking \subseteq Keys /\ DOMAIN answers \subseteq asking
    /\ found \subseteq DOMAIN Touches

\* Rows were read at the end of the range, answers will have been when they are
\* saved, and the cache knows of rows only.
ReadAtEnd ==
    /\ \A k \in DOMAIN table : AtEnd(k, table[k])
    /\ \A k \in DOMAIN answers : answers[k].at \in Nat
    /\ MultiCallContract \/ compPc = "save" =>
          \A k \in DOMAIN answers : AtEnd(k, answers[k])
    /\ compPc = "save" => DOMAIN answers = asking
    /\ DOMAIN lru \subseteq DOMAIN table

Until(n) == {m \in DOMAIN Touches : StartHeight <= m /\ m <= EndHeight /\ m <= n}

\* A balance touched up to here has a row, or one on the way.
RangeCovered ==
    /\ \A n \in Until(curHeight) : Touches[n] \subseteq DOMAIN table
    /\ compPc \in {"handle", "query", "save"} =>
          found # {} /\ found = DOMAIN Touches \cap (Comp!From..Comp!To)
    /\ compPc \in {"query", "save"} =>
          \A n \in found : Touches[n] \subseteq DOMAIN table \cup asking
    /\ compPc = "done" => curHeight >= EndHeight

CompInv == CompTypes /\ ReadAtEnd /\ RangeCovered

\* A start of 0 wraps around, and the tool is done at once.
ProperRange == Comp!CompensationConstants /\ StartHeight # 0

----------------------------------------------------------------------------
\* A set of numbers below a bound that is not empty has a greatest one.
LEMMA GreatestNumber ==
    ASSUME NEW S, NEW b \in Nat, S \subseteq 0..b, S # {}
    PROVE  Comp!Max(S) \in S /\ \A x \in S : x <= Comp!Max(S)
<1> DEFINE T == {y \in Nat : b - y \in S}
<1>1. IsWellFoundedOn(OpToRel(<, Nat), Nat)
  BY NatLessThanWellFounded
<1>2. PICK x \in S : TRUE
  OBVIOUS
<1>3. b - x \in Nat /\ b - (b - x) = x
  BY <1>2
<1>4. T \subseteq Nat /\ T # {}
  BY <1>2, <1>3
<1>5. PICK y \in T : \A z \in T : ~(<<z, y>> \in OpToRel(<, Nat))
  <2> HIDE DEF T
  <2> QED
    BY <1>1, <1>4, WFMin
<1>6. b - y \in S /\ y \in Nat
  BY <1>5
<1>7. ASSUME NEW z \in S PROVE z <= b - y
  <2>1. b - z \in Nat /\ b - (b - z) = z
    BY <1>7
  <2>2. b - z \in T
    BY <2>1
  <2>3. ~(<<b - z, y>> \in OpToRel(<, Nat))
    BY <1>5, <2>2
  <2>4. ~(b - z < y)
    BY <1>6, <2>1, <2>3 DEF OpToRel
  <2>5. QED
    BY <1>6, <2>4, <1>7
<1>8. \E m \in S : \A z \in S : m >= z
  <2>1. \A z \in S : b - y >= z
    BY <1>6, <1>7
  <2>2. QED
    BY <1>6, <2>1
<1>9. Comp!Max(S) \in S /\ \A z \in S : Comp!Max(S) >= z
  BY <1>8 DEF Comp!Max
<1>10. QED
  BY <1>6, <1>9

LEMMA CompNumbers ==
    ASSUME ProperRange
    PROVE  /\ StartHeight \in Nat /\ StartHeight >= 1 /\ EndHeight \in Nat
           /\ BatchBlockCount \in Nat
           /\ \A n \in DOMAIN Touches : n \in Nat /\ Touches[n] \subseteq Keys
BY DEF ProperRange, Comp!CompensationConstants

LEMMA CompOverlaid ==
    ASSUME NEW f, NEW g
    PROVE  /\ DOMAIN Comp!Overlaid(f, g) = DOMAIN f \cup DOMAIN g
           /\ \A k \in DOMAIN g : Comp!Overlaid(f, g)[k] = g[k]
           /\ \A k \in DOMAIN f \ DOMAIN g : Comp!Overlaid(f, g)[k] = f[k]
BY DEF Comp!Overlaid

LEMMA CompFits ==
    ASSUME NEW full, NEW f \in Comp!Fits(full)
    PROVE  DOMAIN f \subseteq DOMAIN full
BY DEF Comp!Fits

\* The upper end of what is read at once.
LEMMA ToBound ==
    ASSUME ProperRange, curHeight \in Nat, curHeight < EndHeight
    PROVE  /\ Comp!To \in Nat /\ Comp!To <= EndHeight /\ Comp!To <= Comp!PassedTo
           /\ Comp!To = EndHeight \/ Comp!To = Comp!PassedTo
           /\ Comp!PassedTo \in Nat
<1> DEFINE p == curHeight + 1 + BatchBlockCount
<1>1. p \in Nat /\ EndHeight \in Nat
  BY CompNumbers
<1>2. \E m \in {p, EndHeight} : \A x \in {p, EndHeight} : m <= x
  <2>1. CASE p <= EndHeight
    BY <1>1, <2>1
  <2>2. CASE ~(p <= EndHeight)
    BY <1>1, <2>2
  <2>3. QED
    BY <2>1, <2>2
<1>3. Comp!Min({p, EndHeight}) \in {p, EndHeight}
      /\ \A x \in {p, EndHeight} : Comp!Min({p, EndHeight}) <= x
  BY <1>2 DEF Comp!Min
<1>4. Comp!To = Comp!Min({p, EndHeight}) /\ Comp!PassedTo = p
  BY DEF Comp!To, Comp!PassedTo
<1>5. QED
  BY <1>1, <1>3, <1>4

----------------------------------------------------------------------------
LEMMA InitComp ==
    ASSUME ProperRange, Comp!Init
    PROVE  CompInv
<1>1. /\ compPc = "loop" /\ curHeight = StartHeight - 1 /\ found = {} /\ asking = {}
      /\ answers = Comp!Empty /\ table = Comp!Empty /\ lru = Comp!Empty /\ head \in Heads
  BY DEF ProperRange, Comp!Init, Comp!CacheInit
<1>2. DOMAIN Comp!Empty = {}
  BY DEF Comp!Empty
<1>3. head \in Nat
  BY <1>1 DEF ProperRange, Comp!CompensationConstants
<1>4. CompTypes
  BY <1>1, <1>2, <1>3, CompNumbers DEF CompTypes
<1>5. ReadAtEnd
  BY <1>1, <1>2 DEF ReadAtEnd
<1>6. Until(curHeight) = {}
  BY <1>1, CompNumbers DEF Until
<1>7. RangeCovered
  BY <1>1, <1>6 DEF RangeCovered
<1>8. QED
  BY <1>4, <1>5, <1>7 DEF CompInv

\* Nothing between the last block that was handled and the bound of the query.
LEMMA ReadFoundComp ==
    ASSUME ProperRange, CompInv, Comp!ReadFound
    PROVE  CompInv'
<1>1. /\ compPc = "loop" /\ curHeight < EndHeight
      /\ found' = DOMAIN Touches \cap (Comp!From..Comp!To)
      /\ IF found' = {} THEN curHeight' = Comp!PassedTo /\ compPc' = compPc
                        ELSE compPc' = "handle" /\ curHeight' = curHeight
      /\ asking' = asking /\ answers' = answers /\ head' = head
      /\ table' = table /\ failed' = failed /\ raced' = raced /\ lru' = lru
  BY DEF Comp!ReadFound, Comp!rowVars, Comp!cacheVars
<1>2. curHeight \in Nat
  BY DEF CompInv, CompTypes
<1>3. /\ Comp!To \in Nat /\ Comp!To <= EndHeight /\ Comp!To <= Comp!PassedTo
      /\ Comp!To = EndHeight \/ Comp!To = Comp!PassedTo
      /\ Comp!PassedTo \in Nat
  BY <1>1, <1>2, ToBound
<1>4. Comp!PassedTo = curHeight + 1 + BatchBlockCount /\ Comp!From = curHeight + 1
  BY DEF Comp!PassedTo, Comp!From
<1>5. CompTypes'
  <2>1. curHeight' \in Nat /\ curHeight' >= StartHeight - 1
    BY <1>1, <1>2, <1>3, <1>4, CompNumbers DEF CompInv, CompTypes
  <2>2. compPc' \in {"loop", "handle"} /\ found' \subseteq DOMAIN Touches
    BY <1>1
  <2>3. QED
    BY <1>1, <2>1, <2>2 DEF CompInv, CompTypes
<1>6. ReadAtEnd'
  <2>1. compPc' \in {"loop", "handle"}
    BY <1>1
  <2>2. QED
    BY <1>1, <2>1 DEF CompInv, ReadAtEnd, AtEnd, Excepted
<1>7. RangeCovered'
  <2>1. CASE found' = {}
    <3>1. curHeight' = Comp!PassedTo /\ compPc' = "loop"
      BY <1>1, <2>1
    <3>2. ASSUME NEW n \in Until(curHeight') PROVE Touches[n] \subseteq DOMAIN table
      <4>1. n \in DOMAIN Touches /\ StartHeight <= n /\ n <= EndHeight /\ n <= Comp!PassedTo
        BY <3>1 DEF Until
      <4>2. n \in Nat
        BY <4>1, CompNumbers
      <4>3. n <= Comp!To
        BY <1>3, <4>1
      <4>4. ~(n \in Comp!From..Comp!To)
        BY <1>1, <2>1, <4>1
      <4>5. n <= curHeight
        BY <1>2, <1>3, <1>4, <4>2, <4>3, <4>4
      <4>6. n \in Until(curHeight)
        BY <4>1, <4>5 DEF Until
      <4>7. QED
        BY <4>6 DEF CompInv, RangeCovered
    <3>3. QED
      BY <1>1, <3>1, <3>2 DEF RangeCovered
  <2>2. CASE found' # {}
    <3>1. compPc' = "handle" /\ curHeight' = curHeight
      BY <1>1, <2>2
    <3>2. Comp!From' = Comp!From /\ Comp!To' = Comp!To
      BY <3>1 DEF Comp!From, Comp!To
    <3>3. \A n \in Until(curHeight') : Touches[n] \subseteq DOMAIN table'
      BY <1>1, <3>1 DEF CompInv, RangeCovered
    <3>4. QED
      BY <1>1, <2>2, <3>1, <3>2, <3>3 DEF RangeCovered
  <2>3. QED
    BY <2>1, <2>2
<1>8. QED
  BY <1>5, <1>6, <1>7 DEF CompInv

LEMMA DoneComp ==
    ASSUME ProperRange, CompInv, Comp!Done
    PROVE  CompInv'
<1>1. /\ compPc = "loop" /\ curHeight >= EndHeight /\ compPc' = "done"
      /\ found' = found /\ curHeight' = curHeight /\ asking' = asking /\ answers' = answers
      /\ head' = head /\ table' = table /\ failed' = failed /\ raced' = raced /\ lru' = lru
  BY DEF Comp!Done, Comp!rowVars, Comp!cacheVars
<1>2. CompTypes'
  BY <1>1 DEF CompInv, CompTypes
<1>3. ReadAtEnd'
  BY <1>1 DEF CompInv, ReadAtEnd, AtEnd, Excepted
<1>4. RangeCovered'
  BY <1>1 DEF CompInv, RangeCovered
<1>5. QED
  BY <1>2, <1>3, <1>4 DEF CompInv

\* What the cache or the table says of a balance, it says of one with a row;
\* so one that is not asked for has a row.
LEMMA AskComp ==
    ASSUME ProperRange, CompInv, Comp!AskForTouched
    PROVE  CompInv'
<1>1. PICK seen \in [Comp!Touched -> {Comp!Missing} \cup 0..MaxHead] :
          /\ \A k \in DOMAIN seen : seen[k] \in Comp!Get(k, Comp!Heights)
          /\ Comp!Keep(seen)
          /\ asking' = {k \in DOMAIN seen : \E n \in found : k \in Touches[n] /\ n > seen[k]}
  BY DEF Comp!AskForTouched
<1>2. /\ compPc = "handle" /\ compPc' = "query" /\ answers' = Comp!Empty
      /\ curHeight' = curHeight /\ found' = found /\ head' = head
      /\ table' = table /\ failed' = failed /\ raced' = raced
  BY DEF Comp!AskForTouched, Comp!rowVars
<1>3. DOMAIN Comp!Empty = {} /\ Comp!Missing = -1
  BY DEF Comp!Empty, Comp!Missing
<1>4. DOMAIN Comp!Heights = DOMAIN table
  BY DEF Comp!Heights
<1>5. ASSUME NEW k \in DOMAIN seen, seen[k] # Comp!Missing PROVE k \in DOMAIN table
  <2>1. seen[k] \in Comp!Get(k, Comp!Heights)
    BY <1>1
  <2>2. k \in DOMAIN lru \/ k \in DOMAIN Comp!Heights
    BY <1>5, <2>1 DEF Comp!Get
  <2>3. QED
    BY <1>4, <2>2 DEF CompInv, ReadAtEnd
<1>6. DOMAIN lru' \subseteq DOMAIN table
  <2> DEFINE kept == [k \in {j \in DOMAIN seen : seen[j] # Comp!Missing} |-> seen[k]]
  <2>1. lru' \in Comp!Fits(Comp!Overlaid(kept, lru))
    BY <1>1 DEF Comp!Keep
  <2>2. DOMAIN kept = {j \in DOMAIN seen : seen[j] # Comp!Missing}
    OBVIOUS
  <2> HIDE DEF kept
  <2>3. DOMAIN lru' \subseteq DOMAIN kept \cup DOMAIN lru
    BY <2>1, CompFits, CompOverlaid
  <2>4. QED
    BY <1>5, <2>2, <2>3 DEF CompInv, ReadAtEnd
<1>7. DOMAIN seen = Comp!Touched /\ found \subseteq DOMAIN Touches
  BY <1>1 DEF CompInv, CompTypes
<1>8. CompTypes'
  <2>1. Comp!Touched \subseteq Keys
    BY <1>7, CompNumbers DEF Comp!Touched
  <2>2. asking' \subseteq Keys
    BY <1>1, <1>7, <2>1
  <2>3. QED
    BY <1>2, <1>3, <2>2 DEF CompInv, CompTypes
<1>9. ReadAtEnd'
  BY <1>2, <1>3, <1>6 DEF CompInv, ReadAtEnd, AtEnd, Excepted
<1>10. ASSUME NEW n \in found, NEW k \in Touches[n] PROVE k \in DOMAIN table \cup asking'
  <2>1. k \in DOMAIN seen
    BY <1>7 DEF Comp!Touched
  <2>2. CASE seen[k] # Comp!Missing
    BY <1>5, <2>1, <2>2
  <2>3. CASE seen[k] = Comp!Missing
    <3>1. n \in Nat
      BY <1>7, CompNumbers
    <3>2. n > seen[k]
      BY <1>3, <2>3, <3>1
    <3>3. QED
      BY <1>1, <2>1, <3>2
  <2>4. QED
    BY <2>2, <2>3
<1>11. RangeCovered'
  <2>1. Comp!From' = Comp!From /\ Comp!To' = Comp!To
    BY <1>2 DEF Comp!From, Comp!To
  <2>2. \A n \in found' : Touches[n] \subseteq DOMAIN table' \cup asking'
    BY <1>2, <1>10
  <2>3. QED
    BY <1>2, <2>1, <2>2 DEF CompInv, RangeCovered
<1>12. QED
  BY <1>8, <1>9, <1>11 DEF CompInv

----------------------------------------------------------------------------
(* The answers. *)

\* Steps that leave the rows, the cache and the heights alone.
LEMMA AnswerComp ==
    ASSUME ProperRange, CompInv, compPc = "query", compPc' \in {"query", "save"},
           compPc' = "save" => DOMAIN answers' = asking,
           DOMAIN answers' \subseteq asking,
           \A k \in DOMAIN answers' : answers'[k].at \in Nat,
           MultiCallContract \/ compPc' = "save" =>
               \A k \in DOMAIN answers' : answers'[k].at >= EndHeight \/ k \in Excepted',
           Excepted \subseteq Excepted',
           UNCHANGED <<curHeight, found, asking, table, head, lru>>
    PROVE  CompInv'
<1>1. CompTypes'
  BY DEF CompInv, CompTypes
<1>2. ReadAtEnd'
  <2>1. \A k \in DOMAIN table' : AtEnd(k, table[k])'
    BY DEF CompInv, ReadAtEnd, AtEnd
  <2>2. MultiCallContract \/ compPc' = "save" =>
            \A k \in DOMAIN answers' : AtEnd(k, answers[k])'
    BY DEF AtEnd
  <2>3. DOMAIN lru' \subseteq DOMAIN table'
    BY DEF CompInv, ReadAtEnd
  <2>4. QED
    BY <2>1, <2>2, <2>3 DEF ReadAtEnd
<1>3. Comp!From' = Comp!From /\ Comp!To' = Comp!To
  BY DEF Comp!From, Comp!To
<1>4. RangeCovered'
  BY <1>3 DEF CompInv, RangeCovered
<1>5. QED
  BY <1>1, <1>2, <1>4 DEF CompInv

LEMMA ReadValueComp ==
    ASSUME ProperRange, CompInv, NEW k \in Keys, Comp!ReadValue(k)
    PROVE  CompInv'
<1> DEFINE new == [j \in {k} |-> [at |-> head, height |-> 0]]
<1>1. /\ ~MultiCallContract /\ compPc = "query" /\ k \in asking \ DOMAIN answers
      /\ answers' = Comp!Overlaid(answers, new) /\ compPc' = compPc
      /\ UNCHANGED <<curHeight, found, asking, table, head, lru, failed, raced>>
  BY DEF Comp!ReadValue, Comp!rowVars, Comp!cacheVars
<1>2. DOMAIN new = {k} /\ new[k].at = head /\ head \in Nat
  BY DEF CompInv, CompTypes
<1> HIDE DEF new
<1>3. /\ DOMAIN answers' = DOMAIN answers \cup {k} /\ answers'[k] = new[k]
      /\ \A j \in DOMAIN answers \ {k} : answers'[j] = answers[j]
  <2>1. PICK over : over = Comp!Overlaid(answers, new)
    OBVIOUS
  <2>2. /\ DOMAIN over = DOMAIN answers \cup DOMAIN new
        /\ \A j \in DOMAIN new : over[j] = new[j]
        /\ \A j \in DOMAIN answers \ DOMAIN new : over[j] = answers[j]
    BY <2>1 DEF Comp!Overlaid
  <2>3. answers' = over
    BY <1>1, <2>1
  <2>4. QED
    BY <1>2, <2>2, <2>3
<1>4. \A j \in DOMAIN answers' : answers'[j].at \in Nat
  BY <1>2, <1>3 DEF CompInv, ReadAtEnd
<1>5. DOMAIN answers' \subseteq asking
  BY <1>1, <1>3 DEF CompInv, CompTypes
<1>6. Excepted' = Excepted
  BY <1>1 DEF Excepted
<1>7. QED
  BY <1>1, <1>4, <1>5, <1>6, AnswerComp

\* The height that comes last tells which values may be too old.
LEMMA ReadHeightComp ==
    ASSUME ProperRange, CompInv, Comp!ReadHeight
    PROVE  CompInv'
<1>1. /\ ~MultiCallContract /\ compPc = "query" /\ asking = DOMAIN answers
      /\ asking # {} => head >= EndHeight
      /\ answers' = [k \in asking |-> [at |-> answers[k].at, height |-> head]]
      /\ raced' = raced \cup {k \in asking : answers[k].at < EndHeight /\ EndHeight <= head}
      /\ compPc' = "save" /\ failed' = failed
      /\ UNCHANGED <<curHeight, found, asking, table, head, lru>>
  BY DEF Comp!ReadHeight, Comp!HighEnough, Comp!cacheVars
<1>2. DOMAIN answers' = asking /\ \A k \in asking : answers'[k].at = answers[k].at
  BY <1>1
<1>3. \A k \in DOMAIN answers' : answers'[k].at \in Nat
  BY <1>1, <1>2 DEF CompInv, ReadAtEnd
<1>4. ASSUME NEW k \in DOMAIN answers'
      PROVE  answers'[k].at >= EndHeight \/ k \in Excepted'
  <2>1. k \in asking /\ answers[k].at \in Nat /\ answers'[k].at = answers[k].at
    BY <1>1, <1>2, <1>4 DEF CompInv, ReadAtEnd
  <2>2. head >= EndHeight /\ head \in Nat /\ EndHeight \in Nat
    BY <1>1, <2>1, CompNumbers DEF CompInv, CompTypes
  <2>3. CASE answers[k].at >= EndHeight
    BY <2>1, <2>3
  <2>4. CASE ~(answers[k].at >= EndHeight)
    <3>1. answers[k].at < EndHeight /\ EndHeight <= head
      BY <2>1, <2>2, <2>4
    <3>2. k \in raced'
      BY <1>1, <2>1, <3>1
    <3>3. QED
      BY <3>2 DEF Excepted
  <2>5. QED
    BY <2>3, <2>4
<1>5. Excepted \subseteq Excepted'
  BY <1>1 DEF Excepted
<1>6. QED
  BY <1>1, <1>2, <1>3, <1>4, <1>5, AnswerComp

LEMMA ElementRevertsComp ==
    ASSUME ProperRange, CompInv, NEW k \in Keys, Comp!ElementReverts(k)
    PROVE  CompInv'
<1> DEFINE new == [j \in {k} |-> [at |-> 0, height |-> 0]]
<1>1. /\ ~MultiCallContract /\ compPc = "query" /\ k \in asking \ DOMAIN answers
      /\ failed' = failed \cup {k} /\ raced' = raced
      /\ answers' = Comp!Overlaid(answers, new) /\ compPc' = compPc
      /\ UNCHANGED <<curHeight, found, asking, table, head, lru>>
  BY DEF Comp!ElementReverts, Comp!cacheVars
<1>2. DOMAIN new = {k} /\ new[k].at = 0
  OBVIOUS
<1> HIDE DEF new
<1>3. /\ DOMAIN answers' = DOMAIN answers \cup {k} /\ answers'[k] = new[k]
      /\ \A j \in DOMAIN answers \ {k} : answers'[j] = answers[j]
  <2>1. PICK over : over = Comp!Overlaid(answers, new)
    OBVIOUS
  <2>2. /\ DOMAIN over = DOMAIN answers \cup DOMAIN new
        /\ \A j \in DOMAIN new : over[j] = new[j]
        /\ \A j \in DOMAIN answers \ DOMAIN new : over[j] = answers[j]
    BY <2>1 DEF Comp!Overlaid
  <2>3. answers' = over
    BY <1>1, <2>1
  <2>4. QED
    BY <1>2, <2>2, <2>3
<1>4. \A j \in DOMAIN answers' : answers'[j].at \in Nat
  BY <1>2, <1>3 DEF CompInv, ReadAtEnd
<1>5. DOMAIN answers' \subseteq asking
  BY <1>1, <1>3 DEF CompInv, CompTypes
<1>6. Excepted \subseteq Excepted'
  BY <1>1 DEF Excepted
<1>7. QED
  BY <1>1, <1>4, <1>5, <1>6, AnswerComp

LEMMA CallContractComp ==
    ASSUME ProperRange, CompInv, NEW k \in Keys, Comp!CallContract(k)
    PROVE  CompInv'
<1> DEFINE new == [j \in {k} |-> [at |-> head, height |-> head]]
<1>1. /\ MultiCallContract /\ compPc = "query" /\ k \in asking \ DOMAIN answers
      /\ head >= EndHeight
      /\ answers' = Comp!Overlaid(answers, new) /\ compPc' = compPc
      /\ UNCHANGED <<curHeight, found, asking, table, head, lru, failed, raced>>
  BY DEF Comp!CallContract, Comp!HighEnough, Comp!rowVars, Comp!cacheVars
<1>2. DOMAIN new = {k} /\ new[k].at = head /\ head \in Nat
  BY DEF CompInv, CompTypes
<1> HIDE DEF new
<1>3. /\ DOMAIN answers' = DOMAIN answers \cup {k} /\ answers'[k] = new[k]
      /\ \A j \in DOMAIN answers \ {k} : answers'[j] = answers[j]
  <2>1. PICK over : over = Comp!Overlaid(answers, new)
    OBVIOUS
  <2>2. /\ DOMAIN over = DOMAIN answers \cup DOMAIN new
        /\ \A j \in DOMAIN new : over[j] = new[j]
        /\ \A j \in DOMAIN answers \ DOMAIN new : over[j] = answers[j]
    BY <2>1 DEF Comp!Overlaid
  <2>3. answers' = over
    BY <1>1, <2>1
  <2>4. QED
    BY <1>2, <2>2, <2>3
<1>4. \A j \in DOMAIN answers' : answers'[j].at \in Nat
  BY <1>2, <1>3 DEF CompInv, ReadAtEnd
<1>5. DOMAIN answers' \subseteq asking
  BY <1>1, <1>3 DEF CompInv, CompTypes
<1>6. Excepted' = Excepted
  BY <1>1 DEF Excepted
<1>7. \A j \in DOMAIN answers' : answers'[j].at >= EndHeight \/ j \in Excepted'
  BY <1>1, <1>2, <1>3, <1>6 DEF CompInv, ReadAtEnd, AtEnd
<1>8. QED
  BY <1>1, <1>4, <1>5, <1>6, <1>7, AnswerComp

LEMMA CallFailsComp ==
    ASSUME ProperRange, CompInv, NEW k \in Keys, Comp!CallFails(k)
    PROVE  CompInv'
<1> DEFINE new == [j \in {k} |->
                      [at |-> 0, height |-> Comp!Max({n \in found : k \in Touches[n]})]]
<1>1. /\ MultiCallContract /\ compPc = "query" /\ k \in asking \ DOMAIN answers
      /\ failed' = failed \cup {k} /\ raced' = raced
      /\ answers' = Comp!Overlaid(answers, new) /\ compPc' = compPc
      /\ UNCHANGED <<curHeight, found, asking, table, head, lru>>
  BY DEF Comp!CallFails, Comp!cacheVars
<1>2. DOMAIN new = {k} /\ new[k].at = 0
  OBVIOUS
<1> HIDE DEF new
<1>3. /\ DOMAIN answers' = DOMAIN answers \cup {k} /\ answers'[k] = new[k]
      /\ \A j \in DOMAIN answers \ {k} : answers'[j] = answers[j]
  <2>1. PICK over : over = Comp!Overlaid(answers, new)
    OBVIOUS
  <2>2. /\ DOMAIN over = DOMAIN answers \cup DOMAIN new
        /\ \A j \in DOMAIN new : over[j] = new[j]
        /\ \A j \in DOMAIN answers \ DOMAIN new : over[j] = answers[j]
    BY <2>1 DEF Comp!Overlaid
  <2>3. answers' = over
    BY <1>1, <2>1
  <2>4. QED
    BY <1>2, <2>2, <2>3
<1>4. \A j \in DOMAIN answers' : answers'[j].at \in Nat
  BY <1>2, <1>3 DEF CompInv, ReadAtEnd
<1>5. DOMAIN answers' \subseteq asking
  BY <1>1, <1>3 DEF CompInv, CompTypes
<1>6. Excepted \subseteq Excepted' /\ k \in Excepted'
  BY <1>1 DEF Excepted
<1>7. \A j \in DOMAIN answers' : answers'[j].at >= EndHeight \/ j \in Excepted'
  BY <1>1, <1>3, <1>6 DEF CompInv, ReadAtEnd, AtEnd
<1>8. QED
  BY <1>1, <1>4, <1>5, <1>6, <1>7, AnswerComp

LEMMA CallsDoneComp ==
    ASSUME ProperRange, CompInv, Comp!CallsDone
    PROVE  CompInv'
<1>1. /\ MultiCallContract /\ compPc = "query" /\ asking = DOMAIN answers /\ compPc' = "save"
      /\ UNCHANGED <<curHeight, found, asking, answers, table, failed, raced, head, lru>>
  BY DEF Comp!CallsDone, Comp!rowVars, Comp!cacheVars
<1>2. Excepted' = Excepted
  BY <1>1 DEF Excepted
<1>3. \A j \in DOMAIN answers' : answers'[j].at \in Nat
  BY <1>1 DEF CompInv, ReadAtEnd
<1>4. \A j \in DOMAIN answers' : answers'[j].at >= EndHeight \/ j \in Excepted'
  BY <1>1, <1>2 DEF CompInv, ReadAtEnd, AtEnd
<1>5. QED
  BY <1>1, <1>2, <1>3, <1>4, AnswerComp

----------------------------------------------------------------------------
\* With the rows of the last query, the balances up to its last block have one,
\* and there are no blocks between that one and the end of the query.
LEMMA SaveComp ==
    ASSUME ProperRange, CompInv, Comp!Save
    PROVE  CompInv'
<1> DEFINE heights == [k \in DOMAIN answers |-> answers[k].height]
<1>1. /\ compPc = "save" /\ compPc' = "loop" /\ curHeight' = Comp!Max(found)
      /\ table' = Comp!Overlaid(table, answers)
      /\ lru' \in Comp!Fits(Comp!Overlaid(lru, heights))
      /\ asking' = {} /\ answers' = Comp!Empty /\ found' = {}
      /\ failed' = failed /\ raced' = raced /\ head' = head
  BY DEF Comp!Save, Comp!Add
<1>2. DOMAIN heights = DOMAIN answers
  OBVIOUS
<1> HIDE DEF heights
<1>3. DOMAIN Comp!Empty = {}
  BY DEF Comp!Empty
<1>4. /\ DOMAIN table' = DOMAIN table \cup DOMAIN answers
      /\ \A k \in DOMAIN answers : table'[k] = answers[k]
      /\ \A k \in DOMAIN table \ DOMAIN answers : table'[k] = table[k]
  <2>1. PICK over : over = Comp!Overlaid(table, answers)
    OBVIOUS
  <2>2. /\ DOMAIN over = DOMAIN table \cup DOMAIN answers
        /\ \A k \in DOMAIN answers : over[k] = answers[k]
        /\ \A k \in DOMAIN table \ DOMAIN answers : over[k] = table[k]
    BY <2>1 DEF Comp!Overlaid
  <2>3. table' = over
    BY <1>1, <2>1
  <2>4. QED
    BY <2>2, <2>3
<1>5. DOMAIN answers = asking
  BY <1>1 DEF CompInv, ReadAtEnd
<1>6. DOMAIN lru' \subseteq DOMAIN table'
  <2>1. DOMAIN lru' \subseteq DOMAIN lru \cup DOMAIN answers
    BY <1>1, <1>2, CompFits, CompOverlaid
  <2>2. QED
    BY <1>4, <2>1 DEF CompInv, ReadAtEnd
<1>7. ReadAtEnd'
  <2>1. \A k \in DOMAIN table' : AtEnd(k, table'[k])
    BY <1>1, <1>4 DEF CompInv, ReadAtEnd
  <2>2. \A k \in DOMAIN table' : AtEnd(k, table[k])'
    BY <1>1, <2>1 DEF AtEnd, Excepted
  <2>3. QED
    BY <1>1, <1>3, <1>6, <2>2 DEF ReadAtEnd
<1>8. /\ found # {} /\ found \subseteq DOMAIN Touches
      /\ found = DOMAIN Touches \cap (Comp!From..Comp!To)
      /\ \A n \in found : Touches[n] \subseteq DOMAIN table \cup asking
      /\ curHeight \in Nat /\ curHeight >= StartHeight - 1
  BY <1>1 DEF CompInv, RangeCovered, CompTypes
<1>9. PICK n0 \in found : TRUE
  BY <1>8
<1>10. Comp!From = curHeight + 1 /\ found \subseteq Nat
  BY <1>8, CompNumbers DEF Comp!From
<1>11. Comp!Min({curHeight + 1 + BatchBlockCount, EndHeight}) \in
           {curHeight + 1 + BatchBlockCount, EndHeight}
  <2> DEFINE p == curHeight + 1 + BatchBlockCount
  <2>1. p \in Nat /\ EndHeight \in Nat
    BY <1>8, CompNumbers
  <2>2. \E m \in {p, EndHeight} : \A x \in {p, EndHeight} : m <= x
    BY <2>1
  <2>3. QED
    BY <2>2 DEF Comp!Min
<1>12. Comp!To \in Nat
  <2>1. PICK p \in Nat : p = curHeight + 1 + BatchBlockCount
    BY <1>8, CompNumbers
  <2>2. PICK m : m = Comp!Min({curHeight + 1 + BatchBlockCount, EndHeight})
    OBVIOUS
  <2>3. m \in {p, EndHeight}
    BY <1>11, <2>1, <2>2
  <2>4. m \in Nat
    BY <2>3, CompNumbers
  <2>5. QED
    BY <2>2, <2>4, Zenon DEF Comp!To
<1>13. /\ Comp!Max(found) \in found /\ \A n \in found : n <= Comp!Max(found)
  <2>1. found \subseteq 0..Comp!To
    BY <1>8, <1>10, <1>12
  <2>2. QED
    BY <1>8, <1>12, <2>1, GreatestNumber
<1>14. PICK last : last = Comp!Max(found)
  OBVIOUS
<1>15. /\ last \in Nat /\ last >= curHeight + 1 /\ last <= Comp!To
       /\ curHeight' = last /\ last \in found
       /\ \A n \in found : n <= last
  BY <1>1, <1>8, <1>10, <1>12, <1>13, <1>14
<1>16. CompTypes'
  <2>1. curHeight' \in Nat /\ curHeight' >= StartHeight - 1
    BY <1>8, <1>15, CompNumbers
  <2>2. QED
    BY <1>1, <1>3, <2>1 DEF CompInv, CompTypes
<1>17. ASSUME NEW n \in Until(curHeight') PROVE Touches[n] \subseteq DOMAIN table'
  <2>1. n \in DOMAIN Touches /\ StartHeight <= n /\ n <= EndHeight /\ n <= last /\ n \in Nat
    BY <1>15, CompNumbers DEF Until
  <2>2. CASE n <= curHeight
    <3>1. n \in Until(curHeight)
      BY <2>1, <2>2 DEF Until
    <3>2. QED
      BY <1>4, <3>1 DEF CompInv, RangeCovered
  <2>3. CASE ~(n <= curHeight)
    <3>1. n \in Comp!From..Comp!To
      BY <1>8, <1>10, <1>12, <1>15, <2>1, <2>3
    <3>2. n \in found
      BY <1>8, <2>1, <3>1
    <3>3. QED
      BY <1>4, <1>5, <1>8, <3>2
  <2>4. QED
    BY <2>2, <2>3
<1>18. RangeCovered'
  BY <1>1, <1>17 DEF RangeCovered
<1>19. QED
  BY <1>7, <1>16, <1>18 DEF CompInv

LEMMA FailsComp ==
    ASSUME ProperRange, CompInv, Comp!Fails
    PROVE  CompInv'
<1>1. /\ compPc \in {"query", "save"} /\ compPc' \in {compPc, "exited"}
      /\ answers' = IF compPc = "query" THEN Comp!Empty ELSE answers
      /\ UNCHANGED <<curHeight, found, asking, table, failed, raced, lru, head>>
  BY DEF Comp!Fails, Comp!rowVars, Comp!cacheVars
<1>2. DOMAIN Comp!Empty = {}
  BY DEF Comp!Empty
<1>3. DOMAIN answers' \subseteq DOMAIN answers
      /\ \A k \in DOMAIN answers' : answers'[k] = answers[k]
  BY <1>1, <1>2
<1>4. CompTypes'
  BY <1>1, <1>3 DEF CompInv, CompTypes
<1>5. ReadAtEnd'
  <2>1. compPc' = "save" => compPc = "save" /\ answers' = answers
    BY <1>1
  <2>2. QED
    BY <1>1, <1>3, <2>1 DEF CompInv, ReadAtEnd, AtEnd, Excepted
<1>6. Comp!From' = Comp!From /\ Comp!To' = Comp!To
  BY <1>1 DEF Comp!From, Comp!To
<1>7. RangeCovered'
  BY <1>1, <1>6 DEF CompInv, RangeCovered
<1>8. QED
  BY <1>4, <1>5, <1>7 DEF CompInv

\* The node grows, or nothing happens.
LEMMA QuietComp ==
    ASSUME ProperRange, CompInv, head' \in Nat,
           UNCHANGED <<compPc, curHeight, found, asking, answers, table, failed, raced, lru>>
    PROVE  CompInv'
<1>1. CompTypes'
  BY DEF CompInv, CompTypes
<1>2. ReadAtEnd'
  BY DEF CompInv, ReadAtEnd, AtEnd, Excepted
<1>3. Comp!From' = Comp!From /\ Comp!To' = Comp!To
  BY DEF Comp!From, Comp!To
<1>4. RangeCovered'
  BY <1>3 DEF CompInv, RangeCovered
<1>5. QED
  BY <1>1, <1>2, <1>4 DEF CompInv

LEMMA NextComp ==
    ASSUME ProperRange, CompInv, [Comp!Next]_Comp!vars
    PROVE  CompInv'
<1>1. CASE Comp!Work
  <2>1. CASE Comp!ReadFound \/ Comp!Done \/ Comp!AskForTouched
    BY <2>1, ReadFoundComp, DoneComp, AskComp
  <2>2. CASE Comp!ReadHeight \/ Comp!CallsDone \/ Comp!Save \/ Comp!Fails
    BY <2>2, ReadHeightComp, CallsDoneComp, SaveComp, FailsComp
  <2>3. CASE \E k \in Keys : \/ Comp!ReadValue(k) \/ Comp!ElementReverts(k)
                           \/ Comp!CallContract(k) \/ Comp!CallFails(k)
    BY <2>3, ReadValueComp, ElementRevertsComp, CallContractComp, CallFailsComp
  <2>4. QED
    BY <1>1, <2>1, <2>2, <2>3 DEF Comp!Work
<1>2. CASE Comp!NodeGrows
  <2>1. /\ head' = head + 1 /\ head \in Nat
        /\ UNCHANGED <<compPc, curHeight, found, asking, answers, table, failed, raced, lru>>
    BY <1>2 DEF Comp!NodeGrows, Comp!toolVars, Comp!rowVars, Comp!cacheVars, CompInv, CompTypes
  <2>2. QED
    BY <2>1, QuietComp
<1>3. CASE UNCHANGED Comp!vars
  <2>1. /\ head' = head /\ head \in Nat
        /\ UNCHANGED <<compPc, curHeight, found, asking, answers, table, failed, raced, lru>>
    BY <1>3 DEF Comp!vars, Comp!toolVars, Comp!rowVars, Comp!cacheVars, CompInv, CompTypes
  <2>2. QED
    BY <2>1, QuietComp
<1>4. QED
  BY <1>1, <1>2, <1>3 DEF Comp!Next

LEMMA InvCompensated ==
    ASSUME ProperRange, CompInv
    PROVE  Comp!Compensated
<1> SUFFICES ASSUME compPc = "done",
                    NEW n \in DOMAIN Touches \cap (StartHeight..EndHeight),
                    NEW k \in Touches[n] \ (failed \cup raced)
             PROVE  k \in DOMAIN table /\ table[k].at >= n
  BY DEF Comp!Compensated
<1>1. n \in Nat /\ StartHeight <= n /\ n <= EndHeight /\ EndHeight \in Nat
  BY CompNumbers
<1>2. curHeight >= EndHeight /\ curHeight \in Nat
  BY DEF CompInv, RangeCovered, CompTypes
<1>3. n \in Until(curHeight)
  BY <1>1, <1>2 DEF Until
<1>4. k \in DOMAIN table
  BY <1>3 DEF CompInv, RangeCovered
<1>5. table[k].at \in Nat /\ table[k].at >= EndHeight
  BY <1>4 DEF CompInv, ReadAtEnd, AtEnd, Excepted
<1>6. QED
  BY <1>1, <1>4, <1>5

\* When compensation is done, every balance that a block of the range touches has
\* a row that was read at that block or above it, but for those whose call failed
\* and those read while the node reached the end of the range: for every range
\* that does not start at 0, every size of the batches and of the cache, with the
\* contract and without it.
THEOREM RangeIsCompensated ==
    ASSUME ProperRange
    PROVE  Comp!Spec => []Comp!Compensated
<1>1. Comp!Init => CompInv
  BY InitComp
<1>2. CompInv /\ [Comp!Next]_Comp!vars => CompInv'
  BY NextComp
<1>3. CompInv => Comp!Compensated
  BY InvCompensated
<1>4. QED
  BY <1>1, <1>2, <1>3, PTL DEF Comp!Spec

----------------------------------------------------------------------------
(* The tool itxpatcher.                                                     *)

CONSTANTS BeginNum, EndNum, FetchWorkers, SaveWorkers, Traced, MaxFails

VARIABLES nextNum, fetchInput, fetching, toSend, saveInput, saveClosed, saving, resend, rows,
          fails, patcherPc

Patcher == INSTANCE ItxPatcher WITH i <- nextNum, pc <- patcherPc

Nums == Patcher!Nums

New == {"new", "timeless"}

\* What is on its way to the tables are new rows.
PatcherTypes ==
    /\ \A b \in DOMAIN toSend : toSend[b] \in New
    /\ saveInput \in Seq(Nums \X New) /\ resend \subseteq Nums \X New
    /\ \A b \in DOMAIN saving :
          b \in Nums /\ saving[b] \in [rows : New, step : {"delete", "insert"}]
    /\ rows \in [Nums -> New \cup {"old", "none"}]

\* A save worker, the pool or a goroutine that sends again has the block.
Waits(b) == b \in DOMAIN saving \/ \E x \in Patcher!ToSet(saveInput) \cup resend : x[1] = b

DeletedWait == \A b \in Nums : rows[b] = "none" => Waits(b)

PatcherInv == PatcherTypes /\ DeletedWait

\* A step of the save workers: what is patched, or waits, does so afterwards.
SavingKeeps ==
    /\ UNCHANGED <<nextNum, fetchInput, fetching>>
    /\ \A c \in Nums : rows[c] \in New \/ Waits(c) => rows'[c] \in New \/ Waits(c)'

----------------------------------------------------------------------------
LEMMA ToSetFacts ==
    ASSUME NEW S, NEW s \in Seq(S)
    PROVE  /\ \A x \in S : Patcher!ToSet(Append(s, x)) = Patcher!ToSet(s) \cup {x}
           /\ s # <<>> => /\ Head(s) \in S /\ Tail(s) \in Seq(S)
                          /\ Patcher!ToSet(s) = Patcher!ToSet(Tail(s)) \cup {Head(s)}
<1>1. PICK n : n = Len(s)
  OBVIOUS
<1>2. n \in Nat /\ DOMAIN s = 1..n
  BY <1>1, LenProperties
<1>3. Patcher!ToSet(s) = {s[j] : j \in 1..n}
  BY <1>2 DEF Patcher!ToSet
<1>4. ASSUME NEW x \in S PROVE Patcher!ToSet(Append(s, x)) = Patcher!ToSet(s) \cup {x}
  <2>1. PICK t : t = Append(s, x)
    OBVIOUS
  <2>2. /\ t \in Seq(S) /\ Len(t) = n + 1 /\ t[n + 1] = x
        /\ \A j \in 1..n : t[j] = s[j]
    BY <1>1, <2>1, AppendProperties
  <2>3. DOMAIN t = 1..(n + 1)
    BY <2>2, LenProperties
  <2>4. Patcher!ToSet(t) = {t[j] : j \in 1..(n + 1)}
    BY <2>3 DEF Patcher!ToSet
  <2>5. {t[j] : j \in 1..(n + 1)} = {s[j] : j \in 1..n} \cup {x}
    BY <1>2, <2>2
  <2>6. QED
    BY <1>3, <2>1, <2>4, <2>5
<1>5. ASSUME s # <<>>
      PROVE  /\ Head(s) \in S /\ Tail(s) \in Seq(S)
             /\ Patcher!ToSet(s) = Patcher!ToSet(Tail(s)) \cup {Head(s)}
  <2>1. PICK t : t = Tail(s)
    OBVIOUS
  <2>2. /\ Head(s) \in S /\ t \in Seq(S) /\ Len(t) = n - 1
        /\ \A j \in 1..(n - 1) : t[j] = s[j + 1]
    BY <1>1, <1>5, <2>1, HeadTailProperties
  <2>3. n # 0 /\ Head(s) = s[1]
    BY <1>1, <1>5, EmptySeq
  <2>4. DOMAIN t = 1..(n - 1)
    BY <2>2, LenProperties
  <2>5. Patcher!ToSet(t) = {t[j] : j \in 1..(n - 1)}
    BY <2>4 DEF Patcher!ToSet
  <2>6. ASSUME NEW j \in 1..n PROVE s[j] \in {t[k] : k \in 1..(n - 1)} \cup {Head(s)}
    <3>1. CASE j = 1
      BY <2>3, <3>1
    <3>2. CASE j # 1
      <4>1. j - 1 \in 1..(n - 1) /\ (j - 1) + 1 = j
        BY <1>2, <2>6, <3>2
      <4>2. t[j - 1] = s[j]
        BY <2>2, <4>1
      <4>3. QED
        BY <4>1, <4>2
    <3>3. QED
      BY <3>1, <3>2
  <2>7. ASSUME NEW k \in 1..(n - 1) PROVE t[k] \in {s[j] : j \in 1..n}
    <3>1. k + 1 \in 1..n /\ t[k] = s[k + 1]
      BY <1>2, <2>2, <2>7
    <3>2. QED
      BY <3>1
  <2>8. Head(s) \in {s[j] : j \in 1..n}
    BY <1>2, <2>3
  <2>9. {s[j] : j \in 1..n} = {t[k] : k \in 1..(n - 1)} \cup {Head(s)}
    BY <2>6, <2>7, <2>8
  <2>10. QED
    BY <1>3, <2>1, <2>2, <2>5, <2>9
<1>6. QED
  BY <1>4, <1>5

LEMMA InitPatcher == ASSUME Patcher!Init PROVE PatcherInv
<1>1. /\ toSend = <<>> /\ saveInput = <<>> /\ saving = <<>> /\ resend = {}
      /\ rows = [b \in Nums |-> "old"]
  BY DEF Patcher!Init, Nums
<1>2. DOMAIN <<>> = {} /\ <<>> \in Seq(Nums \X New)
  OBVIOUS
<1>3. PatcherTypes
  BY <1>1, <1>2 DEF PatcherTypes, New
<1>4. DeletedWait
  BY <1>1 DEF DeletedWait
<1>5. QED
  BY <1>3, <1>4 DEF PatcherInv

\* Steps that leave what waits, and the rows, alone.
LEMMA WaitsStay ==
    ASSUME PatcherInv, \A b \in DOMAIN toSend' : toSend'[b] \in New,
           UNCHANGED <<saveInput, saving, resend, rows>>
    PROVE  PatcherInv'
<1>1. PatcherTypes'
  BY DEF PatcherInv, PatcherTypes
<1>2. \A b \in Nums : Waits(b) => Waits(b)'
  BY DEF Waits
<1>3. DeletedWait'
  BY <1>2 DEF PatcherInv, DeletedWait
<1>4. QED
  BY <1>1, <1>3 DEF PatcherInv

LEMMA FetchPatcher ==
    ASSUME PatcherInv, NEW b \in Nums, Patcher!FetchInternalTx(b)
    PROVE  PatcherInv'
<1>1. /\ \E x \in New : toSend' = Patcher!With(toSend, b, x)
      /\ UNCHANGED <<saveInput, saving, resend, rows>>
  BY DEF Patcher!FetchInternalTx, New
<1>2. PICK x \in New : toSend' = Patcher!With(toSend, b, x)
  BY <1>1
<1>3. PICK h : h = Patcher!With(toSend, b, x)
  OBVIOUS
<1>4. /\ DOMAIN h = DOMAIN toSend \cup {b} /\ h[b] = x
      /\ \A c \in DOMAIN toSend \ {b} : h[c] = toSend[c]
  BY <1>3 DEF Patcher!With
<1>5. \A c \in DOMAIN h : h[c] \in New
  BY <1>2, <1>4 DEF PatcherInv, PatcherTypes
<1>6. QED
  BY <1>1, <1>2, <1>3, <1>5, WaitsStay

LEMMA SendRowsPatcher ==
    ASSUME PatcherInv, NEW b \in Nums, Patcher!SendRows(b)
    PROVE  PatcherInv'
<1>1. /\ b \in DOMAIN toSend /\ saveInput' = Append(saveInput, <<b, toSend[b]>>)
      /\ toSend' = Patcher!Without(toSend, b)
      /\ UNCHANGED <<saving, resend, rows>>
  BY DEF Patcher!SendRows
<1>2. <<b, toSend[b]>> \in Nums \X New /\ saveInput \in Seq(Nums \X New)
  BY <1>1 DEF PatcherInv, PatcherTypes
<1>3. /\ saveInput' \in Seq(Nums \X New)
      /\ Patcher!ToSet(saveInput') = Patcher!ToSet(saveInput) \cup {<<b, toSend[b]>>}
  <2>1. PICK S : S = Nums \X New
    OBVIOUS
  <2>2. PICK e : e = <<b, toSend[b]>>
    OBVIOUS
  <2>3. e \in S /\ saveInput \in Seq(S)
    BY <1>2, <2>1, <2>2
  <2>4. Append(saveInput, e) \in Seq(S)
    BY <2>3, AppendProperties
  <2>5. Patcher!ToSet(Append(saveInput, e)) = Patcher!ToSet(saveInput) \cup {e}
    BY <2>3, ToSetFacts
  <2>6. saveInput' = Append(saveInput, e)
    BY <1>1, <2>2
  <2>7. QED
    BY <2>1, <2>2, <2>4, <2>5, <2>6
<1>4. PICK h : h = Patcher!Without(toSend, b)
  OBVIOUS
<1>5. \A c \in DOMAIN h : h[c] \in New
  <2>1. DOMAIN h = DOMAIN toSend \ {b} /\ \A c \in DOMAIN h : h[c] = toSend[c]
    BY <1>4 DEF Patcher!Without
  <2>2. QED
    BY <2>1 DEF PatcherInv, PatcherTypes
<1>6. PatcherTypes'
  BY <1>1, <1>3, <1>4, <1>5 DEF PatcherInv, PatcherTypes
<1>7. \A c \in Nums : Waits(c) => Waits(c)'
  BY <1>1, <1>3 DEF Waits
<1>8. DeletedWait'
  BY <1>1, <1>7 DEF PatcherInv, DeletedWait
<1>9. QED
  BY <1>6, <1>8 DEF PatcherInv

\* A block goes from the pool to a worker.
LEMMA TakeRowsPatcher ==
    ASSUME PatcherInv, Patcher!TakeRows
    PROVE  PatcherInv' /\ SavingKeeps
<1>1. PICK x : x = Head(saveInput)
  OBVIOUS
<1>2. /\ saveInput # <<>> /\ saveInput' = Tail(saveInput)
      /\ saving' = Patcher!With(saving, x[1], [rows |-> x[2], step |-> "delete"])
      /\ UNCHANGED <<toSend, resend, rows>>
  BY <1>1 DEF Patcher!TakeRows
<1>3. saveInput \in Seq(Nums \X New)
  BY DEF PatcherInv, PatcherTypes
<1>4. /\ x \in Nums \X New /\ saveInput' \in Seq(Nums \X New)
      /\ Patcher!ToSet(saveInput) = Patcher!ToSet(saveInput') \cup {x}
  BY <1>1, <1>2, <1>3, ToSetFacts
<1>5. PICK r : r = [rows |-> x[2], step |-> "delete"]
  OBVIOUS
<1>6. x[1] \in Nums /\ r \in [rows : New, step : {"delete", "insert"}]
  BY <1>4, <1>5
<1>7. PICK h : h = Patcher!With(saving, x[1], r)
  OBVIOUS
<1>8. /\ DOMAIN h = DOMAIN saving \cup {x[1]} /\ h[x[1]] = r
      /\ \A c \in DOMAIN saving \ {x[1]} : h[c] = saving[c]
  BY <1>7 DEF Patcher!With
<1>9. saving' = h
  BY <1>2, <1>5, <1>7
<1>10. \A c \in DOMAIN h : c \in Nums /\ h[c] \in [rows : New, step : {"delete", "insert"}]
  BY <1>6, <1>8 DEF PatcherInv, PatcherTypes
<1>11. PatcherTypes'
  BY <1>2, <1>4, <1>9, <1>10 DEF PatcherInv, PatcherTypes
<1>12. \A c \in Nums : Waits(c) => Waits(c)'
  BY <1>2, <1>4, <1>8, <1>9 DEF Waits
<1>13. DeletedWait'
  BY <1>2, <1>12 DEF PatcherInv, DeletedWait
<1>14. SavingKeeps
  BY <1>2, <1>12 DEF SavingKeeps, Patcher!TakeRows
<1>15. QED
  BY <1>11, <1>13, <1>14 DEF PatcherInv

LEMMA DeleteRowsPatcher ==
    ASSUME PatcherInv, NEW b \in Nums, Patcher!DeleteRows(b)
    PROVE  PatcherInv' /\ SavingKeeps
<1>1. /\ b \in DOMAIN saving /\ rows' = [rows EXCEPT ![b] = "none"]
      /\ saving' = [saving EXCEPT ![b].step = "insert"]
      /\ UNCHANGED <<toSend, saveInput, resend>>
  BY DEF Patcher!DeleteRows
<1>2. /\ DOMAIN saving' = DOMAIN saving
      /\ \A c \in DOMAIN saving \ {b} : saving'[c] = saving[c]
      /\ saving'[b] = [saving[b] EXCEPT !.step = "insert"]
  BY <1>1
<1>3. saving'[b] \in [rows : New, step : {"delete", "insert"}]
  BY <1>1, <1>2 DEF PatcherInv, PatcherTypes
<1>4. /\ rows' \in [Nums -> New \cup {"old", "none"}]
      /\ \A c \in Nums : c # b => rows'[c] = rows[c]
  BY <1>1 DEF PatcherInv, PatcherTypes
<1>5. PatcherTypes'
  BY <1>1, <1>2, <1>3, <1>4 DEF PatcherInv, PatcherTypes
<1>6. \A c \in Nums : Waits(c) => Waits(c)'
  BY <1>1, <1>2 DEF Waits
<1>7. Waits(b)'
  BY <1>1, <1>2 DEF Waits
<1>8. DeletedWait'
  BY <1>4, <1>6, <1>7 DEF PatcherInv, DeletedWait
<1>9. SavingKeeps
  BY <1>4, <1>6, <1>7 DEF SavingKeeps, Patcher!DeleteRows
<1>10. QED
  BY <1>5, <1>8, <1>9 DEF PatcherInv

\* The worker lets go of the block when its rows are there.
LEMMA InsertRowsPatcher ==
    ASSUME PatcherInv, NEW b \in Nums, Patcher!InsertRows(b)
    PROVE  PatcherInv' /\ SavingKeeps
<1>1. /\ b \in DOMAIN saving /\ rows' = [rows EXCEPT ![b] = saving[b].rows]
      /\ saving' = Patcher!Without(saving, b)
      /\ UNCHANGED <<toSend, saveInput, resend>>
  BY DEF Patcher!InsertRows
<1>2. PICK h : h = Patcher!Without(saving, b)
  OBVIOUS
<1>3. DOMAIN h = DOMAIN saving \ {b} /\ \A c \in DOMAIN h : h[c] = saving[c]
  BY <1>2 DEF Patcher!Without
<1>4. saving' = h
  BY <1>1, <1>2
<1>5. saving[b].rows \in New
  BY <1>1 DEF PatcherInv, PatcherTypes
<1>6. /\ rows' \in [Nums -> New \cup {"old", "none"}] /\ rows'[b] # "none"
      /\ \A c \in Nums : c # b => rows'[c] = rows[c]
  BY <1>1, <1>5 DEF PatcherInv, PatcherTypes, New
<1>7. PatcherTypes'
  BY <1>1, <1>3, <1>4, <1>6 DEF PatcherInv, PatcherTypes
<1>8. \A c \in Nums : c # b /\ Waits(c) => Waits(c)'
  BY <1>1, <1>3, <1>4 DEF Waits
<1>9. DeletedWait'
  BY <1>6, <1>8 DEF PatcherInv, DeletedWait
<1>10. SavingKeeps
  <2>1. rows'[b] \in New
    BY <1>1, <1>5 DEF PatcherInv, PatcherTypes
  <2>2. QED
    BY <1>6, <1>8, <2>1 DEF SavingKeeps, Patcher!InsertRows
<1>11. QED
  BY <1>7, <1>9, <1>10 DEF PatcherInv

\* The worker lets go of the block, and a goroutine has it.
LEMMA SaveFailsPatcher ==
    ASSUME PatcherInv, NEW b \in Nums, Patcher!SaveFails(b)
    PROVE  PatcherInv' /\ SavingKeeps
<1>1. PICK x : x = <<b, saving[b].rows>>
  OBVIOUS
<1>2. /\ b \in DOMAIN saving /\ resend' = resend \cup {x}
      /\ saving' = Patcher!Without(saving, b)
      /\ UNCHANGED <<toSend, saveInput>>
      /\ rows' = rows \/ \E r \in New \cup {"none"} : rows' = [rows EXCEPT ![b] = r]
  BY <1>1 DEF Patcher!SaveFails, Patcher!Again, PatcherInv, PatcherTypes
<1>3. PICK h : h = Patcher!Without(saving, b)
  OBVIOUS
<1>4. DOMAIN h = DOMAIN saving \ {b} /\ \A c \in DOMAIN h : h[c] = saving[c]
  BY <1>3 DEF Patcher!Without
<1>5. saving' = h
  BY <1>2, <1>3
<1>6. saving[b].rows \in New /\ x \in Nums \X New /\ x[1] = b
  BY <1>1, <1>2 DEF PatcherInv, PatcherTypes
<1>7. /\ rows' \in [Nums -> New \cup {"old", "none"}]
      /\ \A c \in Nums : c # b => rows'[c] = rows[c]
  BY <1>2 DEF PatcherInv, PatcherTypes
<1>8. PatcherTypes'
  BY <1>2, <1>4, <1>5, <1>6, <1>7 DEF PatcherInv, PatcherTypes
<1>9. \A c \in Nums : c # b /\ Waits(c) => Waits(c)'
  BY <1>2, <1>4, <1>5 DEF Waits
<1>10. Waits(b)'
  BY <1>2, <1>6 DEF Waits
<1>11. DeletedWait'
  BY <1>7, <1>9, <1>10 DEF PatcherInv, DeletedWait
<1>12. SavingKeeps
  BY <1>7, <1>9, <1>10 DEF SavingKeeps, Patcher!SaveFails
<1>13. QED
  BY <1>8, <1>11, <1>12 DEF PatcherInv

LEMMA ResendPatcher ==
    ASSUME PatcherInv, NEW x \in resend, Patcher!Resend(x)
    PROVE  PatcherInv' /\ SavingKeeps
<1>1. /\ saveInput' = Append(saveInput, x) /\ resend' = resend \ {x}
      /\ UNCHANGED <<toSend, saving, rows>>
  BY DEF Patcher!Resend
<1>2. x \in Nums \X New /\ saveInput \in Seq(Nums \X New)
  BY DEF PatcherInv, PatcherTypes
<1>3. /\ saveInput' \in Seq(Nums \X New)
      /\ Patcher!ToSet(saveInput') = Patcher!ToSet(saveInput) \cup {x}
  BY <1>1, <1>2, ToSetFacts, AppendProperties
<1>4. PatcherTypes'
  BY <1>1, <1>3 DEF PatcherInv, PatcherTypes
<1>5. \A c \in Nums : Waits(c) => Waits(c)'
  BY <1>1, <1>3 DEF Waits
<1>6. DeletedWait'
  BY <1>1, <1>5 DEF PatcherInv, DeletedWait
<1>7. SavingKeeps
  BY <1>1, <1>5 DEF SavingKeeps, Patcher!Resend
<1>8. QED
  BY <1>4, <1>6, <1>7 DEF PatcherInv

LEMMA NextPatcher ==
    ASSUME PatcherInv, [Patcher!Next]_Patcher!vars
    PROVE  PatcherInv'
<1>1. \A b \in DOMAIN toSend : toSend[b] \in New
  BY DEF PatcherInv, PatcherTypes
<1>2. CASE Patcher!Work
  <2>1. CASE Patcher!SendNum \/ Patcher!TakeNum \/ Patcher!StopSaving \/ Patcher!ResendPanics
    <3>1. UNCHANGED <<toSend, saveInput, saving, resend, rows>>
      BY <2>1 DEF Patcher!SendNum, Patcher!TakeNum, Patcher!StopSaving, Patcher!ResendPanics
    <3>2. QED
      BY <1>1, <3>1, WaitsStay
  <2>2. CASE Patcher!TakeRows
    BY <2>2, TakeRowsPatcher
  <2>3. ASSUME NEW b \in Nums, Patcher!NoTraces(b) \/ Patcher!NilBlock(b) PROVE PatcherInv'
    <3>1. UNCHANGED <<toSend, saveInput, saving, resend, rows>>
      BY <2>3 DEF Patcher!NoTraces, Patcher!NilBlock
    <3>2. QED
      BY <1>1, <3>1, WaitsStay
  <2>4. ASSUME NEW b \in Nums,
               \/ Patcher!FetchInternalTx(b) \/ Patcher!SendRows(b)
               \/ Patcher!DeleteRows(b) \/ Patcher!InsertRows(b)
        PROVE  PatcherInv'
    BY <2>4, FetchPatcher, SendRowsPatcher, DeleteRowsPatcher, InsertRowsPatcher
  <2>5. CASE \E x \in resend : Patcher!Resend(x)
    BY <2>5, ResendPatcher
  <2>6. QED
    BY <1>2, <2>1, <2>2, <2>3, <2>4, <2>5 DEF Patcher!Work, Nums
<1>3. CASE Patcher!Kill
  <2>1. UNCHANGED <<toSend, saveInput, saving, resend, rows>>
    BY <1>3 DEF Patcher!Kill
  <2>2. QED
    BY <1>1, <2>1, WaitsStay
<1>4. CASE \E b \in Nums : Patcher!SaveFails(b)
  BY <1>4, SaveFailsPatcher
<1>5. CASE UNCHANGED Patcher!vars
  <2>1. UNCHANGED <<toSend, saveInput, saving, resend, rows>>
    BY <1>5 DEF Patcher!vars
  <2>2. QED
    BY <1>1, <2>1, WaitsStay
<1>6. QED
  BY <1>2, <1>3, <1>4, <1>5 DEF Patcher!Next, Patcher!Goes, Nums

\* While itxpatcher runs, new rows are on the way for every block whose rows it has
\* deleted, however many workers there are and whatever call fails.
THEOREM DeletedAreReplaced == Patcher!Spec => []Patcher!DeletedIsPending
<1>1. Patcher!Init => PatcherInv
  BY InitPatcher
<1>2. PatcherInv /\ [Patcher!Next]_Patcher!vars => PatcherInv'
  BY NextPatcher
<1>3. PatcherInv => Patcher!DeletedIsPending
  BY DEF PatcherInv, DeletedWait, Waits, Nums, Patcher!DeletedIsPending
<1>4. QED
  BY <1>1, <1>2, <1>3, PTL DEF Patcher!Spec

----------------------------------------------------------------------------
\* Somewhere between main and the tables.
Comes(b) ==
    nextNum <= b \/ b \in Patcher!ToSet(fetchInput) \/ b \in fetching \/ Waits(b)

Coming ==
    /\ nextNum \in Int /\ fetchInput \in Seq(Int)
    /\ \A b \in Traced : rows[b] \in New \/ Comes(b)

LEMMA TracedInNums ==
    ASSUME Patcher!ItxPatcherConstants
    PROVE  Traced \subseteq Nums /\ BeginNum \in Int /\ Nums \subseteq Int
           /\ \A b \in Nums : BeginNum <= b
BY DEF Patcher!ItxPatcherConstants, Nums, Patcher!Nums

LEMMA InitComing ==
    ASSUME Patcher!ItxPatcherConstants, Patcher!Init
    PROVE  Coming
<1>1. nextNum = BeginNum /\ fetchInput = <<>>
  BY DEF Patcher!Init
<1>2. nextNum \in Int /\ fetchInput \in Seq(Int)
  BY <1>1, TracedInNums
<1>3. \A b \in Traced : nextNum <= b
  BY <1>1, TracedInNums
<1>4. QED
  BY <1>2, <1>3 DEF Coming, Comes

LEMMA SavingComing ==
    ASSUME Patcher!ItxPatcherConstants, Coming, SavingKeeps
    PROVE  Coming'
<1>1. nextNum' = nextNum /\ fetchInput' = fetchInput /\ fetching' = fetching
  BY DEF SavingKeeps
<1>2. ASSUME NEW b \in Traced PROVE rows'[b] \in New \/ Comes(b)'
  <2>1. b \in Nums
    BY TracedInNums
  <2>2. CASE rows[b] \in New \/ Waits(b)
    BY <2>1, <2>2 DEF SavingKeeps, Comes
  <2>3. CASE ~(rows[b] \in New \/ Waits(b))
    <3>1. nextNum <= b \/ b \in Patcher!ToSet(fetchInput) \/ b \in fetching
      BY <2>3 DEF Coming, Comes
    <3>2. QED
      BY <1>1, <3>1 DEF Comes
  <2>4. QED
    BY <2>2, <2>3
<1>3. QED
  BY <1>1, <1>2 DEF Coming

\* The block that main sends is the next one.
LEMMA SendNumComing ==
    ASSUME Patcher!ItxPatcherConstants, Coming, Patcher!SendNum
    PROVE  Coming'
<1>1. /\ fetchInput' = Append(fetchInput, nextNum) /\ nextNum' = nextNum + 1
      /\ UNCHANGED <<fetching, saveInput, saving, resend, rows>>
  BY DEF Patcher!SendNum
<1>2. nextNum \in Int /\ fetchInput \in Seq(Int)
  BY DEF Coming
<1>3. /\ fetchInput' \in Seq(Int) /\ nextNum' \in Int
      /\ Patcher!ToSet(fetchInput') = Patcher!ToSet(fetchInput) \cup {nextNum}
  BY <1>1, <1>2, ToSetFacts, AppendProperties
<1>4. \A b \in Nums : Waits(b) => Waits(b)'
  BY <1>1 DEF Waits
<1>5. ASSUME NEW b \in Traced PROVE rows'[b] \in New \/ Comes(b)'
  <2>1. b \in Nums /\ b \in Int
    BY TracedInNums
  <2>2. nextNum <= b => nextNum' <= b \/ b = nextNum
    BY <1>1, <1>2, <2>1
  <2>3. rows[b] \in New \/ Comes(b)
    BY DEF Coming
  <2>4. QED
    BY <1>1, <1>3, <1>4, <2>1, <2>2, <2>3 DEF Comes
<1>6. QED
  BY <1>3, <1>5 DEF Coming

LEMMA TakeNumComing ==
    ASSUME Patcher!ItxPatcherConstants, Coming, Patcher!TakeNum
    PROVE  Coming'
<1>1. /\ fetchInput # <<>> /\ fetching' = fetching \cup {Head(fetchInput)}
      /\ fetchInput' = Tail(fetchInput)
      /\ UNCHANGED <<nextNum, saveInput, saving, resend, rows>>
  BY DEF Patcher!TakeNum
<1>2. nextNum \in Int /\ fetchInput \in Seq(Int)
  BY DEF Coming
<1>3. /\ fetchInput' \in Seq(Int)
      /\ Patcher!ToSet(fetchInput) = Patcher!ToSet(fetchInput') \cup {Head(fetchInput)}
  BY <1>1, <1>2, ToSetFacts
<1>4. \A b \in Nums : Waits(b) => Waits(b)'
  BY <1>1 DEF Waits
<1>5. ASSUME NEW b \in Traced PROVE rows'[b] \in New \/ Comes(b)'
  <2>1. b \in Nums
    BY TracedInNums
  <2>2. rows[b] \in New \/ Comes(b)
    BY DEF Coming
  <2>3. QED
    BY <1>1, <1>3, <1>4, <2>1, <2>2 DEF Comes
<1>6. QED
  BY <1>1, <1>2, <1>3, <1>5 DEF Coming

\* A fetch worker lets go of a block without internal transactions, or of one
\* whose rows go to the pool.
LEMMA FetchedComing ==
    ASSUME Patcher!ItxPatcherConstants, PatcherInv, Coming, NEW n \in Nums,
           Patcher!NoTraces(n) \/ Patcher!SendRows(n)
    PROVE  Coming'
<1>1. fetching' = fetching \ {n} /\ UNCHANGED <<nextNum, fetchInput, saving, resend, rows>>
  BY DEF Patcher!NoTraces, Patcher!SendRows
<1>2. CASE Patcher!NoTraces(n)
  <2>1. n \notin Traced /\ saveInput' = saveInput
    BY <1>2 DEF Patcher!NoTraces
  <2>2. \A b \in Nums : Waits(b) => Waits(b)'
    BY <1>1, <2>1 DEF Waits
  <2>3. \A b \in Traced : b \in Nums /\ (rows[b] \in New \/ Comes(b))
    BY TracedInNums DEF Coming
  <2>4. \A b \in Traced : rows'[b] \in New \/ Comes(b)'
    BY <1>1, <2>1, <2>2, <2>3 DEF Comes
  <2>5. QED
    BY <1>1, <2>4 DEF Coming
<1>3. CASE Patcher!SendRows(n)
  <2>1. /\ n \in DOMAIN toSend /\ saveInput' = Append(saveInput, <<n, toSend[n]>>)
    BY <1>3 DEF Patcher!SendRows
  <2>2. <<n, toSend[n]>> \in Nums \X New /\ saveInput \in Seq(Nums \X New)
    BY <2>1 DEF PatcherInv, PatcherTypes
  <2>3. Patcher!ToSet(saveInput') = Patcher!ToSet(saveInput) \cup {<<n, toSend[n]>>}
    BY <2>1, <2>2, ToSetFacts
  <2>4. Waits(n)' /\ \A b \in Nums : Waits(b) => Waits(b)'
    <3>1. <<n, toSend[n]>>[1] = n
      OBVIOUS
    <3>2. PICK x : x = <<n, toSend[n]>>
      OBVIOUS
    <3>3. x[1] = n /\ Patcher!ToSet(saveInput') = Patcher!ToSet(saveInput) \cup {x}
      BY <2>3, <3>1, <3>2
    <3>4. Waits(n)'
      BY <3>3 DEF Waits
    <3>5. \A b \in Nums : Waits(b) => Waits(b)'
      BY <1>1, <3>3 DEF Waits
    <3>6. QED
      BY <3>4, <3>5
  <2>5. \A b \in Traced : b \in Nums /\ (rows[b] \in New \/ Comes(b))
    BY TracedInNums DEF Coming
  <2>6. \A b \in Traced : rows'[b] \in New \/ Comes(b)'
    BY <1>1, <2>4, <2>5 DEF Comes
  <2>7. QED
    BY <1>1, <2>6 DEF Coming
<1>4. QED
  BY <1>2, <1>3

LEMMA RestComing ==
    ASSUME Coming,
           UNCHANGED <<nextNum, fetchInput, fetching, saveInput, saving, resend, rows>>
    PROVE  Coming'
<1>1. \A b : Comes(b) => Comes(b)'
  BY DEF Comes, Waits
<1>2. QED
  BY <1>1 DEF Coming

LEMMA NextComing ==
    ASSUME Patcher!ItxPatcherConstants, PatcherInv, Coming, [Patcher!Next]_Patcher!vars
    PROVE  Coming'
<1>1. CASE Patcher!Work
  <2>1. CASE Patcher!SendNum \/ Patcher!TakeNum
    BY <2>1, SendNumComing, TakeNumComing
  <2>2. CASE Patcher!StopSaving \/ Patcher!ResendPanics
    <3>1. UNCHANGED <<nextNum, fetchInput, fetching, saveInput, saving, resend, rows>>
      BY <2>2 DEF Patcher!StopSaving, Patcher!ResendPanics
    <3>2. QED
      BY <3>1, RestComing
  <2>3. CASE Patcher!TakeRows
    BY <2>3, TakeRowsPatcher, SavingComing
  <2>4. ASSUME NEW b \in Nums, Patcher!FetchInternalTx(b) \/ Patcher!NilBlock(b) PROVE Coming'
    <3>1. UNCHANGED <<nextNum, fetchInput, fetching, saveInput, saving, resend, rows>>
      BY <2>4 DEF Patcher!FetchInternalTx, Patcher!NilBlock
    <3>2. QED
      BY <3>1, RestComing
  <2>5. ASSUME NEW b \in Nums, Patcher!NoTraces(b) \/ Patcher!SendRows(b) PROVE Coming'
    BY <2>5, FetchedComing
  <2>6. ASSUME NEW b \in Nums, Patcher!DeleteRows(b) \/ Patcher!InsertRows(b) PROVE Coming'
    BY <2>6, DeleteRowsPatcher, InsertRowsPatcher, SavingComing
  <2>7. CASE \E x \in resend : Patcher!Resend(x)
    BY <2>7, ResendPatcher, SavingComing
  <2>8. QED
    BY <1>1, <2>1, <2>2, <2>3, <2>4, <2>5, <2>6, <2>7 DEF Patcher!Work, Nums
<1>2. CASE Patcher!Kill
  <2>1. UNCHANGED <<nextNum, fetchInput, fetching, saveInput, saving, resend, rows>>
    BY <1>2 DEF Patcher!Kill
  <2>2. QED
    BY <2>1, RestComing
<1>3. CASE \E b \in Nums : Patcher!SaveFails(b)
  BY <1>3, SaveFailsPatcher, SavingComing
<1>4. CASE UNCHANGED Patcher!vars
  <2>1. UNCHANGED <<nextNum, fetchInput, fetching, saveInput, saving, resend, rows>>
    BY <1>4 DEF Patcher!vars
  <2>2. QED
    BY <2>1, RestComing
<1>5. QED
  BY <1>1, <1>2, <1>3, <1>4 DEF Patcher!Next, Patcher!Goes, Nums

\* While itxpatcher runs, a block of the range with internal transactions is
\* patched, or still to come, or on its way: no channel, worker or retry loses one.
THEOREM NoBlockFallsThrough ==
    ASSUME Patcher!ItxPatcherConstants
    PROVE  Patcher!Spec => []Patcher!NoneIsDropped
<1>1. Patcher!Init => PatcherInv /\ Coming
  BY InitPatcher, InitComing
<1>2. PatcherInv /\ Coming /\ [Patcher!Next]_Patcher!vars => (PatcherInv /\ Coming)'
  BY NextPatcher, NextComing
<1>3. PatcherInv /\ Coming => Patcher!NoneIsDropped
  BY DEF Coming, Comes, Waits, New, Patcher!NoneIsDropped
<1>4. QED
  BY <1>1, <1>2, <1>3, PTL DEF Patcher!Spec
=============================================================================

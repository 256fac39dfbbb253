------------------------------- MODULE Process -------------------------------
(***************************************************************************)
(* Run, src/process/process.go: the goroutines of the process and its end.  *)
(* A signal starts a goroutine that stops the fetcher and then the tasks,   *)
(* in order, and says so on the channel of the signals; Run waits for that, *)
(* for twenty seconds at most.  Each task is reduced to its loop and its    *)
(* channel of blocks, the fetcher to its sends (its stopping is detailed in *)
(* module Fetcher).                                                         *)
(***************************************************************************)
EXTENDS Integers, SequencesExt

CONSTANTS
    Tasks,          \* allTasks: the names of the tasks, in order
    Kind,           \* "base", "async" or "delay": how the task is stopped
    Bounded,        \* async tasks with an EndNumber
    BufferSize,     \* config: capacity of the channels of blocks
    MaxEvents,      \* bound: blocks the fetcher sends
    MaxSignals      \* bound: signals the process gets

ASSUME ProcessAssumption ==
    /\ Tasks \in Seq(ToSet(Tasks))
    /\ Kind \in [ToSet(Tasks) -> {"base", "async", "delay"}]
    /\ \A t \in Bounded : t \in ToSet(Tasks) /\ Kind[t] = "async"
    /\ "fetcher" \notin ToSet(Tasks)
    /\ BufferSize \in Nat \ {0} /\ MaxEvents \in Nat /\ MaxSignals \in Nat

VARIABLES
    main,           \* Run: "run", "stopping", then "terminated" or "forced"
    sigCh,          \* the channel of signals, of capacity 1
    signals,        \* how many signals the process got
    stopped,        \* the goroutine that stops: how many of its targets are done
    checked,        \* it has found the flag of the target not set
    fetch,          \* Fetcher.Run: "loop", "sending" or "ended"
    interrupt,      \* Fetcher.interrupt
    sending,        \* the subscribers that have not received the block being sent
    sent,           \* how many blocks were sent
    subs,           \* the subscribers of the feed
    loop,           \* where the loop of each task is
    stoped,         \* BaseAsyncTask.stoped
    closed,         \* DelayTask.stopCh is closed
    buffer          \* how many blocks are in the channel of each task

mainVars == <<main, sigCh, signals>>
stopVars == <<stopped, checked, interrupt, closed>>
fetchVars == <<fetch, sending, sent>>
taskVars == <<subs, loop, stoped, buffer>>
vars == <<mainVars, stopVars, fetchVars, taskVars>>

Names == ToSet(Tasks)

Living == main \in {"run", "stopping"}

Init ==
    /\ main = "run" /\ sigCh = <<>> /\ signals = 0
    /\ stopped = 0 /\ checked = FALSE /\ interrupt = FALSE /\ closed = [t \in Names |-> FALSE]
    /\ fetch = "loop" /\ sending = {} /\ sent = 0
    /\ subs = {} /\ loop = [t \in Names |-> "start"]
    /\ stoped = [t \in Names |-> FALSE] /\ buffer = [t \in Names |-> 0]

----------------------------------------------------------------------------
(* Signals and Run. *)

Room == Len(sigCh) < 1

\* signal.Notify drops a signal when the channel is full.
Signal ==
    /\ signals < MaxSignals /\ signals' = signals + 1
    /\ sigCh' = IF Room THEN Append(sigCh, "os") ELSE sigCh
    /\ UNCHANGED <<main, stopVars, fetchVars, taskVars>>

ReceiveSignal ==
    /\ sigCh # <<>> /\ sigCh' = Tail(sigCh)
    /\ main' = IF main = "run" THEN "stopping" ELSE "terminated"
    /\ UNCHANGED <<signals, stopVars, fetchVars, taskVars>>

\* Mutant: the context has no deadline.
Expire_Never == FALSE

\* Twenty seconds.
Expire ==
    /\ main = "stopping" /\ main' = "forced"
    /\ UNCHANGED <<sigCh, signals, stopVars, fetchVars, taskVars>>

----------------------------------------------------------------------------
(* The goroutine that stops the others. *)

\* Mutant: the tasks are stopped before the fetcher.
Targets_TasksFirst == Append(Tasks, "fetcher")

Targets == <<"fetcher">> \o Tasks

Stopping(t) == main = "stopping" /\ stopped < Len(Targets) /\ Targets[stopped + 1] = t

NextTarget == stopped' = stopped + 1 /\ checked' = FALSE

\* Fetcher.Stop: set the flag, wait for Run to see it.
InterruptFetcher ==
    /\ Stopping("fetcher") /\ ~interrupt /\ interrupt' = TRUE
    /\ UNCHANGED <<mainVars, stopped, checked, closed, fetchVars, taskVars>>

FetcherStopped ==
    /\ Stopping("fetcher") /\ interrupt /\ fetch = "ended" /\ NextTarget
    /\ UNCHANGED <<mainVars, interrupt, closed, fetchVars, taskVars>>

\* Mutant: the channel has room for the message: Stop does not wait.
Receives_Buffered(t) == TRUE

\* stopChan <- 1: the channel is unbuffered, the loop must come to its select.
Receives(t) == loop[t] = "select"

EndLoop(t) == loop' = [loop EXCEPT ![t] = IF @ = "select" THEN "ended" ELSE @]

StopBase(t) ==
    /\ Kind[t] = "base" /\ Stopping(t) /\ Receives(t) /\ EndLoop(t) /\ NextTarget
    /\ UNCHANGED <<mainVars, interrupt, closed, fetchVars, subs, stoped, buffer>>

\* BaseAsyncTask.Stop: the flag is read before the message is sent.
CheckStoped(t) ==
    /\ Kind[t] = "async" /\ Stopping(t) /\ ~checked
    /\ IF stoped[t] THEN NextTarget ELSE checked' = TRUE /\ UNCHANGED stopped
    /\ UNCHANGED <<mainVars, interrupt, closed, fetchVars, taskVars>>

StopAsync(t) ==
    /\ Kind[t] = "async" /\ Stopping(t) /\ checked /\ Receives(t)
    /\ EndLoop(t) /\ NextTarget /\ stoped' = [stoped EXCEPT ![t] = TRUE]
    /\ UNCHANGED <<mainVars, interrupt, closed, fetchVars, subs, buffer>>

\* DelayTask.Stop does not wait.
StopDelay(t) ==
    /\ Kind[t] = "delay" /\ Stopping(t) /\ closed' = [closed EXCEPT ![t] = TRUE] /\ NextTarget
    /\ UNCHANGED <<mainVars, interrupt, fetchVars, taskVars>>

\* sigCh <- syscall.SIGINT
ReportStopped ==
    /\ main = "stopping" /\ stopped = Len(Targets) /\ sigCh = <<>>
    /\ sigCh' = <<"stopped">> /\ stopped' = stopped + 1
    /\ UNCHANGED <<main, signals, checked, interrupt, closed, fetchVars, taskVars>>

----------------------------------------------------------------------------
(* The fetcher: event.Feed.Send returns when all the subscribers have the    *)
(* block, those excepted that unsubscribe.                                   *)

SendBlock ==
    /\ fetch = "loop" /\ ~interrupt /\ sent < MaxEvents
    /\ fetch' = "sending" /\ sending' = subs /\ sent' = sent + 1
    /\ UNCHANGED <<mainVars, stopVars, taskVars>>

Deliver(t) ==
    /\ fetch = "sending" /\ t \in sending \cap subs /\ buffer[t] < BufferSize
    /\ buffer' = [buffer EXCEPT ![t] = @ + 1] /\ sending' = sending \ {t}
    /\ UNCHANGED <<mainVars, stopVars, fetch, sent, subs, loop, stoped>>

SendReturns ==
    /\ fetch = "sending" /\ sending \cap subs = {} /\ fetch' = "loop"
    /\ UNCHANGED <<mainVars, stopVars, sending, sent, taskVars>>

FetchEnds ==
    /\ fetch = "loop" /\ interrupt /\ fetch' = "ended"
    /\ UNCHANGED <<mainVars, stopVars, sending, sent, taskVars>>

----------------------------------------------------------------------------
(* The loops of the tasks. *)

Move(t, from, to) == loop[t] = from /\ loop' = [loop EXCEPT ![t] = to]

Subscribe(t) ==
    /\ Move(t, "start", "top") /\ subs' = subs \cup {t}
    /\ UNCHANGED <<mainVars, stopVars, fetchVars, stoped, buffer>>

ToSelect(t) ==
    /\ Move(t, "top", "select")
    /\ UNCHANGED <<mainVars, stopVars, fetchVars, subs, stoped, buffer>>

TakeBlock(t) ==
    /\ Move(t, "select", "busy") /\ buffer[t] > 0
    /\ buffer' = [buffer EXCEPT ![t] = @ - 1]
    /\ UNCHANGED <<mainVars, stopVars, fetchVars, subs, stoped>>

\* An async task handles what its channel holds before it selects again.
TakeMore(t) ==
    /\ Kind[t] = "async" /\ loop[t] = "busy" /\ buffer[t] > 0
    /\ buffer' = [buffer EXCEPT ![t] = @ - 1]
    /\ UNCHANGED <<mainVars, stopVars, fetchVars, subs, stoped, loop>>

BlockDone(t) ==
    /\ Kind[t] = "async" => buffer[t] = 0
    /\ Move(t, "busy", "top")
    /\ UNCHANGED <<mainVars, stopVars, fetchVars, subs, stoped, buffer>>

\* The task has reached its EndNumber: it unsubscribes, then sets the flag.
Unsubscribe(t) ==
    /\ t \in Bounded /\ Move(t, "top", "leaving") /\ subs' = subs \ {t}
    /\ UNCHANGED <<mainVars, stopVars, fetchVars, stoped, buffer>>

Leave(t) ==
    /\ Move(t, "leaving", "ended") /\ stoped' = [stoped EXCEPT ![t] = TRUE]
    /\ UNCHANGED <<mainVars, stopVars, fetchVars, subs, buffer>>

SeesClosed(t) ==
    /\ closed[t] /\ Move(t, "select", "ended")
    /\ UNCHANGED <<mainVars, stopVars, fetchVars, subs, stoped, buffer>>

----------------------------------------------------------------------------
Stopper ==
    \/ InterruptFetcher \/ FetcherStopped \/ ReportStopped
    \/ \E t \in Names : StopBase(t) \/ CheckStoped(t) \/ StopAsync(t) \/ StopDelay(t)

Task(t) == \/ Subscribe(t) \/ ToSelect(t) \/ TakeBlock(t) \/ TakeMore(t) \/ BlockDone(t)
           \/ Unsubscribe(t) \/ Leave(t) \/ SeesClosed(t)

Next ==
    /\ Living
    /\ \/ Signal \/ ReceiveSignal \/ Expire \/ Stopper
       \/ SendBlock \/ SendReturns \/ FetchEnds
       \/ \E t \in Names : Deliver(t) \/ Task(t)

Spec == Init /\ [][Next]_vars

\* Every goroutine runs, and the context has a deadline.
FairSpec ==
    /\ Spec
    /\ WF_vars(Living /\ ReceiveSignal) /\ WF_vars(Living /\ Expire)
    /\ WF_vars(Living /\ Stopper) /\ WF_vars(Living /\ (SendReturns \/ FetchEnds))
    /\ \A t \in Names : WF_vars(Living /\ Task(t)) /\ WF_vars(Living /\ Deliver(t))

----------------------------------------------------------------------------
(* Properties. *)

TypeOK ==
    /\ main \in {"run", "stopping", "terminated", "forced"}
    /\ Len(sigCh) <= 1 /\ signals \in 0..MaxSignals
    /\ stopped \in 0..(Len(Targets) + 1) /\ {checked, interrupt} \subseteq BOOLEAN
    /\ fetch \in {"loop", "sending", "ended"} /\ sent \in 0..MaxEvents
    /\ sending \cup subs \subseteq Names
    /\ loop \in [Names -> {"start", "top", "select", "busy", "leaving", "ended"}]
    /\ stoped \in [Names -> BOOLEAN] /\ closed \in [Names -> BOOLEAN]
    /\ buffer \in [Names -> 0..BufferSize]

\* The fetcher never waits for a task that has ended to take a block: it is
\* stopped before the tasks, and a task that ends by itself unsubscribes.
NoSendToEnded ==
    fetch = "sending" => \A t \in sending \cap subs : loop[t] # "ended"

\* "all tasks terminated" is true after a single signal: the fetcher and the
\* tasks that are waited for have left their loops, whatever they were doing.
\* A second signal ends the process as if they had.
TerminatedMeansEnded ==
    main = "terminated" /\ signals <= 1 =>
        /\ fetch = "ended"
        /\ \A t \in Names : Kind[t] # "delay" => loop[t] = "ended"

\* A signal ends the process.  It takes the deadline: though everyone makes
\* progress, the goroutine may wait for ever for a task that reached its
\* EndNumber after its flag was read.
SignalEnds == main = "stopping" ~> main \in {"terminated", "forced"}
=============================================================================

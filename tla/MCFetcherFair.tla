--------------------------- MODULE MCFetcherFair ---------------------------
(***************************************************************************)
(* Instances of Fetcher for TLC, with its fairness: a fetcher of the range  *)
(* below EndHeight, whose blocks the node has, and one that never ends.     *)
(* Init chooses one of them.                                                *)
(***************************************************************************)
EXTENDS MCFetcher

VARIABLE endless

Endless == INSTANCE Fetcher WITH EndHeight <- 0

fairVars == <<vars, endless>>

RangeDoes(A) == ~endless /\ A /\ UNCHANGED endless
EndlessDoes(A) == endless /\ A /\ UNCHANGED endless

EitherInit == endless \in BOOLEAN /\ Init /\ (endless \/ Tip >= EndHeight - 1)

\* The scheduler runs every goroutine that can take a step; nothing obliges
\* the node to change, a call to fail, or the process to be stopped.  Asked of
\* the fetcher without an end: with one, Run and a caller of Stop may both wait
\* for the one token.
EitherFairSpec ==
    /\ EitherInit
    /\ [][RangeDoes(Next) \/ EndlessDoes(Endless!Next)]_fairVars
    /\ WF_fairVars(EndlessDoes(Endless!Progress)) /\ WF_fairVars(EndlessDoes(Accept))
    /\ \A p \in Stoppers : WF_fairVars(EndlessDoes(EndStop(p)))

----------------------------------------------------------------------------
\* When the node stops changing, the subscriber of a fetcher without an end
\* has the node's chain up to BlocksDelay below the head, unless the process
\* stopped or exited.
EndlessCatchesUp == endless => CatchesUp

\* Every Stop that found Run not yet interrupted returns.
EndlessStopReturns == endless => StopReturns
=============================================================================

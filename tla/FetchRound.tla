----------------------------- MODULE FetchRound -----------------------------
(***************************************************************************)
(* What Run of the fetcher expects of GetBlocks, and what module Fetcher    *)
(* assumes of it: each block of the range is read from the node once, at    *)
(* some time, in any order, and the round ends with all of them or with     *)
(* none.                                                                    *)
(***************************************************************************)
EXTENDS EvmNode

CONSTANTS Low, High         \* the range: Low..(High - 1)

VARIABLES
    got,            \* the blocks read: height -> block
    outcome         \* "running", "blocks" or "error"

roundVars == <<nodeVars, got, outcome>>

RoundInit == got = <<>> /\ outcome = "running"

ReadBlock(n) ==
    /\ outcome = "running" /\ n \in Low..(High - 1) /\ n \notin DOMAIN got /\ n <= Tip
    /\ got' = [i \in DOMAIN got \cup {n} |-> IF i = n THEN BlockAt(n) ELSE got[i]]
    /\ UNCHANGED <<nodeVars, outcome>>

RoundFails ==
    /\ outcome = "running" /\ outcome' = "error" /\ got' = <<>>
    /\ UNCHANGED nodeVars

RoundEnds ==
    /\ outcome = "running" /\ DOMAIN got = Low..(High - 1) /\ outcome' = "blocks"
    /\ UNCHANGED <<nodeVars, got>>

NodeMoves == NodeStep /\ UNCHANGED <<got, outcome>>

RoundNext == (\E n \in Low..(High - 1) : ReadBlock(n)) \/ RoundFails \/ RoundEnds \/ NodeMoves

RoundSpec == RoundInit /\ [][RoundNext]_roundVars
=============================================================================

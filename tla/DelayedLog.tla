----------------------------- MODULE DelayedLog -----------------------------
(***************************************************************************)
(* What the consumers of the topic block_send_delay are promised: the blocks *)
(* of the chain in the order of their numbers, each at least once, and only *)
(* when Delay blocks have been above it; a block is repeated only while the *)
(* height recorded is below it.                                             *)
(***************************************************************************)
EXTENDS Integers, Sequences

CONSTANTS
    Blocks,
    Start,      \* the chain when all begins
    Delay

VARIABLES
    chain,      \* the chain as the feed has told it
    highest,    \* the highest block there has been
    mark,       \* the height recorded
    log         \* what was sent, oldest first

\* The chain grows, or loses its top block, but none with Delay blocks above.
Move ==
    /\ \/ \E b \in Blocks : chain' = Append(chain, b)
       \/ Len(chain) > highest - Delay /\ chain' = SubSeq(chain, 1, Len(chain) - 1)
    /\ highest' = IF Len(chain') > highest THEN Len(chain') ELSE highest
    /\ UNCHANGED <<mark, log>>

Top == IF log = <<>> THEN mark
       ELSE IF log[Len(log)].num > mark THEN log[Len(log)].num ELSE mark

\* The block after the last one, or again one that is not recorded.
Send ==
    /\ \E n \in (mark + 1)..(Top + 1) :
          /\ n + Delay <= highest /\ log' = Append(log, chain[n])
    /\ UNCHANGED <<chain, highest, mark>>

Record ==
    /\ mark' \in (mark + 1)..Top
    /\ UNCHANGED <<chain, highest, log>>

Init == chain = Start /\ highest = Len(Start) /\ mark \in 0..Len(Start) /\ log = <<>>

Next == Move \/ Send \/ Record

Spec == Init /\ [][Next]_<<chain, highest, mark, log>>
=============================================================================

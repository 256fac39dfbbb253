------------------------------ MODULE ChainLog ------------------------------
(***************************************************************************)
(* What the block feed promises to whoever subscribes to it: the events, a  *)
(* block to append or a block to take back, describe one chain, held as a   *)
(* stack.  A block is appended only on top of its own parent, one height    *)
(* above it, and only the top block is ever taken back.  log[i] is the      *)
(* block of height i; Genesis is the hash of the block under the first one.  *)
(***************************************************************************)
EXTENDS Naturals, Sequences

CONSTANT Genesis

VARIABLE log

\* Each block of s names the one before it as its parent.
Linked(s) == /\ s # <<>> => s[1].parent = Genesis
             /\ \A i \in 1..(Len(s) - 1) : s[i + 1].parent = s[i].hash

Numbered(s) == \A i \in DOMAIN s : s[i].num = i

Init == Linked(log) /\ Numbered(log)

Push == /\ Len(log') = Len(log) + 1
        /\ SubSeq(log', 1, Len(log)) = log
        /\ Linked(log')
        /\ Numbered(log')

Pop == /\ log # <<>>
       /\ log' = SubSeq(log, 1, Len(log) - 1)

Next == Push \/ Pop

Spec == Init /\ [][Next]_log
=============================================================================

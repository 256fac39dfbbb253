------------------------------ MODULE EvmNode ------------------------------
(***************************************************************************)
(* The EVM node the fetcher talks to over JSON-RPC, reduced to what the     *)
(* indexer can observe: the canonical chain, which grows at its head and    *)
(* may replace its last blocks by a longer or equally long branch (a        *)
(* reorganisation).  The node is not part of the repository; the fetcher    *)
(* reads it with eth_blockNumber and eth_getBlockByNumber.                  *)
(*                                                                          *)
(* A block is identified by its height and by the branch that mined it.     *)
(* Branches are numbered in the order in which they became canonical, and   *)
(* an abandoned branch does not return: within a branch the block below a   *)
(* height never changes, so height and branch determine the parent.         *)
(***************************************************************************)
EXTENDS Integers, Sequences

CONSTANTS
    MaxHead,        \* bound: the highest block the node ever mines
    MaxReorgs,      \* bound: how many times the node changes branch
    ReorgDepth,     \* finality: the last ReorgDepth blocks may be replaced
    ReorgGains      \* by how much a new branch may exceed the one it replaces

ASSUME EvmNodeAssumption ==
    /\ MaxHead \in Nat
    /\ MaxReorgs \in Nat
    /\ ReorgDepth \in Nat
    /\ ReorgGains \subseteq Nat

VARIABLES
    chain,          \* chain[n]: the branch of the canonical block of height n
    branch          \* the branch that is growing

nodeVars == <<chain, branch>>

Tip == Len(chain)             \* eth_blockNumber

\* The genesis block (height 0) belongs to branch 0 and is never replaced.
BranchAt(n) == IF n = 0 THEN 0 ELSE chain[n]

NoHash == <<>>      \* the empty string of an unset hash

Hash == Nat \X Nat
Block == [num : Nat, hash : Hash, parent : Hash \cup {NoHash}]

Genesis == [num |-> 0, hash |-> <<0, 0>>, parent |-> NoHash]

\* The node's answer to eth_getBlockByNumber(n), for n <= Tip.
BlockAt(n) == IF n = 0 THEN Genesis
              ELSE [num |-> n, hash |-> <<n, chain[n]>>,
                               parent |-> <<n - 1, BranchAt(n - 1)>>]

Canonical(b) == b.num <= Tip /\ b.hash = <<b.num, BranchAt(b.num)>>

NodeTypeOK == /\ chain \in Seq(Nat)
              /\ branch \in Nat
              /\ \A n \in DOMAIN chain : chain[n] <= branch

\* The node mines a block on its canonical chain.
Extend == /\ Tip < MaxHead
          /\ chain' = Append(chain, branch)
          /\ UNCHANGED branch

\* The last d blocks are replaced by d + gain blocks of a new branch.
Reorg(d, gain) ==
    /\ branch < MaxReorgs
    /\ Tip + gain <= MaxHead
    /\ branch' = branch + 1
    /\ chain' = [n \in 1..(Tip + gain) |->
                    IF n <= Tip - d THEN chain[n] ELSE branch + 1]

NodeStep == \/ Extend
            \/ \E d \in 1..ReorgDepth, gain \in ReorgGains :
                   d <= Tip /\ Reorg(d, gain)
=============================================================================

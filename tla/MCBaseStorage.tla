--------------------------- MODULE MCBaseStorage ---------------------------
(***************************************************************************)
(* Instances of BaseStorage for TLC: a chain of Height blocks and a branch  *)
(* that leaves it after the first one.  Each branch creates the contract    *)
(* at its own height, the second one above the first.                       *)
(***************************************************************************)
EXTENDS BaseStorage

CONSTANTS Height, Contract

BlockOf(n, k) ==
    [num |-> n, hash |-> <<n, k>>,
     parent |-> IF n <= 2 THEN <<n - 1, 0>> ELSE <<n - 1, k>>,
     creates |-> IF n = 2 + k THEN {Contract} ELSE {}]

BlockTree == {BlockOf(n, 0) : n \in 1..Height}
             \cup {BlockOf(n, 1) : n \in 2..Height}

GenesisBlockHash == <<0, 0>>
=============================================================================

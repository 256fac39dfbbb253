----------------------------- MODULE MCBalances -----------------------------
(***************************************************************************)
(* Instances of the three balance tasks for TLC.  They write tables of      *)
(* their own, so Init chooses one of them.  The token task is there twice,  *)
(* as the configuration has it: with the multicall contract and without.    *)
(* Only native_balance is started again, with base_data behind; the others  *)
(* run on, with base_data at hand.                                          *)
(***************************************************************************)
EXTENDS BalanceTask

CONSTANTS Chosen, Height, Fork, Stored0

VARIABLE task

\* A chain, a branch that leaves it after block Fork, and one a block later.
At(n, k) == IF n < Fork + k THEN <<n, 0>> ELSE <<n, k>>

BlockOf(n, k) ==
    [num |-> n, hash |-> <<n, k>>, parent |-> At(n - 1, k),
     touches |-> {i \in Keys : i <= 1 + ((n + k) % 2)}]

BlockTree == UNION {{BlockOf(n, k) : n \in (Fork + k)..Height} : k \in {1, 2}}
             \cup {BlockOf(n, 0) : n \in 1..Height}

GenesisBlockHash == <<0, 0>>

FirstChain == [n \in 1..Stored0 |-> BlockOf(n, 0)]

Native == INSTANCE NativeBalance
              WITH BaseFirst <- FALSE, MaxRestarts <- 1, MaxEvents <- 3, MaxLag <- 0,
                   FalsePositives <- FALSE, EndNumber <- Height
Erc20Batch == INSTANCE Erc20Balance WITH MultiCallContract <- FALSE
Erc20Call == INSTANCE Erc20Balance WITH MultiCallContract <- TRUE
Erc1155 == INSTANCE Erc1155Balance

BalancesInit == BalanceInit /\ task \in Chosen

BalancesNext ==
    /\ UNCHANGED task
    /\ \/ task = "native_balance" /\ Native!NativeBalanceNext
       \/ task = "erc20_batch" /\ Erc20Batch!Erc20BalanceNext
       \/ task = "erc20_call" /\ Erc20Call!Erc20BalanceNext
       \/ task = "erc1155_balance" /\ Erc1155!Erc1155BalanceNext

BalancesSpec == BalancesInit /\ [][BalancesNext]_<<taskVars, task>>

=============================================================================

--------------------------- MODULE Erc1155Balance ---------------------------
(***************************************************************************)
(* Erc1155BalanceTask, src/task/erc1155_balance_task.go: the balances of    *)
(* the senders and receivers of ERC-1155 transfers, asked through the       *)
(* contract of utils/multicall.go, and saved with the height of the block   *)
(* that touched them.                                                       *)
(***************************************************************************)
EXTENDS BalanceTask

Erc1155FixHistory == CatchUp(curHeight + BatchBlockCount)

Erc1155HandleBlocks == AskForTouched

\* getBalanceByMultiCall.
Erc1155GetBalanceByMultiCall(k) ==
    /\ pc = "query" /\ k \in asking \ DOMAIN answers
    /\ \E c \in {View, <<>>} :
          /\ answers' = Overlaid(answers,
                [j \in {k} |-> Balance(c, TouchedAt(k), TooEarly)])
          /\ IF c = <<>> THEN fails < MaxFails /\ fails' = fails + 1
             ELSE HighEnough(latestHeight) /\ UNCHANGED fails
    /\ UNCHANGED <<pc, feedVars, loopVars, workVars, taskNum, envVars, history,
                   nodeVars, lag, asking, cacheVars, balances, handled,
                   counted, misled>>

\* getErc1155BalanceAll waits for all batches.
Erc1155GetBalancesDone ==
    /\ pc = "query" /\ asking = DOMAIN answers
    /\ QueryAnswered /\ UNCHANGED queryVars

Erc1155SaveBalances == Save

Erc1155RevertBlock == CleanAndHandle \/ RecordReverted \/ RecordBelow

Erc1155BalanceNext ==
    \/ Common \/ Erc1155FixHistory \/ Erc1155HandleBlocks
    \/ \E k \in Keys : Erc1155GetBalanceByMultiCall(k)
    \/ Erc1155GetBalancesDone \/ Erc1155SaveBalances \/ RecordHeight
    \/ Erc1155RevertBlock

Erc1155BalanceSpec == BalanceInit /\ [][Erc1155BalanceNext]_taskVars
=============================================================================

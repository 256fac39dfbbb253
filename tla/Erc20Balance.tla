---------------------------- MODULE Erc20Balance ----------------------------
(***************************************************************************)
(* Erc20BalanceTask, src/task/erc20_balance_task.go: the balances of the    *)
(* senders and receivers of token transfers, asked in a batch, or through   *)
(* the contract of utils/multicall.go if one is configured.                 *)
(***************************************************************************)
EXTENDS BalanceTask

CONSTANT MultiCallContract  \* is one configured?

Erc20FixHistory == CatchUp(curHeight + 1 + BatchBlockCount)

Erc20HandleBlocks == AskForTouched

\* An element that reverts, or fails in another way that no retry would help, is
\* taken for an answer: no value, and the height of the others.
ElementReverts(k) ==
    /\ pc = "query" /\ k \in asking \ DOMAIN answers
    /\ fails < MaxFails /\ fails' = fails + 1
    /\ answers' = Overlaid(answers, [j \in {k} |-> Balance(<<>>, 0, FALSE)])
    /\ UNCHANGED <<pc, feedVars, loopVars, workVars, taskNum, envVars, history,
                   nodeVars, lag, asking, cacheVars, balances, handled,
                   counted, misled>>

\* getErc20BalancesBatch.
Erc20GetBalancesBatch ==
    /\ ~MultiCallContract
    /\ (\E k \in Keys : ReadValue(k) \/ ElementReverts(k)) \/ ReadHeight(Last(batch).num)

\* getBalanceByMultiCall: the call tells the block it was made at, which must
\* not be below the last event received.  A call that fails leaves the height
\* of the block, and no value.
Erc20GetBalanceByMultiCall(k) ==
    /\ MultiCallContract /\ pc = "query" /\ k \in asking \ DOMAIN answers
    /\ \/ /\ HighEnough(latestHeight)
          /\ answers' = Overlaid(answers,
                [j \in {k} |-> Balance(View, Len(View), TooEarly)])
          /\ UNCHANGED fails
       \/ /\ fails < MaxFails /\ fails' = fails + 1
          /\ answers' = Overlaid(answers,
                [j \in {k} |-> Balance(<<>>, TouchedAt(k), FALSE)])
    /\ UNCHANGED <<pc, feedVars, loopVars, workVars, taskNum, envVars, history,
                   nodeVars, lag, asking, cacheVars, balances, handled,
                   counted, misled>>

\* getErc20BalanceAll waits for all batches.
Erc20GetBalancesDone ==
    /\ MultiCallContract /\ pc = "query" /\ asking = DOMAIN answers
    /\ QueryAnswered /\ UNCHANGED queryVars

Erc20SaveBalances == Save

Erc20RevertBlock == CleanAndHandle \/ RecordReverted \/ RecordBelow

Erc20BalanceNext ==
    \/ Common \/ Erc20FixHistory \/ Erc20HandleBlocks \/ Erc20GetBalancesBatch
    \/ \E k \in Keys : Erc20GetBalanceByMultiCall(k)
    \/ Erc20GetBalancesDone \/ Erc20SaveBalances \/ RecordHeight \/ Erc20RevertBlock

Erc20BalanceSpec == BalanceInit /\ [][Erc20BalanceNext]_taskVars
=============================================================================

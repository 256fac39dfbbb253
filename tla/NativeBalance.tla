--------------------------- MODULE NativeBalance ---------------------------
(***************************************************************************)
(* BalanceTask, src/task/balance_task.go: the balances of the senders and   *)
(* receivers of transactions and of internal transactions that moved value. *)
(***************************************************************************)
EXTENDS BalanceTask

NativeFixHistory == CatchUp(curHeight + 1 + BatchBlockCount)

NativeHandleBlocks == AskForTouched

\* getBalances: the height must be that of the last block of the batch.
NativeGetBalances == (\E k \in Keys : ReadValue(k)) \/ ReadHeight(Last(batch).num)

NativeSaveBalances == Save

NativeRevertBlock == CleanAndHandle \/ RecordReverted \/ RecordBelow

NativeBalanceNext ==
    \/ Common \/ NativeFixHistory \/ NativeHandleBlocks \/ NativeGetBalances
    \/ NativeSaveBalances \/ RecordHeight \/ NativeRevertBlock

NativeBalanceSpec == BalanceInit /\ [][NativeBalanceNext]_taskVars
=============================================================================

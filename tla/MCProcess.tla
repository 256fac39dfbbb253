------------------------------ MODULE MCProcess ------------------------------
(* Instances of Process for TLC: a task of each kind. *)
EXTENDS Process

TaskNames == <<"base_data", "erc20_tx", "block_delay">>

KindOf == [t \in {"base_data", "erc20_tx", "block_delay"} |->
              CASE t = "base_data" -> "base"
                [] t = "erc20_tx" -> "async"
                [] OTHER -> "delay"]
=============================================================================

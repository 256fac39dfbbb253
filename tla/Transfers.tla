----------------------------- MODULE Transfers -----------------------------
(***************************************************************************)
(* Which logs the handlers take for transfers and for Sync events           *)
(* (isErc20Tx and the like, in src/task), and which the filters of          *)
(* src/output/mysqldb/filter.go have the database return.  A log is seen as *)
(* the event its first topic names, and how many topics it has.             *)
(***************************************************************************)
EXTENDS Integers, Sequences

Events == {"Transfer", "TransferSingle", "TransferBatch", "Sync", "other"}

\* A log without topics names no event.
Logs == {l \in [event : Events, topics : 0..4] : l.topics = 0 => l.event = "other"}

isErc20Tx(l) == l.event = "Transfer" /\ l.topics = 3

isErc721Tx(l) == l.event = "Transfer" /\ l.topics = 4

isErc1155SingleTx(l) == l.event = "TransferSingle" /\ l.topics = 4

isErc1155BatchTx(l) == l.event = "TransferBatch" /\ l.topics = 4

isDexPair(l) == l.event = "Sync" /\ l.topics = 1

Takes == [erc20   |-> {l \in Logs : isErc20Tx(l)},
          erc721  |-> {l \in Logs : isErc721Tx(l)},
          erc1155 |-> {l \in Logs : isErc1155SingleTx(l) \/ isErc1155BatchTx(l)},
          dex     |-> {l \in Logs : isDexPair(l)}]

\* A filter: the events it wants, all if there are none; the topics that must
\* be there and those that must not; whether all transactions are asked for or
\* only those of the logs.
ERC20Filter == [events |-> {"Transfer"}, some |-> {1, 2}, void |-> {3}, txs |-> TRUE]

ERC721Filter == [events |-> {"Transfer"}, some |-> {1, 2, 3}, void |-> {}, txs |-> FALSE]

ERC1155Filter == [events |-> {"TransferSingle", "TransferBatch"},
                  some |-> {}, void |-> {}, txs |-> FALSE]

\* That of DexPairTask.fixHistoryData.
DexFilter == [events |-> {"Sync"}, some |-> {}, void |-> {}, txs |-> TRUE]

FilterOf == [erc20 |-> ERC20Filter, erc721 |-> ERC721Filter,
             erc1155 |-> ERC1155Filter, dex |-> DexFilter]

\* generateLogCondition: topic i is empty from the number of topics on.
Matches(l, f) == /\ l.event \in f.events
                 /\ \A i \in f.some : l.topics > i
                 /\ \A i \in f.void : l.topics <= i
=============================================================================

---------------------------- MODULE Erc20TxTask ----------------------------
(***************************************************************************)
(* The task erc20_tx, src/task/erc20_tx_task.go: RowsTask with the table    *)
(* erc20_info besides.  Tokens not in the task's LRU cache are asked for    *)
(* their name and supply while blocks are gone through; before the rows are *)
(* saved getOrigin deletes the old row of such a token, outside of the      *)
(* transaction that will insert the new one.                                *)
(***************************************************************************)
EXTENDS RowsTask

CONSTANTS
    Tokens,         \* contracts with transfers; b.tokens are those of block b
    Supplies        \* what totalSupply may return

NoSupply == ""

ASSUME Erc20Assumption ==
    /\ \A b \in Blocks : b.tokens \subseteq Tokens
    /\ NoSupply \notin Supplies

VARIABLES
    erc20infos,     \* the LRU cache of tokens already asked for
    fetched,        \* erc20Infos: new information, by token
    toOrigin,       \* getOrigin: the tokens it has yet to look up
    infos,          \* the table erc20_info, by token
    replaced        \* history: the supply in the row deleted last, by token

infoVars == <<erc20infos, fetched, toOrigin, infos, replaced>>

Info == [supply : Supplies \cup {NoSupply}, origin : Supplies \cup {NoSupply}]

Erc20Init ==
    /\ RowsInit
    /\ erc20infos = {} /\ fetched = [t \in {} |-> NoSupply] /\ toOrigin = {}
    /\ infos = [t \in {} |-> NoSupply]
    /\ replaced = [t \in Tokens |-> NoSupply]

\* getErc20Info for tokens of the batch the cache does not hold: a batch call
\* may fail, or its node be too low, and a contract may not return a supply.
FetchInfos(bs) ==
    \E ts \in SUBSET (UNION {bs[i].tokens : i \in DOMAIN bs} \ erc20infos) :
        /\ fetched' \in [ts -> [supply : Supplies \cup {NoSupply},
                                origin : {NoSupply}]]
        /\ erc20infos' = erc20infos \cup ts

Erc20FixHistoryData == FixHistoryData /\ UNCHANGED <<rows, infoVars>>

\* handleBlocks up to getOrigin.
Erc20Handle ==
    /\ Cut(MaxBlockCount, "origin")
    /\ FetchInfos(batch')
    /\ toOrigin' = {t \in DOMAIN fetched' : fetched'[t].supply # NoSupply}
    /\ UNCHANGED <<rows, infos, replaced>>

\* An entry falls out of the LRU cache.
Evict(t) ==
    /\ pc \in Running /\ t \in erc20infos \ DOMAIN fetched
    /\ erc20infos' = erc20infos \ {t}
    /\ UNCHANGED <<rowsVars, fetched, toOrigin, infos, replaced>>

HasSupply(t) == t \in DOMAIN infos /\ infos[t].supply # NoSupply

\* Mutant: the origin of the old row is passed on, not its supply.
TakeOrigin_Oldest(t) == [fetched EXCEPT ![t].origin = infos[t].origin]

TakeOrigin(t) == [fetched EXCEPT ![t].origin = infos[t].supply]

\* The old row of token t is deleted at once.  A query that fails counts as
\* no row, a delete that fails is printed.
GetOrigin(t) ==
    /\ pc = "origin" /\ t \in toOrigin /\ toOrigin' = toOrigin \ {t}
    /\ \/ /\ HasSupply(t)
          /\ fetched' = TakeOrigin(t)
          /\ \/ /\ infos' = [u \in DOMAIN infos \ {t} |-> infos[u]]
                /\ replaced' = [replaced EXCEPT ![t] = infos[t].supply]
             \/ UNCHANGED <<infos, replaced>>
       \/ UNCHANGED <<fetched, infos, replaced>>
    /\ UNCHANGED <<rowsVars, erc20infos>>

OriginsDone ==
    /\ pc = "origin" /\ toOrigin = {} /\ pc' = "save"
    /\ UNCHANGED <<loopVars, workVars, feedVars, taskNum, envVars, history,
                   rows, infoVars>>

\* INSERT IGNORE on the unique key addr.
InsertInfos ==
    infos' = [t \in DOMAIN infos \cup DOMAIN fetched |->
                 IF t \in DOMAIN infos THEN infos[t] ELSE fetched[t]]

\* doSave: rows, infos and height in one transaction.
Erc20Save ==
    /\ SaveWithHeight /\ InsertInfos
    /\ fetched' = [t \in {} |-> NoSupply]
    /\ UNCHANGED <<erc20infos, toOrigin, replaced>>

Erc20SaveAnswerLost ==
    /\ SaveAnswerLost /\ InsertInfos
    /\ UNCHANGED <<erc20infos, fetched, toOrigin, replaced>>

\* doRevert: transfers only; the information of a token stays.
Erc20Revert == Revert /\ UNCHANGED infoVars

Erc20Restart ==
    /\ Restart(OkBlocks \ ToSet(chain), {}) /\ UNCHANGED rows
    /\ erc20infos' = {} /\ fetched' = [t \in {} |-> NoSupply] /\ toOrigin' = {}
    /\ UNCHANGED <<infos, replaced>>

Erc20Next ==
    \/ (LoopStep \/ Environment) /\ UNCHANGED <<rows, infoVars>>
    \/ Erc20FixHistoryData \/ Erc20Handle \/ OriginsDone \/ Erc20Save \/ Erc20Revert
    \/ (SaveFails \/ RevertFails \/ RevertAnswerLost) /\ UNCHANGED infoVars
    \/ Erc20SaveAnswerLost \/ Erc20Restart
    \/ \E t \in Tokens : GetOrigin(t) \/ Evict(t)

Erc20Spec == Erc20Init /\ [][Erc20Next]_<<rowsVars, infoVars>>

----------------------------------------------------------------------------
(* Properties. *)

Erc20TypeOK ==
    /\ RowsTypeOK
    /\ erc20infos \subseteq Tokens /\ toOrigin \subseteq DOMAIN fetched
    /\ fetched \in UNION {[ts -> Info] : ts \in SUBSET Tokens}
    /\ infos \in UNION {[ts -> Info] : ts \in SUBSET Tokens}
    /\ replaced \in [Tokens -> Supplies \cup {NoSupply}]

\* Until a crash loses it, a deleted row of erc20_info is kept: the token
\* has a new row that names the supply of the old one as its origin, or one is
\* in hand, through failed queries, retries and evictions.
OriginKept ==
    pc \in Running /\ restarts = 0 =>
        \A t \in Tokens : replaced[t] # NoSupply =>
            IF t \in DOMAIN infos THEN infos[t].origin = replaced[t]
            ELSE t \in DOMAIN fetched /\ fetched[t].origin = replaced[t]

\* A token the cache holds, which is not asked for again, has its row or is
\* about to get it, also where a crash came between delete and insert.
KnownHasRow ==
    pc \in Running => erc20infos \subseteq DOMAIN infos \cup DOMAIN fetched

\* The supply in a row of erc20_info that was deleted is not forgotten, and no
\* token is taken for known that has no row.
OriginsKept == OriginKept /\ KnownHasRow
=============================================================================

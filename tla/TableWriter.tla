---------------------------- MODULE TableWriter ----------------------------
(***************************************************************************)
(* The inserts of src/output/mysqldb/mysqldb.go: rows are inserted some at  *)
(* a time, in the transaction of the caller, which rolls back when one of   *)
(* them fails and is then tried again; the table balance is written without *)
(* a transaction.  Three ways to insert: plainly (the tables have no unique *)
(* key), ignoring rows whose key is there, or updating them.                *)
(***************************************************************************)
EXTENDS Integers, SequencesExt, FiniteSetsExt

CONSTANTS
    Rows,           \* rows that may be written: [key, val], val being the
                    \* columns besides the key, by name
    Before,         \* the rows the table may have before: sequences of rows
    MaxRows,        \* bound: how many rows are written at once
    SqlBatch,       \* config: how many rows an INSERT has
    RetryTimes

TableWriterConstants ==
    /\ SqlBatch \in Nat \ {0} /\ MaxRows \in Nat /\ RetryTimes \in Nat
    /\ Before \subseteq Seq(Rows)

VARIABLES
    pc,             \* "begin", "write", "commit", "saved", "exited"
    op,             \* the function called
    rows,           \* what it is to write
    i,              \* its variable i: rows inserted so far
    draft,          \* the table as the session sees it
    table,          \* the table as committed
    tries,          \* how many attempts failed
    first,          \* history: the table before
    lost            \* history: was a commit done whose answer was lost?

vars == <<pc, op, rows, i, draft, table, tries, first, lost>>

----------------------------------------------------------------------------
(* The effect of one INSERT of rs on a table t. *)

Plain(t, rs) == t \o rs

Has(t, k) == \E j \in DOMAIN t : t[j].key = k

\* INSERT IGNORE.
Ignore(t, rs) == FoldLeft(LAMBDA u, r : IF Has(u, r.key) THEN u ELSE Append(u, r), t, rs)

\* Mutant: a row that is there stays as it is.
Upsert_Ignore(t, rs, columns) == Ignore(t, rs)

\* ON DUPLICATE KEY UPDATE of these columns.
Upsert(t, rs, columns) ==
    FoldLeft(LAMBDA u, r :
        IF Has(u, r.key)
        THEN [j \in DOMAIN u |->
                 IF u[j].key = r.key
                 THEN [u[j] EXCEPT !.val = [c \in DOMAIN u[j].val |->
                           IF c \in columns THEN r.val[c] ELSE u[j].val[c]]]
                 ELSE u[j]]
        ELSE Append(u, r), t, rs)

insertTxs(t, rs)        == Plain(t, rs)
insertTxErc20s(t, rs)   == Plain(t, rs)
insertTxErc721s(t, rs)  == Plain(t, rs)
insertTxlogs(t, rs)     == Plain(t, rs)
insertTxInternals(t, rs) == Plain(t, rs)
SaveTxErc1155s(t, rs)   == Plain(t, rs)

insertErc20InfosV2(t, rs) == Ignore(t, rs)
insertErc721Infos(t, rs)  == Ignore(t, rs)
insertContractsV2(t, rs)  == Ignore(t, rs)

AllColumns == {"who", "much"}

insertBalances(t, rs)         == Upsert(t, rs, AllColumns)
insertBalancesErc20(t, rs)    == Upsert(t, rs, AllColumns)
insertBalancesErc1155(t, rs)  == Upsert(t, rs, AllColumns)
insertErc721Tokens(t, rs)     == Upsert(t, rs, AllColumns)
insertTokenPairs(t, rs)       == Upsert(t, rs, AllColumns)

\* The reserves and the block; the tokens and the name stay.
updateTokenPairsReserve(t, rs) == Upsert(t, rs, {"much"})

Ops == {"insertTxs", "insertTxErc20s", "insertTxErc721s", "insertTxlogs",
        "insertTxInternals", "SaveTxErc1155s", "insertErc20InfosV2",
        "insertErc721Infos", "insertContractsV2", "insertBalances",
        "insertBalancesErc20", "insertBalancesErc1155", "insertErc721Tokens",
        "insertTokenPairs", "updateTokenPairsReserve"}

Insert(o, t, rs) ==
    CASE o = "insertTxs"             -> insertTxs(t, rs)
      [] o = "insertTxErc20s"        -> insertTxErc20s(t, rs)
      [] o = "insertTxErc721s"       -> insertTxErc721s(t, rs)
      [] o = "insertTxlogs"          -> insertTxlogs(t, rs)
      [] o = "insertTxInternals"     -> insertTxInternals(t, rs)
      [] o = "SaveTxErc1155s"        -> SaveTxErc1155s(t, rs)
      [] o = "insertErc20InfosV2"    -> insertErc20InfosV2(t, rs)
      [] o = "insertErc721Infos"     -> insertErc721Infos(t, rs)
      [] o = "insertContractsV2"     -> insertContractsV2(t, rs)
      [] o = "insertBalances"        -> insertBalances(t, rs)
      [] o = "insertBalancesErc20"   -> insertBalancesErc20(t, rs)
      [] o = "insertBalancesErc1155" -> insertBalancesErc1155(t, rs)
      [] o = "insertErc721Tokens"    -> insertErc721Tokens(t, rs)
      [] o = "insertTokenPairs"      -> insertTokenPairs(t, rs)
      [] o = "updateTokenPairsReserve" -> updateTokenPairsReserve(t, rs)

PlainOps == {"insertTxs", "insertTxErc20s", "insertTxErc721s", "insertTxlogs",
             "insertTxInternals", "SaveTxErc1155s"}

\* SaveBalances uses the engine, not a session.
InSession(o) == o # "insertBalances"

----------------------------------------------------------------------------
Init ==
    /\ pc = "begin" /\ op \in Ops /\ i = 0 /\ tries = 0 /\ lost = FALSE
    /\ rows \in UNION {[1..n -> Rows] : n \in 0..MaxRows}
    /\ table \in Before /\ first = table /\ draft = table
    /\ op \notin PlainOps => \A j, k \in DOMAIN table : table[j].key = table[k].key => j = k

Begin ==
    /\ pc = "begin" /\ pc' = "write" /\ i' = 0 /\ draft' = table
    /\ UNCHANGED <<op, rows, table, tries, first, lost>>

BatchEnd == Min({i + SqlBatch, Len(rows)})

Batch == SubSeq(rows, i + 1, BatchEnd)

InsertBatch ==
    /\ pc = "write" /\ i < Len(rows)
    /\ draft' = Insert(op, draft, Batch)
    /\ i' = BatchEnd
    /\ IF InSession(op) THEN UNCHANGED table ELSE table' = draft'
    /\ UNCHANGED <<pc, op, rows, tries, first, lost>>

Inserted ==
    /\ pc = "write" /\ i >= Len(rows)
    /\ pc' = IF InSession(op) THEN "commit" ELSE "saved"
    /\ UNCHANGED <<op, rows, i, draft, table, tries, first, lost>>

\* HandleErrorWithRetry: from the beginning, or the process ends.
Retry == /\ tries' = tries + 1
         /\ pc' = IF tries' > RetryTimes THEN "exited" ELSE "begin"

Rollback == UNCHANGED table

Fails ==
    /\ pc \in {"write", "commit"} /\ Retry /\ Rollback
    /\ UNCHANGED <<op, rows, i, draft, first, lost>>

Commit ==
    /\ pc = "commit" /\ table' = draft /\ pc' = "saved"
    /\ UNCHANGED <<op, rows, i, draft, tries, first, lost>>

\* The commit is done, but its answer is lost.
CommitAnswerLost ==
    /\ pc = "commit" /\ table' = draft /\ Retry /\ lost' = TRUE
    /\ UNCHANGED <<op, rows, i, draft, first>>

Next == Begin \/ InsertBatch \/ Inserted \/ Fails \/ Commit \/ CommitAnswerLost

Spec == Init /\ [][Next]_vars

----------------------------------------------------------------------------
TypeOK ==
    /\ pc \in {"begin", "write", "commit", "saved", "exited"}
    /\ op \in Ops /\ i \in 0..Len(rows) /\ tries \in 0..(RetryTimes + 1)
    /\ \A t \in {table, draft} : \A j \in DOMAIN t :
          t[j].key \in {r.key : r \in Rows}

\* Reference: the table that has every row written, and for a key that may be
\* there once what the last row with it says, the first one where rows are
\* ignored.
LastWith(k, s) == LET at == {j \in DOMAIN s : s[j].key = k} IN s[Max(at)]
FirstWith(k, s) == LET at == {j \in DOMAIN s : s[j].key = k} IN s[Min(at)]

Written ==
    LET all == first \o rows
        keys == {all[j].key : j \in DOMAIN all}
        ForKey(k) ==
            IF op \in {"insertErc20InfosV2", "insertErc721Infos", "insertContractsV2"}
            THEN FirstWith(k, all)
            ELSE IF op = "updateTokenPairsReserve"
            THEN [key |-> k, val |-> [who |-> FirstWith(k, all).val.who,
                                      much |-> LastWith(k, all).val.much]]
            ELSE LastWith(k, all)
    IN  IF op \in PlainOps THEN ToSet(all) = ToSet(table) /\ Len(all) = Len(table)
        ELSE ToSet(table) = {ForKey(k) : k \in keys} /\ Len(table) = Cardinality(keys)

\* A save that is reported done wrote every row once, however it was cut into
\* INSERTs and however often it was tried; a commit whose answer was lost makes
\* only plain inserts write twice.
SavedIsWritten == pc = "saved" => (Written \/ (lost /\ op \in PlainOps))

\* A save in a session that was never committed left no row behind; the
\* balances of the native task may be written in part.
NothingInPart == InSession(op) /\ pc # "saved" /\ ~lost => table = first
=============================================================================

----------------------------- MODULE Erc721Task -----------------------------
(***************************************************************************)
(* The task erc721_basic, src/task/erc721_task.go: RowsTask with the table  *)
(* token_erc721 of owners besides.  The rows of the blocks are saved in one *)
(* transaction and the height of the task in another one; a revert gives    *)
(* each token of the block back to the first sender.                        *)
(***************************************************************************)
EXTENDS RowsTask

CONSTANT Owners     \* accounts; block b moves the tokens b.moves, in order

Erc721Constants ==
    \A b \in Blocks : \A i \in DOMAIN b.moves :
        b.moves[i].sender \in Owners /\ b.moves[i].receiver \in Owners

VARIABLE owner      \* the table token_erc721: token -> owner_addr

erc721Vars == <<rowsVars, owner>>

\* parseTxErc721: the moves of a block, in the order of its logs.
Moves(bs) == FlattenSeq([i \in DOMAIN bs |-> bs[i].moves])

TokensOf(ms) == {ms[i].token : i \in DOMAIN ms}

First(ms, t) == ms[Min({i \in DOMAIN ms : ms[i].token = t})]

LastMove(ms, t) == ms[Max({i \in DOMAIN ms : ms[i].token = t})]

\* The rows are upserted in order on the unique key of contract and token.
Upsert(f, ms) ==
    [t \in DOMAIN f \cup TokensOf(ms) |->
        IF t \in TokensOf(ms) THEN LastMove(ms, t).receiver ELSE f[t]]

Erc721Init ==
    /\ RowsInit
    /\ owner = Upsert([t \in {} |-> ""], Moves(SubSeq(StartChain, 1, StartNumber)))

Erc721FixHistoryData == FixHistoryData /\ UNCHANGED <<rows, owner>>

Erc721Handle == Handle /\ UNCHANGED <<rows, owner>>

\* saveErc721: one transaction.
SaveRows ==
    /\ pc = "save"
    /\ InsertRows(batch) /\ owner' = Upsert(owner, Moves(batch))
    /\ pc' = "height" /\ tries' = 0
    /\ UNCHANGED <<loopVars, inHand, todo, batch, feedVars, taskNum, envVars,
                   history>>

SaveRowsAnswerLost ==
    /\ LostAnswers /\ pc = "save" /\ Retry
    /\ InsertRows(batch) /\ owner' = Upsert(owner, Moves(batch))
    /\ UNCHANGED <<feedVars, taskNum, envVars, history>>

\* doSave, then: the height, with retries of its own.
SaveHeight ==
    /\ pc = "height" /\ taskNum' = Last(batch).num /\ Saved
    /\ UNCHANGED <<rows, owner, cache, latestHeight, compensation,
                   feedVars, envVars, history>>

SaveHeightFails ==
    /\ pc = "height" /\ Retry
    /\ UNCHANGED <<rows, owner, feedVars, taskNum, envVars, history>>

\* Mutant: the sender of the last move gets the token back.
GiveBack_Last(f, ms) ==
    [t \in DOMAIN f |-> IF t \in TokensOf(ms) THEN LastMove(ms, t).sender ELSE f[t]]

\* doRevert: update token_erc721 for every token of the block.
GiveBack(f, ms) ==
    [t \in DOMAIN f |-> IF t \in TokensOf(ms) THEN First(ms, t).sender ELSE f[t]]

Erc721Revert ==
    /\ Revert /\ owner' = GiveBack(owner, inHand[1].blk.moves)

Erc721RevertAnswerLost ==
    /\ RevertAnswerLost /\ owner' = GiveBack(owner, inHand[1].blk.moves)

\* Blocks that have rows, reverted or not, and that the feed has yet to tell of.
AheadOfFeed == {b \in {rows[i].blk : i \in DOMAIN rows} :
                   [state |-> "ok", blk |-> b] \in ToSet(ToApply)}

\* What a restart finds written that it does not know of: rows base_data has
\* no block for, or above the height of the task; and owners from blocks whose
\* rows the revert of another block has marked.
Unaccounted ==
    (OkBlocks \ ToSet(chain)) \cup {b \in OkBlocks : b.num > taskNum} \cup AheadOfFeed

Erc721Step ==
    \/ LoopStep /\ UNCHANGED <<rows, owner>>
    \/ Erc721FixHistoryData \/ Erc721Handle \/ SaveRows \/ SaveHeight \/ Erc721Revert

Erc721Next ==
    \/ Erc721Step
    \/ (SaveFails \/ RevertFails) /\ UNCHANGED owner
    \/ SaveRowsAnswerLost \/ SaveHeightFails \/ Erc721RevertAnswerLost
    \/ (Environment \/ Restart(Unaccounted, {})) /\ UNCHANGED <<rows, owner>>

Erc721Spec == Erc721Init /\ [][Erc721Next]_erc721Vars

----------------------------------------------------------------------------
(* Properties. *)

Erc721TypeOK == RowsTypeOK /\ \A t \in DOMAIN owner : owner[t] \in Owners

\* The blocks with rows that count, by number.
Handled == SetToSortSeq(OkBlocks, LAMBDA b, c : b.num < c.num)

\* No event is on its way and the task is where the feed is.
AtRest == ToApply = <<>> /\ curHeight = Len(sent)

\* The table of owners and the table of transfers agree: at rest, while no
\* block has gone astray or been passed over, each token belongs to the receiver
\* of the last transfer that counts, through reverts, failed and repeated
\* transactions, and crashes.  Not before: where catch-up is ahead of the feed
\* a revert marks the rows of one branch and gives back by the moves of another.
OwnersAgree ==
    AtRest /\ astray = {} /\ skipped = {} =>
        \A t \in TokensOf(Moves(Handled)) :
            owner[t] = LastMove(Moves(Handled), t).receiver
=============================================================================

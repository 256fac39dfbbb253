------------------------------ MODULE MCTasks ------------------------------
(***************************************************************************)
(* Instances of the asynchronous tasks for TLC.  The tasks of a process     *)
(* share the feed and the tables of base_data and nothing they write, so    *)
(* one task at a time is enough: Init chooses it, among Chosen, and what    *)
(* belongs to the others stays as it is.  Each task has bounds of its own.  *)
(***************************************************************************)
EXTENDS Erc20TxTask

CONSTANTS Chosen, Height, Fork, Stored0

VARIABLES task, owner, pairs, known, toSave, done, topic, failures

Sync(p, d) == [pair |-> p, decodes |-> d]

At(n, k) == IF n <= Fork THEN <<n, 0>> ELSE <<n, k>>

Owners == {<<n, k>> : n \in 0..Height, k \in {0, 1, 2}}

Pairs == {0, 1, 2}

\* A chain and a branch that leaves it after block Fork.  Token "a" moves twice
\* in every block, token "c" in those of the branch and in the first block.
BlockOf(n, k) ==
    [num |-> n, hash |-> <<n, k>>, parent |-> At(n - 1, k),
     tokens |-> Tokens,
     moves  |-> <<[token |-> "a", sender |-> At(n - 1, k), receiver |-> <<n, 2>>],
                  [token |-> "a", sender |-> <<n, 2>>, receiver |-> At(n, k)]>>
                \o IF k = 0 /\ n > 1 THEN <<>>
                   ELSE <<[token |-> "c", sender |-> At(n - 1, k), receiver |-> At(n, k)]>>,
     syncs  |-> IF k = 0 THEN <<Sync(n % 2, TRUE), Sync(2, TRUE), Sync(2, FALSE)>>
                ELSE <<Sync(2, TRUE)>>]

BlockTree == {BlockOf(n, 0) : n \in 1..Height}
             \cup {BlockOf(n, 1) : n \in (Fork + 1)..Height}

GenesisBlockHash == <<0, 0>>

FirstChain == [n \in 1..Stored0 |-> BlockOf(n, 0)]

\* Its channel holds enough for catch-up to get ahead of a revert and of the
\* blocks that follow it.
Erc1155 == INSTANCE RowsTask WITH LostAnswers <- FALSE, MaxEvents <- MaxEvents + 1,
                                    BufferSize <- 3, BatchBlockCount <- 2
Erc721 == INSTANCE Erc721Task
Dex == INSTANCE DexPairTask WITH PairBlocks <- 1, LostCommits <- LostAnswers
Push == INSTANCE PushKafkaTask WITH MaxFailures <- 1, RetryTimes <- 0,
                                      EndNumber <- Height, LostAcks <- LostAnswers,
                                      RangeBlocks <- BatchBlockCount

ASSUME MCTasksAssumption ==
    Erc721!Erc721Constants /\ Dex!DexPairConstants /\ Push!PushKafkaConstants

dexVars == <<pairs, known, toSave, done>>
pushVars == <<topic, failures>>
tasksVars == <<rowsVars, infoVars, owner, dexVars, pushVars, task>>

TasksInit ==
    /\ task \in Chosen
    /\ Erc20Init /\ Erc721!Erc721Init /\ Dex!DexInit /\ Push!PushInit

\* A step of one of the tasks.
Erc1155Does(A) == /\ task = "erc1155_basic" /\ A
                  /\ UNCHANGED <<task, infoVars, owner, dexVars, pushVars>>

Erc20Does(A) == /\ task = "erc20_tx" /\ A
                /\ UNCHANGED <<task, owner, dexVars, pushVars>>

Erc721Does(A) == /\ task = "erc721_basic" /\ A
                 /\ UNCHANGED <<task, infoVars, dexVars, pushVars>>

DexDoes(A) == /\ task = "dex_pair" /\ A
              /\ UNCHANGED <<task, rows, infoVars, owner, pushVars>>

PushDoes(A) == /\ task = "push_kafka" /\ A
               /\ UNCHANGED <<task, rows, infoVars, owner, dexVars>>

TasksNext ==
    \/ Erc1155Does(Erc1155!RowsNext) \/ Erc20Does(Erc20Next)
    \/ Erc721Does(Erc721!Erc721Next) \/ DexDoes(Dex!DexNext)
    \/ PushDoes(Push!PushNext)

TasksSpec == TasksInit /\ [][TasksNext]_tasksVars

\* The goroutine of a task runs when it can and base_data applies what it
\* received; select does not pass over a token or an event for ever, and a
\* query does not fail for ever.
FairSpec ==
    /\ TasksSpec
    /\ WF_tasksVars(Erc1155Does(Erc1155!Step))
    /\ WF_tasksVars(Erc1155Does(Erc1155!BaseApplies /\ UNCHANGED rows))
    /\ SF_tasksVars(Erc1155Does(Erc1155!Wake /\ UNCHANGED rows))
    /\ SF_tasksVars(Erc1155Does(Erc1155!Answered /\ UNCHANGED rows))
    /\ WF_tasksVars(DexDoes(Dex!DexStep))
    /\ WF_tasksVars(DexDoes(Dex!BaseApplies /\ UNCHANGED dexVars))
    /\ SF_tasksVars(DexDoes(Dex!Wake /\ UNCHANGED dexVars))
    /\ SF_tasksVars(DexDoes((\E e \in Event : Dex!Receive(e)) /\ UNCHANGED dexVars))
    /\ SF_tasksVars(DexDoes((Dex!DexFixHistory \/ Dex!DexSkip) /\ UNCHANGED dexVars))

----------------------------------------------------------------------------
(* The properties of the tasks, put together by what they say. *)

WritesRows == task \in {"erc1155_basic", "erc20_tx", "erc721_basic"}

\* Nothing the feed has sent is missed: up to the height of the task every
\* block that stands has its rows, its message, or its reserves in a row that
\* names the tokens; and what a restart passes over is in the database.  The
\* consumers of the topic believe in no block that the feed has taken back,
\* unless its revert is on its way.
NothingLost ==
    /\ WritesRows => NothingMissed /\ HeightIsWritten
    /\ task = "dex_pair" => Dex!ReservesFresh /\ Dex!TokensAsked
    /\ task = "push_kafka" => Push!AllAnnounced /\ Push!AnnouncedStand

\* With rows and height in one transaction, a height that counts twice means a
\* block that went astray.
OnceWithHeight == task = "erc1155_basic" => OnlyStraysTwice

\* The table of owners follows the table of transfers.
OwnersFollow == task = "erc721_basic" => Erc721!OwnersAgree
=============================================================================

---------------------------- MODULE DexPairTask ----------------------------
(***************************************************************************)
(* The task dex_pair, src/task/dex_pair_task.go: it keeps the reserves of    *)
(* each pair as of its last Sync event.  A pair without a row is asked for   *)
(* its tokens first.  A revert takes nothing back: the task only handles the *)
(* height again.                                                            *)
(***************************************************************************)
EXTENDS AsyncTask

CONSTANTS
    Pairs,          \* contracts that emit Sync; b.syncs are the events of block b
    PairBlocks,     \* fixHistoryData: batch, 100
    LostCommits     \* fault: a commit may be done and reported as failed

DexPairConstants ==
    /\ \A b \in Blocks : b.syncs \in Seq([pair : Pairs, decodes : BOOLEAN])
    /\ PairBlocks \in Nat /\ LostCommits \in BOOLEAN

VARIABLES
    pairs,          \* the table token_pair, by pair
    known,          \* the LRU cache of pairs that have a row
    toSave,         \* pairsToGetTokens, with what was read for them
    done            \* history: the blocks handled

dexVars == <<pairs, known, toSave, done>>

dexTaskVars == <<pc, loopVars, workVars, feedVars, taskNum, envVars, history, dexVars>>

NoPairs == [p \in {} |-> ""]

\* Logs are gone through from the last to the first; the first one of a pair
\* that can be decoded counts.
LastSync(b, p) ==
    LET at == {i \in DOMAIN b.syncs : b.syncs[i].pair = p /\ b.syncs[i].decodes}
    IN  IF at = {} THEN {} ELSE {Max(at)}

Synced(b) == {p \in Pairs : LastSync(b, p) # {}}

PairRow(b, p, tokens) ==
    [blk |-> b, at |-> CHOOSE i \in LastSync(b, p) : TRUE, tokens |-> tokens]

\* A task starts with the rows of the blocks up to its height.
StartsWith(p) == {n \in 1..StartNumber : p \in Synced(StartChain[n])}

DexInit ==
    /\ Init /\ known = {} /\ toSave = NoPairs
    /\ pairs = [p \in {q \in Pairs : StartsWith(q) # {}} |->
                   PairRow(StartChain[Max(StartsWith(p))], p, "read")]
    /\ done = {StartChain[n] : n \in 1..StartNumber}

\* isNeedToGetPairTokens: a pair is cached once its row was seen.
Learn(ps) == known' = known \cup (ps \cap DOMAIN pairs)

NeedTokens(ps) == ps \ (known \cup DOMAIN pairs)

\* getPairsToken, in groups that each retry: a contract may refuse, and then
\* its addresses stay zero.
DexHandle ==
    /\ Cut(1, "save")
    /\ Learn(Synced(batch'[1]))
    /\ toSave' \in [NeedTokens(Synced(batch'[1])) -> {"read", "refused"}]
    /\ UNCHANGED <<pairs, done>>

EvictPair(p) ==
    /\ pc \in Running /\ known' = known \ {p} /\ p \in known
    /\ UNCHANGED <<pc, loopVars, workVars, feedVars, taskNum, envVars, history,
                   pairs, toSave, done>>

\* saveTokenPairs and updateTokenPairs: both upsert; the second leaves the
\* tokens of a row alone, or empty if there was none.
PairTokens(p) == IF p \in DOMAIN toSave THEN toSave[p]
               ELSE IF p \in DOMAIN pairs THEN pairs[p].tokens ELSE "none"

UpsertPairs(b) ==
    pairs' = [p \in DOMAIN pairs \cup Synced(b) |->
                 IF p \in Synced(b) THEN PairRow(b, p, PairTokens(p)) ELSE pairs[p]]

\* Pairs and height are written in one transaction.
DexSave ==
    /\ pc = "save"
    /\ UpsertPairs(batch[1]) /\ taskNum' = batch[1].num /\ Saved
    /\ done' = done \cup {batch[1]} /\ toSave' = NoPairs
    /\ UNCHANGED <<cache, latestHeight, compensation, feedVars,
                   envVars, history, known>>

DexSaveAnswerLost ==
    /\ LostCommits /\ pc = "save" /\ Retry
    /\ UpsertPairs(batch[1]) /\ taskNum' = batch[1].num
    /\ done' = done \cup {batch[1]}
    /\ UNCHANGED <<feedVars, envVars, history, known, toSave>>

\* revertBlock sets the height, and the loop sets it again.
DexRevert ==
    /\ pc = "revert" /\ Reverted
    /\ UNCHANGED <<cache, compensation, todo, batch, feedVars,
                   taskNum, envVars, history, dexVars>>

DexRangeEnd == curHeight + 1 + PairBlocks

\* A range without blocks is passed, and that is recorded; a single block that
\* is not there is waited for.
DexSkip == FarBehind /\ Skip(DexRangeEnd, "record")

DexRecord ==
    /\ pc = "record" /\ taskNum' = curHeight /\ tries' = 0 /\ pc' = "loop"
    /\ UNCHANGED <<loopVars, inHand, todo, batch, feedVars, envVars, history,
                   dexVars>>

DexFails ==
    /\ pc \in {"handle", "save", "record"} /\ Retry
    /\ UNCHANGED <<feedVars, taskNum, envVars, history, dexVars>>

DexWait ==
    /\ pc = "catchup" /\ ~FarBehind /\ Found(DexRangeEnd) = <<>>
    /\ cache' = CacheLeft /\ pc' = "loop"
    /\ UNCHANGED <<curHeight, latestHeight, compensation, workVars,
                   feedVars, taskNum, envVars, history>>

DexFixHistory == ReadFound(DexRangeEnd) \/ DexWait

DexStep == \/ (LoopStep \/ DexFixHistory) /\ UNCHANGED dexVars
           \/ DexHandle \/ DexSave \/ DexRevert \/ DexRecord

DexRestart ==
    /\ Restart(done \ ToSet(chain), {})
    /\ known' = {} /\ toSave' = NoPairs /\ UNCHANGED <<pairs, done>>

DexNext ==
    \/ DexStep \/ DexFails \/ DexSaveAnswerLost \/ DexRestart
    \/ (DexSkip \/ ReadFails \/ Environment) /\ UNCHANGED dexVars
    \/ \E p \in Pairs : EvictPair(p)

DexSpec == DexInit /\ [][DexNext]_dexTaskVars

----------------------------------------------------------------------------
(* Properties. *)

DexTypeOK ==
    /\ LoopTypeOK
    /\ \A p \in DOMAIN pairs : /\ pairs[p].blk \in Blocks
                               /\ pairs[p].tokens \in {"none", "read", "refused"}
    /\ known \subseteq Pairs /\ DOMAIN toSave \subseteq Pairs
    /\ done \subseteq Blocks

\* A row of token_pair has the tokens of the pair, however cache, table and
\* failed transactions interleave: only a pair that has a row is not asked.
TokensAsked == \A p \in DOMAIN pairs : pairs[p].tokens # "none"

\* b was not passed over by catch-up or by a restart, and does not come again.
Due(b) == b.num <= curHeight /\ ~PassedOver(b.num) /\ ~ToRedo(b.num)

\* No pair shows reserves from before the block that changed them last: for
\* every block that stands the row is of that block, at its last event that
\* can be decoded, or of a block above it.
ReservesFresh ==
    pc \in Subscribed =>
        \A b \in ToSet(sent) : Due(b) =>
            \A i \in DOMAIN b.syncs : b.syncs[i].decodes =>
                LET p == b.syncs[i].pair
                IN  /\ p \in DOMAIN pairs
                    /\ \/ pairs[p].blk = b /\ pairs[p].at >= i
                          /\ b.syncs[pairs[p].at].decodes
                       \/ pairs[p].blk.num > b.num
=============================================================================

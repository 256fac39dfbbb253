---------------------------- MODULE Compensation ----------------------------
(***************************************************************************)
(* The tool src/tools/compensation: it reads the blocks of a range from the *)
(* database, some at a time, and asks the balances their token transfers    *)
(* touch again, as Erc20BalanceTask does.  The node may reach the end of    *)
(* the range while it answers.                                              *)
(***************************************************************************)
EXTENDS CacheFilter, FiniteSetsExt

CONSTANTS
    StartHeight, EndHeight, \* flags: the range, both ends included
    BatchBlockCount,        \* config
    MultiCallContract,      \* config: is one configured?
    Touches,                \* the blocks of the database: number -> keys
    Heads,                  \* heights of the node at start
    MaxHead,                \* bound: the highest block of the node
    RetryTimes,
    MaxFailures,            \* bound: calls that fail for one balance
    U64                     \* 2^64: uint64 subtraction wraps around

CompensationConstants ==
    /\ StartHeight \in Nat /\ EndHeight \in Nat /\ BatchBlockCount \in Nat
    /\ MultiCallContract \in BOOLEAN /\ MaxHead \in Nat /\ Heads \subseteq 0..MaxHead
    /\ \A n \in DOMAIN Touches : n \in Nat /\ Touches[n] \subseteq Keys
    /\ RetryTimes \in Nat /\ MaxFailures \in Nat
    /\ U64 \in Nat /\ StartHeight < U64 /\ EndHeight < U64

ASSUME CompensationAssumption == CompensationConstants

VARIABLES
    pc,             \* "loop", "handle", "query", "save", "done" or "exited"
    curHeight,
    found,          \* the numbers of the blocks read
    asking,         \* the balances to ask for
    answers,        \* those read: key -> [at, height]
    table,          \* the rows: the height at which the value was read, and
                    \* the height saved with it
    tries,
    head,           \* height of the node
    failed,         \* history: keys for which the call failed or reverted
    raced           \* history: keys read below EndHeight, in a batch that ended
                    \* at or above it

toolVars == <<pc, curHeight, found, asking, answers, tries>>
rowVars == <<table, failed, raced>>
vars == <<toolVars, rowVars, cacheVars, head>>

Heights == [k \in DOMAIN table |-> table[k].height]

Touched == UNION {Touches[n] : n \in found}

\* Process.Run: curHeight starts below the range.
Init ==
    /\ pc = "loop" /\ curHeight = IF StartHeight = 0 THEN U64 - 1 ELSE StartHeight - 1
    /\ found = {} /\ asking = {} /\ answers = Empty /\ table = Empty /\ tries = 0
    /\ CacheInit /\ head \in Heads /\ failed = {} /\ raced = {}

\* Mutant: the first block of a range is taken for done.
From_Off == curHeight + 2

From == curHeight + 1

To == Min({curHeight + 1 + BatchBlockCount, EndHeight})

PassedTo == curHeight + 1 + BatchBlockCount

\* fixHistoryData: blocks without transfers that count, or not there yet, are
\* passed over.
ReadFound ==
    /\ pc = "loop" /\ curHeight < EndHeight
    /\ found' = DOMAIN Touches \cap (From..To)
    /\ IF found' = {} THEN curHeight' = PassedTo /\ UNCHANGED pc
                      ELSE pc' = "handle" /\ UNCHANGED curHeight
    /\ UNCHANGED <<asking, answers, tries, rowVars, cacheVars, head>>

Done ==
    /\ pc = "loop" /\ curHeight >= EndHeight /\ pc' = "done"
    /\ UNCHANGED <<curHeight, found, asking, answers, tries, rowVars, cacheVars, head>>

\* handleBlocks, isNeedToUpdate.
AskForTouched ==
    /\ pc = "handle" /\ pc' = "query" /\ answers' = Empty /\ tries' = 0
    /\ \E seen \in [Touched -> {Missing} \cup 0..MaxHead] :
          /\ \A k \in DOMAIN seen : seen[k] \in Get(k, Heights)
          /\ Keep(seen)
          /\ asking' = {k \in DOMAIN seen :
                           \E n \in found : k \in Touches[n] /\ n > seen[k]}
    /\ UNCHANGED <<curHeight, found, rowVars, filter, head>>

\* getErc20BalancesBatch: one element after the other, the height last.
ReadValue(k) ==
    /\ ~MultiCallContract /\ pc = "query" /\ k \in asking \ DOMAIN answers
    /\ answers' = Overlaid(answers, [j \in {k} |-> [at |-> head, height |-> 0]])
    /\ UNCHANGED <<pc, curHeight, found, asking, tries, rowVars, cacheVars, head>>

\* An element that reverts is taken for an answer without a value.
ElementReverts(k) ==
    /\ ~MultiCallContract /\ pc = "query" /\ k \in asking \ DOMAIN answers
    /\ Cardinality(failed) < MaxFailures /\ failed' = failed \cup {k}
    /\ answers' = Overlaid(answers, [j \in {k} |-> [at |-> 0, height |-> 0]])
    /\ UNCHANGED <<pc, curHeight, found, asking, tries, table, raced, cacheVars, head>>

\* Mutant: the height of the node is not compared.
HighEnough_Not == TRUE

HighEnough == head >= EndHeight

ReadHeight ==
    /\ ~MultiCallContract /\ pc = "query" /\ asking = DOMAIN answers
    /\ asking # {} => HighEnough
    /\ answers' = [k \in asking |-> [at |-> answers[k].at, height |-> head]]
    /\ raced' = raced \cup {k \in asking : answers[k].at < EndHeight /\ EndHeight <= head}
    /\ pc' = "save" /\ tries' = 0
    /\ UNCHANGED <<curHeight, found, asking, table, failed, cacheVars, head>>

\* getBalanceByMultiCall: the contract tells the height it was called at.
CallContract(k) ==
    /\ MultiCallContract /\ pc = "query" /\ k \in asking \ DOMAIN answers /\ HighEnough
    /\ answers' = Overlaid(answers, [j \in {k} |-> [at |-> head, height |-> head]])
    /\ UNCHANGED <<pc, curHeight, found, asking, tries, rowVars, cacheVars, head>>

\* The call for one balance fails: no value, the height of the block.
CallFails(k) ==
    /\ MultiCallContract /\ pc = "query" /\ k \in asking \ DOMAIN answers
    /\ Cardinality(failed) < MaxFailures /\ failed' = failed \cup {k}
    /\ answers' = Overlaid(answers, [j \in {k} |->
           [at |-> 0, height |-> Max({n \in found : k \in Touches[n]})]])
    /\ UNCHANGED <<pc, curHeight, found, asking, tries, table, raced, cacheVars, head>>

CallsDone ==
    /\ MultiCallContract /\ pc = "query" /\ asking = DOMAIN answers
    /\ pc' = "save" /\ tries' = 0
    /\ UNCHANGED <<curHeight, found, asking, answers, rowVars, cacheVars, head>>

\* saveErc20Balances, recordUpdatedHeight.
Save ==
    /\ pc = "save" /\ pc' = "loop" /\ curHeight' = Max(found)
    /\ table' = Overlaid(table, answers)
    /\ Add([k \in DOMAIN answers |-> answers[k].height])
    /\ asking' = {} /\ answers' = Empty /\ found' = {}
    /\ UNCHANGED <<tries, failed, raced, head>>

\* HandleErrorWithRetry around the query and the saving.
Fails ==
    /\ pc \in {"query", "save"} /\ tries' = tries + 1
    /\ pc' = IF tries < RetryTimes THEN pc ELSE "exited"
    /\ answers' = IF pc = "query" THEN Empty ELSE answers
    /\ UNCHANGED <<curHeight, found, asking, rowVars, cacheVars, head>>

NodeGrows ==
    /\ head < MaxHead /\ head' = head + 1
    /\ UNCHANGED <<toolVars, rowVars, cacheVars>>

Work ==
    \/ ReadFound \/ Done \/ AskForTouched \/ ReadHeight \/ CallsDone \/ Save \/ Fails
    \/ \E k \in Keys : ReadValue(k) \/ ElementReverts(k) \/ CallContract(k) \/ CallFails(k)

Next == Work \/ NodeGrows

Spec == Init /\ [][Next]_vars

FairSpec == Spec /\ WF_vars(Work)

----------------------------------------------------------------------------
(* Properties. *)

\* When the tool is done, every balance touched by a block of the range that
\* is in the database was read at that block or above it, whatever the cache
\* dropped and the filter said, and however the batches fell: but for those
\* whose call failed or reverted, and for a batch during which the node reached the end.
Compensated ==
    pc = "done" =>
        \A n \in DOMAIN Touches \cap (StartHeight..EndHeight) :
            \A k \in Touches[n] \ (failed \cup raced) :
                k \in DOMAIN table /\ table[k].at >= n

\* The tool comes to an end.
Ends == <>(pc \in {"done", "exited"})
=============================================================================

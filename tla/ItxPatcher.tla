----------------------------- MODULE ItxPatcher -----------------------------
(***************************************************************************)
(* The tool src/cmd/itxpatcher/main.go: for the blocks of a range, workers  *)
(* read the internal transactions and other workers replace what the tables *)
(* tx_internal and contract hold for the block (RenewInternalTransactions,  *)
(* src/output/mysqldb/mysqldb.go).  main never ends: the tool is killed.    *)
(***************************************************************************)
EXTENDS Integers, SequencesExt, FiniteSetsExt

CONSTANTS
    BeginNum, EndNum,   \* config: the range, both ends included
    FetchWorkers,       \* config: fetch_worker_num
    SaveWorkers,        \* config: save_worker_num
    Traced,             \* the blocks with internal transactions
    MaxFails            \* bound: database calls that fail

ItxPatcherConstants ==
    /\ BeginNum \in Nat \ {0} /\ EndNum \in Nat
    /\ FetchWorkers \in Nat \ {0} /\ SaveWorkers \in Nat \ {0}
    /\ Traced \subseteq BeginNum..EndNum /\ MaxFails \in Nat

VARIABLES
    i,              \* main: the next block
    fetchInput,     \* fetchWorkerPool.input, of capacity 1
    fetching,       \* the blocks fetch workers have, those with data to send too
    toSend,         \* of these: block -> its rows
    saveInput,      \* saveWorkerPool.input: <<block, rows>>
    saveClosed,     \* saveWorkerPool.Stop was called
    saving,         \* what save workers have: block -> [rows, step]
    resend,         \* goroutines that send again: pairs <<block, rows>>
    rows,           \* the rows of each block: "old", "none", "new" or "timeless"
    fails,          \* how many calls have failed
    pc              \* "running", "panicked" or "killed"

vars == <<i, fetchInput, fetching, toSend, saveInput, saveClosed, saving, resend, rows,
          fails, pc>>

Nums == BeginNum..EndNum

Without(f, b) == [c \in DOMAIN f \ {b} |-> f[c]]

With(f, b, x) == [c \in DOMAIN f \cup {b} |-> IF c = b THEN x ELSE f[c]]

Init ==
    /\ i = BeginNum /\ fetchInput = <<>> /\ fetching = {} /\ toSend = <<>>
    /\ saveInput = <<>> /\ saveClosed = FALSE /\ saving = <<>> /\ resend = {}
    /\ rows = [b \in Nums |-> "old"] /\ fails = 0 /\ pc = "running"

----------------------------------------------------------------------------
(* main and the fetch workers. *)

\* Mutant: the last block is left out.
LastNum_Excluded == EndNum - 1

LastNum == EndNum

SendNum ==
    /\ i <= LastNum /\ Len(fetchInput) < 1
    /\ fetchInput' = Append(fetchInput, i) /\ i' = i + 1
    /\ UNCHANGED <<fetching, toSend, saveInput, saveClosed, saving, resend, rows, fails, pc>>

TakeNum ==
    /\ fetchInput # <<>> /\ Cardinality(fetching) < FetchWorkers
    /\ fetching' = fetching \cup {Head(fetchInput)} /\ fetchInput' = Tail(fetchInput)
    /\ UNCHANGED <<i, toSend, saveInput, saveClosed, saving, resend, rows, fails, pc>>

\* A block without internal transactions is passed over.
NoTraces(b) ==
    /\ b \in fetching \ DOMAIN toSend /\ b \notin Traced /\ fetching' = fetching \ {b}
    /\ UNCHANGED <<i, fetchInput, toSend, saveInput, saveClosed, saving, resend, rows, fails, pc>>

\* fetchInternalTx; without the block there is no time for the rows.
FetchInternalTx(b) ==
    /\ b \in fetching \ DOMAIN toSend /\ b \in Traced
    /\ \/ toSend' = With(toSend, b, "new") /\ UNCHANGED fails
       \/ fails < MaxFails /\ fails' = fails + 1 /\ toSend' = With(toSend, b, "timeless")
    /\ UNCHANGED <<i, fetchInput, fetching, saveInput, saveClosed, saving, resend, rows, pc>>

\* A block the database does not have is a nil pointer.
NilBlock(b) ==
    /\ b \in fetching \ DOMAIN toSend /\ b \in Traced /\ pc' = "panicked"
    /\ UNCHANGED <<i, fetchInput, fetching, toSend, saveInput, saveClosed, saving, resend,
                   rows, fails>>

Room == Len(saveInput) < 2 * SaveWorkers + 2

SendRows(b) ==
    /\ b \in DOMAIN toSend /\ Room
    /\ saveInput' = Append(saveInput, <<b, toSend[b]>>)
    /\ toSend' = Without(toSend, b) /\ fetching' = fetching \ {b}
    /\ UNCHANGED <<i, fetchInput, saveClosed, saving, resend, rows, fails, pc>>

\* The input is closed and the fetch workers have ended: savePool.Stop.
StopSaving ==
    /\ i > LastNum /\ fetchInput = <<>> /\ fetching = {} /\ ~saveClosed /\ saveClosed' = TRUE
    /\ UNCHANGED <<i, fetchInput, fetching, toSend, saveInput, saving, resend, rows, fails, pc>>

----------------------------------------------------------------------------
(* The save workers. *)

TakeRows ==
    /\ saveInput # <<>> /\ Cardinality(DOMAIN saving) < SaveWorkers
    /\ saving' = With(saving, Head(saveInput)[1], [rows |-> Head(saveInput)[2], step |-> "delete"])
    /\ saveInput' = Tail(saveInput)
    /\ UNCHANGED <<i, fetchInput, fetching, toSend, saveClosed, resend, rows, fails, pc>>

\* RenewInternalTransactions deletes in a first transaction...
DeleteRows(b) ==
    /\ b \in DOMAIN saving /\ saving[b].step = "delete"
    /\ rows' = [rows EXCEPT ![b] = "none"] /\ saving' = [saving EXCEPT ![b].step = "insert"]
    /\ UNCHANGED <<i, fetchInput, fetching, toSend, saveInput, saveClosed, resend, fails, pc>>

\* ... and inserts in a second one.
InsertRows(b) ==
    /\ b \in DOMAIN saving /\ saving[b].step = "insert"
    /\ rows' = [rows EXCEPT ![b] = saving[b].rows] /\ saving' = Without(saving, b)
    /\ UNCHANGED <<i, fetchInput, fetching, toSend, saveInput, saveClosed, resend, fails, pc>>

Again(b) == resend \cup {<<b, saving[b].rows>>}

\* An error, of a call or of its answer: half a second later a goroutine sends
\* the block again.
SaveFails(b) ==
    /\ b \in DOMAIN saving /\ fails < MaxFails /\ fails' = fails + 1
    /\ resend' = Again(b) /\ saving' = Without(saving, b)
    /\ rows' \in {rows, [rows EXCEPT ![b] = IF saving[b].step = "delete" THEN "none"
                                            ELSE saving[b].rows]}
    /\ UNCHANGED <<i, fetchInput, fetching, toSend, saveInput, saveClosed, pc>>

Resend(x) ==
    /\ x \in resend /\ ~saveClosed /\ Room
    /\ saveInput' = Append(saveInput, x) /\ resend' = resend \ {x}
    /\ UNCHANGED <<i, fetchInput, fetching, toSend, saveClosed, saving, rows, fails, pc>>

\* A send on a closed channel panics, also one that was waiting.
ResendPanics ==
    /\ resend # {} /\ saveClosed /\ pc' = "panicked"
    /\ UNCHANGED <<i, fetchInput, fetching, toSend, saveInput, saveClosed, saving, resend,
                   rows, fails>>

Kill ==
    /\ pc' = "killed"
    /\ UNCHANGED <<i, fetchInput, fetching, toSend, saveInput, saveClosed, saving, resend,
                   rows, fails>>

Work ==
    \/ SendNum \/ TakeNum \/ StopSaving \/ TakeRows \/ ResendPanics
    \/ \E b \in Nums : \/ NoTraces(b) \/ FetchInternalTx(b) \/ NilBlock(b) \/ SendRows(b)
                       \/ DeleteRows(b) \/ InsertRows(b)
    \/ \E x \in resend : Resend(x)

Goes == pc = "running" /\ Work

Next == Goes \/ (pc = "running" /\ (Kill \/ \E b \in Nums : SaveFails(b)))

Spec == Init /\ [][Next]_vars

FairSpec == Spec /\ WF_vars(Goes)

----------------------------------------------------------------------------
(* Properties. *)

\* A block whose rows were deleted has new ones on the way: it is only a tool
\* that dies (killed, or panicking because a block is sent again after the
\* pool was stopped) that leaves the block without.
DeletedIsPending ==
    pc = "running" => \A b \in Nums : rows[b] = "none" =>
        \/ b \in DOMAIN saving \/ b \in {x[1] : x \in ToSet(saveInput) \cup resend}

\* No block of the range falls through: one that has internal transactions is
\* patched, or still to come, or somewhere on its way.
NoneIsDropped ==
    pc = "running" => \A b \in Traced :
        \/ rows[b] \in {"new", "timeless"} \/ i <= b
        \/ b \in ToSet(fetchInput) \cup fetching \cup DOMAIN saving
        \/ b \in {x[1] : x \in ToSet(saveInput) \cup resend}

\* The blocks of the range are patched, or the tool dies.
PatchesAll ==
    <>(pc = "running" => \A b \in Traced : rows[b] \in {"new", "timeless"})
=============================================================================

------------------------------ MODULE MCTools ------------------------------
(***************************************************************************)
(* Instances of the tools for TLC: compensation, with the contract and with *)
(* batches, and itxpatcher.  Init chooses the one that runs.                *)
(***************************************************************************)
EXTENDS Compensation

CONSTANT Chosen

VARIABLES
    tool, i, fetchInput, fetching, toSend, saveInput, saveClosed, saving, resend,
    rows, fails, patcherPc

\* Three balances, and blocks that touch none.
TouchesOf ==
    [n \in {1, 2, 5, 6, 8} |->
        CASE n = 1 -> {1} [] n \in {2, 8} -> {2} [] OTHER -> {2, 3}]

Batches == INSTANCE Compensation
    WITH MultiCallContract <- FALSE, StartHeight <- 2, BatchBlockCount <- 2

Patcher == INSTANCE ItxPatcher
    WITH BeginNum <- 1, EndNum <- 4, FetchWorkers <- 2, SaveWorkers <- 2,
         Traced <- {1, 3, 4}, MaxFails <- 2, pc <- patcherPc

ASSUME MCToolsAssumption ==
    Patcher!ItxPatcherConstants /\ Batches!CompensationConstants

patcherVars == <<i, fetchInput, fetching, toSend, saveInput, saveClosed, saving, resend,
                 rows, fails, patcherPc>>

toolsVars == <<tool, vars, patcherVars>>

ToolsInit ==
    /\ tool \in Chosen /\ Patcher!Init
    /\ IF tool = "batches" THEN Batches!Init ELSE Init

Compensates(A) == tool = "compensation" /\ A /\ UNCHANGED <<tool, patcherVars>>
CompensatesInBatches(A) == tool = "batches" /\ A /\ UNCHANGED <<tool, patcherVars>>
Patches(A) == tool = "itxpatcher" /\ A /\ UNCHANGED <<tool, vars>>

ToolsNext ==
    Compensates(Next) \/ CompensatesInBatches(Batches!Next) \/ Patches(Patcher!Next)

\* The goroutines run while the tool does; database and node answer, if only
\* with an error.
FairTools ==
    /\ ToolsInit /\ [][ToolsNext]_toolsVars
    /\ WF_toolsVars(Compensates(Work))
    /\ WF_toolsVars(Patches(Patcher!Goes))

----------------------------------------------------------------------------
\* A tool leaves no hole: the balances of the range are compensated, in both
\* ways to ask for them; rows that were deleted have new ones on the way, and
\* no block with internal transactions is dropped.
LeavesNoHole ==
    /\ IF tool = "batches" THEN Batches!Compensated ELSE Compensated
    /\ Patcher!DeletedIsPending /\ Patcher!NoneIsDropped

\* The tools come to an end: compensation is done, or gives up; itxpatcher has
\* new rows for every block of the range, or it is dead.
ToolsEnd ==
    /\ tool = "compensation" => Ends
    /\ tool = "itxpatcher" => Patcher!PatchesAll
=============================================================================

----------------------------- MODULE MultiCall -----------------------------
(***************************************************************************)
(* MultiCall, src/utils/multicall.go, and how the balance tasks call it:    *)
(* many calls in one, made by a contract, which fails as a whole when one   *)
(* of them does; the group is then halved, down to the call that fails.     *)
(* The block of the answer must not be below minHeight.                     *)
(***************************************************************************)
EXTENDS Integers, SequencesExt, FiniteSetsExt

CONSTANTS
    Inputs,         \* the calls, a sequence without repetitions
    Bad,            \* those that always fail
    MinHeight,      \* latestHeight of the task
    FirstHead,
    MaxHead,        \* bound: the height of the chain
    MaxLost,        \* bound: Aggregates that fail though their calls do not
    FetchRetryTimes

MultiCallConstants ==
    /\ Inputs \in Seq(ToSet(Inputs)) /\ Inputs # <<>> /\ Bad \subseteq ToSet(Inputs)
    /\ \A i, j \in DOMAIN Inputs : Inputs[i] = Inputs[j] => i = j
    /\ MinHeight \in Nat /\ FirstHead \in Nat /\ MaxHead \in Nat
    /\ MaxLost \in Nat /\ FetchRetryTimes \in Nat

VARIABLES
    pc,             \* "aggregate", "accepted" or "exited"
    groups,         \* the groups still to be called, in order
    returnData,     \* what has been returned: an output, or an error
    blockNumber,    \* the lowest block of the groups returned
    head,           \* the height of the chain
    tries,          \* how often the whole was refused
    lost            \* history: the calls of Aggregates that failed by chance

vars == <<pc, groups, returnData, blockNumber, head, tries, lost>>

\* math.MaxInt64, above every height.
MaxInt64 == MaxHead + 1

Begin == groups' = <<Inputs>> /\ returnData' = <<>> /\ blockNumber' = MaxInt64

Init ==
    /\ pc = "aggregate" /\ groups = <<Inputs>> /\ returnData = <<>>
    /\ blockNumber = MaxInt64 /\ head = FirstHead /\ tries = 0 /\ lost = <<>>

Mined ==
    /\ pc = "aggregate" /\ head < MaxHead /\ head' = head + 1
    /\ UNCHANGED <<pc, groups, returnData, blockNumber, tries, lost>>

Returned(outs) == returnData \o outs

\* Mutant: the block of the last group stands for all.
Lower_Last(n) == n

Lower(n) == Min({blockNumber, n})

\* Aggregate: the calls are made at the head; the height asked for after them
\* may be higher, and it is the one compared.
Aggregate(group) ==
    /\ \A i \in DOMAIN group : group[i] \notin Bad
    /\ \E after \in head..MaxHead : after >= MinHeight /\ head' = after
    /\ returnData' = Returned([i \in DOMAIN group |->
                                  [call |-> group[i], at |-> head, ok |-> TRUE]])
    /\ blockNumber' = Lower(head)

Answer ==
    /\ pc = "aggregate" /\ groups # <<>>
    /\ Aggregate(Head(groups)) /\ groups' = Tail(groups)
    /\ UNCHANGED <<pc, tries, lost>>

\* A call of the group reverts, or all attempts to ask the node failed.
Fails(group) ==
    IF ToSet(group) \cap Bad # {} THEN UNCHANGED lost
    ELSE Len(lost) < MaxLost /\ lost' = Append(lost, ToSet(group))

Halves(group) ==
    LET k == Len(group) \div 2
    IN  <<SubSeq(group, 1, k), SubSeq(group, k + 1, Len(group))>>

\* AggregateWithRetry of more than one input that failed.
Split ==
    /\ pc = "aggregate" /\ groups # <<>> /\ Len(Head(groups)) > 1
    /\ Fails(Head(groups)) /\ groups' = Halves(Head(groups)) \o Tail(groups)
    /\ UNCHANGED <<pc, returnData, blockNumber, head, tries>>

\* AggregateWithRetry of one input that failed: its error, at MaxInt64.
GiveUp ==
    /\ pc = "aggregate" /\ groups # <<>> /\ Len(Head(groups)) = 1
    /\ Fails(Head(groups)) /\ groups' = Tail(groups)
    /\ returnData' = Returned(<<[call |-> Head(groups)[1], at |-> MaxInt64, ok |-> FALSE]>>)
    /\ UNCHANGED <<pc, blockNumber, head, tries>>

\* getBalanceByMultiCall: the block of the result must be high enough too.
Accept ==
    /\ pc = "aggregate" /\ groups = <<>> /\ blockNumber >= MinHeight
    /\ pc' = "accepted"
    /\ UNCHANGED <<groups, returnData, blockNumber, head, tries, lost>>

Refuse ==
    /\ pc = "aggregate" /\ groups = <<>> /\ blockNumber < MinHeight
    /\ tries' = tries + 1 /\ Begin
    /\ pc' = IF tries' > FetchRetryTimes THEN "exited" ELSE pc
    /\ UNCHANGED <<head, lost>>

Next == Mined \/ Answer \/ Split \/ GiveUp \/ Accept \/ Refuse

\* Mining is not the caller's: it may stop.
Fairness == /\ WF_vars(Answer) /\ WF_vars(Split \/ GiveUp)
            /\ WF_vars(Accept) /\ WF_vars(Refuse)

Spec == Init /\ [][Next]_vars

FairSpec == Spec /\ Fairness

----------------------------------------------------------------------------
TypeOK ==
    /\ pc \in {"aggregate", "accepted", "exited"}
    /\ \A i \in DOMAIN groups : groups[i] \in Seq(ToSet(Inputs)) /\ groups[i] # <<>>
    /\ \A i \in DOMAIN returnData : returnData[i].at \in 0..MaxInt64
    /\ blockNumber \in 0..MaxInt64 /\ head \in Nat /\ tries \in 0..(FetchRetryTimes + 1)

\* The caller matches the outputs with its balances by position: what was
\* returned and what is still to be called are the inputs, in their order.
Aligned ==
    [i \in DOMAIN returnData |-> returnData[i].call] \o FlattenSeq(groups) = Inputs

\* A balance is saved with the block of the result: no output of an accepted
\* result is older than that, or than the height the caller needs.
AcceptedHeight ==
    pc = "accepted" =>
        /\ blockNumber >= MinHeight
        /\ \A i \in DOMAIN returnData : returnData[i].at >= blockNumber

\* A call that fails costs the others nothing: without an output there are
\* only the calls that fail, and those whose own Aggregate failed by chance.
OnlyFailedMissing ==
    \A i \in DOMAIN returnData : ~returnData[i].ok =>
        returnData[i].call \in Bad \/ {returnData[i].call} \in ToSet(lost)

\* The halving ends: when the chain is high enough the caller gets its result.
Ends == head >= MinHeight ~> pc # "aggregate"
=============================================================================

-------------------------------- MODULE Feed --------------------------------
(***************************************************************************)
(* The block feed a task subscribes to (Fetcher, src/fetch/fetch.go): events *)
(* that describe one chain, as ChainLog promises.  An event appends a block *)
(* to the chain or takes its top block back.                                *)
(***************************************************************************)
EXTENDS Integers, Sequences

CONSTANTS
    Blocks,         \* the blocks there are, of every branch
    GenesisHash     \* the hash the first blocks name as their parent

Event == [state : {"ok", "revert"}, blk : Blocks]

Applied(s, e) == IF e.state = "ok" THEN Append(s, e.blk)
                 ELSE SubSeq(s, 1, e.blk.num - 1)

\* The events ChainLog allows on the chain s.
Follows(e, s) ==
    IF e.state = "ok"
    THEN e.blk.parent = IF s = <<>> THEN GenesisHash ELSE s[Len(s)].hash
    ELSE s # <<>> /\ e.blk = s[Len(s)]
=============================================================================

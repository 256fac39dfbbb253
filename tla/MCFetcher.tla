----------------------------- MODULE MCFetcher -----------------------------
(***************************************************************************)
(* Instances of Fetcher for TLC.  A restart finds StoredHeights blocks in   *)
(* the database and the node anywhere the finality assumption lets it be:   *)
(* the highest StoredHeights were read BlocksDelay below a head that        *)
(* ReorgDepth still protects.                                               *)
(***************************************************************************)
EXTENDS Fetcher

CONSTANTS StoredHeights, HeadsAtBoot

\* A node that has mined `head' blocks and left the stored branch after `fork'.
BootStates ==
    {b \in [stored : StoredHeights, head : HeadsAtBoot, fork : 0..MaxHead] :
        /\ b.stored + BlocksDelay <= b.head
        /\ b.fork <= b.head
        /\ b.fork + ReorgDepth >= b.stored + BlocksDelay
        /\ b.fork < b.head => MaxReorgs > 0}
=============================================================================

---------------------------- MODULE CacheFilter ----------------------------
(***************************************************************************)
(* CacheFilter, src/task/cache_filter.go: an LRU cache in front of a table, *)
(* and a Bloom filter of the keys ever added, which tells whether asking    *)
(* the table is worth while.  After a restart both are empty though the     *)
(* table is not.                                                            *)
(***************************************************************************)
EXTENDS Integers, FiniteSets

CONSTANTS
    Keys,
    CacheSize,      \* config: how many values the cache holds
    FalsePositives  \* may the filter say yes to a key that was not added?

VARIABLES
    lru,            \* the values the cache holds, by key
    filter          \* the keys the filter has

cacheVars == <<lru, filter>>

Missing == -1

Empty == [k \in {} |-> Missing]

Overlaid(f, g) ==
    [k \in DOMAIN f \cup DOMAIN g |-> IF k \in DOMAIN g THEN g[k] ELSE f[k]]

\* A full cache drops what was used least recently, here any entry.
Fits(full) ==
    {[k \in kept |-> full[k]] : kept \in
        {s \in SUBSET DOMAIN full : \/ Cardinality(s) = CacheSize
                                    \/ s = DOMAIN full /\ Cardinality(s) <= CacheSize}}

\* NewCacheFilter.
CacheInit == lru = Empty /\ filter = {}

\* Get: the answers there may be, for a table of values by key.  A query that
\* fails counts as no row.
Get(k, table) ==
    IF k \in DOMAIN lru THEN {lru[k]}
    ELSE {Missing} \cup IF k \in DOMAIN table /\ (k \in filter \/ (FalsePositives /\ filter # {}))
                        THEN {table[k]} ELSE {}

\* What Get leaves in the cache: an answer of the table is kept.
Keep(answers) ==
    lru' \in Fits(Overlaid([k \in {j \in DOMAIN answers : answers[j] # Missing}
                               |-> answers[k]], lru))

Add(values) ==
    lru' \in Fits(Overlaid(lru, values)) /\ filter' = filter \cup DOMAIN values

\* Mutant: the cache is kept, the filter alone is cleared.
Clean_Filter == filter' = {} /\ UNCHANGED lru

Clean == lru' = Empty /\ filter' = {}
=============================================================================

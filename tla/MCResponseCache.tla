--------------------------- MODULE MCResponseCache ---------------------------
(* Instance of ResponseCache for TLC. *)
EXTENDS ResponseCache

CONSTANTS t1, t2, t3, k1, k2

ThreadPermutations == Permutations(Threads)

\* k1 and k2 share shard 0 (4 of 7 bytes) and do not fit together; shard 1 is
\* there to be cleared.
MCShardOf == [k \in Keys |-> 0]
MCEntrySize == [k \in Keys |-> IF k = k1 THEN 2 ELSE 4]
=============================================================================

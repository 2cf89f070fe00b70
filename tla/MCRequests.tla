------------------------------ MODULE MCRequests ------------------------------
(* Instance of Requests for TLC. *)
EXTENDS Requests

CONSTANTS t1, t2, k1, k2

\* Two shards of 2 bytes and 1 byte: the answer of k1, a scan, fits the first,
\* that of k2 does not fit the second.
MCShardOf == [k \in Keys |-> IF k = k1 THEN 0 ELSE 1]
MCEntrySize == [k \in Keys |-> IF k = k1 THEN 2 ELSE 4]
=============================================================================

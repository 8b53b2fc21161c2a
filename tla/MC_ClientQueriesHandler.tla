----------------------- MODULE MC_ClientQueriesHandler -----------------------
(***************************************************************************)
(* Small instances of ClientQueriesHandler for TLC.                        *)
(***************************************************************************)
EXTENDS ClientQueriesHandler

CONSTANTS c1, c2, c3, k1, k2

MCClients3 == {c1, c2, c3}
MCClients2 == {c1, c2}
MCKeys2 == {k1, k2}
MCKeys1 == {k1}

\* A jump-consistent slot assignment: k1 stays in bucket 0 for every bucket
\* count, every other key moves into the newest bucket each time one is added.
MCJumpSlot(k, n) == IF k = k1 THEN 0 ELSE n - 1
================================================================================

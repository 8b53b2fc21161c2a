--------------------------- MODULE UpstreamRegistry ---------------------------
(***************************************************************************)
(* The registry of configured upstream servers (spec section 4.1).  Its   *)
(* code (upstream_server.rs) is not part of this repository's sources, so *)
(* these operators are modelled from the spec: the consecutive-failure    *)
(* counter, the live set it drives, and the saturating arithmetic used on *)
(* pending_queries_count.  Servers are the indices 1..NServers of the     *)
(* configured servers; the live vector holds indices in ascending order.  *)
(***************************************************************************)
EXTENDS Naturals

CONSTANTS
    NServers,       \* number of configured upstream servers
    FailThreshold   \* consecutive failures that take a server out of the live set

ASSUME RegistryAssumption ==
    /\ NServers \in Nat \ {0}
    /\ FailThreshold \in Nat \ {0}

Servers == 1..NServers

\* Bug variant of SatSub: a plain subtraction in place of saturating_sub.
SatSubWrapping(x) == x - 1

\* u64::saturating_sub(1) as applied to pending_queries_count.
SatSub(x) == IF x > 0 THEN x - 1 ELSE 0

\* record_failure: one more consecutive failure; the counter is kept only
\* up to FailThreshold, past which its value no longer changes anything.
FailuresAfterFailure(failures, s) ==
    [failures EXCEPT ![s] = IF @ < FailThreshold THEN @ + 1 ELSE FailThreshold]

\* record_failure: the server leaves the live set once the threshold is crossed.
LiveAfterFailure(live, failures, s) ==
    IF failures[s] + 1 >= FailThreshold THEN live \ {s} ELSE live

\* record_success: the failure counter is reset ...
FailuresAfterSuccess(failures, s) == [failures EXCEPT ![s] = 0]

\* ... and the server is (back) in the live set.
LiveAfterSuccess(live, s) == live \cup {s}
================================================================================

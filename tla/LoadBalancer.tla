----------------------------- MODULE LoadBalancer -----------------------------
(***************************************************************************)
(* NormalizedQuestion::pick_upstream (client_queries_handler.rs): the     *)
(* choice of one live upstream for a query under the three load-balancing *)
(* modes.  The live vector is the ascending list of live server indices;  *)
(* the position of a server in it is the number of live servers below it. *)
(* JumpHasher::slot is a constant operator: only its range and its        *)
(* consistency under growth of the bucket count are assumed.              *)
(***************************************************************************)
EXTENDS UpstreamRegistry, FiniteSets

CONSTANTS
    Keys,           \* normalized question keys (fingerprints)
    LBMode,         \* config.lbmode
    JumpSlot(_, _)  \* jumphasher.slot(qname, n)

LBModes == {"Fallback", "Uniform", "P2"}

\* Only the low bit of the question's transaction id is read (by P2).
Tids == {0, 1}

ASSUME LoadBalancerAssumption ==
    /\ LBMode \in LBModes
    /\ \A k \in Keys, n \in 1..NServers : JumpSlot(k, n) \in 0..(n - 1)
    \* jump consistent hashing: adding a bucket only moves keys into it
    /\ \A k \in Keys, n \in 1..(NServers - 1) :
          JumpSlot(k, n + 1) \in {JumpSlot(k, n), n}

\* Index of server s in the live vector.
LivePos(s, live) == Cardinality({x \in live : x < s})

\* busy_map.sort_by_key(|x| x.1) is a stable sort of the live vector by
\* pending count: x comes before s if it has fewer pending queries, or as
\* many and an earlier place in the live vector.
BusyBefore(x, s, pending) ==
    \/ pending[x] < pending[s]
    \/ pending[x] = pending[s] /\ x < s

\* Index of server s in busy_map.
BusyPos(s, live, pending) == Cardinality({x \in live : BusyBefore(x, s, pending)})

RetryBit(isRetry) == IF isRetry THEN 1 ELSE 0

(***************************************************************************)
(* The server pick_upstream returns, as a set that has exactly one element *)
(* whenever live is not empty; the caller handles the empty live set (the *)
(* "All upstream servers are down" error).                                 *)
(*  - Fallback: upstream_servers_live[0];                                  *)
(*  - Uniform:  upstream_servers_live[(slot + is_retry) % live_count];     *)
(*  - P2:       busy_map[0] if it has one element, else                    *)
(*              busy_map[(tid + is_retry) & 1].                            *)
(***************************************************************************)
PickUpstream(key, tid, isRetry, live, pending) ==
    LET n == Cardinality(live) IN
    CASE LBMode = "Fallback" ->
            {s \in live : LivePos(s, live) = 0}
      [] LBMode = "Uniform" ->
            {s \in live : LivePos(s, live) = (JumpSlot(key, n) + RetryBit(isRetry)) % n}
      [] LBMode = "P2" ->
            {s \in live : BusyPos(s, live, pending) =
                              IF n = 1 THEN 0 ELSE (tid + RetryBit(isRetry)) % 2}
================================================================================

------------------------------ MODULE LockOrder ------------------------------
(***************************************************************************)
(* The RwLocks of client_queries_handler.rs and the guard scopes of its  *)
(* handlers.  A ClientQueriesHandler holds Arc clones of                   *)
(* pending_queries.map_arc and upstream_servers_arc (lines 47-48, 61-63),  *)
(* but also Rc state and the reactor's Handle (42-53), so it lives on one *)
(* thread; every future it makes is spawned on that reactor (107).  That  *)
(* reactor runs one handler at a time to its end; a handler takes write   *)
(* guards (parking_lot, not reentrant) and drops them at the end of their *)
(* scope or at an early return.  Data is abstracted away: which branch a  *)
(* handler takes (cap or not, attached or not, entry found or not, all    *)
(* servers down or not) is a nondeterministic choice.                     *)
(*                                                                         *)
(* Reactors is a set so that the proof in LockOrderProofs covers any      *)
(* number of them; the code's instance is a single reactor.               *)
(*                                                                         *)
(* The read of upstream_servers_live_arc at line 224 is a temporary taken *)
(* while no other guard is held, so it nests in no guard and is left     *)
(* out; so are the locks record_failure may take (upstream_server.rs is   *)
(* not part of the sources).                                               *)
(***************************************************************************)
EXTENDS Naturals, Sequences

CONSTANTS
    Reactors,   \* event-loop threads running handlers over the shared core
    Nobody      \* no reactor holds the lock

\* Nobody is not a reactor, so a free lock is never mistaken for a held one.
LockOrderAssumption == Nobody \notin Reactors

VARIABLES
    run,      \* reactor -> Idle, or the handler it runs and its position
    holder    \* lock -> the reactor holding its write guard, or Nobody

vars == <<run, holder>>

Locks == {"map", "servers"}

Idle == [h |-> "none", i |-> 0]

\* One guard operation of a handler, at the source line where it happens.
Acq(l, line) == [kind |-> "acq", lock |-> l, line |-> line]
Rel(l, line) == [kind |-> "rel", lock |-> l, line |-> line]

(***************************************************************************)
(* fut_process_client_query: cap_pending_queries takes the map (118) and  *)
(* drops it on return (130); maybe_add_to_existing_pending_query takes it *)
(* again (137-146); then the servers guard (236) is held to the end of    *)
(* the function (333), and the map is taken under it for the insertion   *)
(* (291-294, a temporary).                                                 *)
(***************************************************************************)
ProcessOps == << Acq("map", 118), Rel("map", 130), Acq("map", 137), Rel("map", 146),
                 Acq("servers", 236), Acq("map", 293), Rel("map", 294),
                 Rel("servers", 333) >>

(***************************************************************************)
(* The first timer's or_else: the servers guard of lines 316-329, then    *)
(* fut_retry_query, which holds the map from 341 to its end (471) and     *)
(* takes the servers guard twice under it, in the blocks 353-383 and      *)
(* 388-406.                                                                *)
(***************************************************************************)
RetryOps == << Acq("servers", 316), Rel("servers", 329), Acq("map", 341),
               Acq("servers", 353), Rel("servers", 383), Acq("servers", 388),
               Rel("servers", 406), Rel("map", 471) >>

\* The second timer's or_else: servers (437), then the map (457), both
\* dropped when the closure returns (464 or 467), the map first.
Retry2Ops == << Acq("servers", 437), Acq("map", 457), Rel("map", 467),
                Rel("servers", 467) >>

Handlers == {"process", "retry", "retry2"}

Ops(h) == CASE h = "process" -> ProcessOps
            [] h = "retry"   -> RetryOps
            [] h = "retry2"  -> Retry2Ops

(***************************************************************************)
(* Early returns, as the position of the next guard operation: the        *)
(* handler may return there, dropping every guard it holds.               *)
(*  - process: 225 (no live server), 234 (attached), 245 and 262 (no      *)
(*    upstream, backend not configured; servers held);                     *)
(*  - retry: 347 (no entry; map held), 361 and 380 (backend not           *)
(*    configured, all down; map and servers held), 396 (map and servers);  *)
(*  - retry2: 444 (backend not configured; servers held).                 *)
(***************************************************************************)
Returns(h) == CASE h = "process" -> {1, 5, 6}
                [] h = "retry"   -> {4, 5, 7}
                [] h = "retry2"  -> {2}

\* cap_pending_queries returns at 115, before locking, below the limit.
Skips(h) == IF h = "process" THEN {1} ELSE {}

Held(r) == {l \in Locks : holder[l] = r}

CurOp(r) == Ops(run[r].h)[run[r].i]

\* The position after i, or Idle past the last guard operation.
Advance(r) == IF run[r].i = Len(Ops(run[r].h)) THEN Idle
              ELSE [h |-> run[r].h, i |-> run[r].i + 1]

Init ==
    /\ run = [r \in Reactors |-> Idle]
    /\ holder = [l \in Locks |-> Nobody]

\* The reactor's event loop polls a handler: a client query or a timer.
Start(r, h) ==
    /\ run[r] = Idle
    /\ run' = [run EXCEPT ![r] = [h |-> h, i |-> 1]]
    /\ UNCHANGED holder

\* .write(): blocks the thread until no other guard is held.
Acquire(r) ==
    /\ run[r] # Idle
    /\ CurOp(r).kind = "acq"
    /\ holder[CurOp(r).lock] = Nobody
    /\ holder' = [holder EXCEPT ![CurOp(r).lock] = r]
    /\ run' = [run EXCEPT ![r] = Advance(r)]

\* A guard goes out of scope.
Release(r) ==
    /\ run[r] # Idle
    /\ CurOp(r).kind = "rel"
    /\ holder' = [holder EXCEPT ![CurOp(r).lock] = Nobody]
    /\ run' = [run EXCEPT ![r] = Advance(r)]

\* An early return drops every guard the handler holds.
EarlyReturn(r) ==
    /\ run[r] # Idle
    /\ run[r].i \in Returns(run[r].h)
    /\ holder' = [l \in Locks |-> IF holder[l] = r THEN Nobody ELSE holder[l]]
    /\ run' = [run EXCEPT ![r] = Idle]

\* cap_pending_queries below the limit takes no guard.
SkipCap(r) ==
    /\ run[r] # Idle
    /\ run[r].i \in Skips(run[r].h)
    /\ run' = [run EXCEPT ![r] = [h |-> run[r].h, i |-> run[r].i + 2]]
    /\ UNCHANGED holder

Step(r) == Acquire(r) \/ Release(r) \/ EarlyReturn(r) \/ SkipCap(r)

Next ==
    \/ \E r \in Reactors, h \in Handlers : Start(r, h)
    \/ \E r \in Reactors : Step(r)

Spec == Init /\ [][Next]_vars

-------------------------------------------------------------------------------
\* Every variable has its type.
TypeOK ==
    /\ run \in [Reactors -> {Idle} \cup [h : Handlers, i : Nat \ {0}]]
    /\ holder \in [Locks -> Reactors \cup {Nobody}]

\* r is blocked in .write() on a guard that r2 holds.
WaitsFor(r, r2) ==
    /\ run[r] # Idle
    /\ CurOp(r).kind = "acq"
    /\ holder[CurOp(r).lock] = r2

(***************************************************************************)
(* No thread blocks on a guard it holds itself: parking_lot locks are not *)
(* reentrant, so a handler that takes the servers or map guard while an   *)
(* earlier guard of the same lock is still in scope hangs its reactor.    *)
(* The scopes of fut_retry_query's two servers blocks (353-383, 388-406)  *)
(* and of the insertion's temporary map guard (291-294) keep this true.   *)
(***************************************************************************)
NoSelfWait == \A r \in Reactors : ~WaitsFor(r, r)

================================================================================

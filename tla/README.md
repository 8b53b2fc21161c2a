# TLA+ models of the edgedns client query core

These modules model the client query resolution core of edgedns. The code is in
`src/src/edgedns/libedgedns/src/client_queries_handler.rs` and
`src/src/edgedns/libedgedns/src/pending_query.rs`, and `spec.md` describes it.
The core coalesces identical client queries into one pending query. It sends that
query to an upstream chosen by a load-balancing policy and arms a timer. On the
first timeout it retries once on another upstream; on the second it answers every
attached client with a stale entry or SERVFAIL. A cap on waiting clients evicts
pending queries, and queries may probe offline upstreams.

## 1. Inventory

### Components and their state

| Component (spec) | Code | State in the code | Model |
|---|---|---|---|
| PendingTable (4.3) | `PendingQuery`, `PendingQueries` (pending_query.rs) | `map_arc: key -> PendingQuery` (clients, upstream idx, probed addr, done_tx) | `pq`, `Entry` |
| ClientQueryHandler (4.5) | `fut_process_client_query`, `cap_pending_queries`, `maybe_add_to_existing_pending_query`, `fut_retry_query`, the two `or_else` closures | `waiting_clients_count` | `waiting`, `cstate` |
| Scheduler/Timers (4.5) | `timer.timeout(done_rx, d)` | armed timeout futures racing `done_rx` | `timers` |
| LoadBalancer (4.2) | `pick_upstream`, `new_pending_query` | none (a pure choice) | `PickUpstream` in LoadBalancer.tla |
| ProbeSender (4.4) | `maybe_send_probe_to_offline_servers` | `last_probe_ts` per server | `probeRecent` |
| UpstreamRegistry (4.1) | `upstream_servers_arc`, `upstream_servers_live_arc`; `record_failure`/`record_success` live in upstream_server.rs, which is not in the sources | `pending_queries_count`, failure counter, live vector | `pending`, `failures`, `live` (UpstreamRegistry.tla, modelled from the spec) |
| Response dispatcher | outside the sources | removes the entry, sends `done_tx` | `UpstreamResponds` (modelled from the spec) |

### Operations (one action each)

* `ProcessClientQuery(c, k, tid)` models `fut_process_client_query` (lines 219-301).
  It has three alternatives:
  * no live upstream: stale entry or SERVFAIL at once (lines 224-225);
  * the cap does not evict: attach (132-146) or send a new query (236-301);
  * the cap evicts an arbitrary entry first (113-130), then attach or send on the state the eviction left.

  Sending a new query covers the pick, the probe (178-217), `PendingQuery::new`,
  the counter increments, the insertion and the first timer.
* `PrimaryTimeout(t)` models the first timer's `or_else` (311-331) followed by all
  of `fut_retry_query` (335-420). The timer's server count is decremented and
  `record_failure` runs. Then one of three things happens:
  * no entry for the key: return (347);
  * no live server: return early with the entry left in place (377-381);
  * otherwise: re-pick with `is_retry`, increment the new server's count, retarget
    the entry, replace `done_tx` (which drops the old one) and arm the second timer.
* `RetryTimeout(t)` models the second timer's `or_else` (431-467). It decrements the
  count and runs `record_failure`. If an entry is under the key, it is removed, its
  clients are answered, `done_tx` is sent and the counter drops.
* `UpstreamResponds(k, from)` models the response path (spec 4.5 step 7). The sender
  is the entry's current upstream, or the probed server while only the first send
  is outstanding.
* `ServerRecovers(s)` models a background probe of an offline server being answered
  (spec 4.1).
* `ProbeDelayElapses(s)` models `UPSTREAM_PROBES_DELAY_MS` passing since the last
  probe of `s`.

### Interactions

* Timers and entries are linked through `done_tx`/`done_rx`. A timer is identified
  by the client that created the entry and the number of the send it guards, and
  `Holds(t, e)` says that `t` holds the receiver of `e`'s current `done_tx`.
* Sending `done_tx` (response, second timeout) completes the timer silently.
* Dropping `done_tx` (eviction at line 123, replacement at line 412) makes the
  timeout future fail with `Canceled`. That failure runs the `or_else` exactly as a
  timeout does, so a canceled timer may still fire as `PrimaryTimeout` or
  `RetryTimeout`.
* The `or_else` closures find their entry by key (lines 346 and 458), not by
  identity. This is where eviction and retry interact.

### Hard behaviours

* Interleavings of client arrivals, timer firings, responses and recoveries.
* A timer of an evicted entry that acts on a newer entry for the same key.
* A timeout racing a late response.
* The admission limit at its boundary.
* Retries when the live vector shrinks to empty or changes between sends.
* Probes racing the probe delay.

## 2. Modules

| Module | What it is |
|---|---|
| `UpstreamRegistry.tla` | Constants `NServers` and `FailThreshold`. Saturating decrement of a pending count; `record_failure`/`record_success` on the failure counter and the live set (from spec 4.1). |
| `LoadBalancer.tla` | `pick_upstream` for the three modes. The live vector is the ascending list of live indices. `JumpSlot` is a constant operator whose range and jump-consistency are assumed (`LoadBalancerAssumption`). |
| `ClientQueriesHandler.tla` | The handler, the pending table, the timers and the spec-modelled response path; all the properties. |
| `MC_ClientQueriesHandler.tla` | Model values for clients and keys, and a jump-consistent `MCJumpSlot`. |
| `ClientQueriesHandlerProofs.tla` | TLAPS proofs of the type invariant, the counter invariant and the admission bound. |
| `PendingTable.tla` | The abstract pending table: a map from key to the set of clients waiting on it, with the client states and the counter. Its actions are `Join`, `Admit`, `EvictAndAdmit`, `Resolve` and `ServeOffline`. Upstreams, timers and retries are hidden. |
| `ClientQueriesSendsProofs.tla` | TLAPS proof that a query is sent at most twice when nothing is evicted. |
| `ClientQueriesRefinementProofs.tla` | The TLAPS proof that `ClientQueriesHandler` implements `PendingTable` under the mapping `TableOf`. |
| `LockOrder.tla` | The write guards on `map_arc` and `upstream_servers_arc`. Each handler is its sequence of guard operations, with its early returns. The code runs every handler on one reactor; the module allows any number, so that the proof covers them all. |
| `LockOrderProofs.tla` | The TLAPS proof that no handler ever waits for a guard its own thread holds. |

Modelling choices, and why they keep what the properties depend on:

* Data is reduced to what the control flow reads. A question becomes its key and
  the low bit of its tid (only P2 reads the tid, and only its low bit). A cache
  answer and SERVFAIL are the same outcome, "answered". Packets, sockets, metrics
  and logging are left out.
* A client query arrives once. `Clients` is the finite set of queries the listener
  delivers, so `CHECK_DEADLOCK FALSE` is justified: once every query is settled,
  nothing is left to do.
* `cap_pending_queries` evicts `map.keys().next()`, which depends on HashMap
  iteration order. The model lets it be any entry.
* `pick_upstream` refers to `upstream_servers_live`, which is not in scope
  (line 483), and indexes the registry map by `usize` (line 500). The code does
  not compile as written. Following spec 9, the live vector is passed explicitly,
  and the registry is indexed by server.
* The failure counter is capped at `FailThreshold`, because values past the
  threshold behave the same.
* Line 365, `upstream_server.pending_queries_count.saturating_sub(1);`, discards
  its result, so the model does not change the count there.

## 3. Runs

Every run uses `MC_ClientQueriesHandler`.

| Run | Mode | Servers, clients, keys, limit | Checks | Result |
|---|---|---|---|---|
| `coalesce_retry` | P2 | 2, 3, 2, 3 | `TypeOK`, `WaitingCountMatches`, `AtMostTwoSends`, `ImplementsPendingTable`, `RetriedQueryResolved` | pass (about 147k states) |
| `eviction` | Uniform | 2, 3, 2, 1 | `WaitingCountMatches`, `WaitingBounded`, `ImplementsPendingTable` | pass (about 60k states) |
| `retry_all_down` | Fallback | 1, 2, 1, 2 | `ClientEventuallySettled` | violation |
| `pending_count_drift` | Fallback | 1, 2, 1, 2 | `PendingMatchesEntries` | violation |
| `eviction_stale_timer` | Fallback | 2, 2, 1, 1 | `AtMostTwoSends` | violation |
| `probe_live_server` | Fallback | 2, 2, 1, 2 | `ProbesOnlyOffline` | violation |
| `uniform_retry_same_server` | Uniform | 3, 3, 2, 3 | `RetryAvoidsPrimary` | violation |
| `zero_limit` | Fallback | 1, 2, 1, 0 | `WaitingBounded` | violation |

Why these bounds are enough:

* Three clients on two keys give coalescing (two clients on one key) next to an
  independent entry.
* Two servers with a threshold of 2 let a server fail once and stay live, and fail
  twice and go down. Recovery brings it back.
* A limit of 1 makes every new key evict. A limit of 3 with three clients never
  evicts, so `AtMostTwoSends` can hold in `coalesce_retry`.
* Each violation run is the smallest instance that shows its finding.
### Properties

* `WaitingCountMatches` (spec 3, 8): every entry is non-empty, no client is in two
  entries, a client is waiting iff it is in an entry, and `waiting_clients_count`
  counts them. The assert at line 127 depends on it.
* `WaitingBounded` (spec 3, scenario 7): the admission limit holds.
* `AtMostTwoSends` (spec 8): each pending query is sent at most twice.
* `PendingMatchesEntries` (spec 8): at quiescent points, each server's pending
  count equals the number of entries targeting it. A quiescent point is one where
  no timer has a dropped `done_tx`.
* `ClientEventuallySettled`: every waiting client is eventually answered or
  evicted (spec 4.5.a).
* `ProbesOnlyOffline` (action property, spec 4.4): a probe stamp is set only for a
  server that is not live.
* `RetryAvoidsPrimary` (action property, spec 8): with at least two live servers,
  a retry moves the entry to a different server.
* `ImplementsPendingTable` (temporal property, spec 4.3): `Spec` implements
  `PendingTable!Spec` under `TableOf`, which maps each key to the clients of its
  entry. Every handler step is one of the following, or a stutter:
  * a client joining an entry;
  * a new entry admitted, after evicting one at the limit;
  * a whole entry resolved, with its clients answered;
  * a client served at once while every upstream is down.

  Eviction may only abandon clients. No client may leave an entry alone, or be
  answered without its entry being removed.
* `RetriedQueryResolved` (liveness, spec 5): an entry that has been sent twice
  eventually leaves the table. The second timer always removes it (lines 457-465),
  so its clients and the counter are released even if every upstream stays silent.
* `NoSelfWait` (`LockOrder`, proved, not model-checked): no handler blocks in
  `.write()` on a guard its own thread holds. parking_lot guards are not
  reentrant, so this depends on the scopes of the two servers blocks in
  `fut_retry_query` (353-383, 388-406) and of the insertion's temporary map guard
  (291-294). The handler holds `Rc` state and spawns only on its reactor (lines
  42-53, 107), so it runs on one thread, and a guard can only be waited for by
  the thread that holds it. With one reactor `LockOrder` has 21 states; the
  property is proved for any number of reactors instead.

### Fairness

`Spec` has weak fairness on `TimerFires` only. The timer wheel runs on the
reactor, and spec 5 says spurious wakeups are impossible and every armed timer
completes. `RetriedQueryResolved` depends on this fairness alone. Nothing else
is assumed:

* a response may never come (UDP, ignored `send_to` errors);
* a server may never recover;
* no more clients arrive.

`LockOrder` has no fairness. It asks only a safety question.

### Mutants

Each property of a passing run is broken by one plausible bug:

| Property | Definition | Mutant | The bug |
|---|---|---|---|
| `TypeOK` | `SatSub` | `SatSubWrapping` | a plain subtraction in place of `saturating_sub` |
| `WaitingCountMatches` | `AttachToPending` | `AttachToPendingUncounted` | coalescing without `fetch_add` |
| `WaitingCountMatches` | `WaitingAfterEviction` | `WaitingAfterEvictionUncounted` | eviction without `fetch_sub` |
| `WaitingBounded` | `MustEvict` | `MustEvictAboveLimit` | `>` in place of `>=` at line 114 |
| `AtMostTwoSends` | `RetryTimer` | `RetryTimerRearmsPrimary` | a retry that re-arms the first timer's closure |
| `ImplementsPendingTable` (coalesce_retry) | `MustEvict` | `MustEvictWhenOccupied` | eviction of an entry below the limit |
| `ImplementsPendingTable` (eviction) | `Settle` | `SettleAnswering` | evicted clients marked answered, as if the entry had resolved |
| `RetriedQueryResolved` | `RetryTimeout` | `RetryTimeoutKeepsEntry` | the second `or_else` records the failure and never removes the entry |

## 4. Findings

1. **Retry with every upstream down** (`retry_all_down`, `pending_count_drift`).
   At lines 377-381, `fut_retry_query` returns early when `new_pending_query`
   fails. It neither degrades the clients nor removes the entry, as spec 4.5.a
   step 4 requires.
   * No timer is armed any more, so the clients wait forever.
   * The entry still targets a server whose count was already decremented
     (line 321). A late response decrements it again.
2. **Eviction cancels a timer that then acts on a newer entry**
   (`eviction_stale_timer`).
   * Dropping the evicted entry's `done_tx` (line 123) resolves its timer with
     `Canceled`, and the `or_else` runs.
   * It calls `record_failure` on a server that did not fail, then
     `fut_retry_query` by key (line 346).
   * If a new entry for the same question exists, it is retried and its
     `done_tx` replaced, which cancels its own first timer. That timer then
     retries it again: a third send.
3. **Probes to live servers** (`probe_live_server`). The `filter_map` at lines
   188-197 keeps every configured candidate. No check of the live flag exists,
   so live servers are probed.
4. **Uniform retry to the same server** (`uniform_retry_same_server`). The retry
   slot `(slot + 1) % n` (line 493) is computed on the live vector at retry time.
   * If a server recovered or went down since the first send, positions have
     moved, and the retry can name the server that just timed out.
   * The trace has a server recovering at position 0 (vector order is modelled
     from the spec). The removal case follows from jump consistency alone.
5. **Limit 0** (`zero_limit`). With `max_waiting_clients = 0` the table is empty,
   so `cap_pending_queries` evicts nothing, and the client is admitted past the
   limit.

## 5. Proofs

`ClientQueriesHandlerProofs.tla` proves three theorems for every value of the
constants:

* `TypeCorrect`: `Spec => []TypeOK`.
* `WaitingCountInvariant`: `Spec => []WaitingCountMatches`.
* `WaitingBoundedInvariant`: assuming `MaxWaitingClients >= 1`,
  `Spec => []WaitingBounded`.

They rest on the named assumptions `RegistryAssumption`,
`LoadBalancerAssumption` and `HandlerAssumption`. TLC evaluates each of them on
every run.

### Why `TypeOK` needs a strengthening

`TypeOK` is not inductive on its own. `waiting` is decremented by the client count
of a removed entry, and it stays a natural number only because it equals the
number of waiting clients. The inductive invariant is
`Inv == TypeOK /\ WaitingCountMatches`.

### How the proof is built

The step proof has one lemma per action:

* `ProcessClientQueryInv` reduces the eviction branch to `CountsAfterRemove`, then
  applies the shared `AttachOrSendInv`.
* `PrimaryTimeoutInv`, `RetryTimeoutInv`, `UpstreamRespondsInv` and
  `RegistryStepsInv` cover the other actions.

These rest on three lemmas about `CountsMatch`:

* `CountsAfterAttach`: an idle client joins an entry and the counter gains one.
* `CountsAfterInsert`: a new entry holding one idle client.
* `CountsAfterRemove`: an entry is removed, its clients are settled, and the counter
  drops by their number and stays in `Nat`.

They also use facts from `FiniteSetTheorems` (`FS_AddElement`, `FS_Difference`,
`FS_Subset`).

### The admission bound

The bound adds `WaitingBounded` to `Inv` and uses two consequences of it:

* an evicted entry has at least one client, so eviction followed by admission
  does not raise the counter;
* with no entries no client is waiting, so a first admission leaves the counter
  at 1.

With a limit of 0 the theorem's hypothesis fails, and `zero_limit` shows why.

### The refinement

`ClientQueriesRefinementProofs.tla` proves `Refinement == Spec => PT!Spec`, where
`PT` is `PendingTable` instantiated with `table <- TableOf(pq)`. The argument
rests on three proof obligations:

* `Init` maps to `PT!Init`.
* `Inv /\ [Next]_vars => [PT!Next]_PT!vars`. `Inv` is the invariant of
  `WaitingCountInvariant`; it is needed because the counter, the client states
  and the table must agree for a removal to be a `Resolve` step.
* `Spec => []Inv`.

The steps map as follows:

* `ProcessClientQuery` maps to `ServeOffline`, `Admit` or `EvictAndAdmit`, via
  the lemma `TableAfterAttachOrSend`.
* The first timer (`PrimaryTimeout`) leaves every entry's clients unchanged, so
  it is a stutter (`TableStutter`).
* `RetryTimeout` with an entry, and `UpstreamResponds`, map to `Resolve`
  (`ResolveStep`).
* Registry and probe steps are stutters.

### Sends

`ClientQueriesSendsProofs.tla` proves one theorem.

`AtMostTwoSendsWithoutEviction`: assuming `NoEviction`
(`MaxWaitingClients >= Cardinality(Clients)`), `Spec => []AtMostTwoSends`. The
assumption is needed: `eviction_stale_timer` shows a third send once an entry is
evicted and re-created while the old timer is still armed (finding 2). Without
eviction, `MustEvict` never holds (`NoCapWithoutEviction`). `coalesce_retry`
satisfies the assumption. The inductive invariant is
`SendsInv == Inv /\ OwnedAndRetriedOnce /\ TimersGuardEntries /\ OneTimerPerKey`:

* every entry's owner is one of its clients, and it was sent once or twice;
* every armed timer holds the current entry of its key (the same `done_tx`), and
  its stage says how often the entry was sent (1 for the primary timer, 2 for the
  retry timer);
* there is at most one timer per key.

`AtMostTwoSends` alone is not inductive: a retry increments `sent`, and only the
timer invariant says a retry timer never fires on an entry already sent twice.
TLC checked `SendsInv` as an invariant on the `coalesce_retry` instance before
it was proved. The step proof has one lemma per action and a frame lemma
`KeyStep`, which re-establishes the invariant for the one key an action touches.

### Locks

`LockOrderProofs.tla` proves `NoSelfWaitInvariant`: assuming
`LockOrderAssumption` (`Nobody` is not a reactor), `Spec => []NoSelfWait` for
any set of reactors, and so for the code's single reactor. The inductive invariant `IInv` says two things:

* a running reactor's position is inside its handler's sequence;
* a reactor holds exactly the locks whose guards are in scope at its position
  (`HeldSeq`, computed per handler).

`OpFacts` checks each handler's sequence: an acquire at a position never names a
lock already in scope there. `NoSelfWait` follows.

### What stays with TLC

* `ClientEventuallySettled` and `RetriedQueryResolved`, liveness properties
  under fairness.
* `ProbesOnlyOffline`, `RetryAvoidsPrimary` and `PendingMatchesEntries`. All of
  these are violated by the code.
* `AtMostTwoSends` with eviction. It is violated (`eviction_stale_timer`); the
  proof covers only `NoEviction`.
* `WaitingBounded` with a limit of 0. It is violated (`zero_limit`).

The liveness properties stay with TLC because TLAPS cannot prove liveness under
fairness or reason about `ENABLED`. They rest on the TLC runs alone.

## 6. Not modelled

* Cache, DNS codec, listeners, configuration and metrics: out of the spec's scope
  or pure I/O.
* Reconfiguration, where a server is missing from the registry mid-attempt
  (lines 257-262, 356-361, 391-396, 439-445). The configuration is fixed.
* The persistence of `last_probe_ts`: whether the copy made at line 194 loses
  the stamp depends on `UpstreamServer`'s `Copy` impl in upstream_server.rs,
  which is not in the sources. The model assumes the stamp persists.
* In `LockOrder`, the read of `upstream_servers_live_arc` at line 224 is left
  out. It is a temporary taken while no other guard is held. Locks taken inside
  `record_failure` are also left out, because its code is not in the sources.

## 7. Plan for later sittings

* A P2 pass run, with `PickUpstream` checked against a reference
  definition over bounded live sets.

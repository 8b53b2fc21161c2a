------------------------- MODULE ClientQueriesHandler -------------------------
(***************************************************************************)
(* ClientQueriesHandler (client_queries_handler.rs) together with the     *)
(* pending-query table it shares with the response path                   *)
(* (pending_query.rs) and the timer futures it arms.                      *)
(*                                                                         *)
(* One reactor runs every future to completion between suspension points, *)
(* so each handler below is one atomic step:                               *)
(*  - ProcessClientQuery: fut_process_client_query up to arming the timer; *)
(*  - PrimaryTimeout: the or_else of the first timer, which runs           *)
(*    fut_retry_query up to arming the second timer;                       *)
(*  - RetryTimeout: the or_else of the second timer.                       *)
(* The timers race done_rx.  A timer whose done_tx is sent completes       *)
(* silently and disappears; a timer whose done_tx is dropped (eviction, or *)
(* replacement of done_tx by a retry) resolves with Canceled, which is an  *)
(* error of the timeout future and so runs its or_else exactly as a        *)
(* timeout would.  A timer is identified by the entry's creator and the    *)
(* number of the send it guards, which is also how an entry names the     *)
(* timer holding its done_rx.                                              *)
(*                                                                         *)
(* The response dispatcher, record_failure/record_success and background   *)
(* probes are outside src/; they are modelled from the spec                *)
(* (UpstreamResponds, ServerRecovers).                                     *)
(***************************************************************************)
EXTENDS LoadBalancer, Naturals, FiniteSets

CONSTANTS
    Clients,            \* client queries (each is received once)
    MaxWaitingClients,  \* config.max_waiting_clients
    NoEntry,            \* no PendingQuery for a key
    NoServer            \* probed_socket_addr = None

ASSUME HandlerAssumption ==
    /\ IsFiniteSet(Clients)
    /\ MaxWaitingClients \in Nat
    /\ NoEntry \notin [clients : SUBSET Clients, owner : Clients, srv : Servers,
                       sent : Nat, tid : Tids, probed : Servers \cup {NoServer}]
    /\ NoServer \notin Servers

VARIABLES
    cstate,       \* what became of each client query
    pq,           \* pending_queries.map_arc: key -> PendingQuery or NoEntry
    waiting,      \* waiting_clients_count
    pending,      \* pending_queries_count of each upstream server
    timers,       \* armed timeout futures
    live,         \* upstream_servers_live_arc
    failures,     \* consecutive failures of each server (registry)
    probeRecent   \* last_probe_ts is less than UPSTREAM_PROBES_DELAY_MS old

vars == <<cstate, pq, waiting, pending, timers, live, failures, probeRecent>>

ClientStates == {"idle", "waiting", "answered", "dropped"}

\* PendingQuery: the fields the handler reads or writes.  owner is the
\* client whose query created it, sent the number of upstream sends so far.
Entry == [clients : SUBSET Clients, owner : Clients, srv : Servers,
          sent : Nat \ {0}, tid : Tids, probed : Servers \cup {NoServer}]

\* A timeout future racing done_rx; rx is "canceled" once done_tx is dropped.
Timer == [owner : Clients, n : Nat \ {0}, key : Keys, stage : {"primary", "retry"},
          srv : Servers, tid : Tids, rx : {"waiting", "canceled"}]

\* Keys with an entry in the map p, and clients waiting according to cs.
ActiveIn(p) == {k \in Keys : p[k] # NoEntry}
WaitingIn(cs) == {c \in Clients : cs[c] = "waiting"}

ActiveKeys == ActiveIn(pq)

\* Bug variant of RetryTimer: the retry re-arms the first timer's or_else.
RetryTimerRearmsPrimary(e, k, s, tid) ==
    [owner |-> e.owner, n |-> e.sent + 1, key |-> k, stage |-> "primary", srv |-> s,
     tid |-> tid, rx |-> "waiting"]

\* The timer fut_retry_query arms for entry e on server s, of
\* UPSTREAM_QUERY_MAX_TIMEOUT_MS.
RetryTimer(e, k, s, tid) ==
    [owner |-> e.owner, n |-> e.sent + 1, key |-> k, stage |-> "retry", srv |-> s,
     tid |-> tid, rx |-> "waiting"]

\* Timer t races the done_rx paired with entry e's current done_tx.
Holds(t, e) == t.owner = e.owner /\ t.n = e.sent

\* Dropping e's done_tx: the timer holding done_rx sees Canceled.
DropDoneTx(ts, e) == {IF Holds(t, e) THEN [t EXCEPT !.rx = "canceled"] ELSE t : t \in ts}

\* done_tx.send(()): the timer holding done_rx completes and does nothing.
SendDoneTx(ts, e) == {t \in ts : ~Holds(t, e)}

\* Bug variant of Settle: every settled client is sent a response, the
\* evicted ones included.
SettleAnswering(cs, S, outcome) == [x \in Clients |-> IF x \in S THEN "answered" ELSE cs[x]]

\* Each client of a set, answered (response, stale entry or SERVFAIL) or dropped.
Settle(cs, S, outcome) == [x \in Clients |-> IF x \in S THEN outcome ELSE cs[x]]

Init ==
    /\ cstate = [c \in Clients |-> "idle"]
    /\ pq = [k \in Keys |-> NoEntry]
    /\ waiting = 0
    /\ pending = [s \in Servers |-> 0]
    /\ timers = {}
    /\ live = Servers
    /\ failures = [s \in Servers |-> 0]
    /\ probeRecent = [s \in Servers |-> FALSE]

(***************************************************************************)
(* cap_pending_queries: when waiting_clients_count has reached            *)
(* max_waiting_clients, the first entry of the map (any entry) is removed *)
(* and its clients are abandoned.                                          *)
(***************************************************************************)
\* Bug variant of MustEvict: evict only once the limit is exceeded.
MustEvictAboveLimit == waiting > MaxWaitingClients /\ ActiveKeys # {}

\* Bug variant of MustEvict: the counter check is dropped, every query evicts.
MustEvictWhenOccupied == ActiveKeys # {}

MustEvict == waiting >= MaxWaitingClients /\ ActiveKeys # {}

(***************************************************************************)
(* maybe_send_probe_to_offline_servers: one of the query's configured     *)
(* upstream servers, picked at random, is probed unless it was probed less *)
(* than UPSTREAM_PROBES_DELAY_MS ago.  send_to may fail, in which case no  *)
(* probed address is recorded.                                             *)
(***************************************************************************)
ProbeOutcomes(ps) == IF probeRecent[ps] THEN {NoServer} ELSE {ps, NoServer}

\* Bug variant of WaitingAfterEviction: the fetch_sub is forgotten.
WaitingAfterEvictionUncounted(ev) == waiting

\* cap_pending_queries: fetch_sub of the evicted entry's client count.
WaitingAfterEviction(ev) == waiting - Cardinality(pq[ev].clients)

\* Bug variant of AttachToPending: the coalesced client is not counted.
AttachToPendingUncounted(c, k, p, w, cs, ts) ==
    /\ p[k] # NoEntry
    /\ pq' = [p EXCEPT ![k].clients = @ \cup {c}]
    /\ waiting' = w
    /\ cstate' = [cs EXCEPT ![c] = "waiting"]
    /\ timers' = ts
    /\ UNCHANGED <<pending, live, failures, probeRecent>>

(***************************************************************************)
(* maybe_add_to_existing_pending_query on the map p, counter w, clients   *)
(* cs and timers ts left by the cap: c joins the entry of its key.        *)
(***************************************************************************)
AttachToPending(c, k, p, w, cs, ts) ==
    /\ p[k] # NoEntry
    /\ pq' = [p EXCEPT ![k].clients = @ \cup {c}]
    /\ waiting' = w + 1
    /\ cstate' = [cs EXCEPT ![c] = "waiting"]
    /\ timers' = ts
    /\ UNCHANGED <<pending, live, failures, probeRecent>>

\* The timer armed on the first send, of timeout_ms_est().
PrimaryTimer(c, k, s, tid) ==
    [owner |-> c, n |-> 1, key |-> k, stage |-> "primary", srv |-> s, tid |-> tid,
     rx |-> "waiting"]

(***************************************************************************)
(* The rest of fut_process_client_query when no entry has the key:         *)
(* new_pending_query, the probe, PendingQuery::new, the counters, the      *)
(* insertion, the send and the first timer.                                *)
(***************************************************************************)
SendNewQuery(c, k, tid, p, w, cs, ts) ==
    /\ p[k] = NoEntry
    /\ \E s \in PickUpstream(k, tid, FALSE, live, pending), ps \in Servers :
       \E pr \in ProbeOutcomes(ps) :
         /\ probeRecent' = [probeRecent EXCEPT ![ps] = TRUE]
         /\ pq' = [p EXCEPT ![k] = [clients |-> {c}, owner |-> c, srv |-> s,
                                    sent |-> 1, tid |-> tid, probed |-> pr]]
         /\ waiting' = w + 1
         /\ cstate' = [cs EXCEPT ![c] = "waiting"]
         /\ pending' = [pending EXCEPT ![s] = @ + 1]
         /\ timers' = ts \cup {PrimaryTimer(c, k, s, tid)}
         /\ UNCHANGED <<live, failures>>

AttachOrSend(c, k, tid, p, w, cs, ts) ==
    \/ AttachToPending(c, k, p, w, cs, ts)
    \/ SendNewQuery(c, k, tid, p, w, cs, ts)

(***************************************************************************)
(* fut_process_client_query for client query c with key k and tid.  With  *)
(* no live upstream the client gets a stale entry or SERVFAIL at once.    *)
(***************************************************************************)
ProcessClientQuery(c, k, tid) ==
    /\ cstate[c] = "idle"
    /\ \/ /\ live = {}
          /\ cstate' = [cstate EXCEPT ![c] = "answered"]
          /\ UNCHANGED <<pq, waiting, pending, timers, live, failures, probeRecent>>
       \/ /\ live # {}
          /\ ~MustEvict
          /\ AttachOrSend(c, k, tid, pq, waiting, cstate, timers)
       \/ /\ live # {}
          /\ MustEvict
          /\ \E ev \in ActiveKeys :
                AttachOrSend(c, k, tid,
                             [pq EXCEPT ![ev] = NoEntry],
                             WaitingAfterEviction(ev),
                             Settle(cstate, pq[ev].clients, "dropped"),
                             DropDoneTx(timers, pq[ev]))

(***************************************************************************)
(* The or_else of the first timer (timeout or Canceled): the captured     *)
(* server's pending count is decremented and record_failure is called;    *)
(* then fut_retry_query looks the key up again.  If an entry is there, its *)
(* own upstream's count is "decremented" by a discarded saturating_sub    *)
(* (no effect), new_pending_query picks an upstream with is_retry, whose  *)
(* count is incremented, the entry gets the new upstream and a new done_tx *)
(* (dropping the old one), and a timer of UPSTREAM_QUERY_MAX_TIMEOUT_MS is *)
(* armed.  If no server is live, fut_retry_query returns with the entry    *)
(* left in place.                                                          *)
(***************************************************************************)
PrimaryTimeout(t) ==
    /\ t \in timers
    /\ t.stage = "primary"
    /\ LET pend1 == [pending EXCEPT ![t.srv] = SatSub(@)]
           live1 == LiveAfterFailure(live, failures, t.srv)
           e == pq[t.key]
       IN /\ failures' = FailuresAfterFailure(failures, t.srv)
          /\ live' = live1
          /\ UNCHANGED <<cstate, waiting, probeRecent>>
          /\ \/ /\ e = NoEntry
                /\ pending' = pend1
                /\ timers' = timers \ {t}
                /\ UNCHANGED pq
             \/ /\ e # NoEntry
                /\ live1 = {}
                /\ pending' = pend1
                /\ timers' = timers \ {t}
                /\ UNCHANGED pq
             \/ /\ e # NoEntry
                /\ live1 # {}
                /\ \E s \in PickUpstream(t.key, t.tid, TRUE, live1, pend1) :
                   /\ pending' = [pend1 EXCEPT ![s] = @ + 1]
                   /\ pq' = [pq EXCEPT ![t.key] = [e EXCEPT !.srv = s, !.sent = e.sent + 1]]
                   /\ timers' = DropDoneTx(timers \ {t}, e)
                                  \cup {RetryTimer(e, t.key, s, t.tid)}

\* Bug variant of RetryTimeout: the or_else only records the failure and
\* never looks the key up, so the entry and its clients stay in the table.
RetryTimeoutKeepsEntry(t) ==
    /\ t \in timers
    /\ t.stage = "retry"
    /\ pending' = [pending EXCEPT ![t.srv] = SatSub(@)]
    /\ failures' = FailuresAfterFailure(failures, t.srv)
    /\ live' = LiveAfterFailure(live, failures, t.srv)
    /\ UNCHANGED probeRecent
    /\ timers' = timers \ {t}
    /\ UNCHANGED <<pq, cstate, waiting>>

(***************************************************************************)
(* The or_else of the second timer: the captured server's count is        *)
(* decremented and record_failure is called; the entry under the key, if  *)
(* any, is removed, each of its clients gets a stale entry or SERVFAIL,   *)
(* done_tx is sent and waiting_clients_count drops by its client count.   *)
(***************************************************************************)
RetryTimeout(t) ==
    /\ t \in timers
    /\ t.stage = "retry"
    /\ pending' = [pending EXCEPT ![t.srv] = SatSub(@)]
    /\ failures' = FailuresAfterFailure(failures, t.srv)
    /\ live' = LiveAfterFailure(live, failures, t.srv)
    /\ UNCHANGED probeRecent
    /\ LET e == pq[t.key] IN
       \/ /\ e = NoEntry
          /\ timers' = timers \ {t}
          /\ UNCHANGED <<pq, cstate, waiting>>
       \/ /\ e # NoEntry
          /\ pq' = [pq EXCEPT ![t.key] = NoEntry]
          /\ cstate' = Settle(cstate, e.clients, "answered")
          /\ waiting' = waiting - Cardinality(e.clients)
          /\ timers' = SendDoneTx(timers \ {t}, e)

(***************************************************************************)
(* The response dispatcher (spec 4.5, step 7): a response from the entry's *)
(* current upstream, or from the probed server while the first query is   *)
(* the one outstanding, removes the entry, answers its clients, sends     *)
(* done_tx, decrements the counters and records a success for the sender. *)
(***************************************************************************)
UpstreamResponds(k, from) ==
    LET e == pq[k] IN
    /\ e # NoEntry
    /\ from \in {e.srv} \cup (IF e.sent = 1 /\ e.probed # NoServer THEN {e.probed} ELSE {})
    /\ pq' = [pq EXCEPT ![k] = NoEntry]
    /\ cstate' = Settle(cstate, e.clients, "answered")
    /\ waiting' = waiting - Cardinality(e.clients)
    /\ pending' = [pending EXCEPT ![e.srv] = SatSub(@)]
    /\ timers' = SendDoneTx(timers, e)
    /\ failures' = FailuresAfterSuccess(failures, from)
    /\ live' = LiveAfterSuccess(live, from)
    /\ UNCHANGED probeRecent

\* A background probe of an offline server is answered (spec 4.1).
ServerRecovers(s) ==
    /\ s \notin live
    /\ failures' = FailuresAfterSuccess(failures, s)
    /\ live' = LiveAfterSuccess(live, s)
    /\ UNCHANGED <<cstate, pq, waiting, pending, timers, probeRecent>>

\* UPSTREAM_PROBES_DELAY_MS elapses since the last probe of s.
ProbeDelayElapses(s) ==
    /\ probeRecent[s]
    /\ probeRecent' = [probeRecent EXCEPT ![s] = FALSE]
    /\ UNCHANGED <<cstate, pq, waiting, pending, timers, live, failures>>

TimerFires == \E t \in timers : PrimaryTimeout(t) \/ RetryTimeout(t)

\* The tid of a question is read only by P2; elsewhere one value stands for all.
QuestionTids == IF LBMode = "P2" THEN Tids ELSE {0}

Next ==
    \/ \E c \in Clients, k \in Keys, tid \in QuestionTids : ProcessClientQuery(c, k, tid)
    \/ TimerFires
    \/ \E k \in Keys, s \in Servers : UpstreamResponds(k, s)
    \/ \E s \in Servers : ServerRecovers(s) \/ ProbeDelayElapses(s)

\* Every armed timer eventually fires: the timer wheel runs on the reactor.
Spec == Init /\ [][Next]_vars /\ WF_vars(TimerFires)

-------------------------------------------------------------------------------
(***************************************************************************)
(* Properties                                                              *)
(***************************************************************************)

\* Every variable has the type the code gives it.
TypeOK ==
    /\ cstate \in [Clients -> ClientStates]
    /\ pq \in [Keys -> Entry \cup {NoEntry}]
    /\ waiting \in Nat
    /\ pending \in [Servers -> Nat]
    /\ timers \subseteq Timer
    /\ live \subseteq Servers
    /\ failures \in [Servers -> 0..FailThreshold]
    /\ probeRecent \in [Servers -> BOOLEAN]

(***************************************************************************)
(* waiting_clients_count equals the sum of client_queries.len() over the  *)
(* pending table (spec 3 and 8): every entry has at least one client, no   *)
(* client is attached to two entries, the attached clients are exactly    *)
(* the ones still waiting, and the counter counts them.  Coalescing,      *)
(* eviction, the second timeout and the response path each change both    *)
(* sides; the assert in cap_pending_queries relies on it.  CountsMatch    *)
(* states it of a map p, a counter w and client states cs.                *)
(***************************************************************************)
CountsMatch(p, w, cs) ==
    /\ \A k \in ActiveIn(p) : p[k].clients # {}
    /\ \A k1, k2 \in ActiveIn(p) : k1 # k2 => p[k1].clients \cap p[k2].clients = {}
    /\ \A c \in Clients : c \in WaitingIn(cs) <=> \E k \in ActiveIn(p) : c \in p[k].clients
    /\ w = Cardinality(WaitingIn(cs))

WaitingCountMatches == CountsMatch(pq, waiting, cstate)

(***************************************************************************)
(* Admission control (spec 4.3, scenario 7): waiting_clients_count never  *)
(* exceeds max_waiting_clients, although the cap is applied before a      *)
(* client is counted and only when the limit is already reached.          *)
(***************************************************************************)
WaitingBounded == waiting <= MaxWaitingClients

(***************************************************************************)
(* pending_queries_count of every server equals the number of pending     *)
(* queries currently targeting it (spec 8), at every quiescent point: one *)
(* where no timer whose done_tx was dropped is still due to run its       *)
(* or_else.  A count that drifts skews P2 load balancing for the rest of  *)
(* the process's life.                                                    *)
(***************************************************************************)
Quiescent == \A t \in timers : t.rx = "waiting"

PendingMatchesEntries ==
    Quiescent => \A s \in Servers : pending[s] = Cardinality({k \in ActiveKeys : pq[k].srv = s})

(***************************************************************************)
(* At most two upstream sends per pending query: the first one and one    *)
(* retry (spec 4.5.a, "Only one retry is attempted per pending entry").   *)
(***************************************************************************)
AtMostTwoSends == \A k \in ActiveKeys : pq[k].sent <= 2

(***************************************************************************)
(* Every client query that is waiting is eventually answered (with the    *)
(* upstream response, a stale entry or SERVFAIL) or abandoned by eviction *)
(* (spec 4.5.a step 4: a retry that finds every upstream down degrades    *)
(* the attached clients).                                                 *)
(***************************************************************************)
ClientEventuallySettled ==
    \A c \in Clients : cstate[c] = "waiting" ~> cstate[c] \in {"answered", "dropped"}

(***************************************************************************)
(* The hard retry ceiling (spec 5, UPSTREAM_QUERY_MAX_TIMEOUT_MS): once   *)
(* fut_retry_query has re-sent a query, the entry of its key eventually   *)
(* leaves the table, by a response or by the second timer's or_else, even *)
(* when every upstream is down.  Needs the timer of the retry to be armed *)
(* and to keep racing done_rx until one of them removes the entry.        *)
(***************************************************************************)
RetriedQueryResolved ==
    \A k \in Keys : (pq[k] # NoEntry /\ pq[k].sent = 2) ~> pq[k] = NoEntry

(***************************************************************************)
(* A probe is only sent to a server that is offline (spec 4.4 step 1):    *)
(* a step that stamps last_probe_ts of s happens only when s is not live. *)
(***************************************************************************)
ProbesOnlyOffline ==
    [][\A s \in Servers : (~probeRecent[s] /\ probeRecent'[s]) => s \notin live]_vars

(***************************************************************************)
(* Retry monotonicity (spec 8): when fut_retry_query moves an entry to a  *)
(* new upstream and at least two servers are live, the new upstream is    *)
(* not the one that just timed out.                                       *)
(***************************************************************************)
RetryAvoidsPrimary ==
    [][\A k \in Keys :
         (/\ pq[k] # NoEntry /\ pq'[k] # NoEntry
          /\ pq'[k].owner = pq[k].owner /\ pq'[k].sent = pq[k].sent + 1
          /\ Cardinality(live') >= 2)
         => pq'[k].srv # pq[k].srv]_vars

(***************************************************************************)
(* The handler implements the pending table of spec 4.3 (PendingTable):  *)
(* under the mapping that forgets upstreams, timers, retries and probes,  *)
(* every step is a table step or leaves the table alone.  In particular   *)
(* eviction happens only at the limit, only together with an admission,  *)
(* an entry is only ever resolved as a whole, and a retry changes nothing *)
(* a client of the table can see.                                         *)
(***************************************************************************)
TableOf(p) == [k \in Keys |-> IF p[k] = NoEntry THEN {} ELSE p[k].clients]

PT == INSTANCE PendingTable WITH table <- TableOf(pq)

ImplementsPendingTable == PT!Spec
================================================================================

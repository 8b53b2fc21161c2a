----------------------------- MODULE PendingTable -----------------------------
(***************************************************************************)
(* What the pending table promises its clients (spec 4.3, 4.5 and 5),     *)
(* without upstreams, timers or retries: a table from question key to the *)
(* set of client queries waiting on it, and the waiting-clients counter.  *)
(*  - a client query is served at once when every upstream is down;       *)
(*  - otherwise it is admitted: it joins the entry of its key or starts   *)
(*    one, and the counter grows by one;                                   *)
(*  - admission at the limit first evicts some entry, whose clients are   *)
(*    abandoned (they get no response);                                    *)
(*  - an entry is resolved as a whole: every client on it is answered and *)
(*    the counter drops by their number.                                   *)
(* An empty set stands for "no entry".                                     *)
(***************************************************************************)
EXTENDS Naturals, FiniteSets

CONSTANTS Clients, Keys, MaxWaitingClients

VARIABLES
    table,    \* key -> clients waiting on the entry of that key
    cstate,   \* what became of each client query
    waiting   \* waiting_clients_count

vars == <<table, cstate, waiting>>

Init ==
    /\ table = [k \in Keys |-> {}]
    /\ cstate = [c \in Clients |-> "idle"]
    /\ waiting = 0

Occupied == {k \in Keys : table[k] # {}}

\* c joins (or starts) the entry of k on the table t with counter w.
Join(c, k, t, w, cs) ==
    /\ table' = [t EXCEPT ![k] = @ \cup {c}]
    /\ waiting' = w + 1
    /\ cstate' = [cs EXCEPT ![c] = "waiting"]

ServeOffline(c) ==
    /\ cstate[c] = "idle"
    /\ cstate' = [cstate EXCEPT ![c] = "answered"]
    /\ UNCHANGED <<table, waiting>>

Admit(c, k) ==
    /\ cstate[c] = "idle"
    /\ waiting < MaxWaitingClients \/ Occupied = {}
    /\ Join(c, k, table, waiting, cstate)

EvictAndAdmit(c, k, ev) ==
    /\ cstate[c] = "idle"
    /\ waiting >= MaxWaitingClients
    /\ ev \in Occupied
    /\ Join(c, k, [table EXCEPT ![ev] = {}], waiting - Cardinality(table[ev]),
            [x \in Clients |-> IF x \in table[ev] THEN "dropped" ELSE cstate[x]])

Resolve(k) ==
    /\ k \in Occupied
    /\ table' = [table EXCEPT ![k] = {}]
    /\ cstate' = [x \in Clients |-> IF x \in table[k] THEN "answered" ELSE cstate[x]]
    /\ waiting' = waiting - Cardinality(table[k])

Next ==
    \/ \E c \in Clients : ServeOffline(c)
    \/ \E c \in Clients, k \in Keys : Admit(c, k)
    \/ \E c \in Clients, k, ev \in Keys : EvictAndAdmit(c, k, ev)
    \/ \E k \in Keys : Resolve(k)

Spec == Init /\ [][Next]_vars
================================================================================

------------------------ MODULE ClientQueriesRefinementProofs ------------------------
(***************************************************************************)
(* The handler implements the pending table of spec 4.3: Spec => PT!Spec *)
(* under the mapping TableOf, which keeps of each entry only its clients. *)
(* The step proof needs the invariant of ClientQueriesHandlerProofs: an   *)
(* entry always has a client, so "the map has an entry" (the code's       *)
(* eviction guard) and "the table has an occupied key" (the abstract one) *)
(* agree, and an entry removed by the code is an occupied key resolved.   *)
(***************************************************************************)
EXTENDS ClientQueriesHandlerProofs

\* The table's Cardinality, taken through the instance, is FiniteSets'.
LEMMA CardinalitySame ==
    ASSUME NEW S
    PROVE  PT!Cardinality(S) = Cardinality(S)
BY DEF PT!Cardinality, Cardinality

\* The mapping, primed, is the mapping of the primed map.
LEMMA TablePrime == TableOf(pq)' = TableOf(pq')
OBVIOUS

\* The table of a map p with the entry of ev removed.
LEMMA TableAfterRemove ==
    ASSUME NEW p, MapOK(p), NEW ev \in Keys
    PROVE  TableOf([p EXCEPT ![ev] = NoEntry]) = [TableOf(p) EXCEPT ![ev] = {}]
BY DEF TableOf, MapOK

(***************************************************************************)
(* The tail of fut_process_client_query adds the client to the table     *)
(* entry of its key, whether it attaches or starts a new pending query.   *)
(***************************************************************************)
\* c added to the entry of k in table t, and marked waiting in cs.
JoinedTable(t, k, c) == [t EXCEPT ![k] = @ \cup {c}]
JoinedStates(cs, c) == [cs EXCEPT ![c] = "waiting"]

LEMMA TableAfterAttachOrSend ==
    ASSUME TypeOK, NEW p, MapOK(p), NEW w, NEW cs, NEW ts,
           NEW c \in Clients, NEW k \in Keys, NEW tid \in Tids,
           AttachOrSend(c, k, tid, p, w, cs, ts)
    PROVE  /\ TableOf(pq') = JoinedTable(TableOf(p), k, c)
           /\ waiting' = w + 1
           /\ cstate' = JoinedStates(cs, c)
<1>1. CASE AttachToPending(c, k, p, w, cs, ts)
  <2>1. p[k] \in Entry
    BY <1>1 DEF AttachToPending, MapOK
  <2>2. pq'[k] = [p[k] EXCEPT !.clients = p[k].clients \cup {c}]
    BY <1>1 DEF AttachToPending, MapOK
  <2>3. pq'[k] \in Entry
    BY <2>1, <2>2 DEF Entry
  <2>4. pq'[k] # NoEntry
    BY <2>3, NoEntryNotEntry
  <2>5. pq'[k].clients = p[k].clients \cup {c}
    BY <2>1, <2>2, Zenon DEF Entry
  <2>6. \A x \in Keys \ {k} : pq'[x] = p[x]
    BY <1>1 DEF AttachToPending, MapOK
  <2>7. p[k] # NoEntry
    BY <2>1, NoEntryNotEntry
  <2>8. TableOf(pq') = [TableOf(p) EXCEPT ![k] = @ \cup {c}]
    BY <2>4, <2>5, <2>6, <2>7 DEF TableOf
  <2>. QED  BY <1>1, <2>8 DEF AttachToPending, JoinedTable, JoinedStates
<1>2. CASE SendNewQuery(c, k, tid, p, w, cs, ts)
  <2>1. PICK s, ps, pr :
         /\ s \in PickUpstream(k, tid, FALSE, live, pending)
         /\ ps \in Servers
         /\ pr \in ProbeOutcomes(ps)
         /\ pq' = [p EXCEPT ![k] = [clients |-> {c}, owner |-> c, srv |-> s,
                                    sent |-> 1, tid |-> tid, probed |-> pr]]
         /\ waiting' = w + 1
         /\ cstate' = [cs EXCEPT ![c] = "waiting"]
    BY <1>2 DEF SendNewQuery
  <2>2. s \in Servers
    BY <2>1, PickInLive DEF TypeOK
  <2> DEFINE e == [clients |-> {c}, owner |-> c, srv |-> s,
                   sent |-> 1, tid |-> tid, probed |-> pr]
  <2>3. e \in Entry
    BY <2>1, <2>2 DEF Entry, ProbeOutcomes
  <2>4. e # NoEntry
    BY <2>3, NoEntryNotEntry
  <2>0. p[k] = NoEntry
    BY <1>2 DEF SendNewQuery
  <2>5. TableOf(pq') = [TableOf(p) EXCEPT ![k] = @ \cup {c}]
    BY <2>0, <2>1, <2>4 DEF TableOf, MapOK
  <2>. QED  BY <2>1, <2>5 DEF JoinedTable, JoinedStates
<1>. QED  BY <1>1, <1>2 DEF AttachOrSend

\* Removing an entry and answering its clients is the table's Resolve.
LEMMA ResolveStep ==
    ASSUME Inv, NEW k \in Keys, pq[k] # NoEntry,
           pq' = [pq EXCEPT ![k] = NoEntry],
           cstate' = Settle(cstate, pq[k].clients, "answered"),
           waiting' = waiting - Cardinality(pq[k].clients)
    PROVE  PT!Resolve(k)
<1>1. MapOK(pq)
  BY DEF Inv, TypeOK, MapOK
<1>2. TableOf(pq)[k] = pq[k].clients /\ pq[k].clients # {}
  BY DEF TableOf, Inv, WaitingCountMatches, CountsMatch, ActiveIn
<1>3. TableOf(pq') = [TableOf(pq) EXCEPT ![k] = {}]
  BY <1>1, TableAfterRemove
<1>4. k \in PT!Occupied
  BY <1>2 DEF PT!Occupied
<1>5. TableOf(pq)' = [TableOf(pq) EXCEPT ![k] = {}]
  BY <1>3, TablePrime
<1>6. cstate' = [x \in Clients |-> IF x \in TableOf(pq)[k] THEN "answered" ELSE cstate[x]]
  BY <1>2 DEF Settle
<1>7. waiting' = waiting - PT!Cardinality(TableOf(pq)[k])
  BY <1>2, CardinalitySame
<1>. QED  BY <1>4, <1>5, <1>6, <1>7 DEF PT!Resolve

\* A step that changes neither the clients of an entry nor the client
\* states nor the counter is a stutter of the table.
LEMMA TableStutter ==
    ASSUME MapOK(pq), MapOK(pq'),
           ActiveIn(pq') = ActiveIn(pq),
           \A k \in Keys : pq'[k].clients = pq[k].clients,
           UNCHANGED <<cstate, waiting>>
    PROVE  UNCHANGED PT!vars
<1>1. TableOf(pq') = TableOf(pq)
  BY DEF TableOf, MapOK, ActiveIn
<1>. QED  BY <1>1, TablePrime DEF PT!vars

\* A step that leaves the map, the client states and the counter alone.
LEMMA UnchangedTable ==
    ASSUME UNCHANGED <<pq, cstate, waiting>>
    PROVE  UNCHANGED PT!vars
BY TablePrime DEF PT!vars

(***************************************************************************)
(* fut_process_client_query is a table step: ServeOffline when no        *)
(* upstream is live, Admit when the cap does not evict, EvictAndAdmit     *)
(* when it does.                                                           *)
(***************************************************************************)
LEMMA ProcessClientQueryRefines ==
    ASSUME Inv, NEW c \in Clients, NEW k \in Keys, NEW tid \in QuestionTids,
           ProcessClientQuery(c, k, tid)
    PROVE  PT!Next
<1>0. MapOK(pq) /\ cstate[c] = "idle" /\ TypeOK /\ tid \in Tids
  BY DEF Inv, TypeOK, MapOK, ProcessClientQuery, QuestionTids, Tids
<1> DEFINE T == TableOf(pq)
<1>a. (ActiveKeys = {}) <=> (PT!Occupied = {})
  BY DEF Inv, WaitingCountMatches, CountsMatch, ActiveKeys, ActiveIn, PT!Occupied, TableOf
<1>1. CASE live = {} /\ cstate' = [cstate EXCEPT ![c] = "answered"]
           /\ UNCHANGED <<pq, waiting, pending, timers, live, failures, probeRecent>>
  <2>1. T' = T
    BY <1>1, TablePrime
  <2>2. PT!ServeOffline(c)
    BY <1>0, <1>1, <2>1 DEF PT!ServeOffline
  <2>. QED  BY <2>2 DEF PT!Next
<1>2. CASE ~MustEvict /\ AttachOrSend(c, k, tid, pq, waiting, cstate, timers)
  <2>1. waiting < MaxWaitingClients \/ PT!Occupied = {}
    BY <1>0, <1>2, <1>a, HandlerAssumption DEF MustEvict, TypeOK
  <2>2. /\ TableOf(pq') = [T EXCEPT ![k] = @ \cup {c}]
        /\ waiting' = waiting + 1
        /\ cstate' = [cstate EXCEPT ![c] = "waiting"]
    <3>1. AttachOrSend(c, k, tid, pq, waiting, cstate, timers)
      BY <1>2
    <3>2. TypeOK /\ MapOK(pq) /\ tid \in Tids
      BY <1>0
    <3>3. waiting' = waiting + 1
      BY <3>1, <3>2, TableAfterAttachOrSend
    <3>4. TableOf(pq') = JoinedTable(TableOf(pq), k, c) /\ cstate' = JoinedStates(cstate, c)
      BY <3>1, <3>2, TableAfterAttachOrSend
    <3>. QED  BY <3>3, <3>4 DEF JoinedTable, JoinedStates
  <2>3. PT!Join(c, k, T, waiting, cstate)
    BY <2>2, TablePrime DEF PT!Join
  <2>4. PT!Admit(c, k)
    BY <1>0, <2>1, <2>3 DEF PT!Admit
  <2>. QED  BY <2>4 DEF PT!Next
<1>3. CASE MustEvict /\ \E ev \in ActiveKeys :
              AttachOrSend(c, k, tid, [pq EXCEPT ![ev] = NoEntry],
                           WaitingAfterEviction(ev),
                           Settle(cstate, pq[ev].clients, "dropped"),
                           DropDoneTx(timers, pq[ev]))
  <2>1. PICK ev \in ActiveKeys :
              AttachOrSend(c, k, tid, [pq EXCEPT ![ev] = NoEntry],
                           WaitingAfterEviction(ev),
                           Settle(cstate, pq[ev].clients, "dropped"),
                           DropDoneTx(timers, pq[ev]))
    BY <1>3
  <2>2. ev \in Keys /\ T[ev] = pq[ev].clients /\ ev \in PT!Occupied
    BY DEF ActiveKeys, ActiveIn, TableOf, PT!Occupied, Inv, WaitingCountMatches, CountsMatch
  <2>3. MapOK([pq EXCEPT ![ev] = NoEntry])
    BY <1>0 DEF MapOK
  <2>4. TableOf([pq EXCEPT ![ev] = NoEntry]) = [T EXCEPT ![ev] = {}]
    BY <1>0, <2>2, TableAfterRemove
  <2>5. /\ TableOf(pq') = [TableOf([pq EXCEPT ![ev] = NoEntry]) EXCEPT ![k] = @ \cup {c}]
        /\ waiting' = WaitingAfterEviction(ev) + 1
        /\ cstate' = [Settle(cstate, pq[ev].clients, "dropped") EXCEPT ![c] = "waiting"]
    <3>1. TypeOK /\ tid \in Tids
      BY <1>0
    <3>2. /\ TableOf(pq') = JoinedTable(TableOf([pq EXCEPT ![ev] = NoEntry]), k, c)
          /\ waiting' = WaitingAfterEviction(ev) + 1
          /\ cstate' = JoinedStates(Settle(cstate, pq[ev].clients, "dropped"), c)
      BY <2>1, <2>3, <3>1, TableAfterAttachOrSend
    <3>. QED  BY <3>2 DEF JoinedTable, JoinedStates
  <2>6. T' = [[T EXCEPT ![ev] = {}] EXCEPT ![k] = @ \cup {c}]
    BY <2>4, <2>5, TablePrime
  <2>7. waiting' = (waiting - PT!Cardinality(T[ev])) + 1
    BY <2>2, <2>5, CardinalitySame DEF WaitingAfterEviction
  <2>8. cstate' = [[x \in Clients |-> IF x \in T[ev] THEN "dropped" ELSE cstate[x]]
                     EXCEPT ![c] = "waiting"]
    BY <2>2, <2>5 DEF Settle
  <2>9. waiting >= MaxWaitingClients
    BY <1>3 DEF MustEvict
  <2>10. PT!EvictAndAdmit(c, k, ev)
    BY <1>0, <2>2, <2>6, <2>7, <2>8, <2>9 DEF PT!EvictAndAdmit, PT!Join
  <2>. QED  BY <2>2, <2>10 DEF PT!Next
<1>. QED  BY <1>1, <1>2, <1>3 DEF ProcessClientQuery

(***************************************************************************)
(* The handler implements the pending table: every behaviour of the      *)
(* handler, seen through TableOf, is a behaviour of PendingTable.  Timer  *)
(* steps that retry, probe stamps and registry changes are stutters; the  *)
(* second timeout and a response resolve an entry as a whole.            *)
(***************************************************************************)
THEOREM Refinement == Spec => ImplementsPendingTable
<1>1. Init => PT!Init
  BY DEF Init, PT!Init, TableOf
<1>2. Inv /\ [Next]_vars => [PT!Next]_PT!vars
  <2> SUFFICES ASSUME Inv, [Next]_vars PROVE [PT!Next]_PT!vars
    OBVIOUS
  <2>0. MapOK(pq)
    BY DEF Inv, TypeOK, MapOK
  <2>1. CASE \E c \in Clients, k \in Keys, tid \in QuestionTids : ProcessClientQuery(c, k, tid)
    BY <2>1, ProcessClientQueryRefines
  <2>2. CASE TimerFires
    <3>1. PICK t \in timers : PrimaryTimeout(t) \/ RetryTimeout(t)
      BY <2>2 DEF TimerFires
    <3>2. t.key \in Keys
      BY DEF Inv, TypeOK, Timer
    <3>3. CASE PrimaryTimeout(t)
      <4>1. /\ Inv'
            /\ ActiveIn(pq') = ActiveIn(pq)
            /\ \A x \in Keys : pq'[x].clients = pq[x].clients
        BY <3>1, <3>3, PrimaryTimeoutInv
      <4>2. MapOK(pq')
        BY <4>1 DEF Inv, TypeOK, MapOK
      <4>3. UNCHANGED <<cstate, waiting>>
        BY <3>3 DEF PrimaryTimeout
      <4>. QED  BY <2>0, <4>1, <4>2, <4>3, TableStutter
    <3>4. CASE RetryTimeout(t) /\ pq[t.key] = NoEntry
      <4>1. UNCHANGED <<pq, cstate, waiting>>
        BY <3>4 DEF RetryTimeout
      <4>. QED  BY <4>1, UnchangedTable
    <3>5. CASE RetryTimeout(t) /\ pq[t.key] # NoEntry
      <4>1. /\ pq' = [pq EXCEPT ![t.key] = NoEntry]
            /\ cstate' = Settle(cstate, pq[t.key].clients, "answered")
            /\ waiting' = waiting - Cardinality(pq[t.key].clients)
        BY <3>5 DEF RetryTimeout
      <4>2. PT!Resolve(t.key)
        BY <3>2, <3>5, <4>1, ResolveStep
      <4>. QED  BY <3>2, <4>2 DEF PT!Next
    <3>. QED  BY <3>1, <3>3, <3>4, <3>5
  <2>3. CASE \E k \in Keys, s \in Servers : UpstreamResponds(k, s)
    <3>1. PICK k \in Keys, s \in Servers : UpstreamResponds(k, s)
      BY <2>3
    <3>2. /\ pq[k] # NoEntry
          /\ pq' = [pq EXCEPT ![k] = NoEntry]
          /\ cstate' = Settle(cstate, pq[k].clients, "answered")
          /\ waiting' = waiting - Cardinality(pq[k].clients)
      BY <3>1 DEF UpstreamResponds
    <3>3. PT!Resolve(k)
      BY <3>2, ResolveStep
    <3>. QED  BY <3>3 DEF PT!Next
  <2>4. CASE \E s \in Servers : ServerRecovers(s) \/ ProbeDelayElapses(s)
    <3>1. UNCHANGED <<pq, cstate, waiting>>
      BY <2>4 DEF ServerRecovers, ProbeDelayElapses
    <3>. QED  BY <3>1, UnchangedTable
  <2>5. CASE UNCHANGED vars
    <3>1. UNCHANGED <<pq, cstate, waiting>>
      BY <2>5 DEF vars
    <3>. QED  BY <3>1, UnchangedTable
  <2>. QED  BY <2>1, <2>2, <2>3, <2>4, <2>5 DEF Next
<1>3. Spec => []Inv
  BY InitInv, NextInv, PTL DEF Spec
<1>. QED  BY <1>1, <1>2, <1>3, PTL DEF Spec, PT!Spec, ImplementsPendingTable
================================================================================

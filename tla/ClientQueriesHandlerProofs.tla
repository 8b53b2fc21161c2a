---------------------- MODULE ClientQueriesHandlerProofs ----------------------
(***************************************************************************)
(* Proofs about ClientQueriesHandler for every value of the constants.    *)
(* The type invariant is not inductive on its own: waiting_clients_count  *)
(* is decremented by the client count of a removed entry, and it stays a  *)
(* natural number only because it equals the number of waiting clients.  *)
(* The inductive invariant is therefore TypeOK /\ WaitingCountMatches.    *)
(***************************************************************************)
EXTENDS ClientQueriesHandler, FiniteSetTheorems, TLAPS

\* The types of a map and of client states that CountsMatch is applied to.
MapOK(p) == p \in [Keys -> Entry \cup {NoEntry}]
StatesOK(cs) == cs \in [Clients -> ClientStates]

LEMMA NoEntryNotEntry == NoEntry \notin Entry
BY HandlerAssumption DEF Entry

\* The set of waiting clients is finite.
LEMMA WaitingInFinite ==
    ASSUME NEW cs
    PROVE  IsFiniteSet(WaitingIn(cs))
BY HandlerAssumption, FS_Subset DEF WaitingIn

(***************************************************************************)
(* maybe_add_to_existing_pending_query keeps the counter in step: the     *)
(* idle client c joins the entry of key k and the counter grows by one.   *)
(***************************************************************************)
LEMMA CountsAfterAttach ==
    ASSUME NEW p, MapOK(p), NEW cs, StatesOK(cs), NEW w,
           CountsMatch(p, w, cs),
           NEW c \in Clients, cs[c] = "idle",
           NEW k \in Keys, p[k] # NoEntry
    PROVE  CountsMatch([p EXCEPT ![k].clients = @ \cup {c}], w + 1,
                       [cs EXCEPT ![c] = "waiting"])
<1> DEFINE p2 == [p EXCEPT ![k].clients = @ \cup {c}]
           cs2 == [cs EXCEPT ![c] = "waiting"]
<1>1. p[k] \in Entry
  BY DEF MapOK
<1>2. p2[k] = [p[k] EXCEPT !.clients = p[k].clients \cup {c}]
  BY DEF MapOK
<1>3. ActiveIn(p2) = ActiveIn(p)
  <2>1. p2[k] # NoEntry
    <3>1. p2[k] \in Entry
      BY <1>1, <1>2 DEF Entry
    <3>. QED  BY <3>1, NoEntryNotEntry
  <2>. QED  BY <2>1 DEF ActiveIn, MapOK
<1>4. \A x \in Keys : p2[x].clients = IF x = k THEN p[x].clients \cup {c} ELSE p[x].clients
  BY <1>2 DEF MapOK
<1>5. c \notin WaitingIn(cs)
  BY DEF WaitingIn
<1>6. WaitingIn(cs2) = WaitingIn(cs) \cup {c}
  BY DEF WaitingIn, StatesOK
<1>7. \A x \in ActiveIn(p) : c \notin p[x].clients
  BY <1>5 DEF CountsMatch
<1>8. Cardinality(WaitingIn(cs2)) = Cardinality(WaitingIn(cs)) + 1
  BY <1>5, <1>6, WaitingInFinite, FS_AddElement
<1>9. k \in ActiveIn(p)
  BY DEF ActiveIn
<1>10. \A x \in ActiveIn(p2) : p2[x].clients # {}
  BY <1>3, <1>4 DEF CountsMatch
<1>11. \A k1, k2 \in ActiveIn(p2) : k1 # k2 => p2[k1].clients \cap p2[k2].clients = {}
  BY <1>3, <1>4, <1>7, <1>9 DEF CountsMatch
<1>12. \A x \in Clients : x \in WaitingIn(cs2) <=> \E y \in ActiveIn(p2) : x \in p2[y].clients
  <2> SUFFICES ASSUME NEW x \in Clients
               PROVE  x \in WaitingIn(cs2) <=> \E y \in ActiveIn(p2) : x \in p2[y].clients
    OBVIOUS
  <2>1. CASE x = c
    <3>1. k \in ActiveIn(p2) /\ c \in p2[k].clients
      BY <1>3, <1>4, <1>9
    <3>2. c \in WaitingIn(cs2)
      BY <1>6
    <3>. QED  BY <2>1, <3>1, <3>2
  <2>2. CASE x # c
    <3>1. x \in WaitingIn(cs2) <=> x \in WaitingIn(cs)
      BY <2>2, <1>6
    <3>2. \A y \in ActiveIn(p) : x \in p2[y].clients <=> x \in p[y].clients
      BY <2>2, <1>4 DEF ActiveIn
    <3>. QED  BY <3>1, <3>2, <1>3 DEF CountsMatch
  <2>. QED  BY <2>1, <2>2
<1>13. w + 1 = Cardinality(WaitingIn(cs2))
  BY <1>8 DEF CountsMatch
<1>. QED
  BY <1>10, <1>11, <1>12, <1>13 DEF CountsMatch

(***************************************************************************)
(* A new pending query for a key without an entry, holding only the idle  *)
(* client c, keeps the counter in step when the counter grows by one.     *)
(***************************************************************************)
LEMMA CountsAfterInsert ==
    ASSUME NEW p, MapOK(p), NEW cs, StatesOK(cs), NEW w,
           CountsMatch(p, w, cs),
           NEW c \in Clients, cs[c] = "idle",
           NEW k \in Keys, p[k] = NoEntry,
           NEW e \in Entry, e.clients = {c}
    PROVE  CountsMatch([p EXCEPT ![k] = e], w + 1, [cs EXCEPT ![c] = "waiting"])
<1> DEFINE p2 == [p EXCEPT ![k] = e]
           cs2 == [cs EXCEPT ![c] = "waiting"]
<1>1. ActiveIn(p2) = ActiveIn(p) \cup {k}
  BY NoEntryNotEntry DEF ActiveIn, MapOK
<1>2. c \notin WaitingIn(cs)
  BY DEF WaitingIn
<1>3. WaitingIn(cs2) = WaitingIn(cs) \cup {c}
  BY DEF WaitingIn, StatesOK
<1>4. \A x \in ActiveIn(p) : c \notin p[x].clients /\ x # k
  BY <1>2 DEF CountsMatch, ActiveIn
<1>5. Cardinality(WaitingIn(cs2)) = Cardinality(WaitingIn(cs)) + 1
  BY <1>2, <1>3, WaitingInFinite, FS_AddElement
<1>6. \A x \in Keys : p2[x] = IF x = k THEN e ELSE p[x]
  BY DEF MapOK
<1>7. \A x \in ActiveIn(p2) : p2[x].clients # {}
  BY <1>1, <1>6 DEF CountsMatch
<1>8. \A k1, k2 \in ActiveIn(p2) : k1 # k2 => p2[k1].clients \cap p2[k2].clients = {}
  BY <1>1, <1>4, <1>6 DEF CountsMatch
<1>9. \A x \in Clients : x \in WaitingIn(cs2) <=> \E y \in ActiveIn(p2) : x \in p2[y].clients
  <2> SUFFICES ASSUME NEW x \in Clients
               PROVE  x \in WaitingIn(cs2) <=> \E y \in ActiveIn(p2) : x \in p2[y].clients
    OBVIOUS
  <2>1. CASE x = c
    BY <2>1, <1>1, <1>3, <1>6
  <2>2. CASE x # c
    <3>1. x \in WaitingIn(cs2) <=> x \in WaitingIn(cs)
      BY <2>2, <1>3
    <3>2. x \notin p2[k].clients
      BY <2>2, <1>6
    <3>3. \A y \in ActiveIn(p) : p2[y] = p[y]
      BY <1>4, <1>6 DEF ActiveIn
    <3>. QED  BY <3>1, <3>2, <3>3, <1>1 DEF CountsMatch
  <2>. QED  BY <2>1, <2>2
<1>10. w + 1 = Cardinality(WaitingIn(cs2))
  BY <1>5 DEF CountsMatch
<1>. QED
  BY <1>7, <1>8, <1>9, <1>10 DEF CountsMatch

(***************************************************************************)
(* Removing the entry of key ev and settling its clients (eviction, second *)
(* timeout, response) keeps the counter in step when the counter drops by *)
(* the entry's client count; the result is still a natural number.        *)
(***************************************************************************)
LEMMA CountsAfterRemove ==
    ASSUME NEW p, MapOK(p), NEW cs, StatesOK(cs), NEW w,
           CountsMatch(p, w, cs),
           NEW ev \in Keys, p[ev] # NoEntry,
           NEW outcome \in ClientStates \ {"waiting"}
    PROVE  /\ CountsMatch([p EXCEPT ![ev] = NoEntry], w - Cardinality(p[ev].clients),
                          Settle(cs, p[ev].clients, outcome))
           /\ w - Cardinality(p[ev].clients) \in Nat
<1> DEFINE E == p[ev].clients
           p2 == [p EXCEPT ![ev] = NoEntry]
           cs2 == Settle(cs, E, outcome)
<1>1. ActiveIn(p2) = ActiveIn(p) \ {ev}
  BY DEF ActiveIn, MapOK
<1>2. ev \in ActiveIn(p)
  BY DEF ActiveIn
<1>3. E \subseteq WaitingIn(cs)
  <2>1. E \subseteq Clients
    BY DEF MapOK, Entry
  <2>. QED  BY <1>2, <2>1 DEF CountsMatch
<1>4. WaitingIn(cs2) = WaitingIn(cs) \ E
  BY DEF WaitingIn, Settle, StatesOK
<1>5. \A x \in ActiveIn(p) \ {ev} : p[x].clients \cap E = {}
  BY <1>2 DEF CountsMatch
<1>6. /\ IsFiniteSet(E)
      /\ Cardinality(WaitingIn(cs2)) = Cardinality(WaitingIn(cs)) - Cardinality(E)
  <2>1. IsFiniteSet(WaitingIn(cs))
    BY WaitingInFinite
  <2>2. IsFiniteSet(E)
    BY <1>3, <2>1, FS_Subset
  <2>3. WaitingIn(cs) \cap E = E
    BY <1>3
  <2>. QED  BY <1>4, <2>1, <2>2, <2>3, FS_Difference
<1>7. Cardinality(WaitingIn(cs2)) \in Nat
  BY WaitingInFinite, FS_CardinalityType
<1>8. \A x \in Keys \ {ev} : p2[x] = p[x]
  BY DEF MapOK
<1>9. CountsMatch(p2, Cardinality(WaitingIn(cs2)), cs2)
  <2>1. \A x \in ActiveIn(p2) : p2[x].clients # {}
    BY <1>1, <1>8 DEF CountsMatch
  <2>2. \A k1, k2 \in ActiveIn(p2) : k1 # k2 => p2[k1].clients \cap p2[k2].clients = {}
    BY <1>1, <1>8 DEF CountsMatch
  <2>3. \A x \in Clients : x \in WaitingIn(cs2) <=> \E y \in ActiveIn(p2) : x \in p2[y].clients
    <3> SUFFICES ASSUME NEW x \in Clients
                 PROVE  x \in WaitingIn(cs2) <=> \E y \in ActiveIn(p2) : x \in p2[y].clients
      OBVIOUS
    <3>1. CASE x \in E
      \* x was waiting in the removed entry only
      <4>1. x \notin WaitingIn(cs2)
        BY <3>1, <1>4
      <4>2. \A y \in ActiveIn(p2) : x \notin p2[y].clients
        <5> SUFFICES ASSUME NEW y \in ActiveIn(p2) PROVE x \notin p2[y].clients
          OBVIOUS
        <5>1. y \in ActiveIn(p) \ {ev} /\ p2[y] = p[y]
          BY <1>1, <1>8 DEF ActiveIn
        <5>2. p[y].clients \cap E = {}
          BY <5>1, <1>5
        <5>. QED  BY <3>1, <5>1, <5>2
      <4>. QED  BY <4>1, <4>2
    <3>2. CASE x \notin E
      <4>1. x \in WaitingIn(cs2) <=> x \in WaitingIn(cs)
        BY <3>2, <1>4
      <4>2. (\E y \in ActiveIn(p) : x \in p[y].clients)
              <=> \E y \in ActiveIn(p) \ {ev} : x \in p[y].clients
        <5>1. x \notin p[ev].clients
          BY <3>2
        <5>. QED  BY <5>1
      <4>3. \A y \in ActiveIn(p) \ {ev} : p2[y].clients = p[y].clients
        BY <1>8 DEF ActiveIn
      <4>. QED  BY <4>1, <4>2, <4>3, <1>1 DEF CountsMatch
    <3>. QED  BY <3>1, <3>2
  <2>. QED  BY <2>1, <2>2, <2>3 DEF CountsMatch
<1>. QED
  BY <1>6, <1>7, <1>9 DEF CountsMatch

(***************************************************************************)
(* Helpers on the operators the handler is built from.                    *)
(***************************************************************************)

\* pick_upstream only ever returns a member of the live vector it is given.
LEMMA PickInLive ==
    ASSUME NEW key, NEW tid, NEW r, NEW L, NEW pd
    PROVE  PickUpstream(key, tid, r, L, pd) \subseteq L
BY LoadBalancerAssumption DEF PickUpstream, LBModes

\* Dropping or sending a done_tx keeps every timer a timer.
LEMMA DoneTxType ==
    ASSUME NEW ts, ts \subseteq Timer, NEW e
    PROVE  /\ DropDoneTx(ts, e) \subseteq Timer
           /\ SendDoneTx(ts, e) \subseteq Timer
BY DEF DropDoneTx, SendDoneTx, Timer

\* record_failure and record_success keep the registry well typed.
LEMMA RegistryType ==
    ASSUME NEW f \in [Servers -> 0..FailThreshold], NEW L, L \subseteq Servers,
           NEW s \in Servers
    PROVE  /\ FailuresAfterFailure(f, s) \in [Servers -> 0..FailThreshold]
           /\ FailuresAfterSuccess(f, s) \in [Servers -> 0..FailThreshold]
           /\ LiveAfterFailure(L, f, s) \subseteq Servers
           /\ LiveAfterSuccess(L, s) \subseteq Servers
BY RegistryAssumption DEF FailuresAfterFailure, FailuresAfterSuccess,
   LiveAfterFailure, LiveAfterSuccess

\* A saturating decrement of a pending count is a pending count.
LEMMA SatSubType ==
    ASSUME NEW pd \in [Servers -> Nat], NEW s \in Servers
    PROVE  [pd EXCEPT ![s] = SatSub(@)] \in [Servers -> Nat]
BY DEF SatSub

(***************************************************************************)
(* The inductive invariant.                                                *)
(***************************************************************************)
Inv == TypeOK /\ WaitingCountMatches

LEMMA InitInv == Init => Inv
<1> SUFFICES ASSUME Init PROVE Inv
  OBVIOUS
<1>1. WaitingIn(cstate) = {}
  BY DEF Init, WaitingIn
<1>2. ActiveKeys = {}
  BY DEF Init, ActiveKeys, ActiveIn
<1>3. TypeOK
  BY RegistryAssumption DEF Init, TypeOK, ClientStates
<1>4. WaitingCountMatches
  BY <1>1, <1>2, FS_EmptySet DEF Init, WaitingCountMatches, CountsMatch, ActiveKeys
<1>. QED  BY <1>3, <1>4 DEF Inv

(***************************************************************************)
(* The tail of fut_process_client_query, on the state the cap left: the   *)
(* client joins an entry or a new entry is sent.                          *)
(***************************************************************************)
LEMMA AttachOrSendInv ==
    ASSUME TypeOK, NEW p, MapOK(p), NEW cs, StatesOK(cs), NEW w \in Nat,
           CountsMatch(p, w, cs), NEW ts, ts \subseteq Timer,
           NEW c \in Clients, cs[c] = "idle", NEW k \in Keys, NEW tid \in Tids,
           AttachOrSend(c, k, tid, p, w, cs, ts)
    PROVE  Inv'
<1>1. CASE AttachToPending(c, k, p, w, cs, ts)
  <2>1. CountsMatch(pq', waiting', cstate')
    BY <1>1, CountsAfterAttach DEF AttachToPending
  <2>2. pq' \in [Keys -> Entry \cup {NoEntry}]
    <3>1. p[k] \in Entry
      BY <1>1 DEF AttachToPending, MapOK
    <3>2. [p[k] EXCEPT !.clients = p[k].clients \cup {c}] \in Entry
      BY <3>1 DEF Entry
    <3>. QED  BY <1>1, <3>2 DEF AttachToPending, MapOK
  <2>3. TypeOK'
    BY <1>1, <2>2 DEF AttachToPending, TypeOK, StatesOK, ClientStates
  <2>. QED  BY <2>1, <2>3 DEF Inv, WaitingCountMatches
<1>2. CASE SendNewQuery(c, k, tid, p, w, cs, ts)
  <2>1. PICK s, ps, pr :
         /\ s \in PickUpstream(k, tid, FALSE, live, pending)
         /\ ps \in Servers
         /\ pr \in ProbeOutcomes(ps)
         /\ probeRecent' = [probeRecent EXCEPT ![ps] = TRUE]
         /\ pq' = [p EXCEPT ![k] = [clients |-> {c}, owner |-> c, srv |-> s,
                                    sent |-> 1, tid |-> tid, probed |-> pr]]
         /\ waiting' = w + 1
         /\ cstate' = [cs EXCEPT ![c] = "waiting"]
         /\ pending' = [pending EXCEPT ![s] = @ + 1]
         /\ timers' = ts \cup {PrimaryTimer(c, k, s, tid)}
         /\ UNCHANGED <<live, failures>>
    BY <1>2 DEF SendNewQuery
  <2>2. s \in Servers
    BY <2>1, PickInLive DEF TypeOK
  <2> DEFINE e == [clients |-> {c}, owner |-> c, srv |-> s,
                   sent |-> 1, tid |-> tid, probed |-> pr]
  <2>3. e \in Entry
    BY <2>1, <2>2 DEF Entry, ProbeOutcomes
  <2>4. CountsMatch(pq', waiting', cstate')
    BY <1>2, <2>1, <2>3, CountsAfterInsert DEF SendNewQuery
  <2>5. PrimaryTimer(c, k, s, tid) \in Timer
    BY <2>2 DEF PrimaryTimer, Timer
  <2>6. TypeOK'
    <3>1. pq' \in [Keys -> Entry \cup {NoEntry}]
      BY <2>1, <2>3 DEF MapOK
    <3>2. cstate' \in [Clients -> ClientStates]
      BY <2>1 DEF StatesOK, ClientStates
    <3>3. pending' \in [Servers -> Nat]
      BY <2>1, <2>2 DEF TypeOK
    <3>4. timers' \subseteq Timer
      BY <2>1, <2>5
    <3>5. probeRecent' \in [Servers -> BOOLEAN]
      BY <2>1 DEF TypeOK
    <3>. QED  BY <2>1, <3>1, <3>2, <3>3, <3>4, <3>5 DEF TypeOK
  <2>. QED  BY <2>4, <2>6 DEF Inv, WaitingCountMatches
<1>. QED  BY <1>1, <1>2 DEF AttachOrSend

\* fut_process_client_query keeps the invariant, the cap included.
LEMMA ProcessClientQueryInv ==
    ASSUME Inv, NEW c \in Clients, NEW k \in Keys, NEW tid \in QuestionTids,
           ProcessClientQuery(c, k, tid)
    PROVE  Inv'
<1>0. tid \in Tids
  BY DEF QuestionTids, Tids
<1>1. CASE live = {} /\ cstate' = [cstate EXCEPT ![c] = "answered"]
           /\ UNCHANGED <<pq, waiting, pending, timers, live, failures, probeRecent>>
  <2>1. WaitingIn(cstate') = WaitingIn(cstate)
    BY <1>1 DEF ProcessClientQuery, WaitingIn, Inv, TypeOK
  <2>2. TypeOK'
    BY <1>1 DEF Inv, TypeOK, ClientStates
  <2>. QED  BY <1>1, <2>1, <2>2 DEF Inv, WaitingCountMatches, CountsMatch, ActiveIn
<1>2. CASE ~MustEvict /\ AttachOrSend(c, k, tid, pq, waiting, cstate, timers)
  BY <1>0, <1>2, AttachOrSendInv DEF ProcessClientQuery, Inv, TypeOK, MapOK, StatesOK,
     WaitingCountMatches
<1>3. CASE \E ev \in ActiveKeys :
              AttachOrSend(c, k, tid, [pq EXCEPT ![ev] = NoEntry],
                           WaitingAfterEviction(ev),
                           Settle(cstate, pq[ev].clients, "dropped"),
                           DropDoneTx(timers, pq[ev]))
  <2>1. PICK ev \in ActiveKeys :
              AttachOrSend(c, k, tid, [pq EXCEPT ![ev] = NoEntry],
                           WaitingAfterEviction(ev),
                           Settle(cstate, pq[ev].clients, "dropped"),
                           DropDoneTx(timers, pq[ev]))
    BY <1>3
  <2> DEFINE p == [pq EXCEPT ![ev] = NoEntry]
             w == WaitingAfterEviction(ev)
             cs == Settle(cstate, pq[ev].clients, "dropped")
  <2>2. pq[ev] # NoEntry /\ ev \in Keys
    BY DEF ActiveKeys, ActiveIn
  <2>3. CountsMatch(p, w, cs) /\ w \in Nat
    <3>1. MapOK(pq) /\ StatesOK(cstate) /\ CountsMatch(pq, waiting, cstate)
      BY DEF Inv, TypeOK, MapOK, StatesOK, WaitingCountMatches
    <3>2. "dropped" \in ClientStates \ {"waiting"}
      BY DEF ClientStates
    <3>. QED  BY <2>2, <3>1, <3>2, CountsAfterRemove DEF WaitingAfterEviction
  <2>4. c \notin pq[ev].clients
    <3>1. c \notin WaitingIn(cstate)
      BY DEF ProcessClientQuery, WaitingIn
    <3>. QED  BY <2>2, <3>1 DEF Inv, WaitingCountMatches, CountsMatch, ActiveIn
  <2>5. MapOK(p) /\ StatesOK(cs) /\ cs[c] = "idle"
    BY <2>4 DEF Inv, TypeOK, MapOK, StatesOK, Settle, ClientStates, ProcessClientQuery
  <2>6. DropDoneTx(timers, pq[ev]) \subseteq Timer
    BY DoneTxType DEF Inv, TypeOK
  <2>. QED  BY <1>0, <2>1, <2>3, <2>5, <2>6, AttachOrSendInv DEF Inv
<1>. QED  BY <1>1, <1>2, <1>3 DEF ProcessClientQuery

(***************************************************************************)
(* Removing the entry of key k, answering its clients and sending its     *)
(* done_tx (second timeout, response) keeps the table and the counter in  *)
(* step.                                                                   *)
(***************************************************************************)
LEMMA RemoveAnswerInv ==
    ASSUME Inv, NEW k \in Keys, pq[k] # NoEntry,
           pq' = [pq EXCEPT ![k] = NoEntry],
           cstate' = Settle(cstate, pq[k].clients, "answered"),
           waiting' = waiting - Cardinality(pq[k].clients)
    PROVE  /\ WaitingCountMatches'
           /\ pq' \in [Keys -> Entry \cup {NoEntry}]
           /\ cstate' \in [Clients -> ClientStates]
           /\ waiting' \in Nat
<1>1. MapOK(pq) /\ StatesOK(cstate) /\ CountsMatch(pq, waiting, cstate)
  BY DEF Inv, TypeOK, MapOK, StatesOK, WaitingCountMatches
<1>2. "answered" \in ClientStates \ {"waiting"}
  BY DEF ClientStates
<1>3. CountsMatch(pq', waiting', cstate') /\ waiting' \in Nat
  BY <1>1, <1>2, CountsAfterRemove
<1>4. cstate' \in [Clients -> ClientStates]
  BY <1>1 DEF StatesOK, Settle, ClientStates
<1>. QED  BY <1>1, <1>3, <1>4 DEF MapOK, WaitingCountMatches

\* The or_else of the first timer keeps the invariant.
LEMMA PrimaryTimeoutInv ==
    ASSUME Inv, NEW t \in timers, PrimaryTimeout(t)
    PROVE  /\ Inv'
           /\ ActiveIn(pq') = ActiveIn(pq)
           /\ \A x \in Keys : pq'[x].clients = pq[x].clients
<1> DEFINE pend1 == [pending EXCEPT ![t.srv] = SatSub(@)]
           live1 == LiveAfterFailure(live, failures, t.srv)
           e == pq[t.key]
<1>1. t \in Timer
  BY DEF Inv, TypeOK
<1>3. /\ failures' = FailuresAfterFailure(failures, t.srv)
      /\ live' = live1
      /\ UNCHANGED <<cstate, waiting, probeRecent>>
  BY DEF PrimaryTimeout
<1>2. /\ failures' \in [Servers -> 0..FailThreshold]
      /\ live1 \subseteq Servers
      /\ pend1 \in [Servers -> Nat]
  <2>1. t.srv \in Servers
    BY <1>1 DEF Timer
  <2>. QED  BY <1>3, <2>1, RegistryType, SatSubType DEF Inv, TypeOK
<1>4. timers \ {t} \subseteq Timer
  BY DEF Inv, TypeOK
<1>5. CASE UNCHANGED pq /\ pending' = pend1 /\ timers' = timers \ {t}
  BY <1>2, <1>3, <1>4, <1>5 DEF Inv, TypeOK, WaitingCountMatches
<1>6. CASE /\ e # NoEntry
           /\ \E s \in PickUpstream(t.key, t.tid, TRUE, live1, pend1) :
                /\ pending' = [pend1 EXCEPT ![s] = @ + 1]
                /\ pq' = [pq EXCEPT ![t.key] = [e EXCEPT !.srv = s, !.sent = e.sent + 1]]
                /\ timers' = DropDoneTx(timers \ {t}, e) \cup {RetryTimer(e, t.key, s, t.tid)}
  <2>1. PICK s \in PickUpstream(t.key, t.tid, TRUE, live1, pend1) :
                /\ pending' = [pend1 EXCEPT ![s] = @ + 1]
                /\ pq' = [pq EXCEPT ![t.key] = [e EXCEPT !.srv = s, !.sent = e.sent + 1]]
                /\ timers' = DropDoneTx(timers \ {t}, e) \cup {RetryTimer(e, t.key, s, t.tid)}
    BY <1>6
  <2>2. s \in Servers
    BY <1>2, PickInLive
  <2>3. t.key \in Keys /\ t.tid \in Tids
    BY <1>1 DEF Timer
  <2>4. e \in Entry
    BY <1>6, <2>3, NoEntryNotEntry DEF Inv, TypeOK
  <2> DEFINE e2 == [e EXCEPT !.srv = s, !.sent = e.sent + 1]
  <2>5. e2 \in Entry /\ e2.clients = e.clients
    <3>0. e = [clients |-> e.clients, owner |-> e.owner, srv |-> e.srv,
               sent |-> e.sent, tid |-> e.tid, probed |-> e.probed]
      BY <2>4 DEF Entry
    <3> DEFINE e1 == [e EXCEPT !.srv = s]
    <3>a. e1 = [clients |-> e.clients, owner |-> e.owner, srv |-> s,
                sent |-> e.sent, tid |-> e.tid, probed |-> e.probed]
      BY <3>0
    <3>b. e2 = [[clients |-> e.clients, owner |-> e.owner, srv |-> s,
                 sent |-> e.sent, tid |-> e.tid, probed |-> e.probed]
                EXCEPT !.sent = e.sent + 1]
      BY <3>a, Zenon
    <3>1. e2 = [clients |-> e.clients, owner |-> e.owner, srv |-> s,
                sent |-> e.sent + 1, tid |-> e.tid, probed |-> e.probed]
      BY <3>b
    <3>2. e.sent + 1 \in Nat \ {0}
      BY <2>4 DEF Entry
    <3>. QED  BY <2>2, <2>4, <3>0, <3>1, <3>2 DEF Entry
  <2>6. RetryTimer(e, t.key, s, t.tid) \in Timer
    BY <2>2, <2>3, <2>4 DEF RetryTimer, Timer, Entry
  <2>7. pq' \in [Keys -> Entry \cup {NoEntry}]
    BY <2>1, <2>5 DEF Inv, TypeOK
  <2>8. timers' \subseteq Timer
    BY <1>4, <2>1, <2>6, DoneTxType
  <2>9. pending' \in [Servers -> Nat]
    BY <1>2, <2>1, <2>2
  <2>10. ActiveIn(pq') = ActiveIn(pq)
    <3>1. pq'[t.key] = e2 /\ \A x \in Keys \ {t.key} : pq'[x] = pq[x]
      BY <2>1, <2>3 DEF Inv, TypeOK
    <3>2. e2 # NoEntry
      BY <2>5, NoEntryNotEntry
    <3>. QED  BY <1>6, <2>3, <3>1, <3>2 DEF ActiveIn
  <2>11. \A x \in Keys : pq'[x].clients = pq[x].clients
    BY <2>1, <2>3, <2>5 DEF Inv, TypeOK
  <2>12. WaitingCountMatches'
    BY <1>3, <2>10, <2>11 DEF Inv, WaitingCountMatches, CountsMatch, ActiveIn
  <2>. QED  BY <1>2, <1>3, <2>7, <2>8, <2>9, <2>10, <2>11, <2>12 DEF Inv, TypeOK
<1>. QED  BY <1>5, <1>6 DEF PrimaryTimeout

\* The or_else of the second timer keeps the invariant.
LEMMA RetryTimeoutInv ==
    ASSUME Inv, NEW t \in timers, RetryTimeout(t)
    PROVE  Inv'
<1>1. t \in Timer
  BY DEF Inv, TypeOK
<1>2. /\ failures' \in [Servers -> 0..FailThreshold]
      /\ live' \subseteq Servers
      /\ pending' \in [Servers -> Nat]
      /\ UNCHANGED probeRecent
  BY <1>1, RegistryType, SatSubType DEF RetryTimeout, Inv, TypeOK, Timer
<1>3. timers \ {t} \subseteq Timer
  BY DEF Inv, TypeOK
<1>4. CASE pq[t.key] = NoEntry /\ timers' = timers \ {t} /\ UNCHANGED <<pq, cstate, waiting>>
  BY <1>2, <1>3, <1>4 DEF Inv, TypeOK, WaitingCountMatches
<1>5. CASE /\ pq[t.key] # NoEntry
           /\ pq' = [pq EXCEPT ![t.key] = NoEntry]
           /\ cstate' = Settle(cstate, pq[t.key].clients, "answered")
           /\ waiting' = waiting - Cardinality(pq[t.key].clients)
           /\ timers' = SendDoneTx(timers \ {t}, pq[t.key])
  <2>1. t.key \in Keys
    BY <1>1 DEF Timer
  <2>2. timers' \subseteq Timer
    BY <1>3, <1>5, DoneTxType
  <2>. QED  BY <1>2, <1>5, <2>1, <2>2, RemoveAnswerInv DEF Inv, TypeOK
<1>. QED  BY <1>4, <1>5 DEF RetryTimeout

\* The response path keeps the invariant.
LEMMA UpstreamRespondsInv ==
    ASSUME Inv, NEW k \in Keys, NEW from \in Servers, UpstreamResponds(k, from)
    PROVE  Inv'
<1>1. pq[k] \in Entry
  BY NoEntryNotEntry DEF UpstreamResponds, Inv, TypeOK
<1>2. /\ failures' \in [Servers -> 0..FailThreshold]
      /\ live' \subseteq Servers
      /\ pending' \in [Servers -> Nat]
      /\ timers' \subseteq Timer
      /\ UNCHANGED probeRecent
  BY <1>1, RegistryType, SatSubType, DoneTxType DEF UpstreamResponds, Inv, TypeOK, Entry
<1>. QED  BY <1>2, RemoveAnswerInv DEF UpstreamResponds, Inv, TypeOK

\* A probe answer and the probe delay touch only the registry and the stamps.
LEMMA RegistryStepsInv ==
    ASSUME Inv, NEW s \in Servers, ServerRecovers(s) \/ ProbeDelayElapses(s)
    PROVE  Inv'
<1>1. CASE ServerRecovers(s)
  BY <1>1, RegistryType DEF ServerRecovers, Inv, TypeOK, WaitingCountMatches, CountsMatch,
     ActiveIn, WaitingIn
<1>2. CASE ProbeDelayElapses(s)
  BY <1>2 DEF ProbeDelayElapses, Inv, TypeOK, WaitingCountMatches, CountsMatch,
     ActiveIn, WaitingIn
<1>. QED  BY <1>1, <1>2

\* Every step of the handler, and a stutter, keeps the invariant.
LEMMA NextInv == Inv /\ [Next]_vars => Inv'
<1> SUFFICES ASSUME Inv, [Next]_vars PROVE Inv'
  OBVIOUS
<1>1. CASE \E c \in Clients, k \in Keys, tid \in QuestionTids : ProcessClientQuery(c, k, tid)
  BY <1>1, ProcessClientQueryInv
<1>2. CASE TimerFires
  BY <1>2, PrimaryTimeoutInv, RetryTimeoutInv DEF TimerFires
<1>3. CASE \E k \in Keys, s \in Servers : UpstreamResponds(k, s)
  BY <1>3, UpstreamRespondsInv
<1>4. CASE \E s \in Servers : ServerRecovers(s) \/ ProbeDelayElapses(s)
  BY <1>4, RegistryStepsInv
<1>5. CASE UNCHANGED vars
  BY <1>5 DEF vars, Inv, TypeOK, WaitingCountMatches, CountsMatch, ActiveIn, WaitingIn
<1>. QED  BY <1>1, <1>2, <1>3, <1>4, <1>5 DEF Next

(***************************************************************************)
(* Type correctness of the handler: the counters stay natural numbers     *)
(* (waiting_clients_count is decremented by client counts without         *)
(* saturation, and never wraps), the table holds well-formed entries and  *)
(* every armed timer is well formed.                                       *)
(***************************************************************************)
THEOREM TypeCorrect == Spec => []TypeOK
<1>1. Init => Inv
  BY InitInv
<1>2. Inv /\ [Next]_vars => Inv'
  BY NextInv
<1>3. Inv => TypeOK
  BY DEF Inv
<1>. QED  BY <1>1, <1>2, <1>3, PTL DEF Spec

(***************************************************************************)
(* waiting_clients_count equals the number of waiting clients, each held  *)
(* by exactly one pending query, in every reachable state, for any number *)
(* of clients, keys and servers, any limit and any load-balancing mode.   *)
(***************************************************************************)
THEOREM WaitingCountInvariant == Spec => []WaitingCountMatches
<1>1. Inv => WaitingCountMatches
  BY DEF Inv
<1>. QED  BY <1>1, InitInv, NextInv, PTL DEF Spec

(***************************************************************************)
(* Admission control.  The cap runs before the new client is counted and  *)
(* only once the limit is reached, so the bound rests on two facts of the *)
(* invariant: an evicted entry holds at least one client, and with no     *)
(* entry at all no client is waiting.  It needs max_waiting_clients >= 1: *)
(* with a limit of 0 and an empty table nothing can be evicted and the    *)
(* first client is admitted anyway.                                        *)
(***************************************************************************)
\* The tail of fut_process_client_query counts exactly one more client.
LEMMA AttachOrSendCount ==
    ASSUME NEW c, NEW k, NEW tid, NEW p, NEW w, NEW cs, NEW ts,
           AttachOrSend(c, k, tid, p, w, cs, ts)
    PROVE  waiting' = w + 1
BY DEF AttachOrSend, AttachToPending, SendNewQuery

\* The client count of an entry in the table is a positive natural number.
LEMMA EntryCount ==
    ASSUME Inv, NEW k \in ActiveKeys
    PROVE  Cardinality(pq[k].clients) \in Nat \ {0}
<1>1. pq[k] \in Entry /\ pq[k].clients # {}
  BY NoEntryNotEntry DEF Inv, TypeOK, ActiveKeys, ActiveIn, WaitingCountMatches, CountsMatch
<1>2. IsFiniteSet(pq[k].clients)
  BY <1>1, HandlerAssumption, FS_Subset DEF Entry
<1>. QED  BY <1>1, <1>2, FS_CardinalityType, FS_EmptySet

BInv == Inv /\ WaitingBounded

LEMMA NextBInv ==
    ASSUME MaxWaitingClients \in Nat \ {0}
    PROVE  BInv /\ [Next]_vars => BInv'
<1> SUFFICES ASSUME BInv, [Next]_vars PROVE BInv'
  OBVIOUS
<1>0. Inv' /\ waiting \in Nat /\ waiting' \in Nat
  BY NextInv DEF BInv, Inv, TypeOK
<1> SUFFICES WaitingBounded'
  BY <1>0 DEF BInv
<1>1. CASE \E c \in Clients, k \in Keys, tid \in QuestionTids : ProcessClientQuery(c, k, tid)
  <2>1. PICK c \in Clients, k \in Keys, tid \in QuestionTids : ProcessClientQuery(c, k, tid)
    BY <1>1
  <2>2. CASE live = {} /\ UNCHANGED waiting
    BY <2>2 DEF BInv, WaitingBounded
  <2>3. CASE ~MustEvict /\ AttachOrSend(c, k, tid, pq, waiting, cstate, timers)
    <3>1. waiting' = waiting + 1
      BY <2>3, AttachOrSendCount
    <3>2. CASE ActiveKeys = {}
      <4>1. WaitingIn(cstate) = {}
        BY <3>2 DEF BInv, Inv, WaitingCountMatches, CountsMatch, ActiveKeys, WaitingIn
      <4>2. waiting = 0
        BY <4>1, FS_EmptySet DEF BInv, Inv, WaitingCountMatches, CountsMatch
      <4>. QED  BY <3>1, <4>2, <1>0 DEF WaitingBounded
    <3>3. CASE ActiveKeys # {}
      BY <2>3, <3>1, <3>3, <1>0 DEF MustEvict, WaitingBounded
    <3>. QED  BY <3>2, <3>3
  <2>4. CASE \E ev \in ActiveKeys :
                AttachOrSend(c, k, tid, [pq EXCEPT ![ev] = NoEntry],
                             WaitingAfterEviction(ev),
                             Settle(cstate, pq[ev].clients, "dropped"),
                             DropDoneTx(timers, pq[ev]))
    <3>1. PICK ev \in ActiveKeys :
                AttachOrSend(c, k, tid, [pq EXCEPT ![ev] = NoEntry],
                             WaitingAfterEviction(ev),
                             Settle(cstate, pq[ev].clients, "dropped"),
                             DropDoneTx(timers, pq[ev]))
      BY <2>4
    <3>2. waiting' = waiting - Cardinality(pq[ev].clients) + 1
      BY <3>1, AttachOrSendCount DEF WaitingAfterEviction
    <3>3. Cardinality(pq[ev].clients) \in Nat \ {0}
      BY EntryCount DEF BInv
    <3>. QED  BY <3>2, <3>3, <1>0 DEF BInv, WaitingBounded
  <2>. QED  BY <2>1, <2>2, <2>3, <2>4, <1>0 DEF ProcessClientQuery, BInv
<1>2. CASE ~\E c \in Clients, k \in Keys, tid \in QuestionTids : ProcessClientQuery(c, k, tid)
  \* every other step removes clients or leaves the counter alone
  <2>1. CASE TimerFires
    <3>1. PICK t \in timers : PrimaryTimeout(t) \/ RetryTimeout(t)
      BY <2>1 DEF TimerFires
    <3>2. CASE PrimaryTimeout(t)
      BY <3>2 DEF PrimaryTimeout, BInv, WaitingBounded
    <3>3. CASE RetryTimeout(t) /\ pq[t.key] = NoEntry
      BY <3>3 DEF RetryTimeout, BInv, WaitingBounded
    <3>4. CASE RetryTimeout(t) /\ pq[t.key] # NoEntry
      <4>1. t.key \in ActiveKeys
        BY <3>4 DEF BInv, Inv, TypeOK, Timer, ActiveKeys, ActiveIn
      <4>2. Cardinality(pq[t.key].clients) \in Nat \ {0}
        BY <4>1, EntryCount DEF BInv
      <4>. QED  BY <3>4, <4>2, <1>0 DEF RetryTimeout, BInv, WaitingBounded
    <3>. QED  BY <3>1, <3>2, <3>3, <3>4
  <2>2. CASE \E k \in Keys, s \in Servers : UpstreamResponds(k, s)
    <3>1. PICK k \in Keys, s \in Servers : UpstreamResponds(k, s)
      BY <2>2
    <3>2. k \in ActiveKeys
      BY <3>1 DEF UpstreamResponds, ActiveKeys, ActiveIn
    <3>3. Cardinality(pq[k].clients) \in Nat \ {0}
      BY <3>2, EntryCount DEF BInv
    <3>. QED  BY <3>1, <3>3, <1>0 DEF UpstreamResponds, BInv, WaitingBounded
  <2>3. CASE \E s \in Servers : ServerRecovers(s) \/ ProbeDelayElapses(s)
    BY <2>3 DEF ServerRecovers, ProbeDelayElapses, BInv, WaitingBounded
  <2>4. CASE UNCHANGED vars
    BY <2>4 DEF vars, BInv, WaitingBounded
  <2>. QED  BY <1>2, <2>1, <2>2, <2>3, <2>4, <1>0 DEF Next, BInv
<1>. QED  BY <1>1, <1>2

(***************************************************************************)
(* waiting_clients_count never exceeds max_waiting_clients when the limit *)
(* is at least 1, for every number of clients, keys and servers.          *)
(***************************************************************************)
THEOREM WaitingBoundedInvariant ==
    ASSUME MaxWaitingClients \in Nat \ {0}
    PROVE  Spec => []WaitingBounded
<1>1. Init => BInv
  BY InitInv DEF Init, BInv, WaitingBounded
<1>2. BInv /\ [Next]_vars => BInv'
  BY NextBInv
<1>3. BInv => WaitingBounded
  BY DEF BInv
<1>. QED  BY <1>1, <1>2, <1>3, PTL DEF Spec

================================================================================

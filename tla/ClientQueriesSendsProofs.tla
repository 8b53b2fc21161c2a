----------------------- MODULE ClientQueriesSendsProofs -----------------------
(***************************************************************************)
(* The retry ceiling (spec 4.5.a: "Only one retry is attempted per pending *)
(* entry"), proved for the instances in which cap_pending_queries never    *)
(* evicts: max_waiting_clients is at least the number of client queries.  *)
(* With eviction the ceiling does not hold (eviction_stale_timer): a      *)
(* dropped done_tx makes the evicted entry's timer run its or_else on a   *)
(* newer entry of the same key.                                            *)
(*                                                                         *)
(* Without eviction every armed timer belongs to the current entry of its *)
(* key: it holds that entry's done_rx, nobody dropped its done_tx, a      *)
(* first timer guards the first send and a second timer the retry, and a  *)
(* key has at most one timer.  The first timer's or_else therefore always *)
(* finds an entry sent once, and nothing else increments sent.            *)
(***************************************************************************)
EXTENDS ClientQueriesHandlerProofs

\* No client query is ever refused room: the cap never fires.
NoEviction == MaxWaitingClients >= Cardinality(Clients)

\* Timer t guards the current entry of its key, and the send numbered by its stage.
GuardsEntry(t) ==
    /\ pq[t.key] # NoEntry
    /\ Holds(t, pq[t.key])
    /\ t.rx = "waiting"
    /\ t.n = IF t.stage = "primary" THEN 1 ELSE 2

\* Every entry holds the client that created it and was sent at most twice.
OwnedAndRetriedOnce ==
    \A k \in ActiveKeys : pq[k].owner \in pq[k].clients /\ pq[k].sent <= 2

TimersGuardEntries == \A t \in timers : GuardsEntry(t)

OneTimerPerKey == \A t1, t2 \in timers : t1.key = t2.key => t1 = t2

\* The inductive invariant behind AtMostTwoSends.
SendsInv == Inv /\ OwnedAndRetriedOnce /\ TimersGuardEntries /\ OneTimerPerKey

(***************************************************************************)
(* cap_pending_queries never evicts when the limit is at least the number *)
(* of client queries: the client being processed is still idle, so fewer  *)
(* than all of them are counted by waiting_clients_count.                 *)
(***************************************************************************)
LEMMA NoCapWithoutEviction ==
    ASSUME Inv, NoEviction, NEW c \in Clients, cstate[c] = "idle"
    PROVE  ~MustEvict
<1>1. WaitingIn(cstate) \subseteq Clients \ {c}
  BY DEF WaitingIn
<1>2. IsFiniteSet(Clients \ {c}) /\ Cardinality(Clients \ {c}) = Cardinality(Clients) - 1
  BY HandlerAssumption, FS_RemoveElement
<1>3. Cardinality(WaitingIn(cstate)) <= Cardinality(Clients \ {c})
  BY <1>1, <1>2, FS_Subset
<1>4. Cardinality(Clients) \in Nat
  BY HandlerAssumption, FS_CardinalityType
<1>5. waiting = Cardinality(WaitingIn(cstate))
  BY DEF Inv, WaitingCountMatches, CountsMatch
<1>6. Cardinality(WaitingIn(cstate)) \in Nat
  BY WaitingInFinite, FS_CardinalityType
<1>7. waiting < MaxWaitingClients
  BY <1>2, <1>3, <1>4, <1>5, <1>6, HandlerAssumption DEF NoEviction
<1>. QED  BY <1>5, <1>6, <1>7, HandlerAssumption DEF MustEvict

\* Entries of two keys have different owners: an owner is one of its
\* entry's clients, and no client is attached to two entries.
LEMMA OwnersDistinct ==
    ASSUME SendsInv, NEW k1 \in ActiveKeys, NEW k2 \in ActiveKeys,
           pq[k1].owner = pq[k2].owner
    PROVE  k1 = k2
BY DEF SendsInv, OwnedAndRetriedOnce, Inv, WaitingCountMatches, CountsMatch, ActiveKeys

\* The one timer that holds the done_rx of an entry is the timer of its key.
LEMMA HoldsIffKey ==
    ASSUME SendsInv, NEW k \in ActiveKeys, NEW u \in timers
    PROVE  Holds(u, pq[k]) <=> u.key = k
<1>1. GuardsEntry(u)
  BY DEF SendsInv, TimersGuardEntries
<1>2. u.key \in ActiveKeys
  <2>1. u.key \in Keys
    BY DEF SendsInv, Inv, TypeOK, Timer
  <2>. QED  BY <1>1, <2>1 DEF GuardsEntry, ActiveKeys, ActiveIn
<1>3. ASSUME Holds(u, pq[k]) PROVE u.key = k
  <2>1. pq[u.key].owner = pq[k].owner
    BY <1>1, <1>3 DEF GuardsEntry, Holds
  <2>. QED  BY <1>2, <2>1, OwnersDistinct
<1>. QED  BY <1>1, <1>3 DEF GuardsEntry

\* fut_retry_query's update of an entry, as a record: the new upstream and
\* one more send, every other field unchanged.
LEMMA RetriedEntry ==
    ASSUME NEW e \in Entry, NEW s
    PROVE  [e EXCEPT !.srv = s, !.sent = e.sent + 1] =
              [clients |-> e.clients, owner |-> e.owner, srv |-> s,
               sent |-> e.sent + 1, tid |-> e.tid, probed |-> e.probed]
<1>0. e = [clients |-> e.clients, owner |-> e.owner, srv |-> e.srv,
           sent |-> e.sent, tid |-> e.tid, probed |-> e.probed]
  BY DEF Entry
<1>1. [e EXCEPT !.srv = s] = [clients |-> e.clients, owner |-> e.owner, srv |-> s,
                              sent |-> e.sent, tid |-> e.tid, probed |-> e.probed]
  BY <1>0
<1>2. [e EXCEPT !.srv = s, !.sent = e.sent + 1] =
        [[clients |-> e.clients, owner |-> e.owner, srv |-> s,
          sent |-> e.sent, tid |-> e.tid, probed |-> e.probed] EXCEPT !.sent = e.sent + 1]
  BY <1>1, Zenon
<1>. QED  BY <1>2

\* A step that leaves the entries of the other keys alone keeps their timers
\* guarding them and their owners and send counts as they were.
LEMMA OtherKeysFrame ==
    ASSUME SendsInv, NEW k \in Keys, \A x \in Keys \ {k} : pq'[x] = pq[x],
           NEW u \in timers, u.key # k
    PROVE  GuardsEntry(u)'
<1>1. u.key \in Keys
  BY DEF SendsInv, Inv, TypeOK, Timer
<1>. QED  BY <1>1 DEF SendsInv, TimersGuardEntries, GuardsEntry, Holds

(***************************************************************************)
(* The shape of every step below: only the entry of key k changes, the    *)
(* timers of the other keys are among the old ones, and k has at most one *)
(* timer, which guards its new entry.                                      *)
(***************************************************************************)
LEMMA KeyStep ==
    ASSUME SendsInv, Inv', NEW k \in Keys,
           \A x \in Keys \ {k} : pq'[x] = pq[x],
           pq'[k] # NoEntry => pq'[k].owner \in pq'[k].clients /\ pq'[k].sent <= 2,
           \A u \in timers' : u.key # k => u \in timers,
           \A u \in timers' : u.key = k => GuardsEntry(u)',
           \A a, b \in timers' : a.key = k /\ b.key = k => a = b
    PROVE  SendsInv'
<1>1. OwnedAndRetriedOnce'
  <2> SUFFICES ASSUME NEW x \in ActiveKeys'
               PROVE  pq'[x].owner \in pq'[x].clients /\ pq'[x].sent <= 2
    BY DEF OwnedAndRetriedOnce
  <2>1. x \in Keys /\ pq'[x] # NoEntry
    BY DEF ActiveKeys, ActiveIn
  <2>2. CASE x = k
    BY <2>1, <2>2
  <2>3. CASE x # k
    BY <2>1, <2>3 DEF SendsInv, OwnedAndRetriedOnce, ActiveKeys, ActiveIn
  <2>. QED  BY <2>2, <2>3
<1>2. TimersGuardEntries'
  <2> SUFFICES ASSUME NEW u \in timers' PROVE GuardsEntry(u)'
    BY DEF TimersGuardEntries
  <2>1. CASE u.key # k
    BY <2>1, OtherKeysFrame
  <2>2. CASE u.key = k
    BY <2>2
  <2>. QED  BY <2>1, <2>2
<1>3. OneTimerPerKey'
  <2> SUFFICES ASSUME NEW u1 \in timers', NEW u2 \in timers', u1.key = u2.key
               PROVE  u1 = u2
    BY DEF OneTimerPerKey
  <2>1. CASE u1.key # k
    BY <2>1 DEF SendsInv, OneTimerPerKey
  <2>2. CASE u1.key = k
    BY <2>2
  <2>. QED  BY <2>1, <2>2
<1>. QED  BY <1>1, <1>2, <1>3 DEF SendsInv

\* A step that leaves the table and the timers alone keeps the invariant.
LEMMA TableAndTimersUnchanged ==
    ASSUME SendsInv, Inv', UNCHANGED <<pq, timers>>
    PROVE  SendsInv'
BY DEF SendsInv, OwnedAndRetriedOnce, TimersGuardEntries, OneTimerPerKey, GuardsEntry,
   ActiveKeys, ActiveIn

\* Without its timer, the timers of the other keys are the timers left.
LEMMA OtherTimers ==
    ASSUME SendsInv, NEW t \in timers
    PROVE  timers \ {t} = {u \in timers : u.key # t.key}
BY DEF SendsInv, OneTimerPerKey

(***************************************************************************)
(* fut_process_client_query: a client joins the entry of its key, whose   *)
(* owner, send count and timer stay, or a new entry is sent once under a  *)
(* first timer; the key had no timer, since it had no entry.  The cap     *)
(* never fires.                                                            *)
(***************************************************************************)
LEMMA ProcessClientQuerySends ==
    ASSUME SendsInv, Inv', NoEviction, NEW c \in Clients, NEW k \in Keys,
           NEW tid \in QuestionTids, ProcessClientQuery(c, k, tid)
    PROVE  SendsInv'
<1>1. CASE live = {} /\ UNCHANGED <<pq, waiting, pending, timers, live, failures, probeRecent>>
  BY <1>1, TableAndTimersUnchanged
<1>2. CASE AttachToPending(c, k, pq, waiting, cstate, timers)
  <2>1. pq[k] \in Entry
    BY <1>2, NoEntryNotEntry DEF AttachToPending, SendsInv, Inv, TypeOK
  <2>2. pq'[k] = [pq[k] EXCEPT !.clients = pq[k].clients \cup {c}]
        /\ \A x \in Keys \ {k} : pq'[x] = pq[x]
    BY <1>2 DEF AttachToPending, SendsInv, Inv, TypeOK
  <2>3. /\ pq'[k].owner = pq[k].owner
        /\ pq'[k].sent = pq[k].sent
        /\ pq'[k].clients = pq[k].clients \cup {c}
    BY <2>1, <2>2, Zenon DEF Entry
  <2>4. pq[k].owner \in pq[k].clients /\ pq[k].sent <= 2
    BY <2>1, NoEntryNotEntry DEF SendsInv, OwnedAndRetriedOnce, ActiveKeys, ActiveIn
  <2>5. \A u \in timers' : u.key = k => GuardsEntry(u)'
    <3> SUFFICES ASSUME NEW u \in timers', u.key = k PROVE GuardsEntry(u)'
      OBVIOUS
    <3>1. u \in timers /\ GuardsEntry(u)
      BY <1>2 DEF AttachToPending, SendsInv, TimersGuardEntries
    <3>2. pq'[k] # NoEntry
      BY <2>1, <2>2, NoEntryNotEntry DEF Entry
    <3>. QED  BY <2>3, <3>1, <3>2 DEF GuardsEntry, Holds
  <2>6. UNCHANGED timers
    BY <1>2 DEF AttachToPending
  <2>7. /\ \A u \in timers' : u.key # k => u \in timers
        /\ \A a, b \in timers' : a.key = k /\ b.key = k => a = b
    BY <2>6 DEF SendsInv, OneTimerPerKey
  <2>8. pq'[k] # NoEntry => pq'[k].owner \in pq'[k].clients /\ pq'[k].sent <= 2
    BY <2>3, <2>4
  <2>. QED  BY <2>2, <2>5, <2>7, <2>8, KeyStep
<1>3. CASE SendNewQuery(c, k, tid, pq, waiting, cstate, timers)
  <2>1. PICK s \in Servers, pr \in Servers \cup {NoServer} :
          /\ pq' = [pq EXCEPT ![k] = [clients |-> {c}, owner |-> c, srv |-> s,
                                      sent |-> 1, tid |-> tid, probed |-> pr]]
          /\ timers' = timers \cup {PrimaryTimer(c, k, s, tid)}
    <3>1. PICK s \in PickUpstream(k, tid, FALSE, live, pending), ps \in Servers :
             \E pr \in ProbeOutcomes(ps) :
               /\ pq' = [pq EXCEPT ![k] = [clients |-> {c}, owner |-> c, srv |-> s,
                                           sent |-> 1, tid |-> tid, probed |-> pr]]
               /\ timers' = timers \cup {PrimaryTimer(c, k, s, tid)}
      BY <1>3 DEF SendNewQuery
    <3>2. s \in Servers
      BY PickInLive DEF SendsInv, Inv, TypeOK
    <3>. QED  BY <3>1, <3>2 DEF ProbeOutcomes
  <2> DEFINE nt == PrimaryTimer(c, k, s, tid)
  <2>2. pq'[k] = [clients |-> {c}, owner |-> c, srv |-> s,
                  sent |-> 1, tid |-> tid, probed |-> pr]
        /\ \A x \in Keys \ {k} : pq'[x] = pq[x]
    BY <2>1 DEF SendsInv, Inv, TypeOK
  <2>3. pq'[k] # NoEntry
    <3>1. tid \in Tids
      BY DEF QuestionTids, Tids
    <3>. QED  BY <2>2, <3>1, NoEntryNotEntry DEF Entry
  <2>4. GuardsEntry(nt)' /\ nt.key = k
    BY <2>2, <2>3 DEF GuardsEntry, Holds, PrimaryTimer
  <2>5. \A u \in timers : u.key # k
    BY <1>3 DEF SendNewQuery, SendsInv, TimersGuardEntries, GuardsEntry
  <2>6. pq'[k].owner \in pq'[k].clients /\ pq'[k].sent <= 2
    BY <2>2
  <2>7. /\ \A u \in timers' : u.key # k => u \in timers
        /\ \A u \in timers' : u.key = k => u = nt
    BY <2>1, <2>4, <2>5
  <2>. QED  BY <2>2, <2>4, <2>6, <2>7, KeyStep
<1>4. CASE MustEvict
  BY <1>4, NoCapWithoutEviction DEF ProcessClientQuery, SendsInv
<1>. QED  BY <1>1, <1>2, <1>3, <1>4 DEF ProcessClientQuery, AttachOrSend

(***************************************************************************)
(* Removing the entry of key k and sending its done_tx (second timeout,   *)
(* response): the only timer left holding it is gone with it.             *)
(***************************************************************************)
LEMMA RemoveEntrySends ==
    ASSUME SendsInv, Inv', NEW k \in ActiveKeys,
           pq' = [pq EXCEPT ![k] = NoEntry],
           timers' \subseteq {u \in timers : ~Holds(u, pq[k])}
    PROVE  SendsInv'
<1>1. k \in Keys
  BY DEF ActiveKeys, ActiveIn
<1>2. \A x \in Keys \ {k} : pq'[x] = pq[x]
  BY DEF SendsInv, Inv, TypeOK
<1>3. pq'[k] = NoEntry
  BY <1>1 DEF SendsInv, Inv, TypeOK
<1>4. \A u \in timers' : u \in timers /\ u.key # k
  BY HoldsIffKey
<1>. QED  BY <1>1, <1>2, <1>3, <1>4, KeyStep

(***************************************************************************)
(* The or_else of the first timer: the timer guards the entry of its key, *)
(* which was therefore sent once; a retry makes it sent twice and arms    *)
(* the second timer in place of the first, whose done_rx no other timer   *)
(* held, so dropping the old done_tx cancels nobody.                       *)
(***************************************************************************)
LEMMA PrimaryTimeoutSends ==
    ASSUME SendsInv, Inv', ActiveIn(pq') = ActiveIn(pq),
           NEW t \in timers, PrimaryTimeout(t)
    PROVE  SendsInv'
<1> DEFINE e == pq[t.key]
           k == t.key
<1>1. k \in Keys /\ t.tid \in Tids
  BY DEF SendsInv, Inv, TypeOK, Timer
<1>2. e # NoEntry /\ t.owner = e.owner /\ t.n = e.sent /\ t.n = 1
  BY DEF SendsInv, TimersGuardEntries, GuardsEntry, Holds, PrimaryTimeout
<1>3. \A u \in timers \ {t} : u.key # k
  BY OtherTimers
<1>4. CASE UNCHANGED pq /\ timers' = timers \ {t}
  <2>1. \A x \in Keys \ {k} : pq'[x] = pq[x]
    BY <1>4
  <2>2. pq'[k] # NoEntry => pq'[k].owner \in pq'[k].clients /\ pq'[k].sent <= 2
    BY <1>1, <1>4 DEF SendsInv, OwnedAndRetriedOnce, ActiveKeys, ActiveIn
  <2>3. \A u \in timers' : u \in timers /\ u.key # k
    BY <1>3, <1>4
  <2>. QED  BY <1>1, <2>1, <2>2, <2>3, KeyStep
<1>5. CASE \E s \in PickUpstream(k, t.tid, TRUE, LiveAfterFailure(live, failures, t.srv),
                                  [pending EXCEPT ![t.srv] = SatSub(@)]) :
              /\ pq' = [pq EXCEPT ![k] = [e EXCEPT !.srv = s, !.sent = e.sent + 1]]
              /\ timers' = DropDoneTx(timers \ {t}, e) \cup {RetryTimer(e, k, s, t.tid)}
  <2>1. PICK s : /\ pq' = [pq EXCEPT ![k] = [e EXCEPT !.srv = s, !.sent = e.sent + 1]]
                 /\ timers' = DropDoneTx(timers \ {t}, e) \cup {RetryTimer(e, k, s, t.tid)}
    BY <1>5
  <2>2. e \in Entry
    BY <1>1, <1>2, NoEntryNotEntry DEF SendsInv, Inv, TypeOK
  <2>3. pq'[k] = [clients |-> e.clients, owner |-> e.owner, srv |-> s,
                  sent |-> e.sent + 1, tid |-> e.tid, probed |-> e.probed]
        /\ \A x \in Keys \ {k} : pq'[x] = pq[x]
    BY <1>1, <2>1, <2>2, RetriedEntry DEF SendsInv, Inv, TypeOK
  <2>4. e.owner \in e.clients /\ e.sent = 1
    BY <1>1, <1>2 DEF SendsInv, OwnedAndRetriedOnce, ActiveKeys, ActiveIn
  <2>5. pq'[k] # NoEntry
    BY <1>1, <1>2 DEF ActiveIn
  <2>6. DropDoneTx(timers \ {t}, e) = timers \ {t}
    <3>1. \A u \in timers \ {t} : ~Holds(u, e)
      BY <1>1, <1>2, <1>3, HoldsIffKey DEF ActiveKeys, ActiveIn
    <3>. QED  BY <3>1 DEF DropDoneTx
  <2> DEFINE rt == RetryTimer(e, k, s, t.tid)
  <2>7. rt.key = k /\ rt.owner = e.owner /\ rt.n = 2 /\ rt.stage = "retry"
        /\ rt.rx = "waiting"
    BY <2>4 DEF RetryTimer
  <2>8. timers' = (timers \ {t}) \cup {rt}
    BY <2>1, <2>6
  <2>9. \A u \in timers' : u.key # k => u \in timers
    BY <2>7, <2>8
  <2>10. \A u \in timers' : u.key = k => u = rt
    BY <1>3, <2>8
  <2>11. \A u \in timers' : u.key = k => GuardsEntry(u)'
    <3> SUFFICES ASSUME NEW u \in timers', u.key = k PROVE GuardsEntry(u)'
      OBVIOUS
    <3>1. u.key = k /\ u.owner = e.owner /\ u.n = 2 /\ u.stage = "retry"
          /\ u.rx = "waiting"
      BY <2>7, <2>10
    <3>2. pq'[k].owner = e.owner /\ pq'[k].sent = 2
      BY <2>3, <2>4
    <3>. QED  BY <2>5, <3>1, <3>2 DEF GuardsEntry, Holds
  <2>12. pq'[k].owner \in pq'[k].clients /\ pq'[k].sent <= 2
    BY <2>3, <2>4
  <2>13. \A a, b \in timers' : a.key = k /\ b.key = k => a = b
    BY <2>10
  <2>. QED  BY <1>1, <2>3, <2>9, <2>11, <2>12, <2>13, KeyStep
<1>. QED  BY <1>4, <1>5 DEF PrimaryTimeout

\* The or_else of the second timer removes the entry its timer guards.
LEMMA RetryTimeoutSends ==
    ASSUME SendsInv, Inv', NEW t \in timers, RetryTimeout(t)
    PROVE  SendsInv'
<1>1. t.key \in ActiveKeys
  <2>1. t.key \in Keys
    BY DEF SendsInv, Inv, TypeOK, Timer
  <2>. QED  BY <2>1 DEF SendsInv, TimersGuardEntries, GuardsEntry, ActiveKeys, ActiveIn
<1>2. pq[t.key] # NoEntry
  BY <1>1 DEF ActiveKeys, ActiveIn
<1>3. pq' = [pq EXCEPT ![t.key] = NoEntry]
      /\ timers' = SendDoneTx(timers \ {t}, pq[t.key])
  BY <1>2 DEF RetryTimeout
<1>. QED  BY <1>1, <1>3, RemoveEntrySends DEF SendDoneTx

\* A response removes the entry of its key.
LEMMA UpstreamRespondsSends ==
    ASSUME SendsInv, Inv', NEW k \in Keys, NEW from \in Servers, UpstreamResponds(k, from)
    PROVE  SendsInv'
<1>1. k \in ActiveKeys
  BY DEF UpstreamResponds, ActiveKeys, ActiveIn
<1>. QED  BY <1>1, RemoveEntrySends DEF UpstreamResponds, SendDoneTx

LEMMA InitSends == Init => SendsInv
<1> SUFFICES ASSUME Init PROVE SendsInv
  OBVIOUS
<1>1. Inv
  BY InitInv
<1>2. ActiveKeys = {} /\ timers = {}
  BY DEF Init, ActiveKeys, ActiveIn
<1>. QED  BY <1>1, <1>2 DEF SendsInv, OwnedAndRetriedOnce, TimersGuardEntries,
            OneTimerPerKey

\* Every step keeps the invariant when the cap never fires.
LEMMA NextSends ==
    ASSUME NoEviction
    PROVE  SendsInv /\ [Next]_vars => SendsInv'
<1> SUFFICES ASSUME SendsInv, [Next]_vars PROVE SendsInv'
  OBVIOUS
<1>0. Inv /\ Inv'
  BY NextInv DEF SendsInv
<1>1. CASE \E c \in Clients, k \in Keys, tid \in QuestionTids : ProcessClientQuery(c, k, tid)
  BY <1>0, <1>1, ProcessClientQuerySends
<1>2. CASE \E t \in timers : PrimaryTimeout(t)
  <2>1. PICK t \in timers : PrimaryTimeout(t)
    BY <1>2
  <2>2. ActiveIn(pq') = ActiveIn(pq)
    BY <1>0, <2>1, PrimaryTimeoutInv
  <2>. QED  BY <1>0, <2>1, <2>2, PrimaryTimeoutSends
<1>3. CASE \E t \in timers : RetryTimeout(t)
  BY <1>0, <1>3, RetryTimeoutSends
<1>4. CASE \E k \in Keys, s \in Servers : UpstreamResponds(k, s)
  BY <1>0, <1>4, UpstreamRespondsSends
<1>5. CASE \E s \in Servers : ServerRecovers(s) \/ ProbeDelayElapses(s)
  BY <1>0, <1>5, TableAndTimersUnchanged DEF ServerRecovers, ProbeDelayElapses
<1>6. CASE UNCHANGED vars
  BY <1>0, <1>6, TableAndTimersUnchanged DEF vars
<1>. QED  BY <1>1, <1>2, <1>3, <1>4, <1>5, <1>6 DEF Next, TimerFires

(***************************************************************************)
(* The retry ceiling (spec 4.5.a): when max_waiting_clients leaves room   *)
(* for every client query, no pending query is sent more than twice, the  *)
(* first send and one retry, whatever the timeouts, failures, recoveries  *)
(* and responses.                                                          *)
(***************************************************************************)
THEOREM AtMostTwoSendsWithoutEviction ==
    ASSUME NoEviction
    PROVE  Spec => []AtMostTwoSends
<1>1. Init => SendsInv
  BY InitSends
<1>2. SendsInv /\ [Next]_vars => SendsInv'
  BY NextSends
<1>3. SendsInv => AtMostTwoSends
  BY DEF SendsInv, OwnedAndRetriedOnce, AtMostTwoSends
<1>. QED  BY <1>1, <1>2, <1>3, PTL DEF Spec

================================================================================

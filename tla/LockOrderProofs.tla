--------------------------- MODULE LockOrderProofs ---------------------------
(***************************************************************************)
(* For any set of reactors, no thread ever blocks on a guard it holds     *)
(* itself.  The inductive invariant ties the guards a reactor holds to    *)
(* where it is in its handler: HeldAt(h, i) lists, for each position of   *)
(* each handler, the guards in scope before its i-th guard operation.     *)
(* A finite lemma (OpFacts) checks the handlers' guard sequences against  *)
(* that table once and for all; the step proof only cites it.             *)
(***************************************************************************)
EXTENDS LockOrder, TLAPS

\* The guards in scope before the i-th guard operation of handler h.
HeldSeq(h) ==
    CASE h = "process" -> << {}, {"map"}, {}, {"map"}, {}, {"servers"},
                             {"servers", "map"}, {"servers"} >>
      [] h = "retry"   -> << {}, {"servers"}, {}, {"map"}, {"map", "servers"},
                             {"map"}, {"map", "servers"}, {"map"} >>
      [] h = "retry2"  -> << {}, {"servers"}, {"servers", "map"}, {"servers"} >>

HeldAt(h, i) == HeldSeq(h)[i]

\* The positions of handler h.
Pos(h) == 1..Len(Ops(h))

(***************************************************************************)
(* What each guard operation does to the guards in scope: an acquire is   *)
(* of a guard not in scope and is never last; a release is of a guard in  *)
(* scope, and the last one leaves nothing in scope; a skipped cap goes    *)
(* from nothing in scope to nothing in scope.                             *)
(***************************************************************************)
OpFact(h, i) ==
    /\ Ops(h)[i].lock \in Locks
    /\ Ops(h)[i].kind \in {"acq", "rel"}
    /\ Ops(h)[i].kind = "acq" =>
          /\ Ops(h)[i].lock \notin HeldAt(h, i)
          /\ i < Len(Ops(h))
          /\ HeldAt(h, i + 1) = HeldAt(h, i) \cup {Ops(h)[i].lock}
    /\ Ops(h)[i].kind = "rel" =>
          /\ Ops(h)[i].lock \in HeldAt(h, i)
          /\ i < Len(Ops(h)) => HeldAt(h, i + 1) = HeldAt(h, i) \ {Ops(h)[i].lock}
          /\ i = Len(Ops(h)) => HeldAt(h, i) = {Ops(h)[i].lock}
    /\ i \in Skips(h) => i + 2 \in Pos(h) /\ HeldAt(h, i) = {} /\ HeldAt(h, i + 2) = {}
    /\ HeldAt(h, i) \subseteq Locks

LEMMA OpFacts ==
    ASSUME NEW h \in Handlers
    PROVE  /\ \A i \in Pos(h) : OpFact(h, i)
           /\ HeldAt(h, 1) = {}
           /\ Len(Ops(h)) \in Nat \ {0}
<1>1. CASE h = "process"
  <2>1. Len(Ops(h)) = 8
    BY <1>1 DEF Ops, ProcessOps
  <2>2. \A i \in 1..8 : OpFact(h, i)
    BY <1>1 DEF OpFact, Ops, ProcessOps, Acq, Rel, HeldAt, HeldSeq, Pos, Skips, Locks
  <2>3. \A i \in Pos(h) : OpFact(h, i)
    BY <2>1, <2>2 DEF Pos
  <2>4. HeldAt(h, 1) = {}
    BY <1>1 DEF HeldAt, HeldSeq
  <2>. QED  BY <2>1, <2>3, <2>4
<1>2. CASE h = "retry"
  <2>1. Len(Ops(h)) = 8
    BY <1>2 DEF Ops, RetryOps
  <2>2. \A i \in 1..8 : OpFact(h, i)
    BY <1>2 DEF OpFact, Ops, RetryOps, Acq, Rel, HeldAt, HeldSeq, Pos, Skips, Locks
  <2>3. \A i \in Pos(h) : OpFact(h, i)
    BY <2>1, <2>2 DEF Pos
  <2>4. HeldAt(h, 1) = {}
    BY <1>2 DEF HeldAt, HeldSeq
  <2>. QED  BY <2>1, <2>3, <2>4
<1>3. CASE h = "retry2"
  <2>1. Len(Ops(h)) = 4
    BY <1>3 DEF Ops, Retry2Ops
  <2>2. \A i \in 1..4 : OpFact(h, i)
    BY <1>3 DEF OpFact, Ops, Retry2Ops, Acq, Rel, HeldAt, HeldSeq, Pos, Skips, Locks
  <2>3. \A i \in Pos(h) : OpFact(h, i)
    BY <2>1, <2>2 DEF Pos
  <2>4. HeldAt(h, 1) = {}
    BY <1>3 DEF HeldAt, HeldSeq
  <2>. QED  BY <2>1, <2>3, <2>4
<1>. QED  BY <1>1, <1>2, <1>3 DEF Handlers

(***************************************************************************)
(* The inductive invariant: a running reactor is at a position of its     *)
(* handler, and holds exactly the guards in scope there; an idle reactor  *)
(* holds none.                                                             *)
(***************************************************************************)
Running(r) == run[r] # Idle

InScope(r) == IF Running(r) THEN HeldAt(run[r].h, run[r].i) ELSE {}

IInv ==
    /\ TypeOK
    /\ \A r \in Reactors : Running(r) => run[r].i \in Pos(run[r].h)
    /\ \A r \in Reactors, l \in Locks : holder[l] = r <=> l \in InScope(r)

LEMMA IdleNotRunning ==
    ASSUME NEW h \in Handlers, NEW i
    PROVE  [h |-> h, i |-> i] # Idle
BY DEF Idle, Handlers

LEMMA InitIInv == LockOrderAssumption /\ Init => IInv
<1> SUFFICES ASSUME LockOrderAssumption, Init PROVE IInv
  OBVIOUS
<1>1. TypeOK
  BY DEF LockOrderAssumption, Init, TypeOK, Locks
<1>2. \A r \in Reactors : ~Running(r)
  BY DEF Init, Running
<1>3. \A r \in Reactors, l \in Locks : holder[l] # r
  BY DEF LockOrderAssumption, Init
<1>. QED  BY <1>1, <1>2, <1>3 DEF IInv, InScope

-------------------------------------------------------------------------------
(***************************************************************************)
(* One lemma per action of reactor r.  Each proves the three conjuncts of *)
(* IInv'; for the other reactors, run is unchanged and a guard changes    *)
(* hands only between r and Nobody.                                       *)
(***************************************************************************)
LEMMA StartIInv ==
    ASSUME IInv, NEW r \in Reactors, NEW h \in Handlers, Start(r, h)
    PROVE  IInv'
<1>1. run'[r] = [h |-> h, i |-> 1] /\ Running(r)'
  BY IdleNotRunning DEF Start, IInv, TypeOK, Running, Idle
<1>2. InScope(r)' = {} /\ InScope(r) = {}
  BY <1>1, OpFacts DEF Start, InScope, Running
<1>3. \A r2 \in Reactors \ {r} : run'[r2] = run[r2]
  BY DEF Start, IInv, TypeOK
<1>4. TypeOK'
  BY <1>1 DEF Start, IInv, TypeOK
<1>5. \A r2 \in Reactors : Running(r2)' => run'[r2].i \in Pos(run'[r2].h)
  BY <1>1, <1>3, OpFacts DEF IInv, Running, Pos
<1>6. \A r2 \in Reactors, l \in Locks : holder'[l] = r2 <=> l \in InScope(r2)'
  BY <1>2, <1>3 DEF Start, IInv, InScope, Running
<1>. QED  BY <1>4, <1>5, <1>6 DEF IInv

\* The running reactor r is at position i of handler h, on operation op.
LEMMA RunningFacts ==
    ASSUME IInv, NEW r \in Reactors, Running(r)
    PROVE  /\ run[r].h \in Handlers
           /\ run[r].i \in Pos(run[r].h)
           /\ run[r] = [h |-> run[r].h, i |-> run[r].i]
           /\ OpFact(run[r].h, run[r].i)
           /\ CurOp(r) = Ops(run[r].h)[run[r].i]
           /\ InScope(r) = HeldAt(run[r].h, run[r].i)
<1>1. run[r] \in [h : Handlers, i : Nat \ {0}]
  BY DEF IInv, TypeOK, Running
<1>2. run[r].i \in Pos(run[r].h)
  BY DEF IInv
<1>. QED  BY <1>1, <1>2, OpFacts DEF CurOp, InScope

LEMMA AcquireIInv ==
    ASSUME LockOrderAssumption, IInv, NEW r \in Reactors, Acquire(r)
    PROVE  IInv'
<1> DEFINE h == run[r].h
           i == run[r].i
           lk == Ops(h)[i].lock
<1>1. Running(r)
  BY DEF Acquire, Running
<1>2. /\ h \in Handlers /\ i \in Pos(h) /\ OpFact(h, i)
      /\ run[r] = [h |-> h, i |-> i]
      /\ CurOp(r) = Ops(h)[i] /\ InScope(r) = HeldAt(h, i)
  BY <1>1, RunningFacts
<1>3. Ops(h)[i].kind = "acq" /\ holder[lk] = Nobody
  BY <1>2 DEF Acquire
<1>4. i < Len(Ops(h)) /\ HeldAt(h, i + 1) = HeldAt(h, i) \cup {lk} /\ lk \in Locks
  BY <1>2, <1>3 DEF OpFact
<1>5. run'[r] = [h |-> h, i |-> i + 1]
  BY <1>2, <1>4 DEF Acquire, Advance, IInv, TypeOK
<1>6. holder' = [holder EXCEPT ![lk] = r]
  BY <1>2 DEF Acquire
<1>7. Running(r)' /\ InScope(r)' = HeldAt(h, i) \cup {lk}
  BY <1>2, <1>4, <1>5, IdleNotRunning DEF Running, InScope
<1>8. \A r2 \in Reactors \ {r} : run'[r2] = run[r2] /\ InScope(r2)' = InScope(r2)
  BY DEF Acquire, IInv, TypeOK, InScope, Running
<1>9. TypeOK'
  <2>1. Advance(r) = [h |-> h, i |-> i + 1]
    BY <1>2, <1>4 DEF Advance
  <2>2. i + 1 \in Nat \ {0}
    BY <1>2 DEF Pos
  <2>3. run' \in [Reactors -> {Idle} \cup [h : Handlers, i : Nat \ {0}]]
    BY <1>2, <2>1, <2>2 DEF Acquire, IInv, TypeOK
  <2>4. holder' \in [Locks -> Reactors \cup {Nobody}]
    BY <1>4, <1>6 DEF IInv, TypeOK
  <2>. QED  BY <2>3, <2>4 DEF TypeOK
<1>10. \A r2 \in Reactors : Running(r2)' => run'[r2].i \in Pos(run'[r2].h)
  BY <1>2, <1>4, <1>5, <1>8 DEF IInv, Running, Pos
<1>11. \A r2 \in Reactors, l \in Locks : holder'[l] = r2 <=> l \in InScope(r2)'
  <2> SUFFICES ASSUME NEW r2 \in Reactors, NEW l \in Locks
               PROVE  holder'[l] = r2 <=> l \in InScope(r2)'
    OBVIOUS
  <2>1. CASE r2 = r
    BY <2>1, <1>2, <1>6, <1>7 DEF IInv, TypeOK
  <2>2. CASE r2 # r
    <3>1. lk \notin InScope(r2)
      BY <1>3, <1>4 DEF LockOrderAssumption, IInv
    <3>. QED  BY <2>2, <1>4, <1>6, <1>8, <3>1 DEF LockOrderAssumption, IInv, TypeOK
  <2>. QED  BY <2>1, <2>2
<1>. QED  BY <1>9, <1>10, <1>11 DEF IInv

LEMMA ReleaseIInv ==
    ASSUME LockOrderAssumption, IInv, NEW r \in Reactors, Release(r)
    PROVE  IInv'
<1> DEFINE h == run[r].h
           i == run[r].i
           lk == Ops(h)[i].lock
<1>1. Running(r)
  BY DEF Release, Running
<1>2. /\ h \in Handlers /\ i \in Pos(h) /\ OpFact(h, i)
      /\ run[r] = [h |-> h, i |-> i]
      /\ CurOp(r) = Ops(h)[i] /\ InScope(r) = HeldAt(h, i)
  BY <1>1, RunningFacts
<1>3. Ops(h)[i].kind = "rel" /\ lk \in Locks /\ lk \in HeldAt(h, i)
  BY <1>2 DEF Release, OpFact
<1>4. holder' = [holder EXCEPT ![lk] = Nobody]
  BY <1>2 DEF Release
<1>5. InScope(r)' = HeldAt(h, i) \ {lk}
  <2>1. CASE i < Len(Ops(h))
    <3>1. run'[r] = [h |-> h, i |-> i + 1]
      BY <1>2, <2>1 DEF Release, Advance, Pos, IInv, TypeOK
    <3>2. HeldAt(h, i + 1) = HeldAt(h, i) \ {lk}
      BY <1>2, <1>3, <2>1 DEF OpFact
    <3>3. Running(r)'
      BY <1>2, <3>1, IdleNotRunning DEF Running
    <3>4. run'[r].h = h /\ run'[r].i = i + 1
      BY <3>1
    <3>. QED  BY <3>2, <3>3, <3>4 DEF InScope
  <2>2. CASE i = Len(Ops(h))
    <3>1. run'[r] = Idle
      BY <1>2, <2>2 DEF Release, Advance, IInv, TypeOK
    <3>2. HeldAt(h, i) = {lk}
      BY <1>2, <1>3, <2>2 DEF OpFact
    <3>. QED  BY <3>1, <3>2 DEF InScope, Running
  <2>. QED  BY <1>2, <2>1, <2>2 DEF Pos
<1>6. run'[r] = Idle \/ (run'[r] = [h |-> h, i |-> i + 1] /\ i + 1 \in Pos(h))
  BY <1>2 DEF Release, Advance, Pos, IInv, TypeOK
<1>7. \A r2 \in Reactors \ {r} : run'[r2] = run[r2] /\ InScope(r2)' = InScope(r2)
  BY DEF Release, IInv, TypeOK, InScope, Running
<1>8. TypeOK'
  <2>1. Advance(r) \in {Idle} \cup [h : Handlers, i : Nat \ {0}]
    BY <1>2 DEF Advance, Pos
  <2>2. run' \in [Reactors -> {Idle} \cup [h : Handlers, i : Nat \ {0}]]
    BY <2>1 DEF Release, IInv, TypeOK
  <2>3. holder' \in [Locks -> Reactors \cup {Nobody}]
    BY <1>3, <1>4 DEF IInv, TypeOK
  <2>. QED  BY <2>2, <2>3 DEF TypeOK
<1>9. \A r2 \in Reactors : Running(r2)' => run'[r2].i \in Pos(run'[r2].h)
  BY <1>6, <1>7 DEF IInv, Running
<1>10. \A r2 \in Reactors, l \in Locks : holder'[l] = r2 <=> l \in InScope(r2)'
  <2> SUFFICES ASSUME NEW r2 \in Reactors, NEW l \in Locks
               PROVE  holder'[l] = r2 <=> l \in InScope(r2)'
    OBVIOUS
  <2>1. CASE r2 = r
    BY <2>1, <1>2, <1>4, <1>5 DEF LockOrderAssumption, IInv, TypeOK
  <2>2. CASE r2 # r
    <3>1. holder[lk] = r
      BY <1>2, <1>3 DEF IInv
    <3>. QED  BY <2>2, <1>3, <1>4, <1>7, <3>1 DEF LockOrderAssumption, IInv, TypeOK
  <2>. QED  BY <2>1, <2>2
<1>. QED  BY <1>8, <1>9, <1>10 DEF IInv

LEMMA EarlyReturnIInv ==
    ASSUME LockOrderAssumption, IInv, NEW r \in Reactors, EarlyReturn(r)
    PROVE  IInv'
<1>1. run'[r] = Idle /\ InScope(r)' = {}
  BY DEF EarlyReturn, InScope, Running, IInv, TypeOK
<1>2. \A r2 \in Reactors \ {r} : run'[r2] = run[r2] /\ InScope(r2)' = InScope(r2)
  BY DEF EarlyReturn, IInv, TypeOK, InScope, Running
<1>3. TypeOK'
  BY <1>1 DEF EarlyReturn, IInv, TypeOK
<1>4. \A r2 \in Reactors : Running(r2)' => run'[r2].i \in Pos(run'[r2].h)
  BY <1>1, <1>2 DEF IInv, Running
<1>5. \A r2 \in Reactors, l \in Locks : holder'[l] = r2 <=> l \in InScope(r2)'
  BY <1>1, <1>2 DEF LockOrderAssumption, EarlyReturn, IInv, TypeOK
<1>. QED  BY <1>3, <1>4, <1>5 DEF IInv

LEMMA SkipCapIInv ==
    ASSUME IInv, NEW r \in Reactors, SkipCap(r)
    PROVE  IInv'
<1> DEFINE h == run[r].h
           i == run[r].i
<1>1. Running(r)
  BY DEF SkipCap, Running
<1>2. /\ h \in Handlers /\ i \in Pos(h) /\ OpFact(h, i)
      /\ run[r] = [h |-> h, i |-> i] /\ InScope(r) = HeldAt(h, i)
  BY <1>1, RunningFacts
<1>3. i + 2 \in Pos(h) /\ HeldAt(h, i) = {} /\ HeldAt(h, i + 2) = {}
  BY <1>2 DEF SkipCap, OpFact
<1>4. run'[r] = [h |-> h, i |-> i + 2]
  BY <1>2 DEF SkipCap, IInv, TypeOK
<1>5. Running(r)' /\ InScope(r)' = {}
  BY <1>2, <1>3, <1>4, IdleNotRunning DEF InScope, Running
<1>6. \A r2 \in Reactors \ {r} : run'[r2] = run[r2] /\ InScope(r2)' = InScope(r2)
  BY DEF SkipCap, IInv, TypeOK, InScope, Running
<1>7. TypeOK'
  BY <1>2, <1>3, <1>4 DEF SkipCap, IInv, TypeOK, Pos
<1>8. \A r2 \in Reactors : Running(r2)' => run'[r2].i \in Pos(run'[r2].h)
  BY <1>3, <1>4, <1>6 DEF IInv, Running
<1>9. \A r2 \in Reactors, l \in Locks : holder'[l] = r2 <=> l \in InScope(r2)'
  BY <1>2, <1>3, <1>5, <1>6 DEF SkipCap, IInv
<1>. QED  BY <1>7, <1>8, <1>9 DEF IInv

LEMMA NextIInv == LockOrderAssumption /\ IInv /\ [Next]_vars => IInv'
<1> SUFFICES ASSUME LockOrderAssumption, IInv, [Next]_vars PROVE IInv'
  OBVIOUS
<1>1. CASE \E r \in Reactors, h \in Handlers : Start(r, h)
  BY <1>1, StartIInv
<1>2. CASE \E r \in Reactors : Step(r)
  BY <1>2, AcquireIInv, ReleaseIInv, EarlyReturnIInv, SkipCapIInv DEF Step
<1>3. CASE UNCHANGED vars
  BY <1>3 DEF vars, IInv, TypeOK, InScope, Running
<1>. QED  BY <1>1, <1>2, <1>3 DEF Next

-------------------------------------------------------------------------------
(***************************************************************************)
(* For every set of reactors, one in the code, no handler of             *)
(* client_queries_handler.rs ever takes a guard its own thread already    *)
(* holds: the scopes of the guards in fut_process_client_query,           *)
(* fut_retry_query and the second or_else are properly nested.            *)
(***************************************************************************)
THEOREM NoSelfWaitInvariant ==
    ASSUME LockOrderAssumption
    PROVE  Spec => []NoSelfWait
<1>1. IInv => NoSelfWait
  <2> SUFFICES ASSUME IInv, NEW r \in Reactors, WaitsFor(r, r) PROVE FALSE
    BY DEF NoSelfWait
  <2>1. Running(r)
    BY DEF WaitsFor, Running
  <2>2. /\ OpFact(run[r].h, run[r].i)
        /\ CurOp(r) = Ops(run[r].h)[run[r].i]
        /\ InScope(r) = HeldAt(run[r].h, run[r].i)
    BY <2>1, RunningFacts
  <2>3. CurOp(r).lock \in InScope(r)
    BY <2>2 DEF WaitsFor, IInv, OpFact
  <2>. QED  BY <2>2, <2>3 DEF WaitsFor, OpFact
<1>2. Init => IInv
  BY InitIInv
<1>3. IInv /\ [Next]_vars => IInv'
  BY NextIInv
<1>. QED  BY <1>1, <1>2, <1>3, PTL DEF Spec
================================================================================

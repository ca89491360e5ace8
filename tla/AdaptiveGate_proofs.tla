------------------------ MODULE AdaptiveGate_proofs ------------------------
(***************************************************************************)
(* The safety of adaptiveGate for every number of goroutines, every value  *)
(* of -threads (zero and negative ones included) and every floor.          *)
(*                                                                         *)
(* The inductive invariant is the conjunction of the three invariants TLC  *)
(* checks: NoLostWakeup needs SlotAccounting for the count Release gives   *)
(* back, and TypeOK for the membership of the sets of goroutines.          *)
(***************************************************************************)
EXTENDS AdaptiveGate, FiniteSetTheorems, TLAPS

GateInv == TypeOK /\ SlotAccounting /\ NoLostWakeup

-----------------------------------------------------------------------------
\* Every set of goroutines that stand somewhere is finite.
LEMMA StandingFinite ==
  ASSUME NEW s
  PROVE  IsFiniteSet(Standing(s)) /\ Cardinality(Standing(s)) \in Nat
<1>1. Standing(s) \subseteq Workers
  BY DEF Standing
<1>2. IsFiniteSet(Standing(s))
  BY <1>1, GateAssumption, FS_Subset DEF GateAssumption
<1> QED
  BY <1>2, FS_CardinalityType

\* shrink() lowers a limit above the floor, leaves one at the floor alone, and
\* never goes under it; that 3/4 of a limit is less than the limit needs the
\* limit positive, which it is when it exceeds the floor.
LEMMA ShrunkRange ==
  ASSUME NEW n \in Int, Floor <= n, n <= Threads
  PROVE  /\ Shrunk(n) \in Int
         /\ Floor <= Shrunk(n)
         /\ Shrunk(n) <= n
         /\ n > Floor => Shrunk(n) < n
<1>1. Floor \in Int
  BY GateAssumption DEF GateAssumption, Floor
<1>2. CASE n <= Floor
  BY <1>1, <1>2 DEF Shrunk
<1>3. CASE n > Floor
  <2>1. Floor = FloorMin /\ n >= 2
    BY <1>3, GateAssumption DEF GateAssumption, Floor
  <2>2. (n * 3) \div 4 \in Int /\ (n * 3) \div 4 < n
    BY <2>1
  <2> QED
    BY <1>1, <1>3, <2>2 DEF Shrunk
<1> QED
  BY <1>1, <1>2, <1>3

-----------------------------------------------------------------------------
\* What each step does to the three sets of goroutines.
LEMMA AdmitMoves ==
  ASSUME TypeOK, NEW w \in Workers, Admit(w), gpc[w] \in {"outside", "woken"}
  PROVE  /\ Holding' = Holding \cup {w} /\ w \notin Holding
         /\ Waiting' = Waiting
         /\ Woken' = Woken \ {w}
BY DEF TypeOK, Admit, Holding, Waiting, Woken, Standing

LEMMA ParkMoves ==
  ASSUME TypeOK, NEW w \in Workers, Park(w), gpc[w] \in {"outside", "woken"}
  PROVE  Holding' = Holding
BY DEF TypeOK, Park, Holding, Standing

LEMMA ReleaseMoves ==
  ASSUME TypeOK, NEW w \in Workers, Release(w)
  PROVE  /\ Holding' = Holding \ {w} /\ w \in Holding
         /\ gpc' \in [Workers -> {"outside", "waiting", "woken", "holding"}]
         /\ \/ Waiting = {} /\ Waiting' = {} /\ Woken' = Woken
            \/ \E v \in Waiting : v \notin Woken /\ Woken' = Woken \cup {v}
<1>1. w \in Holding
  BY DEF Release, Holding, Standing
<1>2. CASE Waiting = {} /\ gpc' = [gpc EXCEPT ![w] = "outside"]
  <2>1. Holding' = Holding \ {w} /\ Woken' = Woken /\ Waiting' = {}
    BY <1>2, <1>1 DEF TypeOK, Holding, Woken, Waiting, Standing
  <2> QED
    BY <1>1, <1>2, <2>1 DEF TypeOK
<1>3. ASSUME NEW v \in Waiting,
             gpc' = [gpc EXCEPT ![w] = "outside", ![v] = "woken"]
      PROVE  /\ Holding' = Holding \ {w}
             /\ gpc' \in [Workers -> {"outside", "waiting", "woken", "holding"}]
             /\ v \notin Woken
             /\ Woken' = Woken \cup {v}
  <2>1. v \in Workers /\ gpc[v] = "waiting" /\ gpc[w] = "holding" /\ v # w
    BY <1>1, <1>3 DEF Holding, Waiting, Standing
  <2> QED
    BY <1>3, <2>1 DEF TypeOK, Holding, Woken, Standing
<1> QED
  BY <1>1, <1>2, <1>3 DEF Release

-----------------------------------------------------------------------------
\* The invariant holds initially and every step preserves it.
LEMMA GateInit == Init => GateInv
<1> SUFFICES ASSUME Init PROVE GateInv
  OBVIOUS
<1>1. Holding = {} /\ Waiting = {}
  BY DEF Init, Holding, Waiting, Standing
<1>2. TypeOK
  BY GateAssumption DEF Init, TypeOK, GateAssumption, Floor
<1> QED
  BY <1>1, <1>2, FS_EmptySet DEF Init, GateInv, SlotAccounting, NoLostWakeup

LEMMA AdmitKeeps ==
  ASSUME GateInv, NEW w \in Workers, Admit(w), gpc[w] \in {"outside", "woken"}
  PROVE  GateInv'
<1> USE DEF GateInv
<1>1. TypeOK'
  BY DEF TypeOK, Admit
<1>2. IsFiniteSet(Holding) /\ IsFiniteSet(Woken) /\ Cardinality(Woken) \in Nat
  BY StandingFinite DEF Holding, Woken
<1>3. SlotAccounting'
  BY <1>2, AdmitMoves, FS_AddElement DEF SlotAccounting, Admit
<1>4. Cardinality(Woken') >= Cardinality(Woken) - 1 /\ Cardinality(Woken') \in Nat
  <2>1. IsFiniteSet(Woken \ {w}) /\ Cardinality(Woken \ {w}) =
          IF w \in Woken THEN Cardinality(Woken) - 1 ELSE Cardinality(Woken)
    BY <1>2, FS_RemoveElement
  <2>2. Cardinality(Woken \ {w}) \in Nat
    BY <2>1, FS_CardinalityType
  <2>3. Woken' = Woken \ {w}
    BY AdmitMoves
  <2>4. Cardinality(Woken \ {w}) >= Cardinality(Woken) - 1
    BY <1>2, <2>1
  <2> QED
    BY <2>2, <2>3, <2>4
<1>5. limit \in Int /\ inflight \in Nat /\ limit' = limit /\ inflight' = inflight + 1
  BY DEF TypeOK, Admit
<1>6. NoLostWakeup'
  BY <1>2, <1>4, <1>5, AdmitMoves DEF NoLostWakeup
<1> QED
  BY <1>1, <1>3, <1>6

LEMMA ParkKeeps ==
  ASSUME GateInv, NEW w \in Workers, Park(w), gpc[w] \in {"outside", "woken"}
  PROVE  GateInv'
<1> USE DEF GateInv
<1>1. TypeOK'
  BY DEF TypeOK, Park
<1>2. SlotAccounting'
  BY ParkMoves DEF SlotAccounting, Park
<1>3. Cardinality(Woken)' \in Nat
  <2>1. Standing("woken")' \subseteq Workers
    BY DEF Standing
  <2> QED
    BY <2>1, GateAssumption, FS_Subset, FS_CardinalityType DEF GateAssumption, Woken
<1>4. limit \in Int /\ inflight \in Nat /\ inflight >= limit
      /\ limit' = limit /\ inflight' = inflight
  BY DEF TypeOK, Park
<1>5. NoLostWakeup'
  BY <1>3, <1>4 DEF NoLostWakeup
<1> QED
  BY <1>1, <1>2, <1>5

LEMMA ReleaseKeeps ==
  ASSUME GateInv, NEW w \in Workers, Release(w)
  PROVE  GateInv'
<1> USE DEF GateInv
<1>1. IsFiniteSet(Holding) /\ IsFiniteSet(Woken) /\ Cardinality(Woken) \in Nat
  BY StandingFinite DEF Holding, Woken
<1>2. w \in Holding /\ Holding' = Holding \ {w}
  BY ReleaseMoves
<1>3. inflight' = inflight - 1 /\ limit' = limit /\ limit \in Int /\ inflight \in Nat
  BY DEF Release, TypeOK
<1>4. Cardinality(Holding') = Cardinality(Holding) - 1
      /\ Cardinality(Holding') \in Nat
  <2>1. IsFiniteSet(Holding \ {w}) /\ Cardinality(Holding \ {w}) = Cardinality(Holding) - 1
    BY <1>1, <1>2, FS_RemoveElement
  <2> QED
    BY <1>2, <2>1, FS_CardinalityType
<1>5. SlotAccounting'
  BY <1>3, <1>4 DEF SlotAccounting
<1>6. TypeOK'
  BY <1>3, <1>4, <1>5, ReleaseMoves DEF TypeOK, SlotAccounting
<1>7. NoLostWakeup'
  <2>1. CASE Waiting' = {}
    BY <2>1 DEF NoLostWakeup
  <2>2. CASE \E v \in Waiting : v \notin Woken /\ Woken' = Woken \cup {v}
    <3>1. Cardinality(Woken') = Cardinality(Woken) + 1 /\ Waiting # {}
      BY <1>1, <2>2, FS_AddElement
    <3> QED
      BY <1>1, <1>3, <3>1 DEF NoLostWakeup
  <2> QED
    BY <2>1, <2>2, ReleaseMoves
<1> QED
  BY <1>5, <1>6, <1>7

LEMMA ShrinkKeeps ==
  ASSUME GateInv, NEW w \in Workers, Shrink(w)
  PROVE  GateInv'
<1> USE DEF GateInv
<1>1. Shrunk(limit) \in Int /\ Floor <= Shrunk(limit) /\ Shrunk(limit) <= limit
  BY ShrunkRange DEF TypeOK
<1>2. limit' = Shrunk(limit) /\ inflight' = inflight /\ gpc' = gpc
  BY DEF Shrink
<1>3. Holding' = Holding /\ Waiting' = Waiting /\ Woken' = Woken
  BY <1>2 DEF Holding, Waiting, Woken, Standing
<1>4. TypeOK'
  BY <1>1, <1>2, GateAssumption DEF TypeOK, GateAssumption, Floor
<1>5. Cardinality(Woken) \in Nat /\ inflight \in Nat /\ limit \in Int
  BY StandingFinite DEF Woken, TypeOK
<1>6. NoLostWakeup'
  BY <1>1, <1>2, <1>3, <1>5 DEF NoLostWakeup
<1> QED
  BY <1>2, <1>3, <1>4, <1>6 DEF SlotAccounting

LEMMA GateStepKeeps == GateInv /\ [Next]_gateVars => GateInv'
<1> SUFFICES ASSUME GateInv, [Next]_gateVars PROVE GateInv'
  OBVIOUS
<1>1. ASSUME NEW w \in Workers, Acquire(w) PROVE GateInv'
  BY <1>1, AdmitKeeps, ParkKeeps DEF Acquire
<1>2. ASSUME NEW w \in Workers, Recheck(w) PROVE GateInv'
  BY <1>2, AdmitKeeps, ParkKeeps DEF Recheck
<1>3. ASSUME NEW w \in Workers, Release(w) PROVE GateInv'
  BY <1>3, ReleaseKeeps
<1>4. ASSUME NEW w \in Workers, Shrink(w) PROVE GateInv'
  BY <1>4, ShrinkKeeps
<1>5. CASE UNCHANGED gateVars
  BY <1>5 DEF gateVars, GateInv, TypeOK, SlotAccounting, NoLostWakeup,
              Holding, Waiting, Woken, Standing
<1> QED
  BY <1>1, <1>2, <1>3, <1>4, <1>5 DEF Next, GateStep

-----------------------------------------------------------------------------
\* The limit stays between the floor and -threads, and the inflight count
\* never goes below zero (newGate, acquire, release, shrink).
THEOREM GateTypeCorrect == Spec => []TypeOK
<1>1. GateInv => TypeOK
  BY DEF GateInv
<1> QED
  BY <1>1, GateInit, GateStepKeeps, PTL DEF Spec

\* No interleaving of acquire, release and shrink makes g.inflight differ
\* from the number of goroutines inside the gate.
THEOREM GateCountsSlots == Spec => []SlotAccounting
<1>1. GateInv => SlotAccounting
  BY DEF GateInv
<1> QED
  BY <1>1, GateInit, GateStepKeeps, PTL DEF Spec

\* Signal in release() is enough: while a goroutine is parked, every free slot
\* has been announced to a goroutine that has yet to look.
THEOREM GateLosesNoWakeup == Spec => []NoLostWakeup
<1>1. GateInv => NoLostWakeup
  BY DEF GateInv
<1> QED
  BY <1>1, GateInit, GateStepKeeps, PTL DEF Spec

-----------------------------------------------------------------------------
\* A step of the gate is a step of the abstract pool or leaves it unchanged.
LEMMA GateStepIsPoolStep ==
  GateInv /\ [Next]_gateVars => [Pool!Next]_(Pool!poolVars)
<1> SUFFICES ASSUME GateInv, [Next]_gateVars
             PROVE  [Pool!Next]_(Pool!poolVars)
  OBVIOUS
<1> USE DEF GateInv
<1>1. ASSUME NEW w \in Workers, Admit(w), gpc[w] \in {"outside", "woken"}
      PROVE  Pool!Next
  <2>0. Pool!Cardinality(Holding) = Cardinality(Holding)
    BY DEF Pool!Cardinality, Cardinality
  <2>1. Pool!Occupy(w)
    BY <1>1, <2>0, AdmitMoves DEF Pool!Occupy, Admit, SlotAccounting
  <2> QED
    BY <2>1 DEF Pool!Next
<1>2. ASSUME NEW w \in Workers, Park(w), gpc[w] \in {"outside", "woken"}
      PROVE  UNCHANGED Pool!poolVars
  BY <1>2, ParkMoves DEF Park, Pool!poolVars
<1>3. ASSUME NEW w \in Workers, Release(w) PROVE Pool!Next
  <2>1. Pool!Vacate(w)
    BY <1>3, ReleaseMoves DEF Pool!Vacate, Release
  <2> QED
    BY <2>1 DEF Pool!Next
<1>4. ASSUME NEW w \in Workers, Shrink(w) PROVE [Pool!Next]_(Pool!poolVars)
  <2>1. w \in Holding /\ Holding' = Holding /\ limit' = Shrunk(limit)
    BY <1>4 DEF Shrink, Holding, Standing
  <2>2. limit \in Int /\ Floor <= limit /\ limit <= Threads /\ Floor \in Int
    BY GateAssumption DEF TypeOK, GateAssumption, Floor
  <2>3. CASE limit > Floor
    <3>1. limit' \in Floor .. (limit - 1)
      BY <2>1, <2>2, <2>3, ShrunkRange
    <3>2. Pool!Lower
      BY <2>1, <3>1 DEF Pool!Lower
    <3> QED
      BY <3>2 DEF Pool!Next
  <2>4. CASE limit <= Floor
    BY <2>1, <2>4 DEF Shrunk, Pool!poolVars
  <2> QED
    BY <2>2, <2>3, <2>4
<1>5. CASE UNCHANGED gateVars
  BY <1>5 DEF gateVars, Pool!poolVars, Holding, Standing
<1> QED
  BY <1>1, <1>2, <1>3, <1>4, <1>5 DEF Next, GateStep, Acquire, Recheck

\* The gate implements the pool: whoever acquire() lets in found a free slot,
\* and the capacity only goes down, never under the floor.
THEOREM GateImplementsSlotPool == Spec => ImplementsSlotPool
<1>1. Init => Pool!Init
  BY DEF Init, Pool!Init, Holding, Standing
<1> QED
  BY <1>1, GateInit, GateStepKeeps, GateStepIsPoolStep, PTL
     DEF Spec, ImplementsSlotPool, Pool!Spec
=============================================================================

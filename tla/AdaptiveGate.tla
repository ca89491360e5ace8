---------------------------- MODULE AdaptiveGate ----------------------------
(***************************************************************************)
(* adaptiveGate (fastTCPScan.go:148-196): the counting gate every probe    *)
(* passes.  `mu' makes each critical section one step.  cond.Wait releases *)
(* the mutex and suspends the goroutine, so acquire() is at least two      *)
(* steps for a goroutine that waits: it parks, is woken by a Signal, and   *)
(* tests the condition again, in a race with goroutines that only arrive   *)
(* now.  Signal wakes one waiter (which one is left open) and nobody when  *)
(* none waits; sync.Cond has no spurious wake-ups.                         *)
(***************************************************************************)
EXTENDS Integers, FiniteSets

CONSTANTS
  Workers,   \* the goroutines that probe
  Threads,   \* the value of -threads given to newGate
  FloorMin   \* newGate's constant floor, 50 in the code

\* -threads is a flag.Int that nothing checks: it may be zero or negative.
GateAssumption ==
  /\ IsFiniteSet(Workers)
  /\ Threads \in Int
  /\ FloorMin \in Nat \ {0}

ASSUME GateAssumption

VARIABLES
  limit,     \* g.limit
  inflight,  \* g.inflight
  gpc        \* where each goroutine stands with respect to the gate

gateVars == <<limit, inflight, gpc>>

Floor == IF Threads < FloorMin THEN Threads ELSE FloorMin

Standing(s) == {w \in Workers : gpc[w] = s}
Holding == Standing("holding")
Waiting == Standing("waiting")
Woken   == Standing("woken")

-----------------------------------------------------------------------------
Init ==
  /\ limit = Threads
  /\ inflight = 0
  /\ gpc = [w \in Workers |-> "outside"]

\* Mutant of Admit: the loop of acquire() tests > where the code tests >=.
AdmitOneTooMany(w) ==
  /\ inflight <= limit
  /\ inflight' = inflight + 1
  /\ gpc' = [gpc EXCEPT ![w] = "holding"]
  /\ UNCHANGED limit

Admit(w) ==
  /\ inflight < limit
  /\ inflight' = inflight + 1
  /\ gpc' = [gpc EXCEPT ![w] = "holding"]
  /\ UNCHANGED limit

\* Mutant of Park: the goroutine counts itself in before it waits.
ParkCounted(w) ==
  /\ inflight >= limit
  /\ inflight' = inflight + 1
  /\ gpc' = [gpc EXCEPT ![w] = "waiting"]
  /\ UNCHANGED limit

Park(w) ==
  /\ inflight >= limit
  /\ gpc' = [gpc EXCEPT ![w] = "waiting"]
  /\ UNCHANGED <<limit, inflight>>

\* acquire() up to its return or its first Wait.
Acquire(w) == gpc[w] = "outside" /\ (Admit(w) \/ Park(w))

\* A Signal resumed w inside Wait: it holds the mutex again and loops.
Recheck(w) == gpc[w] = "woken" /\ (Admit(w) \/ Park(w))

\* Mutant of Release: the slot is given back without cond.Signal.
ReleaseSilently(w) ==
  /\ gpc[w] = "holding"
  /\ inflight' = inflight - 1
  /\ gpc' = [gpc EXCEPT ![w] = "outside"]
  /\ UNCHANGED limit

Release(w) ==
  /\ gpc[w] = "holding"
  /\ inflight' = inflight - 1
  /\ gpc' \in IF Waiting = {}
              THEN {[gpc EXCEPT ![w] = "outside"]}
              ELSE {[gpc EXCEPT ![w] = "outside", ![v] = "woken"] : v \in Waiting}
  /\ UNCHANGED limit

\* Mutant of Shrunk: the quarter is taken off without the clamp to the floor.
ShrunkUnclamped(n) == IF n <= Floor THEN n ELSE (n * 3) \div 4

\* What shrink() makes of a limit: a quarter less, not under the floor.
Shrunk(n) ==
  LET quarterOff == (n * 3) \div 4
  IN  IF n <= Floor THEN n
      ELSE IF quarterOff < Floor THEN Floor ELSE quarterOff

\* Called by a goroutine inside the gate whose dial ran out of descriptors.
Shrink(w) ==
  /\ gpc[w] = "holding"
  /\ limit' = Shrunk(limit)
  /\ UNCHANGED <<inflight, gpc>>

GateStep(w) == Acquire(w) \/ Recheck(w) \/ Release(w) \/ Shrink(w)

Next == \E w \in Workers : GateStep(w)

Spec == Init /\ [][Next]_gateVars

\* A woken goroutine is runnable and a probe returns (dials and reads have
\* timeouts); nobody is obliged to call acquire().
Fairness == \A w \in Workers : WF_gateVars(Recheck(w)) /\ WF_gateVars(Release(w))

FairSpec == Spec /\ Fairness

-----------------------------------------------------------------------------
\* Types, and the range newGate and shrink() leave the limit in.
TypeOK ==
  /\ limit \in Int /\ Floor <= limit /\ limit <= Threads
  /\ inflight \in Nat
  /\ gpc \in [Workers -> {"outside", "waiting", "woken", "holding"}]

\* The counter g.inflight is the number of goroutines between acquire() and
\* release(): no interleaving of waiting, waking and shrinking loses or
\* duplicates a slot.
SlotAccounting == inflight = Cardinality(Holding)

\* No lost wake-up: while goroutines are parked, the free slots are all
\* promised to goroutines a Signal already woke.  Signal (not Broadcast) is
\* enough even though a newcomer may take the slot a woken goroutine was
\* told about, and though shrink() can make a Signal wake somebody in vain.
NoLostWakeup ==
  Waiting # {} => inflight + Cardinality(Woken) >= limit

\* A slot does not stay free for ever while somebody is parked for it.
NoIdleSlot == []<>(Waiting = {} \/ inflight >= limit)

\* The gate is a SlotPool: whoever is admitted found a free slot, the limit
\* goes down only, never under the floor, and waiting is invisible.
Pool == INSTANCE SlotPool
          WITH holders <- Holding, cap <- limit,
               Capacity <- Threads, Lowest <- Floor
ImplementsSlotPool == Pool!Spec
=============================================================================

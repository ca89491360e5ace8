------------------------------ MODULE SlotPool ------------------------------
(***************************************************************************)
(* What the rest of fastTCPScan may assume of adaptiveGate, without its    *)
(* counter, mutex and condition variable: a pool of slots that at most     *)
(* `cap' goroutines enter, whose capacity only ever goes down and never    *)
(* below Lowest.  A goroutine already inside keeps its slot when the       *)
(* capacity drops under the number of occupants.                           *)
(***************************************************************************)
EXTENDS Integers, FiniteSets

CONSTANTS
  Workers,   \* the goroutines that use the pool
  Capacity,  \* the capacity the pool starts with
  Lowest     \* the capacity it never goes below

VARIABLES
  holders,   \* the goroutines that hold a slot
  cap        \* the capacity now

poolVars == <<holders, cap>>

Init ==
  /\ holders = {}
  /\ cap = Capacity

Occupy(w) ==
  /\ w \notin holders
  /\ Cardinality(holders) < cap
  /\ holders' = holders \cup {w}
  /\ UNCHANGED cap

Vacate(w) ==
  /\ w \in holders
  /\ holders' = holders \ {w}
  /\ UNCHANGED cap

\* Only a goroutine that holds a slot finds out that descriptors ran out.
Lower ==
  /\ holders # {}
  /\ cap' \in Lowest .. (cap - 1)
  /\ UNCHANGED holders

Next == Lower \/ \E w \in Workers : Occupy(w) \/ Vacate(w)

Spec == Init /\ [][Next]_poolVars
=============================================================================

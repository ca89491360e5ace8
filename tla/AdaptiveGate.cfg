\* Five and more workers over a limit that shrinks twice: 7 -> 5 -> 4, the
\* second time clamped by the floor.
CONSTANTS
  Workers = {w1, w2, w3, w4, w5, w6, w7}
  Threads = 7
  FloorMin = 4
SPECIFICATION FairSpec
INVARIANTS TypeOK SlotAccounting NoLostWakeup
PROPERTIES NoIdleSlot ImplementsSlotPool

\* Two slots of payload and four calls a side: the indices wrap once with the
\* queue full, and every view of an index may lag by two stores.
CONSTANTS
  Capacity = 2
  Items = {a, b}
  Torn = torn
  MaxPushes = 4
  MaxPops = 4
SPECIFICATION Spec
INVARIANT IInv
INVARIANT NoSlotRace
INVARIANT LooksAreStable
PROPERTY ImplementsFifo
PROPERTY WaitFree
\* The callers of the queue may stop calling it.
CHECK_DEADLOCK FALSE

SPECIFICATION Spec
CONSTANTS
  G = {g1, g2, g3}
  Addr = {a1, a2}
  NoG = NoG
  NoAddr = NoAddr
  MaxCalls = 2
CHECK_DEADLOCK FALSE
INVARIANTS
  QueuesExact
  NoLostWakeup
PROPERTY ImplementsSemaphore

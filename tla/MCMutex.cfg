SPECIFICATION Spec
CONSTANTS
  G = {g1, g2, g3}
  Addr = {m}
  MutexSema = m
  NoG = NoG
  NoAddr = NoAddr
INVARIANTS
  MutualExclusion
  WordConsistent
  SingleWakeup
  NoWaiterForgotten
PROPERTY ImplementsLock

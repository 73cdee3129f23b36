SPECIFICATION Spec
CONSTANTS
  G = {g1, g2, g3, g4, g5, g6}
  WgSema = sema
  NoAddr = NoAddr
  Deltas <- SmallDeltas
  MaxCounter = 3
INVARIANTS
  NoPanic
  WaitersServed
PROPERTY WaitReturns

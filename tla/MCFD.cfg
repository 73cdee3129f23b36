SPECIFICATION Spec
CONSTANTS
  g1 = g1
  g2 = g2
  g3 = g3
  G = {g1, g2, g3}
  NoMode = NoMode
  NoG = NoG
  TheTimer = TheTimer
  Scenarios <- AllScenarios
INVARIANTS
  SleepersCounted
  NoThrow
  DestroyedLast
  NoSleeperForgotten
PROPERTIES
  OnTime
  CallsEnd
CHECK_DEADLOCK FALSE

SPECIFICATION HistorySpec
CONSTANTS
  Owner = Owner
  Thieves = {t1, t2}
  Value = {v1, v2}
  Nothing = Nothing
  None = None
  InitSize = 1
  DequeueLimit = 2
  Indices = 8
  MaxRings = 2
SYMMETRY Symmetry
INVARIANTS
  NothingJustified
  NothingRetained
PROPERTY
  Implements
CHECK_DEADLOCK FALSE

SPECIFICATION HistorySpec
CONSTANTS
  g1 = g1
  g2 = g2
  g3 = g3
  k1 = k1
  k2 = k2
  v1 = v1
  v2 = v2
  G = {g1, g2, g3}
  Value = {v1, v2}
  Call <- Calls
  MaxEntry = 6
  Nil = Nil
  Expunged = Expunged
  None = None
  Pending = Pending
INVARIANTS
  Linearizable
  DirtyComplete
VIEW View

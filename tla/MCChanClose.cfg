SPECIFICATION SceneSpec
CONSTANTS
  G = {g1, g2, g3}
  c1 = c1
  c2 = c2
  c3 = c3
  v1 = v1
  v2 = v2
  C = {c1, c2, c3}
  Cap <- Capacities
  Key <- Addresses
  Ops <- AllOps
  Scenes <- CloseScene
  Zero = Zero
  None = None
INVARIANT
  DefaultJustified
CHECK_DEADLOCK FALSE

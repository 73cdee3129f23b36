SPECIFICATION SceneSpec
CONSTANTS
  G = {g1, g2}
  C = {c1, c2, c3}
  c1 = c1
  c2 = c2
  c3 = c3
  Background = Background
  Nobody = Nobody
  None = None
  Trees <- AllTrees
  MaxCalls = 2
  Callers = {h1, h2, h3}
  Panics = {"a", "b"}
INVARIANTS
  CancelReaches
  NothingLeaks
  OnceForAll
PROPERTIES
  ContextsEnd
  CallsEnd
CHECK_DEADLOCK FALSE

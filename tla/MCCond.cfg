SPECIFICATION MCSpec
CONSTANTS
  G = {g1, g2, g3}
  NoG = NoG
  Tickets = 6
  MaxItems = 2
INVARIANT
  NoItemForgotten
PROPERTIES
  Implements
  FastPathCovers
  NotifiedWakes
CHECK_DEADLOCK FALSE

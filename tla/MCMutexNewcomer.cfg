SPECIFICATION Safety
CONSTANTS
  G = {g1, g2, g3}
  Addr = {m}
  MutexSema = m
  NoG = NoG
  NoAddr = NoAddr
SYMMETRY Goroutines
PROPERTY NewcomersQueue

SPECIFICATION Spec
CONSTANTS
  G = {g1, g2, g3, g4, g5}
  NoG = NoG
  ReaderSem = readerSem
  WriterSem = writerSem
  NoAddr = NoAddr
  rwmutexMaxReaders = 16
INVARIANTS
  WriterExcludes
  CountsExact
PROPERTIES
  NoNewAdmissions
  WriterGetsIn

---------------------------- MODULE MCWaitGroup ----------------------------
EXTENDS WaitGroup

SmallDeltas == -2 .. 2
=============================================================================

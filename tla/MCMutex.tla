------------------------------ MODULE MCMutex ------------------------------
EXTENDS Mutex, TLC

Goroutines == Permutations(G)
=============================================================================

------------------------- MODULE MCRefreshSession -------------------------
EXTENDS RefreshSession, TLC

\* The goroutines are alike.
ThreadSymmetry == Permutations(Threads)
=============================================================================

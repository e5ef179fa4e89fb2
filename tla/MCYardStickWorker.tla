-------------------------- MODULE MCYardStickWorker --------------------------
\* A small instance of YardStickWorker for TLC.
EXTENDS YardStickWorker, TLC

Symmetry == Permutations(Threads) \cup Permutations(Callers)
=============================================================================

------------------------------- MODULE MCLogger -------------------------------
EXTENDS Logger, TLC
CONSTANTS t1, t2, t3, f1, f2
Symmetry == Permutations(Threads) \cup Permutations(Paths)
=============================================================================

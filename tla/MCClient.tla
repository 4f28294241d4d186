------------------------------ MODULE MCClient -----------------------------
EXTENDS Client, TLC
CONSTANTS v1, v2, v3, p1, p2, p3, r1, r2
Symmetry == Permutations(Slots)
=============================================================================

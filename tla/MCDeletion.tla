----------------------------- MODULE MCDeletion -----------------------------
EXTENDS SafeDelete, TLC
CONSTANTS n1, n2
\* A second backend that counts on, and two that both count from 1.
Continued == n1 :> {1, 2} @@ n2 :> {3}
Both == n1 :> {1} @@ n2 :> {1}
\* Originals are interchangeable, and taps.
Symmetry == Permutations(Photos) \cup Permutations(Taps)
=============================================================================

------------------------------ MODULE MCUpload ------------------------------
EXTENDS ResumableUpload, TLC
\* Requests are interchangeable, and so are workers; sessions are not, because
\* an idle request names one of them.
Symmetry == Permutations(Handlers) \cup Permutations(Workers)
=============================================================================

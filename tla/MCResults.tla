----------------------------- MODULE MCResults -----------------------------
EXTENDS ProcessedResults, TLC, FiniteSets
\* Workers, API requests and client_request_ids are interchangeable.
Symmetry == Permutations(Handlers) \cup Permutations(Workers) \cup Permutations(Requests)

\* Bound: which requests may be under way at once.
CONSTANTS Creators, Downloaders
MCNext ==
    \/ \E w \in Workers : WorkerStep(w)
    \/ \E h \in Creators : RenditionRequest(h)
    \/ \E h \in Downloaders : DownloadRequest(h)
MCSpec == Init /\ [][MCNext]_vars
MCFairSpec == MCSpec /\ Fairness
=============================================================================

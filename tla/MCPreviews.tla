----------------------------- MODULE MCPreviews ----------------------------
EXTENDS LegacyPreviews, TLC
CONSTANTS v1, p1, w1, w2, w3, f1, f2, f3, f4, f5

\* A video and a photo in two workers with one of everything; three workers
\* on one video, two of them past their lease; a replay whose handling of an
\* error fails; and one worker on each with several errors, on the photo with
\* the schema that refuses LOG and with the one that does not.
Bound(assets, workers, faults, kills, overdue, schema) ==
    [assets |-> assets, workers |-> workers, faults |-> faults, kills |-> kills,
     overdue |-> overdue, schema |-> schema]
ModelLoads ==
    {Bound({v1, p1}, {w1, w2}, 1, 1, 1, "before008"),
     Bound({v1}, {w1, w2, w3}, 1, 0, 2, "before008"),
     Bound({v1}, {w1, w2}, 2, 0, 1, "before008"),
     Bound({p1}, {w1}, 3, 1, 0, "before008"),
     Bound({p1}, {w1}, 3, 1, 0, "after008"),
     Bound({v1}, {w1}, 3, 2, 0, "before008")}
=============================================================================

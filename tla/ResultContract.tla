--------------------------- MODULE ResultContract ---------------------------
(***************************************************************************)
(* What the results of an asset promise its user, without workers, files   *)
(* or leases. The formal preview is settled once, and published at most    *)
(* once. Selections are numbered as they are accepted, each new one needs  *)
(* something to look at, and the selection on display only ever changes to *)
(* the newest one accepted.                                                *)
(***************************************************************************)
EXTENDS Integers

VARIABLES
    preview,    \* the formal preview
    newest,     \* number of the newest selection accepted
    displayed   \* number of the selection on display; 0: none

Init ==
    /\ preview = "pending"
    /\ newest \in {0, 1} /\ displayed = newest

Settle == preview = "pending" /\ preview' \in {"ready", "failed"} /\ UNCHANGED <<newest, displayed>>
Select ==
    /\ preview = "ready" \/ displayed > 0
    /\ newest' = newest + 1
    /\ UNCHANGED <<preview, displayed>>
Display ==
    /\ displayed < newest
    /\ displayed' = newest
    /\ UNCHANGED <<preview, newest>>

Next == Settle \/ Select \/ Display
Spec == Init /\ [][Next]_<<preview, newest, displayed>>
=============================================================================

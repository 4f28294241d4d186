-------------------------- MODULE DeletionContract --------------------------
(***************************************************************************)
(* What deletion promises the owner of the originals, without screens,     *)
(* replies or stored records: an original leaves the phone only while a    *)
(* backend keeps a copy of it whose preview the owner has confirmed, and   *)
(* such a copy stays one.                                                  *)
(***************************************************************************)
CONSTANT Photos

VARIABLES
    library,    \* originals on the phone
    kept        \* originals with a confirmed copy on a backend

Init == library = Photos /\ kept = {}

KeepMore == UNCHANGED library /\ kept \subseteq kept' /\ kept' \subseteq Photos
Delete == \E p \in kept : library' = library \ {p} /\ UNCHANGED kept

Next == KeepMore \/ Delete
Spec == Init /\ [][Next]_<<library, kept>>
=============================================================================

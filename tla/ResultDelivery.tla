--------------------------- MODULE ResultDelivery ---------------------------
(***************************************************************************)
(* GET /assets/{id}/results/{result_id}: the result is resolved and its    *)
(* file hashed, then everything is read again in a transaction in which    *)
(* the file is opened; the open descriptor is what is streamed.            *)
(***************************************************************************)
EXTENDS ResultState

AcceptDownload(h, o) ==
    /\ handler[h].pc = "idle" /\ result[o].status # "none"
    /\ handler' = [handler EXCEPT ![h] =
        [pc |-> "begin", op |-> "download", o |-> o, base |-> Nobody]]
    /\ UNCHANGED <<tables, disk, worker, interruptions>>

ResolveResult(h) ==
    /\ handler[h].pc = "begin" /\ handler[h].op = "download"
    /\ handler' = [handler EXCEPT ![h] =
        IF Deliverable(handler[h].o) THEN [@ EXCEPT !.pc = "ready"] ELSE NoRequest]
    /\ UNCHANGED <<tables, disk, worker, interruptions>>

\* Mutant: what was resolved is opened without another look.
OpenResolved(h) ==
    /\ handler[h].pc = "ready" /\ handler[h].op = "download"
    /\ handler' = [handler EXCEPT ![h].pc = "serving"]
    /\ UNCHANGED <<tables, disk, worker, interruptions>>

OpenResult(h) ==
    /\ handler[h].pc = "ready" /\ handler[h].op = "download"
    /\ handler' = [handler EXCEPT ![h] =
        IF Deliverable(handler[h].o) THEN [@ EXCEPT !.pc = "serving"] ELSE NoRequest]
    /\ UNCHANGED <<tables, disk, worker, interruptions>>

EndDownload(h) ==
    /\ handler[h].pc = "serving"
    /\ handler' = [handler EXCEPT ![h] = NoRequest]
    /\ UNCHANGED <<tables, disk, worker, interruptions>>

DownloadRequest(h) ==
    \/ \E o \in Owners : AcceptDownload(h, o)
    \/ ResolveResult(h) \/ OpenResult(h) \/ EndDownload(h)
=============================================================================

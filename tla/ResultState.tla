---------------------------- MODULE ResultState ----------------------------
(***************************************************************************)
(* The state of one video asset whose processed results are being made:    *)
(* its formal preview (FormalPreview), the renditions its user selects     *)
(* (Renditions) and the downloads of either (ResultDelivery). Each result  *)
(* has an owner: Formal, or the client_request_id of a rendition. Tables   *)
(* and files are functions of the owner. The asset is in the Phase 2B      *)
(* schema, with preview_generation 1, the only one the code assigns.       *)
(***************************************************************************)
EXTENDS Integers, FiniteSets

CONSTANTS
    Requests,   \* client_request_id (UNIQUE): each names at most one rendition
    Formal,     \* owner of the formal preview: its job, attempt, result, files
    Nobody,     \* NULL
    Handlers,   \* API requests that may be in flight at once
    Workers,    \* worker processes (docker-compose.yml starts one)
    MaxInterruptions   \* bound: workers killed, or failures left unrecorded

VARIABLES
    asset,      \* assets: preview_status, pointers, rendition_selection_generation
    attempt,    \* formal_preview_attempts: state, detection snapshot, failure_code
    rendition,  \* renditions: state, selection_generation, base_result_id, error
    job,        \* jobs: status of each owner's job
    result,     \* processed_results: status and sha256
    candidate,  \* tmp/formal-previews/{attempt}/candidate.mp4
    published,  \* previews/formal/{attempt}.mp4, previews/renditions/{id}.mp4
    linked,     \* candidate and published[Formal] are one file (os.link)
    worker,     \* worker processes
    handler,    \* API requests in flight
    interruptions

tables == <<asset, attempt, rendition, job, result>>
disk == <<candidate, published, linked>>
vars == <<tables, disk, worker, handler, interruptions>>

Owners == Requests \cup {Formal}

(***************************************************************************)
(* What a file holds: nothing (no file), what FFmpeg has written so far,   *)
(* or a whole video. A digest determines the bytes, so digests are the     *)
(* same values.                                                            *)
(***************************************************************************)
Bytes == {"none", "partial", "full"}

Terminal == {"ready", "failed", "superseded"}
AttemptState == {"none", "probing", "resolving", "rendering", "finalizing"} \cup Terminal
InProgress == {"queued", "validating", "rendering", "finalizing"}
RenditionState == {"none"} \cup InProgress \cup Terminal
Detection == {"none", "apple_log", "not_log", "unknown"}
FailureCode == {"none", "step_failed", "relation_invalid", "not_eligible"}

Asset ==
    [preview: {"preview_generating", "preview_ready", "failed"},
     formal: BOOLEAN, active: Owners \cup {Nobody}, selection: Nat]
Attempt == [state: AttemptState, detection: Detection, failure: FailureCode]
Rendition ==
    [state: RenditionState, generation: Nat, base: Owners \cup {Nobody},
     error: FailureCode]
Result == [status: {"none", "ready", "superseded"}, sha: Bytes]
JobStatus == {"none", "queued", "running", "done", "failed"}
Pc ==
    {"idle", "prepare", "source", "probe", "resolve", "discard", "render", "rendering",
     "inspect", "advance", "promote", "check", "commit", "tidy", "undo", "undone",
     "clean", "validate", "begin", "end", "refuse", "fail", "drop"}
Process ==
    [pc: Pc, owner: Owners, from: AttemptState \cup RenditionState, id: Bytes,
     code: FailureCode, fd: {"none", "candidate", "published", "orphan"}]
Request ==
    [pc: {"idle", "begin", "ready", "serving"}, op: {"none", "create", "download"},
     o: Owners, base: Owners \cup {Nobody}]

Idle ==
    [pc |-> "idle", owner |-> Formal, from |-> "none", id |-> "none",
     code |-> "none", fd |-> "none"]
NoRequest == [pc |-> "idle", op |-> "none", o |-> Formal, base |-> Nobody]
NoResult == [status |-> "none", sha |-> "none"]
\* What insert_ready_processed_result stores for a file of this digest.
ReadyResult(sha) == [status |-> "ready", sha |-> sha]
NoRendition == [state |-> "none", generation |-> 0, base |-> Nobody, error |-> "none"]

\* What the models assume of their parameters.
ASSUME ResultAssumptions ==
    /\ IsFiniteSet(Requests) /\ Formal \notin Requests
    /\ Nobody \notin Requests \cup {Formal}
    /\ MaxInterruptions \in Nat

(***************************************************************************)
(* Who the active pointer belongs to. A managed result is authoritative    *)
(* only while no newer selection is in progress or ready.                  *)
(***************************************************************************)
HasNewerCandidate(g) ==
    \E r \in Requests :
        rendition[r].generation > g /\ rendition[r].state \in InProgress \cup {"ready"}
Authority ==
    IF asset.active = Nobody THEN "none"
    ELSE IF result[asset.active].status # "ready" THEN "ambiguous"
    ELSE IF asset.active = Formal THEN "current_formal"
    ELSE IF /\ rendition[asset.active].state = "ready"
            /\ ~HasNewerCandidate(rendition[asset.active].generation)
    THEN "current_managed" ELSE "ambiguous"

(***************************************************************************)
(* The file behind a result is there and has the recorded digest           *)
(* (verify_processed_result), and the result is the formal preview of the  *)
(* asset or its authoritative managed result.                              *)
(***************************************************************************)
Intact(o) == published[o] # "none" /\ published[o] = result[o].sha
\* _resolve_formal_delivery. Attempt and provenance are written with asset.formal.
FormalDeliverable == asset.formal /\ asset.preview = "preview_ready"
Deliverable(o) ==
    /\ result[o].status = "ready"
    /\ Intact(o)
    /\ \/ o = Formal /\ FormalDeliverable
       \/ o \in Requests /\ asset.active = o /\ Authority = "current_managed"

\* Jobs run in the order of their creation; the preview's job comes first.
Older(p, o) ==
    /\ p # o
    /\ \/ p = Formal
       \/ o # Formal /\ rendition[p].generation < rendition[o].generation

Goto(w, pc) == worker' = [worker EXCEPT ![w].pc = pc]
Fail(w, pc, code) == worker' = [worker EXCEPT ![w].pc = pc, ![w].code = code, ![w].fd = "none"]
Release(w) == worker' = [worker EXCEPT ![w] = Idle]

(***************************************************************************)
(* A new upload, or an asset that Phase 2B migrated: the migration keeps a *)
(* current managed rendition, clears any other result and queues the       *)
(* formal preview's job.                                                   *)
(***************************************************************************)
Migrated == [state |-> "ready", generation |-> 1, base |-> Nobody, error |-> "none"]
Init ==
    /\ \E kept \in {{}} \cup {{r} : r \in Requests} :
        /\ asset = [preview |-> "preview_generating", formal |-> FALSE,
                    active |-> IF kept = {} THEN Nobody ELSE CHOOSE r \in kept : TRUE,
                    selection |-> IF kept = {} THEN 0 ELSE 1]
        /\ rendition = [r \in Requests |-> IF r \in kept THEN Migrated ELSE NoRendition]
        /\ job = [o \in Owners |->
                    IF o = Formal THEN "queued" ELSE IF o \in kept THEN "done" ELSE "none"]
        /\ result = [o \in Owners |->
                    IF o \in kept THEN ReadyResult("full") ELSE NoResult]
        /\ published = [o \in Owners |-> IF o \in kept THEN "full" ELSE "none"]
    /\ attempt = [state |-> "none", detection |-> "none", failure |-> "none"]
    /\ candidate = "none" /\ linked = FALSE
    /\ worker = [w \in Workers |-> Idle]
    /\ handler = [h \in Handlers |-> NoRequest]
    /\ interruptions = 0
=============================================================================

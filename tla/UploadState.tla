---------------------------- MODULE UploadState ----------------------------
(***************************************************************************)
(* The state shared by the two components of a resumable upload: the API   *)
(* handlers (UploadSessions) and the finalize worker (UploadFinalize).     *)
(* They meet in three tables of one SQLite database (upload_sessions,      *)
(* upload_chunks, jobs) and in two directories of the media root (the      *)
(* session's temporary directory, the originals).                          *)
(***************************************************************************)
EXTENDS Integers, FiniteSets

CONSTANTS
    Sessions,      \* client_upload_id values; each names at most one session row
    NumChunks,     \* chunks of every session's file
    Handlers,      \* API requests that may be in flight at once
    Workers,       \* worker processes (docker-compose.yml starts one)
    ActiveLimit,   \* settings.upload_session_active_limit
    Expiry,        \* settings.upload_session_expiry_seconds, in ticks
    Lease,         \* settings.job_lease_seconds, in ticks
    MaxTime,       \* bound: the clock stops here
    MaxCrashes,    \* bound: worker processes killed
    MaxPowerLoss,  \* bound: losses of power
    Absent,        \* no file at a path
    NoWriter       \* nobody holds SQLite's write lock

VARIABLES
    clock,      \* wall clock, in ticks
    session,    \* upload_sessions: status, failure_code and expires_at
    rows,       \* upload_chunks: the digest of each verified chunk, or "none"
    job,        \* jobs: the session's upload_finalize job, status and lease
    assets,     \* assets: rows whose original_path is this session's
    previews,   \* jobs: rows with dedup_key initial-preview:{asset}
    files,      \* tmp/upload-sessions/{session}/chunks/{index}.part
    assembly,   \* tmp/upload-sessions/{session}/assembly.part
    final,      \* originals/sessions/{session}
    handler,    \* API requests in flight
    worker,     \* worker processes
    writer,     \* the handler inside a write transaction that spans steps
    crashes,    \* workers killed so far
    losses      \* losses of power so far

database == <<session, rows, job, assets, previews>>
disk == <<files, assembly, final>>
bounds == <<crashes, losses>>
vars == <<clock, database, disk, handler, worker, writer, bounds>>

(***************************************************************************)
(* A chunk's bytes are "good" (those of the file whose digest the session  *)
(* was created with) or "bad" (other bytes sent with their own digest, as  *)
(* when the phone's file changed after it was hashed). A digest determines *)
(* the bytes, so rows holds the same values. "torn" is what a loss of      *)
(* power can leave of a file that was never flushed.                       *)
(***************************************************************************)
Chunks == 0 .. NumChunks - 1
Data == {"good", "bad"}
Row == Data \cup {"none"}
Bytes == Row \cup {"torn"}
File == [Chunks -> Bytes]

Expirable == {"created", "uploading", "ready_to_finalize"}
Uploadable == {"created", "uploading"}
Cancellable == {"created", "uploading", "ready_to_finalize", "failed"}
Status == Expirable \cup
    {"none", "assembling", "completed", "failed", "expired", "cancelled"}

RetryableCodes == {"verified_chunk_missing", "finalization_storage_failure"}
FailureCode == RetryableCodes \cup
    {"none", "session_not_assembling", "final_original_hash_mismatch",
     "verified_chunks_missing", "verified_chunk_hash_mismatch",
     "completed_hash_mismatch"}

Session == [status: Status, failure: FailureCode, expires: Nat]
Job == [status: {"none", "queued", "running", "done", "failed"}, lease: Nat]

Operation == {"none", "create", "get", "chunk", "finalize", "cancel"}
Request ==
    [pc: {"idle", "begin", "ready", "promoted", "cleanup"}, op: Operation,
     s: Sessions, i: Chunks, d: Data, now: Nat, staged: BOOLEAN]
Process ==
    [pc: {"idle", "polled", "claimed", "ensure", "open", "copy", "commit",
          "clean", "failing", "marking"},
     s: Sessions, next: 0 .. NumChunks, code: FailureCode,
     fd: {"none", "assembly", "final", "orphan"}]

AnySession == CHOOSE s \in Sessions : TRUE
NoSession == [status |-> "none", failure |-> "none", expires |-> 0]
NoJob == [status |-> "none", lease |-> 0]
NoRequest ==
    [pc |-> "idle", op |-> "none", s |-> AnySession, i |-> 0, d |-> "good",
     now |-> 0, staged |-> FALSE]
NoProcess ==
    [pc |-> "idle", s |-> AnySession, next |-> 0, code |-> "none", fd |-> "none"]

NoChunks == [i \in Chunks |-> "none"]
Complete == [i \in Chunks |-> "good"]   \* the file the session was created for
TornFile == [i \in Chunks |-> "torn"]

\* What the models assume of their parameters.
ASSUME UploadAssumptions ==
    /\ Sessions # {} /\ IsFiniteSet(Sessions)
    /\ NumChunks \in Nat \ {0}
    /\ ActiveLimit \in Nat \ {0} /\ Expiry \in Nat \ {0} /\ Lease \in Nat \ {0}
    /\ MaxTime \in Nat /\ MaxCrashes \in Nat /\ MaxPowerLoss \in Nat
    /\ Absent \notin File /\ NoWriter \notin Handlers

\* The column retryable is read only together with status = 'failed'.
Retryable(r) == r.status = "failed" /\ r.failure \in RetryableCodes

\* Sessions that count against the limit.
Active(r) ==
    r.status \in {"created", "uploading", "ready_to_finalize", "assembling"}
        \/ Retryable(r)

\* Every chunk of the session has a verified row.
AllVerified(s) == \A i \in Chunks : rows[s][i] # "none"

(***************************************************************************)
(* shutil.rmtree of the session's directory and unlink of its staging      *)
(* files. A process keeps the file it has open when the path goes away.    *)
(***************************************************************************)
Unstage(s) ==
    [h \in Handlers |->
        IF handler[h].s = s THEN [handler[h] EXCEPT !.staged = FALSE] ELSE handler[h]]
Orphan(s) ==
    [w \in Workers |->
        IF worker[w].s = s /\ worker[w].fd = "assembly"
        THEN [worker[w] EXCEPT !.fd = "orphan"] ELSE worker[w]]
RemoveTemporaryFiles(s) ==
    /\ files' = [files EXCEPT ![s] = NoChunks]
    /\ assembly' = [assembly EXCEPT ![s] = Absent]
    /\ UNCHANGED final

Init ==
    /\ clock = 0
    /\ session = [s \in Sessions |-> NoSession]
    /\ rows = [s \in Sessions |-> NoChunks]
    /\ job = [s \in Sessions |-> NoJob]
    /\ assets = [s \in Sessions |-> 0]
    /\ previews = [s \in Sessions |-> 0]
    /\ files = [s \in Sessions |-> NoChunks]
    /\ assembly = [s \in Sessions |-> Absent]
    /\ final = [s \in Sessions |-> Absent]
    /\ handler = [h \in Handlers |-> NoRequest]
    /\ worker = [w \in Workers |-> NoProcess]
    /\ writer = NoWriter
    /\ crashes = 0
    /\ losses = 0
=============================================================================

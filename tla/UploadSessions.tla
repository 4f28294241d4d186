--------------------------- MODULE UploadSessions ---------------------------
(***************************************************************************)
(* The API of resumable uploads: POST /upload-sessions, GET, PUT chunk,    *)
(* POST finalize and DELETE. Each request captures the time, waits for     *)
(* SQLite's write lock, runs one transaction, and may then remove the      *)
(* session's temporary files outside it. FastAPI runs the requests         *)
(* concurrently, so other requests and the worker run between those steps. *)
(***************************************************************************)
EXTENDS UploadState

Due(r, now) == r.expires <= now /\ (r.status \in Expirable \/ Retryable(r))
ExpireIfDue(r, now) == IF Due(r, now) THEN [r EXCEPT !.status = "expired"] ELSE r

\* The session as the request's transaction sees it, expired if it is due.
Current(h) == ExpireIfDue(session[handler[h].s], handler[h].now)
Touched(r, h) == [r EXCEPT !.expires = handler[h].now + Expiry]

\* The request holds the write lock and runs its transaction.
Transaction(h, op) ==
    handler[h].pc = "ready" /\ handler[h].op = op /\ writer = NoWriter

Done(h) == handler' = [handler EXCEPT ![h] = NoRequest]
Goto(h, pc) == handler' = [handler EXCEPT ![h].pc = pc]
\* POST /upload-sessions reads its session back through get_upload_session.
ThenGet(h) == handler' = [handler EXCEPT ![h].pc = "begin", ![h].op = "get"]

Reply(h, expired) == IF expired THEN Goto(h, "cleanup") ELSE Done(h)
OnlyHandler == UNCHANGED <<clock, database, disk, worker, writer, bounds>>

-----------------------------------------------------------------------------
\* A session id is known to the client only once its row exists.
Accept(h) ==
    /\ handler[h].pc = "idle"
    /\ \E op \in {"create", "get", "finalize", "cancel"}, s \in Sessions :
        /\ op = "create" \/ session[s].status # "none"
        /\ handler' = [handler EXCEPT ![h] =
               [NoRequest EXCEPT !.pc = "begin", !.op = op, !.s = s]]
    /\ OnlyHandler

\* PUT chunk: the body is streamed to a staging file and its digest matched
\* before the time is captured.
AcceptChunk(h) ==
    /\ handler[h].pc = "idle"
    /\ \E s \in Sessions, i \in Chunks, d \in Data :
        /\ session[s].status # "none"
        /\ handler' = [handler EXCEPT ![h] =
               [NoRequest EXCEPT !.pc = "begin", !.op = "chunk", !.s = s,
                                 !.i = i, !.d = d, !.staged = TRUE]]
    /\ OnlyHandler

\* now = utc_now(), before BEGIN IMMEDIATE.
Capture(h) ==
    /\ handler[h].pc = "begin"
    /\ handler' = [handler EXCEPT ![h].pc = "ready", ![h].now = clock]
    /\ OnlyHandler

\* The session exists. Expiry found here is rolled back with the error.
ReturnSession(h) ==
    /\ Transaction(h, "create")
    /\ session[handler[h].s].status # "none"
    /\ \/ Done(h)                      \* session_metadata_conflict
       \/ IF Current(h).status \in {"expired", "cancelled"}
          THEN Reply(h, Current(h).status = "expired")
          ELSE ThenGet(h)
    /\ OnlyHandler

\* Mutant: the limit is off by one.
CreateOverLimit(h) ==
    LET s == handler[h].s
        swept == [t \in Sessions |-> ExpireIfDue(session[t], handler[h].now)]
    IN  /\ Transaction(h, "create")
        /\ session[s].status = "none"
        /\ IF Cardinality({t \in Sessions : Active(swept[t])}) > ActiveLimit
           THEN Done(h) /\ UNCHANGED session
           ELSE /\ session' = [swept EXCEPT ![s] =
                       Touched([NoSession EXCEPT !.status = "created"], h)]
                /\ ThenGet(h)
        /\ UNCHANGED <<clock, rows, job, assets, previews, disk, worker, writer, bounds>>

\* The expiry of the other sessions is rolled back when the limit is reached.
CreateSession(h) ==
    LET s == handler[h].s
        swept == [t \in Sessions |-> ExpireIfDue(session[t], handler[h].now)]
    IN  /\ Transaction(h, "create")
        /\ session[s].status = "none"
        /\ IF Cardinality({t \in Sessions : Active(swept[t])}) >= ActiveLimit
           THEN Done(h) /\ UNCHANGED session
           ELSE /\ session' = [swept EXCEPT ![s] =
                       Touched([NoSession EXCEPT !.status = "created"], h)]
                /\ ThenGet(h)
        /\ UNCHANGED <<clock, rows, job, assets, previews, disk, worker, writer, bounds>>

GetSessionOrExpire(h) ==
    /\ Transaction(h, "get")
    /\ session' = [session EXCEPT ![handler[h].s] = Current(h)]
    /\ Reply(h, Current(h).status = "expired")
    /\ UNCHANGED <<clock, rows, job, assets, previews, disk, worker, writer, bounds>>

-----------------------------------------------------------------------------
\* PUT chunk: expired, not uploadable, a different digest for a verified
\* chunk, or a staging file that a cleanup removed. Everything is rolled back.
RefuseChunk(h) ==
    LET r == handler[h] IN
    /\ Transaction(h, "chunk")
    /\ \/ Current(h).status \notin Uploadable
       \/ rows[r.s][r.i] \notin {"none", r.d}
       \/ rows[r.s][r.i] = "none" /\ ~r.staged
    /\ Reply(h, Current(h).status = "expired")
    /\ OnlyHandler

\* The same chunk again: only the activity time moves.
RepeatChunk(h) ==
    LET r == handler[h] IN
    /\ Transaction(h, "chunk")
    /\ Current(h).status \in Uploadable
    /\ rows[r.s][r.i] = r.d
    /\ session' = [session EXCEPT ![r.s] = Touched(@, h)]
    /\ Done(h)
    /\ UNCHANGED <<clock, rows, job, assets, previews, disk, worker, writer, bounds>>

\* Mutant: a chunk that is already verified is replaced as well.
PromoteAnyChunk(h) ==
    LET r == handler[h] IN
    /\ Transaction(h, "chunk")
    /\ Current(h).status \in Uploadable
    /\ r.staged
    /\ files' = [files EXCEPT ![r.s][r.i] = r.d]
    /\ handler' = [handler EXCEPT ![h].pc = "promoted", ![h].staged = FALSE]
    /\ writer' = h
    /\ UNCHANGED <<clock, database, assembly, final, worker, bounds>>

\* staging_path.replace(canonical_path), inside the open transaction.
PromoteChunk(h) ==
    LET r == handler[h] IN
    /\ Transaction(h, "chunk")
    /\ Current(h).status \in Uploadable
    /\ rows[r.s][r.i] = "none" /\ r.staged
    /\ files' = [files EXCEPT ![r.s][r.i] = r.d]
    /\ handler' = [handler EXCEPT ![h].pc = "promoted", ![h].staged = FALSE]
    /\ writer' = h
    /\ UNCHANGED <<clock, database, assembly, final, worker, bounds>>

\* The row, created -> uploading, the activity time, ready when complete.
CommitChunk(h) ==
    LET r == handler[h] IN
    /\ handler[h].pc = "promoted"
    /\ rows' = [rows EXCEPT ![r.s][r.i] = r.d]
    /\ session' = [session EXCEPT ![r.s] =
           [Touched(@, h) EXCEPT !.status =
               IF \A i \in Chunks : rows'[r.s][i] # "none"
               THEN "ready_to_finalize" ELSE "uploading"]]
    /\ writer' = NoWriter
    /\ Done(h)
    /\ UNCHANGED <<clock, job, assets, previews, disk, worker, bounds>>

-----------------------------------------------------------------------------
\* Everything finalize_upload_session answers without changing a row: 410 on
\* expiry (rolled back), 409, and the session as it is when it is assembling
\* or completed.
FinalizeWithoutChange(h) ==
    LET s == handler[h].s
        status == Current(h).status
    IN  /\ Transaction(h, "finalize")
        /\ \/ status \in {"expired", "cancelled", "assembling", "completed"}
           \/ status = "failed" /\ ~(Retryable(session[s]) /\ job[s].status = "failed")
           \/ status \in Expirable /\ ~AllVerified(s)
        /\ Reply(h, status = "expired")
        /\ OnlyHandler

\* failed -> assembling, and the session's own job failed -> queued.
RequeueFinalize(h) ==
    LET s == handler[h].s IN
    /\ Transaction(h, "finalize")
    /\ Retryable(Current(h)) /\ job[s].status = "failed"
    /\ session' = [session EXCEPT ![s] =
           [Touched(@, h) EXCEPT !.status = "assembling", !.failure = "none"]]
    /\ job' = [job EXCEPT ![s] = [status |-> "queued", lease |-> 0]]
    /\ Done(h)
    /\ UNCHANGED <<clock, rows, assets, previews, disk, worker, writer, bounds>>

\* The first finalize: insert_or_return_job keeps a job that already exists.
StartFinalize(h) ==
    LET s == handler[h].s IN
    /\ Transaction(h, "finalize")
    /\ Current(h).status \in Expirable /\ AllVerified(s)
    /\ session' = [session EXCEPT ![s] =
           [Touched(@, h) EXCEPT !.status = "assembling", !.failure = "none"]]
    /\ job' = [job EXCEPT ![s] = IF @.status = "none" THEN [@ EXCEPT !.status = "queued"] ELSE @]
    /\ Done(h)
    /\ UNCHANGED <<clock, rows, assets, previews, disk, worker, writer, bounds>>

\* Mutant: an assembling session can be cancelled too.
CancelAssembling(h) ==
    LET s == handler[h].s
        r == Current(h)
        ok == r.status \in Cancellable \cup {"assembling"} /\ (r.status = "failed" => Retryable(r))
    IN  /\ Transaction(h, "cancel")
        /\ session' = IF ok THEN [session EXCEPT ![s].status = "cancelled"] ELSE session
        /\ Reply(h, ok \/ r.status = "expired")
        /\ UNCHANGED <<clock, rows, job, assets, previews, disk, worker, writer, bounds>>

\* DELETE: 204 and the files go; 410 on expiry (rolled back); 409 otherwise.
CancelSession(h) ==
    LET s == handler[h].s
        r == Current(h)
        ok == r.status \in Cancellable /\ (r.status = "failed" => Retryable(r))
    IN  /\ Transaction(h, "cancel")
        /\ session' = IF ok THEN [session EXCEPT ![s].status = "cancelled"] ELSE session
        /\ Reply(h, ok \/ r.status = "expired")
        /\ UNCHANGED <<clock, rows, job, assets, previews, disk, worker, writer, bounds>>

\* cleanup_session_temporary_files, after the transaction ended.
CleanupTemporaryFiles(h) ==
    LET s == handler[h].s IN
    /\ handler[h].pc = "cleanup"
    /\ RemoveTemporaryFiles(s)
    /\ handler' = [Unstage(s) EXCEPT ![h] = NoRequest]
    /\ worker' = Orphan(s)
    /\ UNCHANGED <<clock, database, writer, bounds>>

\* The request ends early: the client is gone, SQLite stays busy past
\* busy_timeout, or the API process is killed. An open transaction rolls back;
\* a chunk it had already promoted stays on disk.
RequestLost(h) ==
    /\ handler[h].pc # "idle"
    /\ Done(h)
    /\ writer' = IF writer = h THEN NoWriter ELSE writer
    /\ UNCHANGED <<clock, database, disk, worker, bounds>>

HandlerStep(h) ==
    \/ Accept(h) \/ AcceptChunk(h) \/ Capture(h)
    \/ ReturnSession(h) \/ CreateSession(h) \/ GetSessionOrExpire(h)
    \/ RefuseChunk(h) \/ RepeatChunk(h) \/ PromoteChunk(h) \/ CommitChunk(h)
    \/ FinalizeWithoutChange(h) \/ RequeueFinalize(h) \/ StartFinalize(h)
    \/ CancelSession(h) \/ CleanupTemporaryFiles(h) \/ RequestLost(h)
=============================================================================

--------------------------- MODULE UploadFinalize ---------------------------
(***************************************************************************)
(* The worker process, for upload_finalize jobs: the loop of run_once      *)
(* (recover expired leases, claim one job) and process_upload_finalize_job *)
(* (assemble the verified chunks, promote the file, record the asset).     *)
(* Every read of the database or of a file is a step of its own, so a      *)
(* request, another worker or a crash may come between any two.            *)
(***************************************************************************)
EXTENDS UploadState

\* The worker fails its job with a code; nothing is written yet.
Fail(w, code) ==
    worker' = [worker EXCEPT ![w].pc = "failing", ![w].code = code, ![w].fd = "none"]
WorkerGoto(w, pc) == worker' = [worker EXCEPT ![w].pc = pc]
OnlyWorker == UNCHANGED <<clock, database, disk, handler, writer, bounds>>

-----------------------------------------------------------------------------
\* Mutant: expired leases are never recovered.
RecoverNothing(w) ==
    /\ worker[w].pc = "idle" /\ writer = NoWriter
    /\ WorkerGoto(w, "polled")
    /\ UNCHANGED <<clock, database, disk, handler, writer, bounds>>

RecoverExpiredJobs(w) ==
    /\ worker[w].pc = "idle" /\ writer = NoWriter
    /\ job' = [s \in Sessions |->
           IF job[s].status = "running" /\ job[s].lease <= clock
           THEN [status |-> "queued", lease |-> 0] ELSE job[s]]
    /\ WorkerGoto(w, "polled")
    /\ UNCHANGED <<clock, session, rows, assets, previews, disk, handler, writer, bounds>>

\* Any queued job: which one comes first matters to no property here.
ClaimNextJob(w) ==
    LET queued == {s \in Sessions : job[s].status = "queued"} IN
    /\ worker[w].pc = "polled" /\ writer = NoWriter
    /\ \/ /\ queued = {}
          /\ worker' = [worker EXCEPT ![w] = NoProcess]
          /\ UNCHANGED job
       \/ \E s \in queued :
          /\ job' = [job EXCEPT ![s] = [status |-> "running", lease |-> clock + Lease]]
          /\ worker' = [worker EXCEPT ![w].pc = "claimed", ![w].s = s]
    /\ UNCHANGED <<clock, session, rows, assets, previews, disk, handler, writer, bounds>>

\* _validate_claimed_session. There is no assembly file to clean up yet.
ReadSession(w) ==
    /\ worker[w].pc = "claimed"
    /\ IF session[worker[w].s].status \in {"assembling", "completed"}
       THEN WorkerGoto(w, "ensure")
       ELSE worker' = [worker EXCEPT ![w].pc = "marking", ![w].code = "session_not_assembling"]
    /\ OnlyWorker

\* _ensure_final_file: a file already promoted is only hashed; otherwise the
\* chunk rows and files are all looked up before assembly begins.
EnsureFinalFile(w) ==
    LET s == worker[w].s IN
    /\ worker[w].pc = "ensure"
    /\ IF final[s] # Absent
       THEN IF final[s] = Complete
            THEN WorkerGoto(w, "commit")
            ELSE Fail(w, "final_original_hash_mismatch")
       ELSE IF ~AllVerified(s) THEN Fail(w, "verified_chunks_missing")
       ELSE IF \E i \in Chunks : files[s][i] = "none"
            THEN Fail(w, "verified_chunk_missing")
            ELSE WorkerGoto(w, "open")
    /\ OnlyWorker

\* assembly_path.open("wb") creates the file or truncates the one there.
OpenAssembly(w) ==
    /\ worker[w].pc = "open"
    /\ assembly' = [assembly EXCEPT ![worker[w].s] = NoChunks]
    /\ worker' = [worker EXCEPT ![w].pc = "copy", ![w].next = 0, ![w].fd = "assembly"]
    /\ UNCHANGED <<clock, database, files, final, handler, writer, bounds>>

\* _copy_verified_chunk writes through the open descriptor, wherever the file
\* is by now, and compares the chunk's digest with its row.
CopyChunk(w) ==
    LET s == worker[w].s
        i == worker[w].next
    IN  /\ worker[w].pc = "copy" /\ i < NumChunks
        /\ \/ files[s][i] = "none" /\ Fail(w, "verified_chunk_missing")
              /\ UNCHANGED disk
           \/ files[s][i] \notin {"none", rows[s][i]} /\ Fail(w, "verified_chunk_hash_mismatch")
              /\ UNCHANGED disk
           \/ /\ files[s][i] = rows[s][i]
              /\ worker' = [worker EXCEPT ![w].next = i + 1]
              /\ assembly' = IF worker[w].fd = "assembly"
                             THEN [assembly EXCEPT ![s][i] = files[s][i]] ELSE assembly
              /\ final' = IF worker[w].fd = "final"
                          THEN [final EXCEPT ![s][i] = files[s][i]] ELSE final
              /\ UNCHANGED files
        /\ UNCHANGED <<clock, database, handler, writer, bounds>>

\* Mutant: the whole file's digest is not compared.
PromoteUnchecked(w) ==
    LET s == worker[w].s IN
    /\ worker[w].pc = "copy" /\ worker[w].next = NumChunks /\ assembly[s] # Absent
    /\ final' = [final EXCEPT ![s] = assembly[s]]
    /\ assembly' = [assembly EXCEPT ![s] = Absent]
    /\ worker' = [worker EXCEPT ![w].pc = "commit", ![w].fd = "none"]
    /\ UNCHANGED <<clock, database, files, handler, writer, bounds>>

\* The digest is that of the bytes copied, which are those of the rows. The
\* rename takes whatever is at the assembly path; descriptors follow it.
PromoteFinal(w) ==
    LET s == worker[w].s IN
    /\ worker[w].pc = "copy" /\ worker[w].next = NumChunks
    /\ IF rows[s] # Complete THEN Fail(w, "completed_hash_mismatch") /\ UNCHANGED disk
       ELSE IF assembly[s] = Absent
       THEN Fail(w, "finalization_storage_failure") /\ UNCHANGED disk
       ELSE /\ final' = [final EXCEPT ![s] = assembly[s]]
            /\ assembly' = [assembly EXCEPT ![s] = Absent]
            /\ worker' = [v \in Workers |->
                   IF v = w THEN [worker[v] EXCEPT !.pc = "commit", !.fd = "none"]
                   ELSE IF worker[v].s # s THEN worker[v]
                   ELSE CASE worker[v].fd = "assembly" -> [worker[v] EXCEPT !.fd = "final"]
                          [] worker[v].fd = "final" -> [worker[v] EXCEPT !.fd = "orphan"]
                          [] OTHER -> worker[v]]
            /\ UNCHANGED files
    /\ UNCHANGED <<clock, database, handler, writer, bounds>>

\* An OSError, or any other exception up to the end of the commit.
StorageFailure(w) ==
    /\ worker[w].pc \in {"ensure", "open", "copy", "commit"}
    /\ Fail(w, "finalization_storage_failure")
    /\ OnlyWorker

\* _commit_finalization: asset, preview job, session and job in one
\* transaction, or nothing.
CommitFinalization(w) ==
    LET s == worker[w].s IN
    /\ worker[w].pc = "commit" /\ writer = NoWriter
    /\ CASE session[s].status = "completed" ->
              /\ job' = [job EXCEPT ![s].status = "done"]
              /\ WorkerGoto(w, "clean")
              /\ UNCHANGED <<session, assets, previews>>
         [] session[s].status = "assembling" ->
              /\ assets' = [assets EXCEPT ![s] = IF @ = 0 THEN 1 ELSE @]
              /\ previews' = [previews EXCEPT ![s] = IF @ = 0 THEN 1 ELSE @]
              /\ session' = [session EXCEPT ![s].status = "completed", ![s].failure = "none"]
              /\ job' = [job EXCEPT ![s] = [status |-> "done", lease |-> 0]]
              /\ WorkerGoto(w, "clean")
         [] OTHER ->
              /\ Fail(w, "session_not_assembling")
              /\ UNCHANGED <<session, job, assets, previews>>
    /\ UNCHANGED <<clock, rows, disk, handler, writer, bounds>>

CleanupAfterCommit(w) ==
    LET s == worker[w].s IN
    /\ worker[w].pc = "clean"
    /\ RemoveTemporaryFiles(s)
    /\ handler' = Unstage(s)
    /\ worker' = [Orphan(s) EXCEPT ![w] = NoProcess]
    /\ UNCHANGED <<clock, database, writer, bounds>>

-----------------------------------------------------------------------------
\* Mutant: a failure removes what the end of a job removes.
CleanupAll(w) ==
    LET s == worker[w].s IN
    /\ worker[w].pc = "failing"
    /\ RemoveTemporaryFiles(s)
    /\ handler' = Unstage(s)
    /\ worker' = [Orphan(s) EXCEPT ![w].pc = "marking"]
    /\ UNCHANGED <<clock, database, writer, bounds>>

\* _cleanup_assembly unlinks the path, whoever wrote the file there.
CleanupAssembly(w) ==
    LET s == worker[w].s IN
    /\ worker[w].pc = "failing"
    /\ assembly' = [assembly EXCEPT ![s] = Absent]
    /\ worker' = [Orphan(s) EXCEPT ![w].pc = "marking"]
    /\ UNCHANGED <<clock, database, files, final, handler, writer, bounds>>

\* Mutant: a job that is done can be failed.
FailAnyJob(w) ==
    LET s == worker[w].s IN
    /\ worker[w].pc = "marking" /\ writer = NoWriter
    /\ session' = IF session[s].status = "completed" THEN session
                  ELSE [session EXCEPT ![s].status = "failed",
                                       ![s].failure = worker[w].code]
    /\ job' = [job EXCEPT ![s] = [status |-> "failed", lease |-> 0]]
    /\ worker' = [worker EXCEPT ![w] = NoProcess]
    /\ UNCHANGED <<clock, rows, assets, previews, disk, handler, writer, bounds>>

\* Any session that is not completed becomes failed, any job not done too.
MarkFinalizationFailed(w) ==
    LET s == worker[w].s IN
    /\ worker[w].pc = "marking" /\ writer = NoWriter
    /\ session' = IF session[s].status = "completed" THEN session
                  ELSE [session EXCEPT ![s].status = "failed",
                                       ![s].failure = worker[w].code]
    /\ job' = IF job[s].status = "done" THEN job
              ELSE [job EXCEPT ![s] = [status |-> "failed", lease |-> 0]]
    /\ worker' = [worker EXCEPT ![w] = NoProcess]
    /\ UNCHANGED <<clock, rows, assets, previews, disk, handler, writer, bounds>>

\* The process is killed and restarted; its job keeps its lease. A kill late in
\* the bounded time is left out, so that the lease can still run out.
WorkerCrash(w) ==
    /\ worker[w].pc # "idle"
    /\ crashes < MaxCrashes /\ clock + Lease <= MaxTime
    /\ crashes' = crashes + 1
    /\ worker' = [worker EXCEPT ![w] = NoProcess]
    /\ UNCHANGED <<clock, database, disk, handler, writer, losses>>

ProcessJob(w) ==
    \/ RecoverExpiredJobs(w) \/ ClaimNextJob(w) \/ ReadSession(w)
    \/ EnsureFinalFile(w) \/ OpenAssembly(w) \/ CopyChunk(w) \/ PromoteFinal(w)
    \/ CommitFinalization(w) \/ CleanupAfterCommit(w)
    \/ CleanupAssembly(w) \/ MarkFinalizationFailed(w)
WorkerStep(w) == ProcessJob(w) \/ StorageFailure(w) \/ WorkerCrash(w)
=============================================================================

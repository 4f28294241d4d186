-------------------------- MODULE ResumableUpload --------------------------
(***************************************************************************)
(* A resumable upload end to end: the API requests of UploadSessions and   *)
(* the finalize worker of UploadFinalize over one database and one media   *)
(* root, with time passing, killed processes and lost power.               *)
(***************************************************************************)
EXTENDS UploadSessions, UploadFinalize

Tick ==
    /\ clock < MaxTime
    /\ clock' = clock + 1
    /\ UNCHANGED <<database, disk, handler, worker, writer, bounds>>

\* Both processes stop. SQLite keeps what it committed; neither a promoted
\* original nor a chunk file is ever flushed, so one of them may come back torn.
PowerLoss ==
    /\ losses < MaxPowerLoss /\ clock + Lease <= MaxTime
    /\ losses' = losses + 1
    /\ handler' = [h \in Handlers |-> NoRequest]
    /\ worker' = [w \in Workers |-> NoProcess]
    /\ writer' = NoWriter
    /\ \E s \in Sessions :
        \/ /\ final[s] # Absent
           /\ final' = [final EXCEPT ![s] = TornFile]
           /\ UNCHANGED files
        \/ \E i \in Chunks :
           /\ files[s][i] # "none"
           /\ files' = [files EXCEPT ![s][i] = "torn"]
           /\ UNCHANGED final
    /\ UNCHANGED <<clock, database, assembly, crashes>>

Next ==
    \/ \E h \in Handlers : HandlerStep(h)
    \/ \E w \in Workers : WorkerStep(w)
    \/ Tick
    \/ PowerLoss

Spec == Init /\ [][Next]_vars

\* The worker loop never stops and its commands end; a transaction ends.
Fairness ==
    /\ \A w \in Workers : WF_vars(ProcessJob(w))
    /\ \A h \in Handlers : WF_vars(CommitChunk(h))
    /\ WF_vars(Tick)
FairSpec == Spec /\ Fairness

TypeOK ==
    /\ clock \in Nat
    /\ session \in [Sessions -> Session]
    /\ rows \in [Sessions -> [Chunks -> Row]]
    /\ job \in [Sessions -> Job]
    /\ assets \in [Sessions -> Nat] /\ previews \in [Sessions -> Nat]
    /\ files \in [Sessions -> File]
    /\ assembly \in [Sessions -> File \cup {Absent}]
    /\ final \in [Sessions -> File \cup {Absent}]
    /\ handler \in [Handlers -> Request]
    /\ worker \in [Workers -> Process]
    /\ writer \in Handlers \cup {NoWriter}
    /\ crashes \in Nat /\ losses \in Nat

\* The session row and its job row, written by different processes, never
\* contradict each other: assembling has a job some worker can still take or
\* holds, completed has a job that is done, and a session that can be retried
\* has a failed job for requeue_retryable_finalize_job to take.
SessionJobCoherent ==
    \A s \in Sessions :
        /\ session[s].status = "assembling" <=> job[s].status \in {"queued", "running"}
        /\ session[s].status = "completed" <=> job[s].status = "done"
        /\ session[s].status = "failed" => job[s].status = "failed"

\* An asset row, and the preview job that reads its original, exist for
\* completed sessions alone and once, and the original then holds exactly the
\* bytes the phone hashed. (_commit_finalization; every retry and recovery.)
AssetBacked ==
    \A s \in Sessions :
        /\ assets[s] = previews[s] /\ assets[s] \in {0, 1}
        /\ assets[s] = 1 <=> session[s].status = "completed"
        /\ assets[s] = 1 => final[s] = Complete

\* A chunk file that is there holds the bytes its verified row was made for,
\* although the file is replaced before the row is committed.
ChunkFileMatchesRow ==
    \A s \in Sessions, i \in Chunks :
        rows[s][i] # "none" /\ files[s][i] # "none" => files[s][i] = rows[s][i]

\* The limit on open sessions counts what creation, expiry, failure and retry
\* leave behind.
ActiveLimitKept == Cardinality({s \in Sessions : Active(session[s])}) <= ActiveLimit

\* The upload implements the contract its client relies on: no late request,
\* late worker, crash or recovery moves a session out of its last state,
\* stores other bytes, or opens more sessions than the limit.
StageOf(r) ==
    CASE r.status = "none" -> "absent"
      [] r.status \in Expirable -> "open"
      [] r.status = "assembling" -> "submitted"
      [] r.status = "failed" -> IF Retryable(r) THEN "retryable" ELSE "rejected"
      [] r.status = "completed" -> "stored"
      [] OTHER -> "closed"
Contract ==
    INSTANCE UploadContract WITH
        Limit <- ActiveLimit, Nothing <- Absent, Source <- Complete,
        stage <- [s \in Sessions |-> StageOf(session[s])],
        original <- [s \in Sessions |->
            IF session[s].status = "completed" THEN final[s] ELSE Absent]
ImplementsContract == Contract!Spec

\* A completed upload is never lost, whatever stale workers do.
CompletedStaysCompleted ==
    [][\A s \in Sessions :
           session[s].status = "completed" => session'[s].status = "completed"]_session

(***************************************************************************)
(* However many requests overlap, only one kind of step endangers the      *)
(* verified chunks of a session that can still complete: that of a request *)
(* that captured the time before the session expired and comes to its      *)
(* transaction after (now = utc_now() before BEGIN IMMEDIATE). Otherwise a  *)
(* session whose files are there, with nobody about to remove them, keeps   *)
(* them until it is over: no refusal, late cleanup, failure, retry or loss *)
(* of power takes one away.                                                *)
(***************************************************************************)
CanComplete(s) ==
    LET r == session[s] IN
    \/ r.status = "assembling"
    \/ (r.status \in Expirable \/ Retryable(r)) /\ r.expires > clock
ChunksSafe(s) ==
    CanComplete(s) =>
        /\ final[s] # Absent \/ \A i \in Chunks : rows[s][i] # "none" => files[s][i] # "none"
        /\ \A h \in Handlers : handler[h].s = s =>
             /\ handler[h].pc # "cleanup"
             /\ handler[h].pc = "promoted" => files[s][handler[h].i] # "none"
Revived(s) ==
    \E h \in Handlers :
        /\ handler[h].s = s /\ handler[h].pc \in {"ready", "promoted"}
        /\ handler[h].now < session[s].expires /\ session[s].expires <= clock
        /\ session'[s].expires = handler[h].now + Expiry
ChunksStaySafe ==
    [][\A s \in Sessions : ChunksSafe(s) => ChunksSafe(s)' \/ Revived(s)]_vars

\* A failed session that finalize may retry, and that has not expired, still
\* has what the retry needs.
RetryableKeepsChunks ==
    \A s \in Sessions :
        Retryable(session[s]) /\ session[s].expires > clock =>
            final[s] # Absent \/ \A i \in Chunks : files[s][i] # "none"

\* The worker gives every finalization an answer.
FinalizationAnswered ==
    \A s \in Sessions :
        session[s].status = "assembling" ~> session[s].status # "assembling"
=============================================================================

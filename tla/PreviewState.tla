---------------------------- MODULE PreviewState ---------------------------
(***************************************************************************)
(* The rows and files of a preview that belongs to no generation: that of  *)
(* a session video before migration 008, with its processed result, and    *)
(* that of a photo uploaded in one request. Rows and files outlive every   *)
(* process; a worker and a request are lost when they are killed.          *)
(***************************************************************************)
EXTENDS Integers, FiniteSets

CONSTANTS
    Videos,      \* assets made by completed upload sessions
    Photos,      \* assets of POST /assets/upload, one request each
    Workers,
    Previews,    \* names previews/<uuid>; also of their derived_files rows
    None,
    Loads        \* bounds: what one behaviour may meet, see Load

Assets == Videos \cup Photos

(***************************************************************************)
(* A bound on one behaviour: the assets and the workers that take part,    *)
(* errors of a transaction or of the disk, kills of a worker or of the     *)
(* api, and leases that a live worker outlives; and the schema it runs on: *)
(* before migration 008, the last one session videos are rendered on, or   *)
(* after it.                                                               *)
(***************************************************************************)
Schema == {"before008", "after008"}
Load ==
    [assets: SUBSET Assets, workers: SUBSET Workers,
     faults: Nat, kills: Nat, overdue: Nat, schema: Schema]

\* A name is a uuid: there are enough for the videos that were ready before, and
\* beyond those an attempt that finds none left can only fail (Encode).
ASSUME PreviewAssumptions ==
    /\ IsFiniteSet(Assets) /\ IsFiniteSet(Previews) /\ Videos \cap Photos = {}
    /\ None \notin Assets \cup Workers \cup Previews
    /\ Loads \subseteq Load
    /\ \A l \in Loads : l.schema = "after008" => l.assets \cap Videos = {}
    /\ \E f \in [Videos -> Previews] : \A v, u \in Videos : f[v] = f[u] => v = u

VARIABLES
    asset,     \* assets: preview_status, is_log, active_processed_result_id
    job,       \* the one preview job of every asset
    derived,   \* derived_files of kind preview: asset and id; id 0: no row
    result,    \* processed_results by derived file
    disk,      \* files under previews/
    upload,    \* POST /assets/upload with its temporary and its original file
    worker,
    used       \* faults, kills, overdue leases so far; load: what bounds them

rows == <<asset, job, derived, result>>
vars == <<asset, job, derived, result, disk, upload, worker, used>>

Asset ==
    [preview: {"absent", "preview_generating", "preview_ready", "failed"},
     log: BOOLEAN, active: Previews \cup {None}]
\* by: who works on the claim; None: nobody does, the worker was killed or gave up.
Job ==
    [status: {"absent", "queued", "running", "done", "failed"},
     id: Nat, by: Workers \cup {None}, expired: BOOLEAN]
NoJob == [status |-> "absent", id |-> 0, by |-> None, expired |-> FALSE]
Queued(id) == [NoJob EXCEPT !.status = "queued", !.id = id]
Derived == [asset: Assets \cup {None}, id: Nat]
NoRow == [asset |-> None, id |-> 0]

\* old: unchanged for longer than a lease and the grace; lost: removed by nobody here.
File == {"absent", "new", "old", "lost"}

\* A worker in run_once: seen is the row it read, file the one it wrote,
\* outcome the ProcessedResultBackfillOutcome it has to persist.
Worker ==
    [pc: {"idle", "recovered", "listed", "inspected", "outcome", "claimed", "encoding",
          "encoded", "cleanup", "existing", "confirmed", "retryable", "failing"},
     asset: Assets \cup {None}, seen: Previews \cup {None},
     file: Previews \cup {None}, todo: SUBSET Assets,
     outcome: {"none", "created", "already_active", "integrity_failed", "retryable_failure"}]
Idle ==
    [pc |-> "idle", asset |-> None, seen |-> None, file |-> None, todo |-> {},
     outcome |-> "none"]

Upload ==
    [pc: {"ready", "saved", "moved", "undo", "done", "refused", "killed"},
     tmp: BOOLEAN, original: BOOLEAN]

-----------------------------------------------------------------------------
\* get_preview_for_asset: the newest row.
RowsOf(a) == {f \in Previews : derived[f].asset = a}
Latest(a) ==
    IF RowsOf(a) = {} THEN None
    ELSE CHOOSE f \in RowsOf(a) : \A g \in RowsOf(a) : derived[g].id <= derived[f].id
NextRow == 1 + Cardinality({f \in Previews : derived[f].id # 0})

\* is_phase2a_session_video_asset.
SessionVideo(a) == a \in Videos /\ ~asset[a].log

\* Mutant: only a preview that has its result already.
CandidateWithResult(a) ==
    IF SessionVideo(a) /\ asset[a].preview = "preview_ready" /\ asset[a].active = Latest(a)
    THEN Latest(a) ELSE None

\* get_phase2a_backfill_candidate: its row, or None.
Candidate(a) ==
    LET f == Latest(a) IN
    IF /\ SessionVideo(a) /\ asset[a].preview = "preview_ready" /\ f # None
       /\ result[f] = "none" \/ asset[a].active = f
    THEN f ELSE None

\* What a new uuid may be: the name of no file, row or worker.
Unused ==
    {f \in Previews :
        /\ disk[f] = "absent" /\ derived[f] = NoRow
        /\ \A w \in Workers : worker[w].file # f}

Fault == used.faults < used.load.faults /\ used' = [used EXCEPT !.faults = @ + 1]
Goto(w, pc) == worker' = [worker EXCEPT ![w].pc = pc]

\* The trigger prevent_identity_log_preview_ready: 008 drops it. An asset in LOG is
\* never ready, whatever the rest of the transaction says.
LogRefused(a) == asset[a].log /\ used.load.schema = "before008"
Stored(a, status) == IF status = "preview_ready" /\ LogRefused(a) THEN "failed" ELSE status

\* fail_job_and_asset_preview, set_job_done and set_job_failed look at no status and no claim.
SetPreview(a, status) == asset' = [asset EXCEPT ![a].preview = Stored(a, status)]
Settled(j, status) == [j EXCEPT !.status = status, !.by = None, !.expired = FALSE]
SetJob(a, status) == job' = [job EXCEPT ![a] = Settled(@, status)]

-----------------------------------------------------------------------------
\* What the workers find: a session video whose preview or lut_preview job is
\* queued, or one that was ready before there were results. There is no photo yet.
FirstRow == CHOOSE f \in [Videos -> Previews] : \A v, u \in Videos : f[v] = f[u] => v = u
StateInit ==
    \E bound \in Loads, first \in [Videos -> {"queued", "log", "ready"}] :
        LET ready == {v \in Videos \cap bound.assets : first[v] = "ready"} IN
        /\ asset = [a \in Assets |->
               [preview |-> IF a \notin Videos \cap bound.assets THEN "absent"
                            ELSE IF a \in ready THEN "preview_ready" ELSE "preview_generating",
                log |-> a \in Videos \cap bound.assets /\ first[a] = "log", active |-> None]]
        /\ job = [a \in Assets |->
               IF a \notin Videos \cap bound.assets THEN NoJob
               ELSE IF a \in ready THEN [Queued(1) EXCEPT !.status = "done"] ELSE Queued(1)]
        /\ derived = [f \in Previews |->
               IF \E v \in ready : FirstRow[v] = f
               THEN [asset |-> CHOOSE v \in ready : FirstRow[v] = f, id |-> 1] ELSE NoRow]
        /\ disk = [f \in Previews |-> IF derived[f] = NoRow THEN "absent" ELSE "new"]
        /\ result = [f \in Previews |-> "none"]
        /\ upload = [p \in Photos |-> [pc |-> "ready", tmp |-> FALSE, original |-> FALSE]]
        /\ worker = [w \in Workers |-> Idle]
        /\ used = [load |-> bound, faults |-> 0, kills |-> 0, overdue |-> 0]
=============================================================================

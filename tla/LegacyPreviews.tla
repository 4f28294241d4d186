--------------------------- MODULE LegacyPreviews --------------------------
(***************************************************************************)
(* Previews without a generation: uploads of photos, the loop of run_once  *)
(* in every worker, kills, leases and the age of files.                    *)
(***************************************************************************)
EXTENDS DirectUpload, ResultBackfill

Init == StateInit

-----------------------------------------------------------------------------
RecoverExpiredJobs(w) ==
    /\ w \in used.load.workers /\ worker[w].pc = "idle"
    /\ job' = [a \in Assets |->
           IF job[a].status = "running" /\ job[a].expired THEN Queued(job[a].id) ELSE job[a]]
    /\ Goto(w, "recovered")
    /\ UNCHANGED <<asset, derived, result, disk, upload, used>>

\* The oldest queued job; videos were queued before everything here.
ClaimNextJob(w) ==
    LET queued == {a \in Assets : job[a].status = "queued"} IN
    /\ worker[w].pc = "listed" /\ worker[w].todo = {}
    /\ \/ queued = {} /\ Leave(w) /\ UNCHANGED job
       \/ \E a \in queued :
          /\ \A b \in queued : job[a].id <= job[b].id
          /\ job' = [job EXCEPT ![a].status = "running", ![a].by = w]
          /\ worker' = [worker EXCEPT ![w] = [Idle EXCEPT !.pc = "claimed", !.asset = a]]
    /\ UNCHANGED <<asset, derived, result, disk, upload, used>>

\* A transaction or a directory listing before the claim fails: run_forever begins again.
RoundFails(w) ==
    /\ worker[w].pc \in {"recovered", "listed", "outcome"}
    /\ Leave(w) /\ Fault
    /\ UNCHANGED <<rows, disk, upload>>

WorkerStep(w) ==
    \/ RecoverExpiredJobs(w) \/ RecoverAndBackfill(w) \/ ClaimNextJob(w)
    \/ RoundFails(w) \/ ProcessPreview(w)

WorkerKilled(w) ==
    /\ worker[w].pc # "idle" /\ used.kills < used.load.kills
    /\ GiveUp(w)
    /\ used' = [used EXCEPT !.kills = @ + 1]
    /\ UNCHANGED <<asset, derived, result, disk, upload>>

\* The lease of a claim ends. That of a live worker is outlived only so many times.
LeaseEnds(a) ==
    /\ job[a].status = "running" /\ ~job[a].expired
    /\ job' = [job EXCEPT ![a].expired = TRUE]
    /\ \/ job[a].by = None /\ UNCHANGED used
       \/ /\ job[a].by # None /\ used.overdue < used.load.overdue
          /\ used' = [used EXCEPT !.overdue = @ + 1]
    /\ UNCHANGED <<asset, derived, result, disk, upload, worker>>

\* A file is left alone for a lease and the grace. Between FFmpeg and its
\* transaction a worker needs less: that is what the grace is for. Of a file that
\* has a row nobody asks the age.
InHands(f) == \E w \in Workers : worker[w].file = f
GrowsOld(f) ==
    /\ disk[f] = "new" /\ derived[f] = NoRow /\ ~InHands(f)
    /\ disk' = [disk EXCEPT ![f] = "old"]
    /\ UNCHANGED <<rows, upload, worker, used>>

\* Somebody removes a file that has a row.
FileLost(f) ==
    /\ disk[f] \in {"new", "old"} /\ derived[f] # NoRow /\ Fault
    /\ disk' = [disk EXCEPT ![f] = "lost"]
    /\ UNCHANGED <<rows, upload, worker>>

Next ==
    \/ DirectUploadNext \/ ApiKilled
    \/ \E w \in Workers : WorkerStep(w) \/ WorkerKilled(w)
    \/ \E a \in Assets : LeaseEnds(a)
    \/ \E f \in Previews : GrowsOld(f) \/ FileLost(f)

Spec == Init /\ [][Next]_vars
\* Workers are restarted and go on, and time passes.
Fairness ==
    /\ \A w \in Workers : WF_vars(WorkerStep(w))
    /\ \A a \in Assets : WF_vars(job[a].by = None /\ LeaseEnds(a))
    /\ \A f \in Previews : WF_vars(GrowsOld(f))
FairSpec == Spec /\ Fairness

-----------------------------------------------------------------------------
TypeOK ==
    /\ asset \in [Assets -> Asset]
    /\ job \in [Assets -> Job]
    /\ derived \in [Previews -> Derived]
    /\ result \in [Previews -> {"none", "ready", "superseded"}]
    /\ disk \in [Previews -> File]
    /\ upload \in [Photos -> Upload]
    /\ worker \in [Workers -> Worker]
    /\ used \in [load: Loads, faults: Nat, kills: Nat, overdue: Nat]
    /\ used.faults <= used.load.faults /\ used.kills <= used.load.kills
    /\ used.overdue <= used.load.overdue

(***************************************************************************)
(* A row of derived_files always has its file, unless somebody removed it: *)
(* no recovery in another worker, no cleanup after an error and no second  *)
(* attempt takes away a preview that has been committed.                   *)
(***************************************************************************)
RowsBacked == \A f \in Previews : derived[f] # NoRow => disk[f] # "absent"

(***************************************************************************)
(* What a session video displays is its newest preview, and every result   *)
(* it replaced is superseded, however attempts and backfills of several    *)
(* workers interleave.                                                     *)
(***************************************************************************)
ActiveIsLatest ==
    \A f \in Previews :
        result[f] = "ready" <=>
            \E a \in Assets : asset[a].active = f /\ Latest(a) = f

(***************************************************************************)
(* As long as no worker outlives a lease, asset and job settle together:   *)
(* an asset is generating exactly while its job waits or runs, ready when  *)
(* the job is done, and failed with it, or when its file was removed. The  *)
(* one exception is a photo in LOG before 008: its preview is committed,   *)
(* its job done, and the asset failed.                                     *)
(***************************************************************************)
Lost(a) == \E f \in RowsOf(a) : disk[f] = "lost"
SettledTogether ==
    used.overdue = 0 => \A a \in Assets :
        LET s == job[a].status IN
        CASE asset[a].preview = "absent" -> s = "absent"
          [] asset[a].preview = "preview_generating" -> s \in {"queued", "running"}
          [] asset[a].preview = "preview_ready" -> s = "done" /\ ~LogRefused(a)
          [] asset[a].preview = "failed" ->
                \/ s = "failed" \/ Lost(a)
                \/ s = "done" /\ a \in Photos /\ LogRefused(a) /\ RowsOf(a) # {}

(***************************************************************************)
(* A preview that was ready becomes failed only because its file is gone,  *)
(* or through a worker that outlived its lease; never because something    *)
(* could not be read or written for a moment.                              *)
(***************************************************************************)
ReadyFailsForCause ==
    [][\A a \in Assets :
         asset[a].preview = "preview_ready" /\ asset'[a].preview = "failed" =>
             Lost(a) \/ used.overdue > 0]_vars

(***************************************************************************)
(* An upload that has ended left its original exactly with an asset, and   *)
(* no temporary file; only a kill, or an error while an error was handled, *)
(* leaves a file behind.                                                   *)
(***************************************************************************)
UploadWholeOrNothing ==
    \A p \in Photos :
        /\ asset[p].preview # "absent" => upload[p].original
        /\ upload[p].pc \in {"done", "refused"} /\ used.faults < 2 =>
               /\ ~upload[p].tmp
               /\ upload[p].original => asset[p].preview # "absent"

(***************************************************************************)
(* Again and again the previews are at rest. No job waits or runs: whatever *)
(* was killed or failed before, the lease brings every job back until it is *)
(* done or failed. Every session video that is ready has its result: one    *)
(* made ready before there were results, or whose backfill failed, gets it  *)
(* too. And no attempt that did not commit has left a file without a row.   *)
(***************************************************************************)
NoJobPending == \A a \in Assets : job[a].status \notin {"queued", "running"}
ReadyHasResult ==
    \A v \in Videos : asset[v].preview = "preview_ready" => asset[v].active # None
NoOrphan == \A f \in Previews : disk[f] \in {"new", "old"} => derived[f] # NoRow
JobsSettle == []<>(NoJobPending /\ ReadyHasResult /\ NoOrphan)
=============================================================================

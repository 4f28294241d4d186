---------------------------- MODULE LegacyPreview --------------------------
(***************************************************************************)
(* process_preview_job: one claimed preview or lut_preview job, with the   *)
(* transaction of finalize_ready_processed_result. No step looks whether   *)
(* the job is still this worker's.                                         *)
(***************************************************************************)
EXTENDS PreviewState

\* The worker is through with its job, whose row may have another claimant by now.
Leave(w) == worker' = [worker EXCEPT ![w] = Idle]

\* An exception leaves the loop of the worker; nobody works on its claim any more.
GiveUp(w) ==
    /\ job' = [a \in Assets |->
           IF job[a].status = "running" /\ job[a].by = w THEN [job[a] EXCEPT !.by = None]
           ELSE job[a]]
    /\ Leave(w)

(***************************************************************************)
(* The job of a video in LOG is a lut_preview, which is refused. Reads: the *)
(* asset, and the preview recorded for it, if any.                         *)
(***************************************************************************)
LutPreview(a) == a \in Videos /\ asset[a].log
ReadAsset(w) ==
    LET a == worker[w].asset IN
    /\ worker[w].pc = "claimed"
    /\ \/ LutPreview(a) /\ Goto(w, "failing") /\ UNCHANGED used
       \/ ~LutPreview(a) /\ Latest(a) = None /\ Goto(w, "encoding") /\ UNCHANGED used
       \/ /\ ~LutPreview(a) /\ Latest(a) # None
          /\ worker' = [worker EXCEPT ![w].pc = "existing", ![w].seen = Latest(a)]
          /\ UNCHANGED used
       \/ ~LutPreview(a) /\ Goto(w, "failing") /\ Fault
    /\ UNCHANGED <<rows, disk, upload>>

\* FFmpeg and the move to previews/<uuid>; or the original is missing, FFmpeg
\* fails or runs into its timeout, which is as long as the lease.
Encode(w) ==
    /\ worker[w].pc = "encoding"
    /\ \/ /\ Unused # {}
          /\ LET f == CHOOSE f \in Unused : TRUE IN
             /\ worker' = [worker EXCEPT ![w].pc = "encoded", ![w].file = f]
             /\ disk' = [disk EXCEPT ![f] = "new"]
       \/ Goto(w, "failing") /\ UNCHANGED disk
    /\ UNCHANGED <<rows, upload, used>>

(***************************************************************************)
(* finalize_ready_processed_result for the row of file f, new or recorded  *)
(* before: a session video gets its result, and the trigger of 004         *)
(* supersedes the one it replaces. A result f already has cannot be made   *)
(* active again (Conflict). The job is done also when the schema refuses   *)
(* the asset (Stored).                                                     *)
(***************************************************************************)
Replaces(a, f) == SessionVideo(a) /\ asset[a].active # f
Conflict(a, f) == Replaces(a, f) /\ result[f] # "none"
\* Mutant: the active result stays when there is one.
DisplayedFirst(a, f) ==
    [asset[a] EXCEPT !.preview = Stored(a, "preview_ready"),
                     !.active = IF SessionVideo(a) /\ asset[a].active = None THEN f ELSE @]

Displayed(a, f) ==
    [asset[a] EXCEPT !.preview = Stored(a, "preview_ready"),
                     !.active = IF SessionVideo(a) THEN f ELSE @]
Superseding(a, f) ==
    [g \in Previews |->
        IF ~Replaces(a, f) THEN result[g]
        ELSE IF g = f THEN "ready" ELSE IF g = asset[a].active THEN "superseded" ELSE result[g]]

Finalize(w, f) ==
    LET a == worker[w].asset IN
    /\ ~Conflict(a, f)
    /\ asset' = [asset EXCEPT ![a] = Displayed(a, f)]
    /\ result' = Superseding(a, f)
    /\ SetJob(a, "done")
    /\ Leave(w)

FinalizeNew(w) ==
    /\ worker[w].pc = "encoded"
    /\ \/ /\ derived' = [derived EXCEPT ![worker[w].file] =
                 [asset |-> worker[w].asset, id |-> NextRow]]
          /\ Finalize(w, worker[w].file)
          /\ UNCHANGED used
       \/ Goto(w, "cleanup") /\ Fault /\ UNCHANGED rows
    /\ UNCHANGED <<disk, upload>>

\* _cleanup_confirmed_preview: a failing unlink is only logged.
CleanUpPreview(w) ==
    /\ worker[w].pc = "cleanup"
    /\ \/ disk' = [disk EXCEPT ![worker[w].file] = "absent"] /\ UNCHANGED used
       \/ Fault /\ UNCHANGED disk
    /\ worker' = [worker EXCEPT ![w].pc = "failing", ![w].file = None]
    /\ UNCHANGED <<rows, upload>>

(***************************************************************************)
(* _handle_existing_preview: the recorded file is inspected, a file that   *)
(* cannot be read counting as one that is gone.                            *)
(***************************************************************************)
InspectExisting(w) ==
    LET whole == disk[worker[w].seen] # "lost" IN
    /\ worker[w].pc = "existing"
    /\ \/ Goto(w, IF whole THEN "confirmed" ELSE "failing") /\ UNCHANGED used
       \/ Goto(w, "failing") /\ Fault
    /\ UNCHANGED <<rows, disk, upload>>

FinalizeExisting(w) ==
    LET a == worker[w].asset
        f == worker[w].seen
    IN
    /\ worker[w].pc = "confirmed"
    /\ \/ Finalize(w, f) /\ UNCHANGED used
       \/ Conflict(a, f) /\ Goto(w, "failing") /\ UNCHANGED <<asset, job, result, used>>
       \/ /\ Goto(w, IF SessionVideo(a) THEN "retryable" ELSE "failing")
          /\ Fault /\ UNCHANGED <<asset, job, result>>
    /\ UNCHANGED <<derived, disk, upload>>

MarkRetryable(w) ==
    /\ worker[w].pc = "retryable"
    /\ \/ /\ SetPreview(worker[w].asset, "preview_ready")
          /\ SetJob(worker[w].asset, "failed") /\ Leave(w) /\ UNCHANGED used
       \/ Goto(w, "failing") /\ Fault /\ UNCHANGED <<asset, job>>
    /\ UNCHANGED <<derived, result, disk, upload>>

\* Mutant: the job fails, its asset stays as it is.
MarkJobFailed(w) ==
    /\ worker[w].pc = "failing"
    /\ SetJob(worker[w].asset, "failed") /\ Leave(w)
    /\ UNCHANGED <<asset, derived, result, disk, upload, used>>

\* _mark_failed: asset and job in one transaction, or an exception.
MarkFailed(w) ==
    /\ worker[w].pc = "failing"
    /\ \/ /\ SetPreview(worker[w].asset, "failed")
          /\ SetJob(worker[w].asset, "failed") /\ Leave(w) /\ UNCHANGED used
       \/ GiveUp(w) /\ Fault /\ UNCHANGED asset
    /\ UNCHANGED <<derived, result, disk, upload>>

ProcessPreview(w) ==
    \/ ReadAsset(w) \/ Encode(w) \/ FinalizeNew(w) \/ CleanUpPreview(w)
    \/ InspectExisting(w) \/ FinalizeExisting(w) \/ MarkRetryable(w) \/ MarkFailed(w)
=============================================================================

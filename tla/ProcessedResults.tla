-------------------------- MODULE ProcessedResults --------------------------
(***************************************************************************)
(* The processed results of one asset: the worker loop that claims the     *)
(* jobs of its formal preview and of its renditions, and the requests that *)
(* select renditions and download results, over one database and one media *)
(* root.                                                                   *)
(***************************************************************************)
EXTENDS FormalPreview, Renditions, ResultDelivery

\* run_once: recover_expired_jobs, then claim_next_job. Time is not modelled:
\* whenever a worker looks, the lease of a running job may have run out, also
\* while another worker is still busy with it.
\* Mutant: only the formal preview's job is recovered.
RecoverFormalJob(w) ==
    /\ worker[w].pc = "idle" /\ job[Formal] = "running"
    /\ job' = [job EXCEPT ![Formal] = "queued"]
    /\ UNCHANGED <<asset, attempt, rendition, result, disk, worker, handler, interruptions>>
RecoverExpiredJob(w) ==
    /\ worker[w].pc = "idle"
    /\ \E o \in Owners :
        /\ job[o] = "running"
        /\ job' = [job EXCEPT ![o] = "queued"]
    /\ UNCHANGED <<asset, attempt, rendition, result, disk, worker, handler, interruptions>>
ClaimNextJob(w) ==
    /\ worker[w].pc = "idle"
    /\ \E o \in Owners :
        /\ job[o] = "queued"
        /\ \A p \in Owners : job[p] = "queued" => ~Older(p, o)
        /\ job' = [job EXCEPT ![o] = "running"]
        /\ worker' = [worker EXCEPT ![w] = [Idle EXCEPT !.pc = "prepare", !.owner = o]]
    /\ UNCHANGED <<asset, attempt, rendition, result, disk, handler, interruptions>>

\* A worker is killed, with the FFmpeg it runs; files stay as they are.
WorkerKilled(w) ==
    /\ worker[w].pc # "idle" /\ interruptions < MaxInterruptions
    /\ interruptions' = interruptions + 1
    /\ Release(w)
    /\ UNCHANGED <<tables, disk, handler>>

ProcessJob(w) == ProcessFormalPreview(w) \/ ProcessRendition(w)
WorkerStep(w) ==
    \/ RecoverExpiredJob(w) \/ ClaimNextJob(w) \/ ProcessJob(w)
    \/ FailureUnrecorded(w) \/ WorkerKilled(w)
Next ==
    \/ \E w \in Workers : WorkerStep(w)
    \/ \E h \in Handlers : RenditionRequest(h) \/ DownloadRequest(h)

Spec == Init /\ [][Next]_vars

\* The worker loop never stops, its commands end, and leases run out.
Fairness ==
    \A w \in Workers :
        WF_vars(RecoverExpiredJob(w)) /\ WF_vars(ClaimNextJob(w)) /\ WF_vars(ProcessJob(w))

TypeOK ==
    /\ asset \in Asset
    /\ attempt \in Attempt
    /\ rendition \in [Requests -> Rendition]
    /\ job \in [Owners -> JobStatus]
    /\ result \in [Owners -> Result]
    /\ candidate \in Bytes /\ published \in [Owners -> Bytes] /\ linked \in BOOLEAN
    /\ worker \in [Workers -> Process]
    /\ handler \in [Handlers -> Request]
    /\ interruptions \in Nat

\* What the asset points at is there: its active result and its formal preview
\* are ready, and their files hold a whole video with the recorded digest,
\* although the worker that published them may be killed, retried and made to
\* take files back at any step. (One worker.)
PointersBacked ==
    \A o \in Owners :
        o = asset.active \/ (o = Formal /\ asset.formal) =>
            /\ result[o].status = "ready"
            /\ published[o] = "full" /\ result[o].sha = "full"

\* The attempt and its job are settled together, by whichever worker, and
\* agree on the outcome; the formal pointer is that outcome.
AttemptJobAgree ==
    /\ job[Formal] = "done" <=> attempt.state = "ready"
    /\ job[Formal] = "failed" <=> attempt.state = "failed"
    /\ asset.formal <=> attempt.state = "ready"

\* A rendition and its job are settled together although the failure path
\* marks the job without looking. (One worker.)
RenditionJobAgree ==
    \A r \in Requests :
        /\ job[r] = "none" <=> rendition[r].state = "none"
        /\ job[r] = "done" <=> rendition[r].state = "ready"
        /\ job[r] = "failed" <=> rendition[r].state = "failed"

\* A result is superseded only by a newer selection that took its place on
\* display; the formal preview never is.
SupersededIsReplaced ==
    \A o \in Owners :
        result[o].status = "superseded" =>
            /\ o # Formal /\ asset.active \in Requests
            /\ rendition[asset.active].generation > rendition[o].generation

\* The results implement their contract: kills, retries, stale renditions and
\* racing requests never display an older selection or settle a preview twice.
Contract ==
    INSTANCE ResultContract WITH
        preview <- IF asset.formal THEN "ready"
                   ELSE IF attempt.state = "failed" THEN "failed" ELSE "pending",
        newest <- asset.selection,
        displayed <- IF asset.active \in Requests
                     THEN rendition[asset.active].generation ELSE 0
ImplementsContract == Contract!Spec

\* The code never runs into the trigger validate_active_processed_result: when
\* the pointer moves it moves to the formal preview, or to a ready rendition
\* with no later selection in progress or ready.
PointerTriggerSatisfied ==
    [][asset'.active # asset.active =>
        /\ result'[asset'.active].status = "ready"
        /\ \/ asset'.active = Formal /\ asset'.formal
           \/ /\ asset'.active \in Requests
              /\ LET g == rendition'[asset'.active].generation IN
                 /\ g <= asset'.selection
                 /\ \A r \in Requests :
                    rendition'[r].generation > g =>
                        rendition'[r].state \notin InProgress \cup {"ready"}]_vars

\* The publication of a formal preview is refused only because a selection made
\* meanwhile is still in progress. (One worker.)
FormalRefusedOnlyForSelection ==
    [][attempt'.failure = "relation_invalid" /\ attempt.failure = "none" =>
        \E r \in Requests :
            /\ asset.active \in Requests /\ rendition[r].state \in InProgress
            /\ rendition[r].generation > rendition[asset.active].generation]_vars

\* A descriptor is opened for a client only on a whole file of a ready result
\* that is the formal preview, or on display with no newer selection under way:
\* a switch between the check and the opening is noticed.
ServedIsAuthoritative ==
    [][\A h \in Handlers :
        handler'[h].pc = "serving" /\ handler[h].pc # "serving" =>
            LET o == handler[h].o IN
            /\ result[o].status = "ready" /\ published[o] = "full"
            /\ o \in Requests => o = asset.active /\ ~HasNewerCandidate(rendition[o].generation)]_vars

\* The detection of an attempt is never made a second time, by a retry or by a
\* second worker that probed as well.
DetectionKept ==
    [][attempt.detection # "none" => attempt'.detection = attempt.detection]_vars

\* Again and again no job of the asset is open: whatever is queued, and whatever
\* a killed worker left running, is settled in the end.
JobsSettle == []<>(\A o \in Owners : job[o] \in {"none", "done", "failed"})

\* A rendition that failed leaves no published file behind, also when its
\* worker was killed after the file was linked: the next attempt removes it
\* before anything else can fail. A second kill, in the attempt that recovers,
\* can leave it for good. (One worker.)
FailedRenditionLeavesNoFile ==
    interruptions < 2 =>
        \A r \in Requests : rendition[r].state = "failed" => published[r] = "none"
=============================================================================

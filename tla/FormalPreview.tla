--------------------------- MODULE FormalPreview ---------------------------
(***************************************************************************)
(* The worker on the formal preview of an asset. Its attempt is persisted  *)
(* after every phase and a later worker resumes where the attempt stands.  *)
(* Candidate and published file have fixed names, so a worker past its     *)
(* lease and its successor share them; an open file is a descriptor.       *)
(***************************************************************************)
EXTENDS ResultState

At(w, pc) == worker[w].pc = pc /\ worker[w].owner = Formal

\* The file that was inspected earlier is still there. (A file that is still
\* being written may also have changed: StepFails.)
Same(file, id) == file = id /\ file # "none"

\* unlink of the candidate or of the published file: an open descriptor keeps
\* what is left of the file.
UnlinkCandidate(next) ==
    /\ candidate' = "none" /\ linked' = FALSE
    /\ worker' = [v \in Workers |->
        IF next[v].fd = "candidate"
        THEN [next[v] EXCEPT !.fd = IF linked THEN "published" ELSE "orphan"]
        ELSE next[v]]
    /\ UNCHANGED published
UnlinkPublished(next) ==
    /\ published' = [published EXCEPT ![Formal] = "none"] /\ linked' = FALSE
    /\ worker' = [v \in Workers |->
        IF next[v].fd = "published" THEN [next[v] EXCEPT !.fd = "orphan"] ELSE next[v]]
    /\ UNCHANGED candidate

\* Insert or find the attempt; a terminal one settles the job again.
PrepareAttempt(w) ==
    /\ At(w, "prepare")
    /\ \/ /\ attempt.state \in Terminal
          /\ job' = [job EXCEPT ![Formal] = IF attempt.state = "ready" THEN "done" ELSE "failed"]
          /\ Release(w)
          /\ UNCHANGED attempt
       \/ /\ attempt.state \notin Terminal
          /\ attempt' = [attempt EXCEPT !.state = IF @ = "none" THEN "probing" ELSE @]
          /\ worker' = [worker EXCEPT ![w].pc = "source", ![w].from = attempt'.state]
          /\ UNCHANGED job
    /\ UNCHANGED <<asset, rendition, result, disk, handler, interruptions>>

\* The original is looked up and hashed, whatever the attempt's phase.
\* Mutant: a candidate is taken over from a worker killed while rendering it.
PhaseKeepingCandidate(state) ==
    CASE state = "probing" -> "probe" [] state = "resolving" -> "resolve" [] OTHER -> "inspect"
PhaseOf(state) ==
    CASE state = "probing" -> "probe" [] state = "resolving" -> "resolve"
      [] state = "rendering" -> "discard" [] OTHER -> "inspect"
VerifyOriginal(w) ==
    /\ At(w, "source")
    /\ Goto(w, PhaseOf(worker[w].from))
    /\ UNCHANGED <<tables, disk, handler, interruptions>>

\* Detection and preset are persisted once, with the phase they belong to.
PersistDetection(w) ==
    /\ At(w, "probe") /\ attempt.state = "probing"
    /\ \E d \in Detection \ {"none"} :
        attempt' = [attempt EXCEPT !.state = "resolving", !.detection = d]
    /\ worker' = [worker EXCEPT ![w].pc = "resolve", ![w].from = "resolving"]
    /\ UNCHANGED <<asset, rendition, job, result, disk, handler, interruptions>>
PersistPreset(w) ==
    /\ At(w, "resolve") /\ attempt.state = "resolving"
    /\ attempt' = [attempt EXCEPT !.state = "rendering"]
    /\ worker' = [worker EXCEPT ![w].pc = "discard", ![w].from = "rendering"]
    /\ UNCHANGED <<asset, rendition, job, result, disk, handler, interruptions>>

DiscardCandidate(w) ==
    /\ At(w, "discard")
    /\ UnlinkCandidate([worker EXCEPT ![w].pc = "render"])
    /\ UNCHANGED <<tables, handler, interruptions>>

\* ffmpeg -y: a file found at the path is truncated.
StartRender(w) ==
    /\ At(w, "render")
    /\ candidate' = "partial"
    /\ published' = IF linked THEN [published EXCEPT ![Formal] = "partial"] ELSE published
    /\ worker' = [worker EXCEPT ![w].pc = "rendering", ![w].fd = "candidate"]
    /\ UNCHANGED <<tables, linked, handler, interruptions>>

\* Two processes writing one file leave anything in it.
Written(w) ==
    IF \E v \in Workers \ {w} : worker[v].fd = worker[w].fd THEN {"partial", "full"} ELSE {"full"}
FinishRender(w) ==
    /\ At(w, "rendering")
    /\ \E b \in Written(w) :
        /\ candidate' = IF worker[w].fd = "candidate" THEN b ELSE candidate
        /\ published' =
            IF worker[w].fd \in {"published"} \cup (IF linked THEN {"candidate"} ELSE {})
            THEN [published EXCEPT ![Formal] = b] ELSE published
    /\ worker' = [worker EXCEPT ![w].pc = "inspect", ![w].fd = "none"]
    /\ UNCHANGED <<tables, linked, handler, interruptions>>

InspectCandidate(w) ==
    /\ At(w, "inspect") /\ candidate # "none"
    /\ worker' = [worker EXCEPT
        ![w].pc = IF worker[w].from = "rendering" THEN "advance" ELSE "promote",
        ![w].id = candidate]
    /\ UNCHANGED <<tables, disk, handler, interruptions>>

TransitionToFinalizing(w) ==
    /\ At(w, "advance") /\ attempt.state = "rendering"
    /\ attempt' = [attempt EXCEPT !.state = "finalizing"]
    /\ Goto(w, "promote")
    /\ UNCHANGED <<asset, rendition, job, result, disk, handler, interruptions>>

\* The candidate is inspected again and linked; a published file that is
\* already there stays, and is inspected in its turn.
PromoteCandidate(w) ==
    /\ At(w, "promote") /\ Same(candidate, worker[w].id)
    /\ \/ /\ published[Formal] = "none"
          /\ published' = [published EXCEPT ![Formal] = candidate]
          /\ linked' = TRUE
       \/ /\ published[Formal] # "none"
          /\ UNCHANGED <<published, linked>>
    /\ Goto(w, "check")
    /\ UNCHANGED <<tables, candidate, handler, interruptions>>
CheckPublished(w) ==
    /\ At(w, "check") /\ Same(published[Formal], worker[w].id)
    /\ Goto(w, "commit")
    /\ UNCHANGED <<tables, disk, handler, interruptions>>

\* One transaction: derived file, result, attempt, provenance, asset and job.
\* The asset's pointer moves only if it has no result yet.
\* Mutant: a managed result on display refuses the formal preview.
PublishableAsFirst ==
    attempt.state = "finalizing" /\ ~asset.formal /\ Authority = "none"
\* Mutant: an attempt that failed meanwhile is published.
PublishableAfterFailure == ~asset.formal /\ Authority \in {"none", "current_managed"}
Publishable ==
    /\ attempt.state = "finalizing" /\ ~asset.formal
    /\ Authority \in {"none", "current_managed"}
CommitFormalPreview(w) ==
    /\ At(w, "commit") /\ Publishable
    /\ result' = [result EXCEPT ![Formal] = ReadyResult(worker[w].id)]
    /\ attempt' = [attempt EXCEPT !.state = "ready"]
    /\ asset' = [asset EXCEPT
        !.formal = TRUE, !.preview = "preview_ready",
        !.active = IF Authority = "none" THEN Formal ELSE @]
    /\ job' = [job EXCEPT ![Formal] = "done"]
    /\ Goto(w, "tidy")
    /\ UNCHANGED <<rendition, disk, handler, interruptions>>
RefuseFormalPreview(w) ==
    /\ At(w, "commit") /\ ~Publishable
    /\ Fail(w, "undo", "relation_invalid")
    /\ UNCHANGED <<tables, disk, handler, interruptions>>

\* What is not published is taken back: the published file, then the candidate.
UndoPublication(w) ==
    /\ At(w, "undo")
    /\ UnlinkPublished([worker EXCEPT ![w].pc = "undone"])
    /\ UNCHANGED <<tables, handler, interruptions>>
DropCandidate(w) ==
    /\ At(w, "undone") \/ At(w, "drop") \/ At(w, "tidy")
    /\ UnlinkCandidate(
        IF At(w, "undone") THEN [worker EXCEPT ![w].pc = "fail"] ELSE [worker EXCEPT ![w] = Idle])
    /\ UNCHANGED <<tables, handler, interruptions>>

\* FFprobe, FFmpeg, the disk or the database refuses, a file is not there or
\* not the one inspected, or another worker moved the attempt on. The candidate
\* is removed later if its path was known by then.
StepFails(w) ==
    /\ \/ \E pc \in {"source", "probe", "resolve"} :
           At(w, pc) /\ Fail(w, "refuse", "step_failed")
       \/ \E pc \in {"discard", "render", "rendering", "inspect", "advance", "promote"} :
           At(w, pc) /\ Fail(w, "fail", "step_failed")
       \/ \E pc \in {"check", "commit"} :
           At(w, pc) /\ Fail(w, "undo", "step_failed")
    /\ UNCHANGED <<tables, disk, handler, interruptions>>

\* Converge with an attempt another worker finished, or fail attempt, job and
\* asset together.
\* Mutant: without looking at what another worker made of the attempt.
FailAnyAttempt(w) ==
    /\ At(w, "refuse") \/ At(w, "fail")
    /\ attempt' = [attempt EXCEPT !.state = "failed", !.failure = worker[w].code]
    /\ job' = [job EXCEPT ![Formal] = "failed"]
    /\ asset' = [asset EXCEPT !.preview = "failed"]
    /\ \/ At(w, "refuse") /\ Release(w)
       \/ At(w, "fail") /\ Goto(w, "drop")
    /\ UNCHANGED <<rendition, result, disk, handler, interruptions>>
FailAttempt(w) ==
    /\ At(w, "refuse") \/ At(w, "fail")
    /\ \/ /\ attempt.state \in Terminal
          /\ job' = [job EXCEPT ![Formal] = IF attempt.state = "ready" THEN "done" ELSE "failed"]
          /\ UNCHANGED <<attempt, asset>>
       \/ /\ attempt.state \notin Terminal
          /\ attempt' = [attempt EXCEPT !.state = "failed", !.failure = worker[w].code]
          /\ job' = [job EXCEPT ![Formal] = "failed"]
          /\ asset' = [asset EXCEPT !.preview = "failed"]
    /\ \/ At(w, "refuse") /\ Release(w)
       \/ At(w, "fail") /\ Goto(w, "drop")
    /\ UNCHANGED <<rendition, result, disk, handler, interruptions>>

\* The transaction of FailAttempt fails itself: the job keeps its lease.
FailureUnrecorded(w) ==
    /\ interruptions < MaxInterruptions
    /\ interruptions' = interruptions + 1
    /\ \/ At(w, "refuse") /\ Release(w)
       \/ At(w, "fail") /\ Goto(w, "drop")
    /\ UNCHANGED <<tables, disk, handler>>

ProcessFormalPreview(w) ==
    \/ PrepareAttempt(w) \/ VerifyOriginal(w) \/ PersistDetection(w) \/ PersistPreset(w)
    \/ DiscardCandidate(w) \/ StartRender(w) \/ FinishRender(w) \/ InspectCandidate(w)
    \/ TransitionToFinalizing(w) \/ PromoteCandidate(w) \/ CheckPublished(w)
    \/ CommitFormalPreview(w) \/ RefuseFormalPreview(w) \/ UndoPublication(w)
    \/ DropCandidate(w) \/ StepFails(w) \/ FailAttempt(w)
=============================================================================

---------------------------- MODULE Renditions ----------------------------
(***************************************************************************)
(* Renditions of an asset: their creation by the API, which takes the next *)
(* selection generation, and the worker that renders and publishes them.   *)
(* A candidate's name is fresh, so only its link, the published file, can  *)
(* outlive the attempt that made it. The preset of a request is part of    *)
(* its client_request_id, and what becomes of the preset is a failure of   *)
(* the rendition or no difference.                                         *)
(***************************************************************************)
EXTENDS ResultState

(***************************************************************************)
(* POST /assets/{id}/renditions. The preflight reads and hashes outside    *)
(* the transaction that creates the rendition.                             *)
(***************************************************************************)
AcceptRendition(h, r) ==
    /\ handler[h].pc = "idle"
    /\ handler' = [handler EXCEPT ![h] =
        [pc |-> "begin", op |-> "create", o |-> r, base |-> Nobody]]
    /\ UNCHANGED <<tables, disk, worker, interruptions>>

\* A known request id is replayed; an asset without a deliverable result, or
\* whose original does not verify, is refused; otherwise the identity of the
\* active result is kept.
Eligible(r) ==
    /\ rendition[r].state = "none"
    /\ asset.active # Nobody /\ Deliverable(asset.active)
Preflight(h) ==
    /\ handler[h].pc = "begin" /\ handler[h].op = "create"
    /\ \/ handler' = [handler EXCEPT ![h] = NoRequest]
       \/ /\ Eligible(handler[h].o)
          /\ handler' = [handler EXCEPT ![h].pc = "ready", ![h].base = asset.active]
    /\ UNCHANGED <<tables, disk, worker, interruptions>>

\* insert_rendition, with the base the request saw.
NewRendition(generation, base) ==
    [state |-> "queued", generation |-> generation, base |-> base, error |-> "none"]

\* BEGIN IMMEDIATE: the same questions again, and whether the identity is
\* still the same; then generation, job and rendition.
Creatable(h) == Eligible(handler[h].o) /\ asset.active = handler[h].base
CreateRendition(h) ==
    /\ handler[h].pc = "ready" /\ handler[h].op = "create"
    /\ IF Creatable(h)
       THEN /\ asset' = [asset EXCEPT !.selection = @ + 1]
            /\ rendition' = [rendition EXCEPT ![handler[h].o] =
                NewRendition(asset.selection + 1, handler[h].base)]
            /\ job' = [job EXCEPT ![handler[h].o] = "queued"]
       ELSE UNCHANGED <<asset, rendition, job>>
    /\ handler' = [handler EXCEPT ![h] = NoRequest]
    /\ UNCHANGED <<attempt, result, disk, worker, interruptions>>

(***************************************************************************)
(* The worker. Whatever state a killed worker left, a rendition starts     *)
(* over; only one that was finalizing is known to have been published.     *)
(***************************************************************************)
On(w, pc) == worker[w].pc = pc /\ worker[w].owner \in Requests

RestartValidation(w) ==
    /\ On(w, "prepare")
    /\ LET r == worker[w].owner IN
       \/ /\ rendition[r].state \in Terminal
          /\ job' = [job EXCEPT ![r] = IF rendition[r].state = "failed" THEN "failed" ELSE "done"]
          /\ Release(w)
          /\ UNCHANGED rendition
       \/ /\ rendition[r].state \in InProgress
          /\ rendition' = [rendition EXCEPT ![r].state = "validating"]
          /\ worker' = [worker EXCEPT ![w].pc = "clean", ![w].from = rendition[r].state]
          /\ UNCHANGED job
    /\ UNCHANGED <<asset, attempt, result, disk, handler, interruptions>>

\* Mutant: the state is read after the restart has overwritten it.
CleanupByState(w) ==
    /\ On(w, "clean")
    /\ published' = IF rendition[worker[w].owner].state = "finalizing"
                    THEN [published EXCEPT ![worker[w].owner] = "none"] ELSE published
    /\ Goto(w, "validate")
    /\ UNCHANGED <<tables, candidate, linked, handler, interruptions>>
CleanupUncommitted(w) ==
    /\ On(w, "clean")
    /\ published' = IF worker[w].from = "finalizing"
                    THEN [published EXCEPT ![worker[w].owner] = "none"] ELSE published
    /\ Goto(w, "validate")
    /\ UNCHANGED <<tables, candidate, linked, handler, interruptions>>

\* transition_rendition reads the state, then updates the row whatever it has
\* become; only a terminal row is immutable.
CheckState(w, pc, state, next) ==
    /\ On(w, pc) /\ rendition[worker[w].owner].state = state
    /\ Goto(w, next)
    /\ UNCHANGED <<tables, disk, handler, interruptions>>
StoreState(w, pc, state, next) ==
    /\ On(w, pc) /\ rendition[worker[w].owner].state \in InProgress
    /\ rendition' = [rendition EXCEPT ![worker[w].owner].state = state]
    /\ Goto(w, next)
    /\ UNCHANGED <<asset, attempt, job, result, disk, handler, interruptions>>
BeginRendering(w) ==
    CheckState(w, "validate", "validating", "begin") \/ StoreState(w, "begin", "rendering", "rendering")
EndRendering(w) ==
    CheckState(w, "rendering", "rendering", "end") \/ StoreState(w, "end", "finalizing", "promote")

\* os.link refuses a name that exists.
PromoteRendition(w) ==
    /\ On(w, "promote") /\ published[worker[w].owner] = "none"
    /\ published' = [published EXCEPT ![worker[w].owner] = "full"]
    /\ Goto(w, "commit")
    /\ UNCHANGED <<tables, candidate, linked, handler, interruptions>>

\* validate_managed_pointer_transition_source: the selection is the newest,
\* and the active result is the formal preview or an older managed result with
\* no other selection after it; the base is what the request saw.
TransitionValid(r) ==
    /\ rendition[r].generation = asset.selection
    /\ asset.active # Nobody /\ result[asset.active].status = "ready"
    /\ \/ asset.active = Formal /\ asset.formal /\ attempt.state = "ready"
       \/ /\ asset.active \in Requests
          /\ rendition[asset.active].state = "ready"
          /\ rendition[asset.active].generation < rendition[r].generation
          /\ \A s \in Requests \ {r} :
                rendition[s].generation > rendition[asset.active].generation =>
                    rendition[s].state \notin InProgress \cup {"ready"}
\* Mutant: the base is unchanged, and newer selections are not looked at.
PublishableOnBase(r) == rendition[r].state = "finalizing" /\ rendition[r].base = asset.active
RenditionPublishable(r) ==
    /\ rendition[r].state = "finalizing"
    /\ TransitionValid(r)
    /\ rendition[r].base = asset.active

\* One transaction: derived file, result, provenance, rendition, pointer and
\* job. A trigger supersedes the result the pointer leaves, but never the
\* formal preview.
Superseded(o) ==
    IF o # Formal \/ ~asset.formal THEN [result[o] EXCEPT !.status = "superseded"] ELSE result[o]
CommitRendition(w) ==
    /\ On(w, "commit") /\ RenditionPublishable(worker[w].owner)
    /\ LET r == worker[w].owner IN
       /\ result' = [result EXCEPT
            ![r] = ReadyResult(published[r]),
            ![asset.active] = Superseded(asset.active)]
       /\ rendition' = [rendition EXCEPT ![r].state = "ready"]
       /\ asset' = [asset EXCEPT !.active = r]
       /\ job' = [job EXCEPT ![r] = "done"]
    /\ Release(w)
    /\ UNCHANGED <<attempt, disk, handler, interruptions>>
RefuseRendition(w) ==
    /\ On(w, "commit") /\ ~RenditionPublishable(worker[w].owner)
    /\ Fail(w, "undo", "not_eligible")
    /\ UNCHANGED <<tables, disk, handler, interruptions>>

UndoRendition(w) ==
    /\ On(w, "undo")
    /\ published' = [published EXCEPT ![worker[w].owner] = "none"]
    /\ Goto(w, "fail")
    /\ UNCHANGED <<tables, candidate, linked, handler, interruptions>>

\* _prepare_transform: the preset is registered but not valid, its manifest or its
\* file is not what was registered, or the copy of the file cannot be made. (A
\* database that refuses the transition after it leads to the same.)
PresetUnusable(w) == On(w, "validate") /\ Fail(w, "fail", "step_failed")

\* The preset is not usable, FFmpeg, the disk or the database refuses.
RenditionStepFails(w) ==
    /\ \/ PresetUnusable(w)
       \/ \E pc \in {"begin", "rendering", "end", "promote"} :
           On(w, pc) /\ Fail(w, "fail", "step_failed")
       \/ On(w, "commit") /\ Fail(w, "undo", "step_failed")
    /\ UNCHANGED <<tables, disk, handler, interruptions>>

\* The job is marked failed whatever the rendition's state.
\* Mutant: only the job is failed.
FailRenditionJob(w) ==
    /\ On(w, "fail")
    /\ job' = [job EXCEPT ![worker[w].owner] = "failed"]
    /\ Release(w)
    /\ UNCHANGED <<asset, attempt, rendition, result, disk, handler, interruptions>>
FailRendition(w) ==
    /\ On(w, "fail")
    /\ LET r == worker[w].owner IN
       /\ rendition' =
            IF rendition[r].state \in InProgress
            THEN [rendition EXCEPT ![r].state = "failed", ![r].error = worker[w].code]
            ELSE rendition
       /\ job' = [job EXCEPT ![r] = "failed"]
    /\ Release(w)
    /\ UNCHANGED <<asset, attempt, result, disk, handler, interruptions>>

ProcessRendition(w) ==
    \/ RestartValidation(w) \/ CleanupUncommitted(w) \/ BeginRendering(w)
    \/ EndRendering(w) \/ PromoteRendition(w) \/ CommitRendition(w)
    \/ RefuseRendition(w) \/ UndoRendition(w) \/ RenditionStepFails(w)
    \/ FailRendition(w)
RenditionRequest(h) ==
    (\E r \in Requests : AcceptRendition(h, r)) \/ Preflight(h) \/ CreateRendition(h)
=============================================================================

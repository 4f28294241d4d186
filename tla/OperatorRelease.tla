-------------------------- MODULE OperatorRelease ---------------------------
(***************************************************************************)
(* run_operator_release_orchestration: one action is one docker command    *)
(* and the decision taken on its result. Any command may fail, time out or *)
(* take effect and still be reported as failed.                            *)
(***************************************************************************)
EXTENDS Migrators

\* What the orchestrator leaves alone when it only looks.
Elsewhere == UNCHANGED <<marker, claims, files>>
Look == UNCHANGED <<main, wal, container>> /\ Elsewhere

At(pc) == op.pc = pc
Then(pc) == op' = [op EXCEPT !.pc = pc] /\ report' = report
\* An exception: the except branches of the run, or those of the identity read.
Raise(code) ==
    /\ op' = [op EXCEPT !.pc = "cleanup", !.failing = TRUE,
                 !.code = IF op.failing THEN @ ELSE code]
    /\ report' = report
Sound == faults' = faults
Fault == faults < MaxFaults /\ faults' = faults + 1

\* The operation ends: its result or its error.
Ended(ok, code, stopped, last) ==
    /\ report' = [ok |-> ok, code |-> code, stopped |-> stopped,
                  restore |-> ~ok /\ op.attempted, last |-> last]
    /\ op' = [Idle EXCEPT !.n = op.n]

(***************************************************************************)
(* _require_volume_state: the api and worker services may be there, if     *)
(* they are stopped; of the others exactly those allowed, in their state.  *)
(***************************************************************************)
VolumeState(running, created) ==
    /\ Services \ InState("none") \subseteq {"api"} \cup running \cup created
    /\ InState("running") = running
    /\ InState("created") \ {"api"} = created

(***************************************************************************)
(* _claim_operation: every operation has a manifest of its own. Before a   *)
(* second one the operator may remove the containers the first has left.   *)
(***************************************************************************)
Removed(svcs) ==
    [svc \in Services |-> IF svc \in svcs THEN NoContainer ELSE container[svc]]
Begin ==
    /\ op.pc \in {"idle", "dead"} /\ op.n < MaxOperations
    /\ report # None => ~report.ok
    /\ op' = [Idle EXCEPT !.n = op.n + 1, !.pc = "stop"]
    /\ report' = None
    /\ container' \in {container, Removed(OneShots)}
    /\ Sound /\ UNCHANGED <<main, wal>> /\ Elsewhere

\* compose stop api worker: the worker is killed where it is.
StopApi == [container EXCEPT !["api"] =
               IF @.state = "running" THEN [NoContainer EXCEPT !.state = "exited"] ELSE @]
StopServices ==
    /\ At("stop")
    /\ \/ container' = StopApi /\ Then("quiet") /\ Sound
       \/ container' \in {container, StopApi} /\ Raise("failed") /\ Fault
    /\ UNCHANGED <<main, wal>> /\ Elsewhere

Successor(svc) == IF svc = "preflight" THEN svc ELSE Chain[Place(svc) + 1]
\* Before the first phase, and after each: nothing may run.
Quiet ==
    /\ At("quiet")
    /\ IF VolumeState({}, {}) THEN Then("create") /\ Sound
       ELSE Raise("unsafe") /\ Sound
    /\ Look
Between ==
    /\ At("between")
    /\ Sound /\ Look
    /\ IF ~VolumeState({}, {}) THEN Raise("unsafe")
       ELSE IF op.reading THEN Ended(FALSE, op.code, TRUE, op.last)
       ELSE IF op.svc = "preflight" THEN Ended(TRUE, "none", TRUE, None)
       ELSE /\ op' = [op EXCEPT !.pc = "create", !.svc = Successor(op.svc),
                        !.attempted = @ \/ op.svc = "marker"]
            /\ report' = report

(***************************************************************************)
(* _create_and_verify: compose create reuses the container the service     *)
(* already has; the container is known to the cleanup once ps named it.    *)
(***************************************************************************)
Made == [container EXCEPT ![op.svc] =
            IF @.state = "none" THEN [NoContainer EXCEPT !.state = "created", !.of = op.n]
            ELSE @]
Create ==
    /\ At("create")
    /\ \/ container' = Made /\ Then("register") /\ Sound
       \/ container' \in {container, Made} /\ Raise("failed") /\ Fault
    /\ UNCHANGED <<main, wal>> /\ Elsewhere
Register ==
    /\ At("register")
    /\ \/ /\ op' = [op EXCEPT !.pc = "ready", !.ids = @ \cup {op.svc}]
          /\ report' = report /\ Sound
       \/ Raise("failed") /\ Fault
    /\ Look
Ready ==
    /\ At("ready")
    /\ IF VolumeState({}, {op.svc}) THEN Then("start") /\ Sound ELSE Raise("unsafe") /\ Sound
    /\ Look
Started == [container EXCEPT ![op.svc].state = "running"]
Start ==
    /\ At("start")
    /\ \/ /\ container' = Started /\ Sound
          /\ Then(IF op.svc = "drain" THEN "check" ELSE "poll")
       \/ container' \in {container, Started} /\ Raise("failed") /\ Fault
    /\ UNCHANGED <<main, wal>> /\ Elsewhere

\* _run_one_shot: docker inspect, then the volume, until it has exited.
Poll ==
    /\ At("poll")
    /\ \/ Is(op.svc, "running") /\ Then("check")
       \/ ~Is(op.svc, "running") /\ ~container[op.svc].ok /\ Raise("failed")
       \/ /\ Is(op.svc, "exited") /\ container[op.svc].ok
          /\ op' = [op EXCEPT !.pc = "remove",
                       !.last = IF op.reading THEN container["identity"].next ELSE None]
          /\ report' = report
    /\ Sound /\ Look
Check ==
    /\ At("check")
    /\ IF VolumeState({op.svc}, {})
       THEN Then(IF op.svc = "drain" THEN "exec" ELSE "poll")
       ELSE Raise("unsafe")
    /\ Sound /\ Look
\* The 900 s of a one-shot, and drain_timeout_seconds.
Deadline ==
    /\ op.pc \in {"check", "exec"} /\ (At("check") => op.svc # "drain")
    /\ Is(op.svc, "running")
    /\ Raise("failed")
    /\ Sound /\ Look

\* _run_worker_drain: phase2b_drain_check, again and again, then docker stop.
DrainCheck ==
    /\ At("exec")
    /\ Then(IF Is("drain", "running") /\ Drained(Current) THEN "halt" ELSE "check")
    /\ Sound /\ Look
Stopped(svc) == [container EXCEPT ![svc] =
                    IF @.state = "running" THEN [@ EXCEPT !.state = "exited", !.ok = FALSE,
                                                          !.open = FALSE] ELSE @]
Halt ==
    /\ At("halt")
    /\ \/ container' = Stopped("drain") /\ Then("remove") /\ Sound
       \/ container' \in {container, Stopped("drain")} /\ Raise("failed") /\ Fault
    /\ UNCHANGED <<main, wal>> /\ Elsewhere

Remove ==
    /\ At("remove")
    /\ \/ /\ container' = Removed({op.svc}) /\ Sound
          /\ op' = [op EXCEPT !.pc = "between", !.ids = @ \ {op.svc}] /\ report' = report
       \/ container' \in {container, Removed({op.svc})} /\ Raise("failed") /\ Fault
    /\ UNCHANGED <<main, wal>> /\ Elsewhere

(***************************************************************************)
(* The except branches: best effort, then what can be confirmed. After the *)
(* identity could not be read, api and worker are not stopped once more.   *)
(***************************************************************************)
Cleanup ==
    /\ At("cleanup")
    /\ op' = [op EXCEPT !.pc = "confirm", !.ids = {}] /\ report' = report
    /\ LET after(c) == IF op.reading \/ c["api"].state # "running" THEN c
                       ELSE [c EXCEPT !["api"] = [NoContainer EXCEPT !.state = "exited"]]
       IN \/ container' = after(Removed(op.ids)) /\ Sound
          \/ container' \in {container, Removed(op.ids), after(container)} /\ Fault
    /\ UNCHANGED <<main, wal>> /\ Elsewhere
\* Mutant: an identity that could not be read is read again.
ConfirmAndReread ==
    /\ At("confirm")
    /\ \/ /\ Sound
          /\ IF ~VolumeState({}, {}) THEN Ended(FALSE, "unsafe", FALSE, None)
             ELSE IF op.attempted
             THEN /\ op' = [op EXCEPT !.pc = "create", !.reading = TRUE, !.svc = "identity"]
                  /\ report' = report
             ELSE Ended(FALSE, op.code, TRUE, None)
       \/ Fault /\ Ended(FALSE, "unsafe", FALSE, None)
    /\ Look
Confirm ==
    /\ At("confirm")
    /\ \/ /\ Sound
          /\ IF ~VolumeState({}, {}) THEN Ended(FALSE, "unsafe", FALSE, None)
             ELSE IF op.attempted /\ ~op.reading
             THEN /\ op' = [op EXCEPT !.pc = "create", !.reading = TRUE, !.svc = "identity"]
                  /\ report' = report
             ELSE Ended(FALSE, op.code, TRUE, None)
       \/ Fault /\ Ended(FALSE, "unsafe", FALSE, None)
    /\ Look

\* The host process is killed, or interrupted while it cleans up.
Die ==
    /\ op.pc \notin {"idle", "dead"}
    /\ op' = [Idle EXCEPT !.n = op.n, !.pc = "dead"] /\ report' = report
    /\ Fault /\ Look
\* What a query of the volume that docker does not answer raises.
QueryFails ==
    /\ op.pc \in {"quiet", "ready", "poll", "check", "between"}
    /\ Raise("failed")
    /\ Fault /\ Look
Orchestrate ==
    \/ StopServices \/ Quiet \/ Between
    \/ Create \/ Register \/ Ready \/ Start
    \/ Poll \/ Check \/ DrainCheck \/ Halt \/ Remove
    \/ Cleanup \/ Confirm
    \/ QueryFails
=============================================================================

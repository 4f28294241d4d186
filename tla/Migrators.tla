----------------------------- MODULE Migrators ------------------------------
(***************************************************************************)
(* The programs that run in containers on the volume. One action is one    *)
(* SQLite transaction, or what lies between two: a container may be killed *)
(* between any two of them. A killed container leaves the -wal file.       *)
(***************************************************************************)
EXTENDS ReleaseState

(***************************************************************************)
(* Opening, committing and closing. The last connection that is closed     *)
(* moves the -wal file into the database file and removes it.              *)
(***************************************************************************)
Others(svc) == \E s \in Services \ {svc} : container[s].open
Open(svc) == wal' = Current /\ main' = main
Write(db) == wal' = db /\ main' = main
Close(svc) ==
    IF container[svc].open /\ ~Others(svc)
    THEN main' = Current /\ wal' = None
    ELSE UNCHANGED <<main, wal>>
Exit(svc, ok) ==
    /\ Close(svc)
    /\ container' = [container EXCEPT
          ![svc].state = "exited", ![svc].ok = ok, ![svc].open = FALSE]
Goto(svc, pc) == container' = [container EXCEPT ![svc].pc = pc, ![svc].open = TRUE]
Runs(svc, pc) == Is(svc, "running") /\ container[svc].pc = pc
Rest == UNCHANGED <<marker, claims, files, op, report, faults>>

\* initialize_disposable_database_target: create or verify the marker.
Marker ==
    /\ Runs("marker", "claim")
    /\ marker' = TRUE
    /\ Exit("marker", TRUE)
    /\ UNCHANGED <<claims, files, op, report, faults>>

\* Every other entry point first requires the marker; those that write claim.
\* Mutant: an existing claim is overwritten.
ClaimAnyway(svc) == TRUE
MayClaim(svc) == claims[svc] = 0
Claim(svc) ==
    /\ Runs(svc, "claim")
    /\ IF marker /\ MayClaim(svc)
       THEN /\ claims' = [claims EXCEPT ![svc] = container[svc].of]
            /\ Open(svc)
            /\ Goto(svc, IF svc = "drain" THEN "write" ELSE "read")
       ELSE claims' = claims /\ Exit(svc, FALSE)
    /\ UNCHANGED <<marker, files, op, report, faults>>

(***************************************************************************)
(* apply_offline_startup_migrations: exactly 001 or 007, then one          *)
(* transaction for each version.                                           *)
(***************************************************************************)
StartupRead ==
    /\ Runs("startup", "read")
    /\ \/ Current.version = 7 /\ Exit("startup", TRUE)
       \/ Current.version \notin {1, 7} /\ Exit("startup", FALSE)
       \/ /\ Current.version = 1
          /\ container' = [container EXCEPT !["startup"].pc = "write", !["startup"].next = 2]
          /\ UNCHANGED <<main, wal>>
    /\ Rest
StartupWrite ==
    LET v == container["startup"].next IN
    /\ Runs("startup", "write")
    /\ IF Current.version = v - 1
       THEN /\ Write([Current EXCEPT !.version = v])
            /\ container' = [container EXCEPT !["startup"].next = v + 1,
                   !["startup"].pc = IF v = 7 THEN "close" ELSE "write"]
       ELSE Exit("startup", FALSE)
    /\ Rest

(***************************************************************************)
(* apply_phase2b_migration. The backfill gives every finished session      *)
(* video a first preview generation and takes its legacy result away.      *)
(***************************************************************************)
FormalRow(r) ==
    IF r.step \in {"ready", "failed"} THEN [r EXCEPT !.step = "queued", !.formal = TRUE] ELSE r
Backfilled(db) == [db EXCEPT !.version = 8, !.row = [a \in Assets |-> FormalRow(@[a])]]
Phase2BPossible == Current.version >= 7 /\ Drained(Current)
Phase2BRead ==
    /\ Runs("phase2b", "read")
    /\ IF Phase2BPossible /\ Current.version < 8
       THEN Goto("phase2b", "write") /\ UNCHANGED <<main, wal>>
       ELSE Exit("phase2b", Phase2BPossible)
    /\ Rest
\* Mutant: what the read preflight saw is not looked at again under the lock.
WriteUnlocked ==
    /\ Runs("phase2b", "write")
    /\ Write(Backfilled(Current)) /\ Goto("phase2b", "close")
    /\ Rest
Phase2BWrite ==
    /\ Runs("phase2b", "write")
    /\ IF Current.version < 8 /\ Phase2BPossible
       THEN Write(Backfilled(Current)) /\ Goto("phase2b", "close")
       ELSE Exit("phase2b", Current.version >= 8)
    /\ Rest

(***************************************************************************)
(* apply_phase2c_migration, --dry-run and --apply. No asset is confirmed   *)
(* after 008 while the api is stopped: its backfill promotes nothing here. *)
(* The schema of a phase is valid as a whole or the phase is refused.      *)
(***************************************************************************)
Phase2BValid == Current.version >= 8
Phase2CValid == Current.version >= 9
Phase2CPossible == Phase2BValid /\ ~Phase2CValid /\ Drained(Current)
Phase2CRead(svc) ==
    /\ Runs(svc, "read")
    /\ IF Phase2CPossible
       THEN Goto(svc, "write") /\ UNCHANGED <<main, wal>>
       ELSE Exit(svc, Phase2CValid)
    /\ Rest
Phase2CWrite(svc) ==
    /\ Runs(svc, "write")
    /\ IF Phase2CPossible
       THEN /\ Goto(svc, "close")
            /\ IF svc = "apply" THEN Write([Current EXCEPT !.version = 9])
                                ELSE UNCHANGED <<main, wal>>
       ELSE Exit(svc, Phase2CValid)
    /\ Rest
Finish(svc) == Runs(svc, "close") /\ Exit(svc, TRUE) /\ Rest

(***************************************************************************)
(* connect_read_only refuses a database with sidecars: neither the 010     *)
(* preflight nor the identity reader sees a -wal file's content.           *)
(***************************************************************************)
Readable == wal = None
PreflightReady == main.version = 10 \/ (main.version = 9 /\ Drained(main))
Preflight ==
    /\ Runs("preflight", "claim")
    /\ Exit("preflight", marker /\ Readable /\ PreflightReady)
    /\ Rest
\* Mutant: the database file is read although a -wal file lies beside it.
IdentityBesideWal ==
    /\ Runs("identity", "claim")
    /\ container' = [container EXCEPT
          !["identity"].state = "exited", !["identity"].ok = marker,
          !["identity"].next = main.version]
    /\ UNCHANGED <<main, wal>>
    /\ Rest
\* Mutant: version 0 is printed for a database that cannot be read.
IdentityZero ==
    /\ Runs("identity", "claim")
    /\ container' = [container EXCEPT
          !["identity"].state = "exited", !["identity"].ok = marker /\ Readable,
          !["identity"].next = IF Readable THEN main.version ELSE 0]
    /\ UNCHANGED <<main, wal>>
    /\ Rest
\* What the identity reader prints is kept in next.
Identity ==
    /\ Runs("identity", "claim")
    /\ container' = [container EXCEPT
          !["identity"].state = "exited", !["identity"].ok = marker /\ Readable,
          !["identity"].next = main.version]
    /\ UNCHANGED <<main, wal>>
    /\ Rest

(***************************************************************************)
(* run_forever in the drain container, and in the worker beside the api    *)
(* service, which also takes uploads. The worker of a session video at 008 *)
(* queues a formal generation, before it a legacy preview. A preview file  *)
(* is published before the commit that records it. What the api has done   *)
(* before an operation is in the initial states.                           *)
(***************************************************************************)
Workers == {"drain", "api"}
AtWork(svc) == Runs(svc, "write") /\ (svc = "api" => op.pc \notin {"idle", "dead"})
Put(svc, a, row) == Write([Current EXCEPT !.row[a] = row]) /\ Goto(svc, "write")
Upload(a) ==
    /\ AtWork("api") /\ Current.version >= 3 /\ Current.row[a].step = "absent"
    /\ Put("api", a, [NoRow EXCEPT !.step = "uploading"])
    /\ Rest
FinishUpload(svc, a) ==
    /\ AtWork(svc) /\ Current.row[a].step = "uploading"
    /\ Put(svc, a, [NoRow EXCEPT !.step = "queued", !.formal = Current.version >= 8])
    /\ files' = files \cup {<<a, "original">>}
    /\ UNCHANGED <<marker, claims, op, report, faults>>
PreviewFile(a) == <<a, IF Current.row[a].formal THEN "new" ELSE "old">>
PublishPreview(svc, a) ==
    /\ AtWork(svc) /\ Current.row[a].step = "queued" /\ PreviewFile(a) \notin files
    /\ files' = files \cup {PreviewFile(a)}
    /\ Open(svc) /\ Goto(svc, "write")
    /\ UNCHANGED <<marker, claims, op, report, faults>>
RecordPreview(svc, a) ==
    LET row == Current.row[a] IN
    /\ AtWork(svc) /\ row.step = "queued" /\ PreviewFile(a) \in files
    /\ Put(svc, a, [row EXCEPT !.step = "ready",
           !.old = @ \/ ~row.formal, !.new = @ \/ row.formal])
    /\ Rest
FailPreview(svc, a) ==
    /\ AtWork(svc) /\ Current.row[a].step = "queued" /\ PreviewFile(a) \notin files
    /\ Put(svc, a, [Current.row[a] EXCEPT !.step = "failed"])
    /\ Rest
\* run_once returns: its connections are closed until the next iteration.
Pause(svc) ==
    /\ AtWork(svc) /\ container[svc].open
    /\ Close(svc)
    /\ container' = [container EXCEPT ![svc].open = FALSE]
    /\ Rest
\* run_migrations at the start of the api and of every iteration of the worker.
RunMigrations ==
    /\ AtWork("api") /\ Current.version < 7
    /\ Write([Current EXCEPT !.version = @ + 1])
    /\ Goto("api", "write")
    /\ Rest

Work(svc) ==
    \/ \E a \in Assets : FinishUpload(svc, a) \/ PublishPreview(svc, a)
    \/ \E a \in Assets : RecordPreview(svc, a) \/ FailPreview(svc, a)
    \/ Pause(svc)

\* A container dies at any point: what was committed stays, nothing is closed.
Kill(svc) ==
    /\ Is(svc, "running") /\ svc # "api" /\ faults < MaxFaults
    /\ faults' = faults + 1
    /\ container' = [container EXCEPT
          ![svc].state = "exited", ![svc].ok = FALSE, ![svc].open = FALSE]
    /\ UNCHANGED <<main, wal, marker, claims, files, op, report>>
\* Someone starts the api and the worker while the operation goes on.
Return ==
    /\ op.pc \notin {"idle", "dead"}
    /\ ~Is("api", "running") /\ faults < MaxFaults
    /\ faults' = faults + 1
    /\ container' = [container EXCEPT !["api"] =
          [NoContainer EXCEPT !.state = "running", !.pc = "write"]]
    /\ UNCHANGED <<main, wal, marker, claims, files, op, report>>

Program(svc) ==
    \/ svc = "marker" /\ Marker
    \/ svc \in Claiming /\ Claim(svc)
    \/ svc = "startup" /\ (StartupRead \/ StartupWrite)
    \/ svc = "phase2b" /\ (Phase2BRead \/ Phase2BWrite)
    \/ svc \in {"dryrun", "apply"} /\ (Phase2CRead(svc) \/ Phase2CWrite(svc))
    \/ svc \in {"startup", "phase2b", "dryrun", "apply"} /\ Finish(svc)
    \/ svc = "preflight" /\ Preflight
    \/ svc = "identity" /\ Identity
    \/ svc \in Workers /\ Work(svc)
    \/ svc = "api" /\ (RunMigrations \/ \E a \in Assets : Upload(a))
ContainersNext == Return \/ \E svc \in Services : Program(svc) \/ Kill(svc)
=============================================================================

------------------------------ MODULE Release -------------------------------
(***************************************************************************)
(* A release of the database schema on a disposable volume: the backup,    *)
(* the operation with the programs it starts, and the drill that restores  *)
(* the backup after an operation that failed. And what they must not do.   *)
(***************************************************************************)
EXTENDS OperatorRelease, RestoreDrill

vars == <<volume, host, files, container, faults, artifacts, drill>>

Init == ReleaseInit /\ DrillInit

\* The operator starts nothing before the backup, and nothing after the drill on this volume.
Prepared == drill.pc = "armed"
StepOperator == Prepared /\ Begin /\ UNCHANGED <<artifacts, drill>>
StepOrchestrator == Orchestrate /\ UNCHANGED <<artifacts, drill>>
StepDeadline == Deadline /\ UNCHANGED <<artifacts, drill>>
StepDeath == Die /\ UNCHANGED <<artifacts, drill>>
StepContainers == ContainersNext /\ UNCHANGED <<artifacts, drill>>
Next ==
    \/ StepOperator \/ StepOrchestrator \/ StepDeadline \/ StepDeath
    \/ StepContainers
    \/ DrillNext

Spec == Init /\ [][Next]_vars
\* The host process runs on, and a clock it compares with a deadline too;
\* nothing is assumed of docker, of the programs or of the operator.
FairSpec == Spec /\ WF_vars(StepOrchestrator) /\ SF_vars(StepDeadline)

TypeOK ==
    /\ main \in Database /\ wal \in Database \cup {None}
    /\ marker \in BOOLEAN
    /\ claims \in [Claiming -> 0..MaxOperations]
    /\ files \subseteq File
    /\ container \in [Services -> Container]
    /\ op \in Operation
    /\ report \in Report \cup {None}
    /\ faults \in 0..MaxFaults
    /\ backup \in Database \cup {None} /\ attested \in Database \cup {None}
    /\ protected \subseteq File
    /\ forensic \in Database \cup {None}
    /\ drill \in Drill

(***************************************************************************)
(* Before 008 a preview belongs to no generation, from 008 on each does:   *)
(* no job queued before it can still complete after it, whatever the api   *)
(* queues between the migrator's read preflight and its transaction.       *)
(***************************************************************************)
FormalEra ==
    Current.version >= 8 =>
        \A a \in Assets :
            Current.row[a].step \in {"queued", "ready", "failed"} => Current.row[a].formal

(***************************************************************************)
(* No volume is migrated partly by one operation and partly by another:    *)
(* its claims stop a second one, also after the first was killed.          *)
(***************************************************************************)
OneOperationMigrates ==
    \A s, t \in Claiming : claims[s] # 0 /\ claims[t] # 0 => claims[s] = claims[t]

(***************************************************************************)
(* What the orchestrator reports is so: stopped means that nothing runs on *)
(* the volume, success that 009 is applied and nothing is left to drain or *)
(* to check in; the last committed version it names is the database's, a   *)
(* -wal file included; and where no restore is asked for nothing migrated. *)
(***************************************************************************)
ReportsTrue ==
    [][report' # report /\ report' # None =>
        /\ report'.stopped => InState("running") = {}
        /\ report'.ok => Current.version = 9 /\ Drained(Current) /\ wal = None
        /\ report'.last # None => report'.last = Current.version
        /\ ~report'.ok /\ ~report'.restore => \A s \in Claiming : claims[s] # op.n
      ]_vars

(***************************************************************************)
(* An operation ends with a report or the death of its process, whatever   *)
(* docker and the programs do: every wait has a deadline, and the handling *)
(* of a failure does not repeat itself.                                    *)
(***************************************************************************)
OperationSettles == op.pc \notin {"idle", "dead"} ~> op.pc \in {"idle", "dead"}

(***************************************************************************)
(* From the replacement on the restored database is the attested backup    *)
(* and no -wal file of the failed one lies beside it, also when the drill  *)
(* is killed: SQLite would play it into the restored file. No file of the  *)
(* inventory taken before the operation is ever removed.                   *)
(***************************************************************************)
RestoredWhole ==
    /\ drill.pc \in {"verify", "media", "unlink", "final", "done"} =>
        main = attested /\ wal = None
    /\ protected \subseteq files

(***************************************************************************)
(* A drill that fails was called a second time, was given an inventory     *)
(* that overlaps or is incomplete, or found an orphan older than itself:   *)
(* an operation, wherever it was cut off, can be undone.                   *)
(***************************************************************************)
FailsForCause ==
    drill.pc = "failed" =>
        \/ drill.repeated
        \/ Overlap
        \/ ~((Derived \cap files) \subseteq protected \cup drill.candidates \cup Referenced(attested))
        \/ ~(protected \cap Derived \subseteq Referenced(attested))
=============================================================================

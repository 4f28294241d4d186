---------------------------- MODULE RestoreDrill ----------------------------
(***************************************************************************)
(* The backup taken before an operation, and run_restore_drill after a     *)
(* failed one, on the database and the MEDIA_ROOT of the disposable root.  *)
(* One action is one step a killed drill may have come to.                 *)
(***************************************************************************)
EXTENDS ReleaseState

VARIABLES
    backup,    \* the backup database
    attested,  \* its attestation: the identity of the backup
    protected, \* protected_before: snapshot_media before the operation
    forensic,  \* failure-forensic.json: the identity it calls valid
    drill      \* the drill in progress

artifacts == <<backup, attested, protected, forensic>>

Drill ==
    [pc: {"inventory", "backup", "attest", "armed", "forensic", "clear", "replace", "verify",
          "media", "unlink", "final", "done", "failed"},
     candidates: SUBSET Derived, repeated: BOOLEAN]
DrillInit ==
    /\ backup = None
    /\ attested = None
    /\ protected = {}
    /\ forensic = None
    /\ drill = [pc |-> "inventory", candidates |-> {}, repeated |-> FALSE]

Step(from, to) == drill.pc = from /\ drill' = [drill EXCEPT !.pc = to]
Kept == UNCHANGED <<marker, claims, container, op, report>>
Untouched == UNCHANGED <<main, wal>>

(***************************************************************************)
(* create_fresh_backup. The backup source is opened read-only but not      *)
(* immutable: the backup holds what the -wal file holds.                   *)
(***************************************************************************)
TakeInventory ==
    /\ Step("inventory", "backup")
    /\ protected' = files
    /\ UNCHANGED <<backup, attested, forensic, files, faults>> /\ Untouched /\ Kept
TakeBackup ==
    /\ Step("backup", "attest")
    /\ backup' = Current
    /\ UNCHANGED <<attested, protected, forensic, files, faults>> /\ Untouched /\ Kept
Attest ==
    /\ Step("attest", "armed")
    /\ attested' = backup
    /\ UNCHANGED <<backup, protected, forensic, files, faults>> /\ Untouched /\ Kept

(***************************************************************************)
(* The operator starts the drill once nothing runs on the database, with   *)
(* an inventory of operation-derived files that may be wrong. It has a     *)
(* root of its own: containers, marker and claims stay with the volume.    *)
(***************************************************************************)
Invoke ==
    /\ op.n > 0 /\ op.pc \in {"idle", "dead"}
    /\ op.pc = "idle" => report # None /\ report.restore
    /\ InState("running") = {}
    /\ Step("armed", "forensic")
    /\ op' = Idle /\ report' = None
    /\ container' = [svc \in Services |-> NoContainer]
    /\ marker' = FALSE /\ claims' = [svc \in Claiming |-> 0]
    /\ UNCHANGED <<artifacts, files, faults>> /\ Untouched

\* _record_failure_forensics reads the database file alone; O_EXCL: only once.
RecordForensics ==
    /\ drill.pc = "forensic"
    /\ IF forensic = None
       THEN /\ forensic' = main
            /\ \E S \in SUBSET (Derived \cap files) :
                  drill' = [drill EXCEPT !.pc = "clear", !.candidates = S]
       ELSE /\ forensic' = forensic
            /\ drill' = [drill EXCEPT !.pc = "failed", !.repeated = TRUE]
    /\ UNCHANGED <<backup, attested, protected, files, faults>> /\ Untouched /\ Kept

\* restore_database: the sidecars, the file, what is there now.
\* Mutant: the sidecars are left to the cleanup after the replacement.
LeaveSidecars ==
    /\ Step("clear", "replace")
    /\ UNCHANGED <<artifacts, files, faults>> /\ Untouched /\ Kept
RemoveSidecars ==
    /\ Step("clear", "replace")
    /\ wal' = None
    /\ main' = main
    /\ UNCHANGED <<artifacts, files, faults>> /\ Kept
Replace ==
    /\ IF backup = attested THEN Step("replace", "verify") ELSE Step("replace", "failed")
    /\ main' = IF backup = attested THEN backup ELSE main
    /\ wal' = wal
    /\ UNCHANGED <<artifacts, files, faults>> /\ Kept
Verify ==
    /\ IF main = attested THEN Step("verify", "media") ELSE Step("verify", "failed")
    /\ wal' = None
    /\ main' = main
    /\ UNCHANGED <<artifacts, files, faults>> /\ Kept

(***************************************************************************)
(* reconcile_media_after_restore: what the restored database does not name *)
(* of the operation's files goes, everything protected stays.              *)
(***************************************************************************)
Overlap == drill.candidates \cap protected # {}
Protect ==
    /\ IF ~Overlap /\ protected \subseteq files
       THEN Step("media", "unlink") ELSE Step("media", "failed")
    /\ UNCHANGED <<artifacts, files, faults>> /\ Untouched /\ Kept
Orphans == (drill.candidates \cap files) \ Referenced(main)
UnlinkOrphan ==
    /\ drill.pc = "unlink" /\ Orphans # {}
    /\ \E f \in Orphans : files' = files \ {f}
    /\ UNCHANGED <<artifacts, drill, faults>> /\ Untouched /\ Kept
UnlinkedAll ==
    /\ Orphans = {} /\ Step("unlink", "final")
    /\ UNCHANGED <<artifacts, files, faults>> /\ Untouched /\ Kept
\* Mutant: originals are taken for orphans.
ReconcileAllTrees ==
    /\ IF protected \subseteq files /\ files = Referenced(main)
       THEN Step("final", "done") ELSE Step("final", "failed")
    /\ UNCHANGED <<artifacts, files, faults>> /\ Untouched /\ Kept
Reconcile ==
    /\ IF protected \subseteq files /\ Derived \cap files = Referenced(main)
       THEN Step("final", "done") ELSE Step("final", "failed")
    /\ UNCHANGED <<artifacts, files, faults>> /\ Untouched /\ Kept

\* The drill is killed, and the operator calls it again.
DrillDies ==
    /\ drill.pc \in {"clear", "replace", "verify", "media", "unlink", "final"}
    /\ faults < MaxFaults /\ faults' = faults + 1
    /\ drill' = [drill EXCEPT !.pc = "forensic", !.candidates = {}]
    /\ UNCHANGED <<artifacts, files>> /\ Untouched /\ Kept

DrillNext ==
    \/ TakeInventory \/ TakeBackup \/ Attest
    \/ Invoke \/ RecordForensics
    \/ RemoveSidecars \/ Replace \/ Verify
    \/ Protect \/ UnlinkOrphan \/ UnlinkedAll \/ Reconcile
    \/ DrillDies
=============================================================================

---------------------------- MODULE ReleaseState ----------------------------
(***************************************************************************)
(* What a release operation works on: the SQLite database of a disposable  *)
(* volume with the marker and the claims beside it, the media files, the   *)
(* containers that mount the volume, and the orchestrator on the host.     *)
(***************************************************************************)
EXTENDS Integers, FiniteSets, Sequences

CONSTANTS
    Assets,        \* session videos
    MaxOperations, \* manifests: each is good for one operation
    MaxFaults,     \* bound on failed commands, kills, and starts of the api meanwhile
    None           \* null

ASSUME NoneAssumption == None \notin Assets \cup Int
ASSUME BoundAssumption ==
    MaxOperations \in Nat /\ MaxFaults \in Nat

VARIABLES
    main,      \* what the database file holds by itself
    wal,       \* what it holds together with its -wal file; None: no -wal file
    marker,    \* .mediavault-disposable marker of the volume
    claims,    \* .mediavault-<operation>.claim.json: by which operation
    files,     \* files under MEDIA_ROOT
    container, \* containers that mount the volume
    op,        \* run_operator_release_orchestration
    report,    \* its OperatorReleaseResult or OperatorReleaseOrchestrationError
    faults     \* faults so far

volume == <<main, wal, marker, claims>>
host == <<op, report>>

(***************************************************************************)
(* A database: its last migration marker, and for every session video how  *)
(* far its preview is (queued: its preview job is queued or running),      *)
(* whether it belongs to a preview generation, and which derived_files     *)
(* rows it has: old for a legacy preview, new for a formal one.            *)
(***************************************************************************)
Row ==
    [step: {"absent", "uploading", "queued", "ready", "failed"},
     formal: BOOLEAN, old: BOOLEAN, new: BOOLEAN]
NoRow == [step |-> "absent", formal |-> FALSE, old |-> FALSE, new |-> FALSE]
Database == [version: 1..10, row: [Assets -> Row]]
Current == IF wal = None THEN main ELSE wal

Drained(db) == \A a \in Assets : db.row[a].step # "queued"

(***************************************************************************)
(* A file under MEDIA_ROOT, and those a database's derived_files name.     *)
(***************************************************************************)
File == Assets \X {"original", "old", "new"}
Derived == Assets \X {"old", "new"}
Referenced(db) ==
    {f \in Derived : IF f[2] = "old" THEN db.row[f[1]].old ELSE db.row[f[1]].new}

(***************************************************************************)
(* The one-shots of an operation in the order they are run, the one that   *)
(* reads what is on disk after a failure, and the api and worker services. *)
(***************************************************************************)
Chain == <<"marker", "startup", "phase2b", "drain", "dryrun", "apply", "preflight">>
Place(svc) == CHOOSE i \in DOMAIN Chain : Chain[i] = svc
Phases == {Chain[i] : i \in DOMAIN Chain}
OneShots == Phases \cup {"identity"}
Services == OneShots \cup {"api"}
Claiming == {"startup", "phase2b", "drain", "dryrun", "apply"}

(***************************************************************************)
(* A container: its docker state and exit code, how far its program is,    *)
(* whether it has the database open, and the operation that created it.    *)
(***************************************************************************)
Container ==
    [state: {"none", "created", "running", "exited"}, ok: BOOLEAN,
     pc: {"claim", "read", "write", "close"}, next: 1..10, open: BOOLEAN,
     of: 0..MaxOperations]
NoContainer ==
    [state |-> "none", ok |-> FALSE, pc |-> "claim", next |-> 1, open |-> FALSE, of |-> 0]

Is(svc, s) == container[svc].state = s
InState(s) == {svc \in Services : Is(svc, s)}

(***************************************************************************)
(* The orchestrator. ids is created_ids, attempted database_mutation_      *)
(* attempted; failing: in an except branch, with the code it will report;  *)
(* reading: in _read_actual_failure_identity.                              *)
(***************************************************************************)
Report ==
    [ok: BOOLEAN, code: {"none", "failed", "unsafe"}, stopped: BOOLEAN,
     restore: BOOLEAN, last: 1..10 \cup {None}]
Operation ==
    [n: 0..MaxOperations,
     pc: {"idle", "stop", "quiet", "create", "register", "ready", "start", "poll",
          "check", "exec", "halt", "remove", "between", "cleanup", "confirm", "dead"},
     svc: OneShots, ids: SUBSET OneShots, attempted: BOOLEAN,
     failing: BOOLEAN, reading: BOOLEAN, code: {"none", "failed", "unsafe"},
     last: 1..10 \cup {None}]
Idle ==
    [n |-> 0, pc |-> "idle", svc |-> "marker", ids |-> {}, attempted |-> FALSE,
     failing |-> FALSE, reading |-> FALSE, code |-> "none", last |-> None]

(***************************************************************************)
(* At 001 there are no upload sessions; at 007 every preview is a legacy   *)
(* one. A worker killed before its commit has left a file without a row.   *)
(***************************************************************************)
InitialRows ==
    {[NoRow EXCEPT !.step = "uploading"],
     [NoRow EXCEPT !.step = "queued"],
     [NoRow EXCEPT !.step = "ready", !.old = TRUE]}
ReleaseInit ==
    /\ \/ main = [version |-> 1, row |-> [a \in Assets |-> NoRow]]
       \/ main \in [version: {7}, row: [Assets -> InitialRows]]
    /\ wal = None
    /\ marker = FALSE
    /\ claims = [svc \in Claiming |-> 0]
    /\ \E left \in SUBSET {a \in Assets : main.row[a].step = "queued"} :
          files = Referenced(main) \cup (left \X {"old"}) \cup
              {a \in Assets : main.row[a].step \notin {"absent", "uploading"}} \X {"original"}
    /\ container = [[svc \in Services |-> NoContainer]
          EXCEPT !["api"].state = "running", !["api"].pc = "write"]
    /\ op = Idle
    /\ report = None
    /\ faults = 0
=============================================================================

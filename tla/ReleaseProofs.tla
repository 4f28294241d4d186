---------------------------- MODULE ReleaseProofs ----------------------------
(***************************************************************************)
(* Proofs about a release, for any number of session videos, operations    *)
(* and faults.                                                             *)
(***************************************************************************)
EXTENDS Release, TLAPS

-----------------------------------------------------------------------------
(***************************************************************************)
(* Databases. What FormalEra says of the current one holds of each that    *)
(* can become current: the file, the -wal file and the backup.             *)
(***************************************************************************)
Formal(db) ==
    db.version >= 8 =>
        \A a \in Assets : db.row[a].step \in {"queued", "ready", "failed"} => db.row[a].formal
DatabaseOK(db) == db \in Database /\ db.version <= 9 /\ Formal(db)
DatabasesOK ==
    /\ DatabaseOK(main)
    /\ wal = None \/ DatabaseOK(wal)
    /\ backup = None \/ DatabaseOK(backup)
ProgramsOK ==
    /\ container["startup"].pc = "write" => container["startup"].next \in 2..7
    /\ op.reading <=> op.svc = "identity"
    /\ op.pc \in {"exec", "halt"} => op.svc = "drain"
TypeInv == TypeOK /\ DatabasesOK /\ ProgramsOK

(***************************************************************************)
(* Containers. There is at most one one-shot; while an operation works it  *)
(* is the one of its phase, and between two phases there is none.          *)
(***************************************************************************)
Working == {"register", "ready", "start", "poll", "check", "exec", "halt", "remove"}
Gone == \A s \in OneShots : Is(s, "none")
Alone ==
    /\ \A s, t \in OneShots : Is(s, "none") \/ Is(t, "none") \/ s = t
    /\ op.pc \in {"create", "between"} => Gone
    /\ op.pc \in Working => \A s \in OneShots : Is(s, "none") \/ s = op.svc
    /\ op.pc = "remove" /\ op.svc # "drain" => ~Is(op.svc, "running")

(***************************************************************************)
(* Claims. The operation whose startup has claimed the volume is the only  *)
(* one to come to a later phase, and to have containers of later phases.   *)
(***************************************************************************)
Later == Claiming \ {"startup"}
ClaimsOK ==
    /\ op.pc # "idle" => op.n # 0
    /\ \A s \in Claiming : claims[s] # 0 => claims[s] = claims["startup"]
    /\ \A s \in OneShots : ~Is(s, "none") => container[s].of # 0
    /\ \A s \in Later : ~Is(s, "none") => claims["startup"] = container[s].of
    /\ LET c == container["startup"] IN
          /\ c.pc # "claim" => claims["startup"] = c.of /\ c.of # 0
          /\ c.ok => c.pc # "claim"
    /\ op.pc \in Working => container[op.svc].of = op.n
    /\ op.svc \in Later => claims["startup"] = op.n /\ op.n # 0
    /\ op.svc = "startup" /\ op.pc \in {"remove", "between"} => claims["startup"] = op.n

(***************************************************************************)
(* Attempts. Until it is attempted to change the database, an operation    *)
(* has only the container of the marker, and claims nothing.               *)
(***************************************************************************)
AttemptOK ==
    /\ \A s \in Claiming : claims[s] <= op.n /\ container[s].of <= op.n
    /\ op.pc \notin {"idle", "dead"} /\ ~op.attempted =>
          /\ op.svc = "marker"
          /\ \A s \in Claiming : claims[s] # op.n /\ container[s].of # op.n

(***************************************************************************)
(* What the preflight and the identity reader have seen stays so until the *)
(* operation ends, unless somebody has started the api: then it shows.     *)
(***************************************************************************)
Passed ==
    /\ op.svc = "preflight" /\ ~Is("api", "running")
    /\ op.pc \in {"remove", "between"} \/ (op.pc \in Working /\ container["preflight"].ok)
    => wal = None /\ main.version = 9 /\ Drained(main)
Seen ==
    op.svc = "identity" /\ ~Is("api", "running") =>
        /\ op.pc \in Working /\ container["identity"].ok =>
              wal = None /\ container["identity"].next = main.version
        /\ op.pc \in {"remove", "between"} => wal = None /\ op.last = main.version

(***************************************************************************)
(* The drill. While it works nothing else does; the backup is attested and *)
(* all it names is in the inventory that was taken first.                  *)
(***************************************************************************)
Restored == {"verify", "media", "unlink", "final", "done"}
DrillOK ==
    /\ drill.pc # "armed" => op.pc = "idle" /\ Gone
    /\ drill.pc \in {"inventory", "backup"} => wal = None /\ Referenced(main) \subseteq files
    /\ drill.pc = "backup" => protected = files
    /\ drill.pc \notin {"inventory", "backup"} =>
          DatabaseOK(backup) /\ Referenced(backup) \subseteq protected
    /\ drill.pc \notin {"inventory", "backup", "attest"} => attested = backup
    /\ drill.pc = "replace" => wal = None
    /\ drill.pc \in {"unlink", "final"} => ~Overlap
    /\ drill.pc = "final" => Orphans = {}
DrillInv == DrillOK /\ RestoredWhole /\ FailsForCause

-----------------------------------------------------------------------------
(***************************************************************************)
(* The names of services, and the order of the phases.                     *)
(***************************************************************************)
LEMMA OneShotNames ==
    OneShots = {"marker", "startup", "phase2b", "drain", "dryrun", "apply", "preflight", "identity"}
  <1>1. DOMAIN Chain = 1..7
    BY DEF Chain
  <1>2. /\ Chain[1] = "marker" /\ Chain[2] = "startup" /\ Chain[3] = "phase2b"
        /\ Chain[4] = "drain" /\ Chain[5] = "dryrun" /\ Chain[6] = "apply"
        /\ Chain[7] = "preflight"
    BY DEF Chain
  <1>3. Phases = {"marker", "startup", "phase2b", "drain", "dryrun", "apply", "preflight"}
    <2>1. \A i \in 1..7 : i = 1 \/ i = 2 \/ i = 3 \/ i = 4 \/ i = 5 \/ i = 6 \/ i = 7
      OBVIOUS
    <2>. QED
      BY <1>1, <1>2, <2>1 DEF Phases
  <1>. QED
    BY <1>3 DEF OneShots

LEMMA Successors ==
    /\ Successor("marker") = "startup"
    /\ Successor("startup") = "phase2b"
    /\ Successor("phase2b") = "drain"
    /\ Successor("drain") = "dryrun"
    /\ Successor("dryrun") = "apply"
    /\ Successor("apply") = "preflight"
    /\ Successor("preflight") = "preflight"
  <1>1. DOMAIN Chain = 1..7
    BY DEF Chain
  <1>2. /\ Chain[1] = "marker" /\ Chain[2] = "startup" /\ Chain[3] = "phase2b"
        /\ Chain[4] = "drain" /\ Chain[5] = "dryrun" /\ Chain[6] = "apply"
        /\ Chain[7] = "preflight"
    BY DEF Chain
  <1>3. \A i \in 1..7 : i = 1 \/ i = 2 \/ i = 3 \/ i = 4 \/ i = 5 \/ i = 6 \/ i = 7
    OBVIOUS
  <1>4. /\ Place("marker") = 1 /\ Place("startup") = 2 /\ Place("phase2b") = 3
        /\ Place("drain") = 4 /\ Place("dryrun") = 5 /\ Place("apply") = 6
    <2>1. \A i, j \in 1..7 : Chain[i] = Chain[j] => i = j
      BY <1>2, <1>3
    <2>2. \A j \in 1..7 : Place(Chain[j]) = j
      BY <1>1, <2>1 DEF Place
    <2>. QED
      BY <1>2, <2>2
  <1>. QED
    BY <1>2, <1>4 DEF Successor

LEMMA ServiceNames == Services = OneShots \cup {"api"} /\ Claiming \subseteq OneShots
  BY OneShotNames DEF Services, Claiming

-----------------------------------------------------------------------------
(***************************************************************************)
(* Databases: opening, writing and closing keep them.                      *)
(***************************************************************************)
LEMMA CurrentOK == ASSUME DatabasesOK PROVE DatabaseOK(Current)
  BY DEF DatabasesOK, Current

LEMMA WriteOK ==
    ASSUME DatabasesOK, NEW db, DatabaseOK(db), Write(db), backup' = backup
    PROVE  DatabasesOK'
  BY DEF DatabasesOK, Write

LEMMA OpenOK ==
    ASSUME DatabasesOK, NEW svc, Open(svc), backup' = backup PROVE DatabasesOK'
  BY CurrentOK DEF DatabasesOK, Open

LEMMA CloseOK ==
    ASSUME DatabasesOK, NEW svc, Close(svc), backup' = backup PROVE DatabasesOK'
  BY CurrentOK DEF DatabasesOK, Close

LEMMA RowTyped ==
    ASSUME NEW db, DatabaseOK(db), NEW a \in Assets
    PROVE  db.row[a] \in Row
  BY DEF DatabaseOK, Database

\* A row that is put: if it is in a preview job or past one at 008, it is formal.
LEMMA PutOK ==
    ASSUME NEW db, DatabaseOK(db), NEW a \in Assets, NEW r \in Row,
           db.version >= 8 /\ r.step \in {"queued", "ready", "failed"} => r.formal
    PROVE  DatabaseOK([db EXCEPT !.row[a] = r])
  <1>. DEFINE e == [db EXCEPT !.row[a] = r]
  <1>1. e \in Database /\ e.version = db.version
    BY DEF DatabaseOK, Database
  <1>2. \A b \in Assets : e.row[b] = IF b = a THEN r ELSE db.row[b]
    BY DEF DatabaseOK, Database
  <1>. QED
    BY <1>1, <1>2 DEF DatabaseOK, Formal

\* A version below 008, or 009 after 008, asks nothing new of the rows.
LEMMA VersionOK ==
    ASSUME NEW db, DatabaseOK(db), NEW v \in 1..9, v < 8 \/ db.version >= 8
    PROVE  DatabaseOK([db EXCEPT !.version = v])
  <1>. DEFINE e == [db EXCEPT !.version = v]
  <1>1. e \in Database /\ e.version = v /\ e.row = db.row
    BY DEF DatabaseOK, Database
  <1>. QED
    BY <1>1 DEF DatabaseOK, Formal, Database

LEMMA BackfilledOK ==
    ASSUME NEW db, DatabaseOK(db), Drained(db) PROVE DatabaseOK(Backfilled(db))
  <1>1. \A a \in Assets : FormalRow(db.row[a]) \in Row
    BY RowTyped DEF FormalRow, Row
  <1>2. Backfilled(db) = [version |-> 8, row |-> [a \in Assets |-> FormalRow(db.row[a])]]
    <2>. DEFINE rows == [a \in Assets |-> FormalRow(db.row[a])]
    <2>1. ASSUME NEW r \in [Assets -> Row]
          PROVE  [db EXCEPT !.version = 8, !.row = r] = [version |-> 8, row |-> r]
      <3>1. [db EXCEPT !.version = 8] \in Database
        BY DEF DatabaseOK, Database
      <3>2. PICK e \in Database : e = [db EXCEPT !.version = 8]
        BY <3>1
      <3>3. e.version = 8
        BY <3>2 DEF DatabaseOK, Database
      <3>4. [e EXCEPT !.row = r] = [version |-> 8, row |-> r]
        BY <3>3 DEF Database
      <3>. QED
        BY <3>2, <3>4, Zenon
    <2>3. rows \in [Assets -> Row]
      BY <1>1
    <2>2. Backfilled(db) = [db EXCEPT !.version = 8, !.row = rows]
      BY DEF Backfilled
    <2>. QED
      BY <2>1, <2>2, <2>3
  <1>3. \A a \in Assets : FormalRow(db.row[a]).step \in {"queued", "ready", "failed"} =>
            FormalRow(db.row[a]).formal
    BY RowTyped DEF FormalRow, Row, Drained
  <1>. QED
    BY <1>1, <1>2, <1>3 DEF DatabaseOK, Database, Formal
-----------------------------------------------------------------------------
(***************************************************************************)
(* Containers. A program that goes on or exits changes its own container.  *)
(***************************************************************************)
Ran(svc) ==
    /\ container' \in [Services -> Container]
    /\ \A s \in Services \ {svc} : container'[s] = container[s]
    /\ container'[svc].of = container[svc].of
    /\ container'[svc].state \in {"running", "exited"}

LEMMA ExitRuns ==
    ASSUME container \in [Services -> Container], NEW svc \in Services, NEW ok \in BOOLEAN,
           Exit(svc, ok)
    PROVE  /\ Ran(svc)
           /\ container'[svc].ok = ok /\ container'[svc].pc = container[svc].pc
           /\ container'[svc].next = container[svc].next
  <1>. DEFINE e == [container[svc] EXCEPT !.state = "exited", !.ok = ok, !.open = FALSE]
  <1>1. container[svc] \in Container
    OBVIOUS
  <1>2. e \in Container
    BY <1>1 DEF Container
  <1>3. container'[svc] = e /\ \A s \in Services \ {svc} : container'[s] = container[s]
    BY DEF Exit
  <1>4. DOMAIN container' = Services /\ container' = [s \in Services |-> container'[s]]
    BY DEF Exit
  <1>5. container' \in [Services -> Container]
    BY <1>2, <1>3, <1>4
  <1>6. /\ e.of = container[svc].of /\ e.state = "exited" /\ e.ok = ok
        /\ e.pc = container[svc].pc /\ e.next = container[svc].next
    BY <1>1 DEF Container
  <1>. QED
    BY <1>3, <1>5, <1>6 DEF Ran

LEMMA GotoRuns ==
    ASSUME container \in [Services -> Container], NEW svc \in Services,
           NEW pc \in {"claim", "read", "write", "close"}, Is(svc, "running"), Goto(svc, pc)
    PROVE  /\ Ran(svc)
           /\ container'[svc].ok = container[svc].ok /\ container'[svc].pc = pc
           /\ container'[svc].next = container[svc].next
           /\ container'[svc].state = "running"
  <1>. DEFINE e == [container[svc] EXCEPT !.pc = pc, !.open = TRUE]
  <1>1. container[svc] \in Container
    OBVIOUS
  <1>2. e \in Container
    BY <1>1 DEF Container
  <1>3. container'[svc] = e /\ \A s \in Services \ {svc} : container'[s] = container[s]
    BY DEF Goto
  <1>4. DOMAIN container' = Services /\ container' = [s \in Services |-> container'[s]]
    BY DEF Goto
  <1>5. container' \in [Services -> Container]
    BY <1>2, <1>3, <1>4
  <1>6. /\ e.of = container[svc].of /\ e.state = "running" /\ e.ok = container[svc].ok
        /\ e.pc = pc /\ e.next = container[svc].next
    BY <1>1 DEF Container, Is
  <1>. QED
    BY <1>3, <1>5, <1>6 DEF Ran

\* Any other change of one container.
LEMMA SetContainer ==
    ASSUME container \in [Services -> Container], NEW svc \in Services, NEW c \in Container,
           container' = [container EXCEPT ![svc] = c]
    PROVE  /\ container' \in [Services -> Container] /\ container'[svc] = c
           /\ \A s \in Services \ {svc} : container'[s] = container[s]
  OBVIOUS

LEMMA NoContainerOK == NoContainer \in Container
  BY BoundAssumption DEF NoContainer, Container

LEMMA RemovedOK ==
    ASSUME container \in [Services -> Container], NEW svcs, container' = Removed(svcs)
    PROVE  /\ container' \in [Services -> Container]
           /\ \A s \in Services :
                  container'[s] = IF s \in svcs THEN NoContainer ELSE container[s]
  BY NoContainerOK DEF Removed
-----------------------------------------------------------------------------
(***************************************************************************)
(* What a program does to the volume: Claimed is the only change of the    *)
(* claims, and startup goes on only with a claim.                          *)
(***************************************************************************)
Claimed(svc) ==
    /\ svc \in Claiming /\ claims[svc] = 0
    /\ claims' = [claims EXCEPT ![svc] = container[svc].of]
StartupGoesOn ==
    LET c == container'["startup"] IN
    /\ c.pc # "claim" => container["startup"].pc # "claim" \/ Claimed("startup")
    /\ c.ok => c.pc # "claim"
    /\ c.pc = "write" => c.next \in 2..7
PreflightSees ==
    container'["preflight"].ok => wal' = None /\ main'.version = 9 /\ Drained(main')
IdentitySees ==
    container'["identity"].ok => wal' = None /\ container'["identity"].next = main'.version
ProgramStep(svc) ==
    /\ Is(svc, "running") /\ Ran(svc)
    /\ svc = "api" => op.pc \notin {"idle", "dead"} /\ container'[svc].state = "running"
    /\ DatabasesOK' /\ marker' \in BOOLEAN
    /\ files \subseteq files' /\ files' \subseteq File
    /\ faults' \in 0..MaxFaults
    /\ op' = op /\ report' = report
    /\ claims' = claims \/ Claimed(svc)
    /\ svc = "startup" => StartupGoesOn
    /\ svc = "preflight" => PreflightSees
    /\ svc = "identity" => IdentitySees

\* What the facts of the types mean for a program that runs.
LEMMA Types ==
    ASSUME TypeInv
    PROVE  /\ container \in [Services -> Container] /\ op \in Operation
           /\ DatabasesOK /\ DatabaseOK(Current) /\ marker \in BOOLEAN
           /\ files \subseteq File /\ faults \in 0..MaxFaults
           /\ claims \in [Claiming -> 0..MaxOperations]
           /\ (container["startup"].pc = "write" => container["startup"].next \in 2..7)
  BY CurrentOK DEF TypeInv, TypeOK, ProgramsOK

LEMMA MarkerStep ==
    ASSUME TypeInv, backup' = backup, Marker PROVE ProgramStep("marker")
  <1>1. "marker" \in Services
    BY OneShotNames DEF Services
  <1>2. Exit("marker", TRUE) /\ Is("marker", "running")
    BY DEF Marker, Runs
  <1>3. Ran("marker")
    BY <1>1, <1>2, Types, ExitRuns
  <1>4. DatabasesOK'
    BY <1>2, Types, CloseOK DEF Exit
  <1>. QED
    BY <1>2, <1>3, <1>4, Types DEF Marker, ProgramStep

LEMMA ClaimStep ==
    ASSUME TypeInv, backup' = backup, NEW svc \in Claiming, Claim(svc) PROVE ProgramStep(svc)
  <1>. DEFINE pc == IF svc = "drain" THEN "write" ELSE "read"
  <1>0. svc \in Services /\ svc \notin {"marker", "preflight", "identity", "api"}
    BY OneShotNames DEF Services, Claiming
  <1>1. Is(svc, "running") /\ container[svc].pc = "claim"
    BY DEF Claim, Runs
  <1>2. /\ marker' = marker /\ files' = files /\ op' = op /\ report' = report
        /\ faults' = faults
    BY DEF Claim
  <1>3. CASE marker /\ MayClaim(svc)
    <2>1. Claimed(svc) /\ Open(svc) /\ Goto(svc, pc)
      BY <1>3 DEF Claim, Claimed, MayClaim
    <2>2. pc \in {"claim", "read", "write", "close"} /\ (svc = "startup" => pc = "read")
      OBVIOUS
    <2>. HIDE DEF pc
    <2>3. Ran(svc) /\ container'[svc].pc = pc
      BY <1>0, <1>1, <2>1, <2>2, Types, GotoRuns
    <2>4. DatabasesOK'
      BY <2>1, Types, OpenOK
    <2>5. svc = "startup" => StartupGoesOn
      BY <2>1, <2>2, <2>3 DEF StartupGoesOn
    <2>. QED
      BY <1>0, <1>1, <1>2, <2>1, <2>3, <2>4, <2>5, Types DEF ProgramStep
  <1>4. CASE ~(marker /\ MayClaim(svc))
    <2>1. claims' = claims /\ Exit(svc, FALSE)
      BY <1>4 DEF Claim
    <2>2. Ran(svc) /\ container'[svc].pc = "claim" /\ container'[svc].ok = FALSE
      BY <1>0, <1>1, <2>1, Types, ExitRuns
    <2>3. DatabasesOK'
      BY <2>1, Types, CloseOK DEF Exit
    <2>4. svc = "startup" => StartupGoesOn
      BY <2>2 DEF StartupGoesOn
    <2>. QED
      BY <1>0, <1>1, <1>2, <2>1, <2>2, <2>3, <2>4, Types DEF ProgramStep
  <1>. QED
    BY <1>3, <1>4

\* A program that exits after its claim.
LEMMA ExitStep ==
    ASSUME TypeInv, backup' = backup, NEW svc \in Services, NEW ok \in BOOLEAN,
           svc \notin {"preflight", "identity", "api"}, Is(svc, "running"),
           container[svc].pc # "claim", Exit(svc, ok), Rest
    PROVE  ProgramStep(svc)
  <1>1. Ran(svc) /\ container'[svc].pc = container[svc].pc
        /\ container'[svc].next = container[svc].next
    BY Types, ExitRuns
  <1>2. DatabasesOK'
    BY Types, CloseOK DEF Exit
  <1>3. svc = "startup" => StartupGoesOn
    BY <1>1, Types DEF StartupGoesOn
  <1>. QED
    BY <1>1, <1>2, <1>3, Types DEF ProgramStep, Rest

\* A program that goes on, neither startup nor one that only reads.
LEMMA GoesOnStep ==
    ASSUME TypeInv, NEW svc \in Services, NEW pc \in {"claim", "read", "write", "close"},
           svc \notin {"startup", "preflight", "identity"}, Is(svc, "running"),
           svc = "api" => op.pc \notin {"idle", "dead"},
           DatabasesOK', Goto(svc, pc), UNCHANGED <<marker, claims, op, report, faults>>,
           files \subseteq files', files' \subseteq File
    PROVE  ProgramStep(svc)
  <1>1. Ran(svc) /\ container'[svc].state = "running"
    BY Types, GotoRuns
  <1>. QED
    BY <1>1, Types DEF ProgramStep

LEMMA NextOK ==
    ASSUME NEW c \in Container, NEW n \in 1..10, NEW pc \in {"write", "close"}
    PROVE  /\ [c EXCEPT !.pc = pc, !.next = n] \in Container
           /\ [c EXCEPT !.next = n, !.pc = pc] \in Container
  BY DEF Container

LEMMA StartupReadStep ==
    ASSUME TypeInv, backup' = backup, StartupRead PROVE ProgramStep("startup")
  <1>0. "startup" \in Services
    BY OneShotNames DEF Services
  <1>1. Is("startup", "running") /\ container["startup"].pc = "read" /\ Rest
    BY DEF StartupRead, Runs
  <1>2. ASSUME NEW ok \in BOOLEAN, Exit("startup", ok) PROVE ProgramStep("startup")
    BY <1>0, <1>1, <1>2, ExitStep
  <1>3. ASSUME container' = [container EXCEPT !["startup"].pc = "write", !["startup"].next = 2],
               UNCHANGED <<main, wal>>
        PROVE  ProgramStep("startup")
    <2>. DEFINE c == [container["startup"] EXCEPT !.pc = "write", !.next = 2]
    <2>1. container["startup"] \in Container
      BY <1>0, Types
    <2>0. c \in Container
      <3>1. 2 \in 1..10 /\ "write" \in {"write", "close"}
        OBVIOUS
      <3>. QED
        BY <2>1, <3>1, NextOK
    <2>2. /\ c.of = container["startup"].of /\ c.state = container["startup"].state
          /\ c.pc = "write" /\ c.next = 2 /\ c.ok = container["startup"].ok
      BY <2>1 DEF Container
    <2>3. container' = [container EXCEPT !["startup"] = c]
      BY <1>3
    <2>. HIDE DEF c
    <2>4. Ran("startup") /\ container'["startup"] = c
      BY <1>0, <1>1, <2>0, <2>2, <2>3, Types, SetContainer DEF Ran, Is
    <2>5. StartupGoesOn
      BY <1>1, <2>2, <2>4 DEF StartupGoesOn
    <2>6. DatabasesOK'
      BY <1>3, Types DEF DatabasesOK
    <2>. QED
      BY <1>1, <2>4, <2>5, <2>6, Types DEF ProgramStep, Rest
  <1>. QED
    BY <1>2, <1>3 DEF StartupRead

LEMMA StartupWriteStep ==
    ASSUME TypeInv, backup' = backup, StartupWrite PROVE ProgramStep("startup")
  <1>. DEFINE v == container["startup"].next
              next == IF v = 7 THEN "close" ELSE "write"
  <1>0. "startup" \in Services
    BY OneShotNames DEF Services
  <1>1. Is("startup", "running") /\ container["startup"].pc = "write" /\ Rest
    BY DEF StartupWrite, Runs
  <1>2. v \in 2..7
    BY <1>1, Types
  <1>3. CASE Current.version = v - 1
    <2>. DEFINE c == [container["startup"] EXCEPT !.next = v + 1, !.pc = next]
    <2>1. container["startup"] \in Container
      BY <1>0, Types
    <2>0. c \in Container
      <3>1. v + 1 \in 1..10 /\ next \in {"write", "close"}
        BY <1>2
      <3>. QED
        BY <2>1, <3>1, NextOK
    <2>2. /\ c.of = container["startup"].of /\ c.state = container["startup"].state
          /\ c.pc = next /\ c.next = v + 1 /\ c.ok = container["startup"].ok
      BY <2>1 DEF Container
    <2>3. container' = [container EXCEPT !["startup"] = c] /\ Write([Current EXCEPT !.version = v])
      BY <1>3 DEF StartupWrite
    <2>. HIDE DEF c
    <2>4. Ran("startup") /\ container'["startup"] = c
      BY <1>0, <1>1, <2>0, <2>2, <2>3, Types, SetContainer DEF Ran, Is
    <2>5. StartupGoesOn
      <3>1. next # "claim" /\ (next = "write" => v + 1 \in 2..7)
        BY <1>2
      <3>. QED
        BY <1>1, <2>2, <2>4, <3>1 DEF StartupGoesOn
    <2>6. DatabaseOK([Current EXCEPT !.version = v])
      <3>1. DatabaseOK(Current) /\ v \in 1..9 /\ v < 8
        BY <1>2, Types
      <3>. QED
        BY <3>1, VersionOK
    <2>7. DatabasesOK'
      BY <2>3, <2>6, Types, WriteOK
    <2>. QED
      BY <1>1, <2>4, <2>5, <2>7, Types DEF ProgramStep, Rest
  <1>4. CASE Current.version # v - 1
    BY <1>0, <1>1, <1>4, ExitStep DEF StartupWrite
  <1>. QED
    BY <1>3, <1>4

LEMMA Phase2BReadStep ==
    ASSUME TypeInv, backup' = backup, Phase2BRead PROVE ProgramStep("phase2b")
  <1>0. "phase2b" \in Services
    BY OneShotNames DEF Services
  <1>1. Is("phase2b", "running") /\ container["phase2b"].pc = "read" /\ Rest
    BY DEF Phase2BRead, Runs
  <1>2. CASE Phase2BPossible /\ Current.version < 8
    <2>1. Goto("phase2b", "write") /\ DatabasesOK'
      BY <1>2, Types DEF Phase2BRead, DatabasesOK
    <2>. QED
      BY <1>0, <1>1, <2>1, Types, GoesOnStep DEF Rest
  <1>3. CASE ~(Phase2BPossible /\ Current.version < 8)
    <2>1. Exit("phase2b", Phase2BPossible) /\ Phase2BPossible \in BOOLEAN
      BY <1>3 DEF Phase2BRead, Phase2BPossible
    <2>. QED
      BY <1>0, <1>1, <2>1, ExitStep
  <1>. QED
    BY <1>2, <1>3

LEMMA Phase2BWriteStep ==
    ASSUME TypeInv, backup' = backup, Phase2BWrite PROVE ProgramStep("phase2b")
  <1>0. "phase2b" \in Services
    BY OneShotNames DEF Services
  <1>1. Is("phase2b", "running") /\ container["phase2b"].pc = "write" /\ Rest
    BY DEF Phase2BWrite, Runs
  <1>2. CASE Current.version < 8 /\ Phase2BPossible
    <2>1. Goto("phase2b", "close") /\ Write(Backfilled(Current))
      BY <1>2 DEF Phase2BWrite
    <2>2. DatabaseOK(Backfilled(Current))
      BY <1>2, Types, BackfilledOK DEF Phase2BPossible
    <2>3. DatabasesOK'
      BY <2>1, <2>2, Types, WriteOK
    <2>. QED
      BY <1>0, <1>1, <2>1, <2>3, Types, GoesOnStep DEF Rest
  <1>3. CASE ~(Current.version < 8 /\ Phase2BPossible)
    <2>1. Exit("phase2b", Current.version >= 8) /\ (Current.version >= 8) \in BOOLEAN
      BY <1>3 DEF Phase2BWrite
    <2>. QED
      BY <1>0, <1>1, <2>1, ExitStep
  <1>. QED
    BY <1>2, <1>3

LEMMA Phase2CReadStep ==
    ASSUME TypeInv, backup' = backup, NEW svc \in {"dryrun", "apply"}, Phase2CRead(svc)
    PROVE  ProgramStep(svc)
  <1>0. svc \in Services
    BY OneShotNames DEF Services
  <1>1. Is(svc, "running") /\ container[svc].pc = "read" /\ Rest
    BY DEF Phase2CRead, Runs
  <1>2. CASE Phase2CPossible
    <2>1. Goto(svc, "write") /\ DatabasesOK'
      BY <1>2, Types DEF Phase2CRead, DatabasesOK
    <2>. QED
      BY <1>0, <1>1, <2>1, Types, GoesOnStep DEF Rest
  <1>3. CASE ~Phase2CPossible
    <2>1. Exit(svc, Phase2CValid) /\ Phase2CValid \in BOOLEAN
      BY <1>3 DEF Phase2CRead, Phase2CValid
    <2>. QED
      BY <1>0, <1>1, <2>1, ExitStep
  <1>. QED
    BY <1>2, <1>3

LEMMA Phase2CWriteStep ==
    ASSUME TypeInv, backup' = backup, NEW svc \in {"dryrun", "apply"}, Phase2CWrite(svc)
    PROVE  ProgramStep(svc)
  <1>0. svc \in Services
    BY OneShotNames DEF Services
  <1>1. Is(svc, "running") /\ container[svc].pc = "write" /\ Rest
    BY DEF Phase2CWrite, Runs
  <1>2. CASE Phase2CPossible
    <2>1. Goto(svc, "close")
      BY <1>2 DEF Phase2CWrite
    <2>2. DatabaseOK([Current EXCEPT !.version = 9])
      <3>1. DatabaseOK(Current) /\ 9 \in 1..9 /\ Current.version >= 8
        BY <1>2, Types DEF Phase2CPossible, Phase2BValid
      <3>. QED
        BY <3>1, VersionOK
    <2>3. Write([Current EXCEPT !.version = 9]) => DatabasesOK'
      BY <2>2, Types, WriteOK
    <2>4. UNCHANGED <<main, wal>> => DatabasesOK'
      BY Types DEF DatabasesOK
    <2>5. DatabasesOK'
      BY <1>2, <2>3, <2>4 DEF Phase2CWrite
    <2>. QED
      BY <1>0, <1>1, <2>1, <2>5, Types, GoesOnStep DEF Rest
  <1>3. CASE ~Phase2CPossible
    <2>1. Exit(svc, Phase2CValid) /\ Phase2CValid \in BOOLEAN
      BY <1>3 DEF Phase2CWrite, Phase2CValid
    <2>. QED
      BY <1>0, <1>1, <2>1, ExitStep
  <1>. QED
    BY <1>2, <1>3

LEMMA FinishStep ==
    ASSUME TypeInv, backup' = backup, NEW svc \in {"startup", "phase2b", "dryrun", "apply"},
           Finish(svc)
    PROVE  ProgramStep(svc)
  <1>0. svc \in Services
    BY OneShotNames DEF Services
  <1>. QED
    BY <1>0, ExitStep DEF Finish, Runs

LEMMA PreflightStep ==
    ASSUME TypeInv, backup' = backup, Preflight PROVE ProgramStep("preflight")
  <1>. DEFINE ok == marker /\ Readable /\ PreflightReady
  <1>0. "preflight" \in Services
    BY OneShotNames DEF Services
  <1>1. Is("preflight", "running") /\ Exit("preflight", ok) /\ Rest
    BY DEF Preflight, Runs
  <1>2. ok \in BOOLEAN
    BY Types DEF Readable, PreflightReady, Drained
  <1>3. ok => wal = None /\ main.version = 9 /\ Drained(main)
    BY Types DEF Readable, PreflightReady, DatabasesOK, DatabaseOK
  <1>4. wal = None => wal' = None /\ main' = main
    BY <1>1 DEF Exit, Close, Current
  <1>. HIDE DEF ok
  <1>5. Ran("preflight") /\ container'["preflight"].ok = ok
    BY <1>0, <1>1, <1>2, Types, ExitRuns
  <1>6. PreflightSees
    BY <1>3, <1>4, <1>5 DEF PreflightSees
  <1>7. DatabasesOK'
    BY <1>1, Types, CloseOK DEF Exit
  <1>. QED
    BY <1>1, <1>5, <1>6, <1>7, Types DEF ProgramStep, Rest

LEMMA IdentityStep ==
    ASSUME TypeInv, backup' = backup, Identity PROVE ProgramStep("identity")
  <1>. DEFINE c == [container["identity"] EXCEPT
                       !.state = "exited", !.ok = marker /\ Readable, !.next = main.version]
  <1>0. "identity" \in Services
    BY OneShotNames DEF Services
  <1>1. Is("identity", "running") /\ UNCHANGED <<main, wal>> /\ Rest
    BY DEF Identity, Runs
  <1>2. container["identity"] \in Container
    BY <1>0, Types
  <1>3. main.version \in 1..10 /\ (marker /\ Readable) \in BOOLEAN
    BY Types DEF DatabasesOK, DatabaseOK, Database, Readable
  <1>4. /\ c \in Container /\ c.of = container["identity"].of /\ c.state = "exited"
        /\ c.ok = (marker /\ Readable) /\ c.next = main.version
    BY <1>2, <1>3 DEF Container
  <1>5. container' = [container EXCEPT !["identity"] = c]
    BY DEF Identity
  <1>. HIDE DEF c
  <1>6. Ran("identity") /\ container'["identity"] = c
    BY <1>0, <1>4, <1>5, Types, SetContainer DEF Ran
  <1>7. IdentitySees
    BY <1>1, <1>4, <1>6 DEF IdentitySees, Readable
  <1>8. DatabasesOK'
    BY <1>1, Types DEF DatabasesOK
  <1>. QED
    BY <1>1, <1>6, <1>7, <1>8, Types DEF ProgramStep, Rest

\* The worker and the api: every row they put is formal from 008 on.
LEMMA PutStep ==
    ASSUME TypeInv, backup' = backup, NEW svc \in Workers, AtWork(svc), NEW a \in Assets,
           NEW r \in Row, Put(svc, a, r),
           Current.version >= 8 /\ r.step \in {"queued", "ready", "failed"} => r.formal,
           files \subseteq files', files' \subseteq File,
           UNCHANGED <<marker, claims, op, report, faults>>
    PROVE  ProgramStep(svc)
  <1>0. svc \in Services /\ svc \notin {"startup", "preflight", "identity"}
    BY OneShotNames DEF Services, Workers
  <1>1. DatabaseOK([Current EXCEPT !.row[a] = r])
    BY Types, PutOK
  <1>2. DatabasesOK' /\ Goto(svc, "write")
    BY <1>1, Types, WriteOK DEF Put
  <1>. QED
    BY <1>0, <1>2, GoesOnStep DEF AtWork, Runs

LEMMA CurrentRow ==
    ASSUME TypeInv, NEW a \in Assets
    PROVE  /\ Current.row[a] \in Row
           /\ Current.version >= 8 /\ Current.row[a].step = "queued" => Current.row[a].formal
  BY Types, RowTyped DEF DatabaseOK, Formal

LEMMA ApiStep ==
    ASSUME TypeInv, backup' = backup, RunMigrations \/ \E a \in Assets : Upload(a)
    PROVE  ProgramStep("api")
  <1>0. /\ "api" \in Services /\ "api" \in Workers
        /\ "api" \notin {"startup", "preflight", "identity"}
    BY DEF Services, Workers
  <1>1. CASE RunMigrations
    <2>1. /\ AtWork("api") /\ Write([Current EXCEPT !.version = @ + 1]) /\ Goto("api", "write")
          /\ Rest
      BY <1>1 DEF RunMigrations
    <2>2. DatabaseOK(Current) /\ Current.version + 1 \in 1..9 /\ Current.version + 1 < 8
      BY <1>1, Types DEF RunMigrations, DatabaseOK, Database
    <2>3. DatabaseOK([Current EXCEPT !.version = Current.version + 1])
      BY <2>2, VersionOK
    <2>4. DatabasesOK'
      BY <2>1, <2>3, Types, WriteOK
    <2>. QED
      BY <1>0, <2>1, <2>4, Types, GoesOnStep DEF AtWork, Runs, Rest
  <1>2. ASSUME NEW a \in Assets, Upload(a) PROVE ProgramStep("api")
    <2>. DEFINE r == [NoRow EXCEPT !.step = "uploading"]
    <2>1. r \in Row /\ r.step = "uploading"
      BY DEF NoRow, Row
    <2>2. AtWork("api") /\ Put("api", a, r) /\ Rest
      BY <1>2 DEF Upload
    <2>. HIDE DEF r
    <2>. QED
      BY <1>0, <2>1, <2>2, Types, PutStep DEF Rest
  <1>. QED
    BY <1>1, <1>2

LEMMA FinishUploadStep ==
    ASSUME TypeInv, backup' = backup, NEW svc \in Workers, NEW a \in Assets,
           FinishUpload(svc, a)
    PROVE  ProgramStep(svc)
  <1>. DEFINE formal == Current.version >= 8
              r == [NoRow EXCEPT !.step = "queued", !.formal = formal]
  <1>1. /\ AtWork(svc) /\ Put(svc, a, r) /\ files' = files \cup {<<a, "original">>}
        /\ UNCHANGED <<marker, claims, op, report, faults>>
    BY DEF FinishUpload
  <1>2. formal \in BOOLEAN
    OBVIOUS
  <1>3. ASSUME NEW q \in Row, NEW f \in BOOLEAN
        PROVE  /\ [q EXCEPT !.step = "queued", !.formal = f] \in Row
               /\ [q EXCEPT !.step = "queued", !.formal = f].formal = f
    BY DEF Row
  <1>. HIDE DEF formal
  <1>4. r \in Row /\ r.formal = formal
    BY <1>2, <1>3 DEF NoRow, Row
  <1>. HIDE DEF r
  <1>. USE DEF formal
  <1>5. files' \subseteq File
    BY <1>1, Types DEF File
  <1>. QED
    BY <1>1, <1>4, <1>5, PutStep

LEMMA PublishPreviewStep ==
    ASSUME TypeInv, backup' = backup, NEW svc \in Workers, NEW a \in Assets,
           PublishPreview(svc, a)
    PROVE  ProgramStep(svc)
  <1>0. svc \in Services /\ svc \notin {"startup", "preflight", "identity"}
    BY OneShotNames DEF Services, Workers
  <1>1. /\ AtWork(svc) /\ Open(svc) /\ Goto(svc, "write")
        /\ UNCHANGED <<marker, claims, op, report, faults>>
        /\ files' = files \cup {PreviewFile(a)}
    BY DEF PublishPreview
  <1>2. files' \subseteq File
    BY <1>1, Types DEF File, PreviewFile
  <1>3. DatabasesOK'
    BY <1>1, Types, OpenOK
  <1>. QED
    BY <1>0, <1>1, <1>2, <1>3, GoesOnStep DEF AtWork, Runs

LEMMA RecordPreviewStep ==
    ASSUME TypeInv, backup' = backup, NEW svc \in Workers, NEW a \in Assets,
           RecordPreview(svc, a)
    PROVE  ProgramStep(svc)
  <1>. DEFINE row == Current.row[a]
  <1>1. /\ AtWork(svc) /\ row.step = "queued" /\ Rest
        /\ Put(svc, a, [row EXCEPT !.step = "ready",
                           !.old = @ \/ ~row.formal, !.new = @ \/ row.formal])
    BY DEF RecordPreview
  <1>2. row \in Row /\ (Current.version >= 8 => row.formal)
    BY <1>1, CurrentRow
  <1>. HIDE DEF row
  <1>3. ASSUME NEW o \in BOOLEAN, NEW n \in BOOLEAN
        PROVE  /\ [row EXCEPT !.step = "ready", !.old = o, !.new = n] \in Row
               /\ [row EXCEPT !.step = "ready", !.old = o, !.new = n].formal = row.formal
    BY <1>2 DEF Row
  <1>4. (row.old \/ ~row.formal) \in BOOLEAN /\ (row.new \/ row.formal) \in BOOLEAN
    OBVIOUS
  <1>5. files' = files /\ UNCHANGED <<marker, claims, op, report, faults>>
    BY <1>1 DEF Rest
  <1>6. PICK r \in Row : Put(svc, a, r) /\ r.formal = row.formal
    BY <1>1, <1>3, <1>4
  <1>. QED
    BY <1>1, <1>2, <1>5, <1>6, Types, PutStep

LEMMA FailPreviewStep ==
    ASSUME TypeInv, backup' = backup, NEW svc \in Workers, NEW a \in Assets,
           FailPreview(svc, a)
    PROVE  ProgramStep(svc)
  <1>. DEFINE row == Current.row[a]
  <1>1. /\ AtWork(svc) /\ row.step = "queued" /\ Rest
        /\ Put(svc, a, [row EXCEPT !.step = "failed"])
    BY DEF FailPreview
  <1>2. row \in Row /\ (Current.version >= 8 => row.formal)
    BY <1>1, CurrentRow
  <1>. HIDE DEF row
  <1>3. /\ [row EXCEPT !.step = "failed"] \in Row
        /\ [row EXCEPT !.step = "failed"].formal = row.formal
    BY <1>2 DEF Row
  <1>4. files' = files /\ UNCHANGED <<marker, claims, op, report, faults>>
    BY <1>1 DEF Rest
  <1>. QED
    BY <1>1, <1>2, <1>3, <1>4, Types, PutStep

LEMMA PauseStep ==
    ASSUME TypeInv, backup' = backup, NEW svc \in Workers, Pause(svc) PROVE ProgramStep(svc)
  <1>. DEFINE c == [container[svc] EXCEPT !.open = FALSE]
  <1>0. svc \in Services /\ svc \notin {"startup", "preflight", "identity"}
    BY OneShotNames DEF Services, Workers
  <1>1. /\ Is(svc, "running") /\ (svc = "api" => op.pc \notin {"idle", "dead"})
        /\ Close(svc) /\ Rest
    BY DEF Pause, AtWork, Runs
  <1>2. container[svc] \in Container
    BY <1>0, Types
  <1>3. c \in Container /\ c.of = container[svc].of /\ c.state = container[svc].state
    BY <1>2 DEF Container
  <1>4. container' = [container EXCEPT ![svc] = c]
    BY DEF Pause
  <1>. HIDE DEF c
  <1>5. Ran(svc) /\ container'[svc].state = "running"
    BY <1>0, <1>1, <1>3, <1>4, Types, SetContainer DEF Ran, Is
  <1>6. DatabasesOK'
    BY <1>1, Types, CloseOK
  <1>. QED
    BY <1>0, <1>1, <1>5, <1>6, Types DEF ProgramStep, Rest

LEMMA KillStep ==
    ASSUME TypeInv, backup' = backup, NEW svc \in Services, Kill(svc) PROVE ProgramStep(svc)
  <1>. DEFINE c == [container[svc] EXCEPT !.state = "exited", !.ok = FALSE, !.open = FALSE]
  <1>1. /\ Is(svc, "running") /\ svc # "api"
        /\ UNCHANGED <<main, wal, marker, claims, files, op, report>>
        /\ faults < MaxFaults /\ faults' = faults + 1
    BY DEF Kill
  <1>2. container[svc] \in Container
    BY Types
  <1>3. c \in Container
    BY <1>2 DEF Container
  <1>4. /\ c.of = container[svc].of /\ c.state = "exited" /\ c.pc = container[svc].pc
        /\ c.next = container[svc].next /\ c.ok = FALSE
    BY <1>2 DEF Container
  <1>5. container' = [container EXCEPT ![svc] = c]
    BY DEF Kill
  <1>. HIDE DEF c
  <1>6. Ran(svc) /\ container'[svc] = c
    BY <1>3, <1>4, <1>5, Types, SetContainer DEF Ran
  <1>7. svc = "startup" => StartupGoesOn
    BY <1>4, <1>6, Types DEF StartupGoesOn
  <1>8. (svc = "preflight" => PreflightSees) /\ (svc = "identity" => IdentitySees)
    BY <1>4, <1>6 DEF PreflightSees, IdentitySees
  <1>9. DatabasesOK' /\ faults' \in 0..MaxFaults
    BY <1>1, Types, BoundAssumption DEF DatabasesOK
  <1>. QED
    BY <1>1, <1>6, <1>7, <1>8, <1>9, Types DEF ProgramStep

LEMMA ProgramSteps ==
    ASSUME TypeInv, backup' = backup, NEW svc \in Services, Program(svc) PROVE ProgramStep(svc)
  <1>1. CASE svc = "marker" /\ Marker
    BY <1>1, MarkerStep
  <1>2. CASE svc \in Claiming /\ Claim(svc)
    BY <1>2, ClaimStep
  <1>3. CASE svc = "startup" /\ (StartupRead \/ StartupWrite)
    BY <1>3, StartupReadStep, StartupWriteStep
  <1>4. CASE svc = "phase2b" /\ (Phase2BRead \/ Phase2BWrite)
    BY <1>4, Phase2BReadStep, Phase2BWriteStep
  <1>5. CASE svc \in {"dryrun", "apply"} /\ (Phase2CRead(svc) \/ Phase2CWrite(svc))
    BY <1>5, Phase2CReadStep, Phase2CWriteStep
  <1>6. CASE svc \in {"startup", "phase2b", "dryrun", "apply"} /\ Finish(svc)
    BY <1>6, FinishStep
  <1>7. CASE svc = "preflight" /\ Preflight
    BY <1>7, PreflightStep
  <1>8. CASE svc = "identity" /\ Identity
    BY <1>8, IdentityStep
  <1>9. CASE svc \in Workers /\ Work(svc)
    BY <1>9, FinishUploadStep, PublishPreviewStep, RecordPreviewStep, FailPreviewStep, PauseStep
       DEF Work
  <1>10. CASE svc = "api" /\ (RunMigrations \/ \E a \in Assets : Upload(a))
    BY <1>10, ApiStep
  <1>. QED
    BY <1>1, <1>2, <1>3, <1>4, <1>5, <1>6, <1>7, <1>8, <1>9, <1>10 DEF Program
-----------------------------------------------------------------------------
(***************************************************************************)
(* What a command of the orchestrator does to the containers, and where it *)
(* leaves the operation: on its way, with a container removed, before the  *)
(* next phase, ready to give up, or at its end.                            *)
(***************************************************************************)
SameProgram(s) ==
    /\ container'[s].pc = container[s].pc /\ container'[s].next = container[s].next
    /\ container'[s].of = container[s].of
    /\ container'[s].ok => container[s].ok
Fresh == [NoContainer EXCEPT !.state = "created", !.of = op.n]
Touched(s) ==
    \/ container'[s] = NoContainer
    \/ SameProgram(s) /\ (Is(s, "none") <=> container'[s].state = "none")
    \/ s = op.svc /\ op.pc = "start" /\ SameProgram(s)
    \/ s = op.svc /\ op.pc = "create" /\ container'[s] = Fresh
SameApi == container'["api"] = container["api"]
Continues ==
    \/ op.pc = "create" /\ Is(op.svc, "none") /\ container'[op.svc] = Fresh
    \/ (op.pc = "create" => ~Is(op.svc, "none")) /\ SameProgram(op.svc)
Same ==
    /\ op'.n = op.n /\ op'.svc = op.svc
    /\ op'.attempted = op.attempted /\ op'.reading = op.reading
GoesForward ==
    /\ op.pc \in Working \cup {"create"} /\ op'.pc \in Working
    /\ Same /\ SameApi /\ Continues
    /\ op'.pc = "remove" =>
          \/ op.svc = "drain"
          \/ /\ container[op.svc].ok /\ Is(op.svc, "exited") /\ op.pc \in Working
             /\ container' = container
             /\ op.reading => op'.last = container["identity"].next
Removes ==
    /\ op.pc = "remove" /\ op'.pc = "between"
    /\ Same /\ SameApi /\ op'.last = op.last
    /\ container' = Removed({op.svc})
Enters ==
    /\ op.pc \notin {"idle", "dead"} /\ op'.pc = "create" /\ op'.n = op.n
    /\ VolumeState({}, {}) /\ container' = container
    /\ \/ Same
       \/ op.attempted /\ op'.attempted /\ op'.reading /\ op'.svc = "identity"
       \/ /\ op.pc = "between" /\ ~op.reading /\ op.svc # "preflight"
          /\ op'.svc = Successor(op.svc) /\ op'.reading = op.reading
          /\ op'.attempted = (op.attempted \/ op.svc = "marker")
GivesUp ==
    /\ op.pc \notin {"idle", "dead"} /\ op'.pc \in {"cleanup", "confirm", "quiet"}
    /\ Same
Ends ==
    /\ op.pc \notin {"idle", "dead"} /\ container' = container
    /\ op' = [Idle EXCEPT !.n = op.n] \/ op' = [Idle EXCEPT !.n = op.n, !.pc = "dead"]
Begins ==
    /\ op.pc \in {"idle", "dead"}
    /\ op' = [Idle EXCEPT !.n = op.n + 1, !.pc = "stop"]
    /\ container' \in {container, Removed(OneShots)}
OperatorStep ==
    /\ UNCHANGED <<main, wal, marker, claims, files>>
    /\ container' \in [Services -> Container]
    /\ op' \in Operation
    /\ report' \in Report \cup {None}
    /\ faults' \in 0..MaxFaults
    /\ op'.pc \in {"exec", "halt"} => op'.svc = "drain"
    /\ \A s \in OneShots : Touched(s)
    /\ GoesForward \/ Removes \/ Enters \/ GivesUp \/ Ends \/ Begins

LEMMA OperatorTypes ==
    ASSUME TypeInv
    PROVE  /\ container \in [Services -> Container] /\ op \in Operation
           /\ report \in Report \cup {None} /\ faults \in 0..MaxFaults
           /\ op.svc \in OneShots /\ op.svc \in Services /\ "api" \in Services
           /\ OneShots \subseteq Services
           /\ (op.reading <=> op.svc = "identity")
           /\ (op.pc \in {"exec", "halt"} => op.svc = "drain")
  BY DEF TypeInv, TypeOK, ProgramsOK, Operation, Services

LEMMA Counted ==
    ASSUME TypeInv, Sound \/ Fault PROVE faults' \in 0..MaxFaults
  BY BoundAssumption DEF TypeInv, TypeOK, Sound, Fault

\* Only the operation moves.
LEMMA LooksOn ==
    ASSUME TypeInv, container' = container
    PROVE  /\ container' \in [Services -> Container]
           /\ \A s \in OneShots : Touched(s)
           /\ SameApi /\ SameProgram(op.svc)
  BY OperatorTypes DEF Touched, SameProgram, SameApi, Is

LEMMA ThenMoves ==
    ASSUME TypeInv, NEW pc, pc \in Working \cup {"create", "quiet"}, Then(pc)
    PROVE  /\ op' \in Operation /\ op'.pc = pc /\ Same /\ op'.last = op.last
           /\ report' = report
  BY OperatorTypes DEF Then, Operation, Same, Working

LEMMA RaiseMoves ==
    ASSUME TypeInv, NEW code \in {"failed", "unsafe"}, Raise(code),
           op.pc \notin {"idle", "dead"}
    PROVE  /\ op' \in Operation /\ GivesUp /\ op'.pc = "cleanup"
           /\ report' = report
  <1>1. op \in Operation
    BY OperatorTypes
  <1>2. ASSUME NEW c \in {"none", "failed", "unsafe"}
        PROVE  /\ [op EXCEPT !.pc = "cleanup", !.failing = TRUE, !.code = c] \in Operation
               /\ [op EXCEPT !.pc = "cleanup", !.failing = TRUE, !.code = c].pc = "cleanup"
               /\ [op EXCEPT !.pc = "cleanup", !.failing = TRUE, !.code = c].n = op.n
               /\ [op EXCEPT !.pc = "cleanup", !.failing = TRUE, !.code = c].svc = op.svc
               /\ [op EXCEPT !.pc = "cleanup", !.failing = TRUE, !.code = c].attempted = op.attempted
               /\ [op EXCEPT !.pc = "cleanup", !.failing = TRUE, !.code = c].reading = op.reading
    BY <1>1 DEF Operation
  <1>. DEFINE c == IF op.failing THEN op.code ELSE code
  <1>3. op' = [op EXCEPT !.pc = "cleanup", !.failing = TRUE, !.code = c] /\ report' = report
    BY DEF Raise
  <1>4. c \in {"none", "failed", "unsafe"}
    BY <1>1 DEF Operation
  <1>. HIDE DEF c
  <1>. QED
    BY <1>2, <1>3, <1>4 DEF GivesUp, Same

LEMMA IdleTyped ==
    ASSUME NEW n \in 0..MaxOperations, NEW pc \in {"idle", "stop", "dead"}
    PROVE  /\ [Idle EXCEPT !.n = n, !.pc = pc] \in Operation
           /\ [Idle EXCEPT !.n = n, !.pc = pc].pc = pc
           /\ [Idle EXCEPT !.n = n, !.pc = pc].n = n
           /\ [Idle EXCEPT !.n = n, !.pc = pc].svc = "marker"
           /\ [Idle EXCEPT !.n = n, !.pc = pc].reading = FALSE
           /\ [Idle EXCEPT !.n = n, !.pc = pc].attempted = FALSE
           /\ [Idle EXCEPT !.n = n] \in Operation /\ [Idle EXCEPT !.n = n].pc = "idle"
           /\ [Idle EXCEPT !.n = n].n = n /\ [Idle EXCEPT !.n = n].svc = "marker"
           /\ [Idle EXCEPT !.n = n].reading = FALSE /\ [Idle EXCEPT !.n = n].attempted = FALSE
  <1>1. Idle \in Operation
    BY OneShotNames, BoundAssumption DEF Idle, Operation
  <1>2. /\ Idle.svc = "marker" /\ Idle.reading = FALSE /\ Idle.attempted = FALSE
        /\ Idle.pc = "idle"
    BY DEF Idle
  <1>4. ASSUME NEW o \in Operation
        PROVE  /\ [o EXCEPT !.n = n] \in Operation /\ [o EXCEPT !.n = n].pc = o.pc
               /\ [o EXCEPT !.n = n].n = n /\ [o EXCEPT !.n = n].svc = o.svc
               /\ [o EXCEPT !.n = n].reading = o.reading
               /\ [o EXCEPT !.n = n].attempted = o.attempted
    BY DEF Operation
  <1>3. ASSUME NEW o \in Operation
        PROVE  /\ [o EXCEPT !.n = n, !.pc = pc] \in Operation
               /\ [o EXCEPT !.n = n, !.pc = pc].pc = pc /\ [o EXCEPT !.n = n, !.pc = pc].n = n
               /\ [o EXCEPT !.n = n, !.pc = pc].svc = o.svc
               /\ [o EXCEPT !.n = n, !.pc = pc].reading = o.reading
               /\ [o EXCEPT !.n = n, !.pc = pc].attempted = o.attempted
    BY DEF Operation
  <1>. QED
    BY <1>1, <1>2, <1>3, <1>4

LEMMA EndedMoves ==
    ASSUME TypeInv, op.pc \notin {"idle", "dead"}, container' = container,
           NEW ok \in BOOLEAN, NEW code \in {"none", "failed", "unsafe"},
           NEW stopped \in BOOLEAN, NEW last \in 1..10 \cup {None},
           Ended(ok, code, stopped, last)
    PROVE  op' \in Operation /\ op'.pc = "idle" /\ report' \in Report /\ Ends
  <1>1. op.n \in 0..MaxOperations /\ op.attempted \in BOOLEAN
    BY OperatorTypes DEF Operation
  <1>2. op' = [Idle EXCEPT !.n = op.n]
    BY DEF Ended
  <1>3. op' \in Operation /\ op'.pc = "idle"
    BY <1>1, <1>2, IdleTyped
  <1>4. report' \in Report
    BY <1>1 DEF Ended, Report
  <1>. QED
    BY <1>2, <1>3, <1>4 DEF Ends

LEMMA BeginStep == ASSUME TypeInv, Begin PROVE OperatorStep
  <1>1. /\ op.pc \in {"idle", "dead"} /\ op.n < MaxOperations
        /\ op' = [Idle EXCEPT !.n = op.n + 1, !.pc = "stop"] /\ report' = None
        /\ container' \in {container, Removed(OneShots)}
        /\ UNCHANGED <<main, wal, marker, claims, files>>
    BY DEF Begin, Elsewhere
  <1>2. op.n + 1 \in 0..MaxOperations
    BY <1>1, OperatorTypes, BoundAssumption DEF Operation
  <1>3. op' \in Operation /\ op'.pc = "stop"
    BY <1>1, <1>2, IdleTyped
  <1>4. container' \in [Services -> Container] /\ \A s \in OneShots : Touched(s)
    BY <1>1, OperatorTypes, LooksOn, RemovedOK DEF Touched
  <1>5. faults' \in 0..MaxFaults
    BY Counted DEF Begin
  <1>. QED
    BY <1>1, <1>3, <1>4, <1>5 DEF OperatorStep, Begins

\* Stopping the api and the worker, at the start or while cleaning up.
ApiExited == [NoContainer EXCEPT !.state = "exited"]
LEMMA ApiExits ==
    ASSUME NEW cs \in [Services -> Container]
    PROVE  [cs EXCEPT !["api"] = ApiExited] \in [Services -> Container]
  <1>1. ApiExited = [NoContainer EXCEPT !.state = "exited"] /\ NoContainer \in Container
    BY NoContainerOK DEF ApiExited
  <1>2. ApiExited \in Container
    BY <1>1 DEF Container
  <1>. QED
    BY <1>2

LEMMA StopServicesStep == ASSUME TypeInv, StopServices PROVE OperatorStep
  <1>0. op.pc = "stop" /\ UNCHANGED <<main, wal, marker, claims, files>>
    BY DEF StopServices, At, Elsewhere
  <1>1. StopApi = [container EXCEPT !["api"] = IF container["api"].state = "running"
                                               THEN ApiExited ELSE container["api"]]
    BY DEF StopApi, ApiExited
  <1>2. StopApi \in [Services -> Container] /\ \A s \in OneShots : StopApi[s] = container[s]
    <2>1. "api" \notin OneShots
      BY OneShotNames
    <2>2. container \in [Services -> Container] /\ OneShots \subseteq Services
      BY OperatorTypes
    <2>. QED
      BY <1>1, <2>1, <2>2, ApiExits
  <1>3. container' \in {container, StopApi}
    BY DEF StopServices
  <1>4. container' \in [Services -> Container] /\ \A s \in OneShots : Touched(s)
    BY <1>2, <1>3, OperatorTypes DEF Touched, SameProgram, Is
  <1>5. faults' \in 0..MaxFaults
    BY Counted DEF StopServices
  <1>6. op' \in Operation /\ report' = report /\ op'.pc \in {"quiet", "cleanup"} /\ GivesUp
    BY <1>0, ThenMoves, RaiseMoves DEF StopServices, GivesUp
  <1>. QED
    BY <1>0, <1>4, <1>5, <1>6, OperatorTypes DEF OperatorStep

LEMMA QuietStep == ASSUME TypeInv, Quiet PROVE OperatorStep
  <1>0. /\ op.pc = "quiet" /\ container' = container
        /\ UNCHANGED <<main, wal, marker, claims, files>>
    BY DEF Quiet, At, Look, Elsewhere
  <1>1. faults' \in 0..MaxFaults
    BY Counted DEF Quiet
  <1>2. CASE VolumeState({}, {})
    <2>1. Then("create")
      BY <1>2 DEF Quiet
    <2>2. op' \in Operation /\ report' = report /\ op'.pc = "create" /\ Same
      BY <2>1, ThenMoves DEF Working
    <2>. QED
      BY <1>0, <1>1, <1>2, <2>2, OperatorTypes, LooksOn DEF OperatorStep, Enters, Same
  <1>3. CASE ~VolumeState({}, {})
    <2>1. op' \in Operation /\ report' = report /\ op'.pc = "cleanup" /\ GivesUp
      BY <1>0, <1>3, RaiseMoves DEF Quiet
    <2>. QED
      BY <1>0, <1>1, <2>1, OperatorTypes, LooksOn DEF OperatorStep
  <1>. QED
    BY <1>2, <1>3

LEMMA BetweenStep == ASSUME TypeInv, Between PROVE OperatorStep
  <1>0. /\ op.pc = "between" /\ container' = container
        /\ UNCHANGED <<main, wal, marker, claims, files>> /\ faults' \in 0..MaxFaults
    BY Counted DEF Between, At, Look, Elsewhere
  <1>1. ASSUME GivesUp, op'.pc = "cleanup", op' \in Operation, report' = report
        PROVE  OperatorStep
    BY <1>0, <1>1, OperatorTypes, LooksOn DEF OperatorStep
  <1>2. ASSUME Ends, op'.pc = "idle", op' \in Operation, report' \in Report PROVE OperatorStep
    BY <1>0, <1>2, OperatorTypes, LooksOn DEF OperatorStep
  <1>3. op.code \in {"none", "failed", "unsafe"} /\ op.last \in 1..10 \cup {None}
    BY OperatorTypes DEF Operation
  <1>4. CASE ~VolumeState({}, {})
    BY <1>0, <1>1, <1>4, RaiseMoves DEF Between
  <1>5. CASE VolumeState({}, {}) /\ op.reading
    <2>1. Ended(FALSE, op.code, TRUE, op.last)
      BY <1>5 DEF Between
    <2>. QED
      BY <1>0, <1>2, <1>3, <2>1, EndedMoves
  <1>6. CASE VolumeState({}, {}) /\ ~op.reading /\ op.svc = "preflight"
    <2>1. Ended(TRUE, "none", TRUE, None)
      BY <1>6 DEF Between
    <2>2. TRUE \in BOOLEAN /\ "none" \in {"none", "failed", "unsafe"} /\ None \in 1..10 \cup {None}
      OBVIOUS
    <2>. QED
      BY <1>0, <1>2, <2>1, <2>2, EndedMoves
  <1>7. CASE VolumeState({}, {}) /\ ~op.reading /\ op.svc # "preflight"
    <2>. DEFINE next == Successor(op.svc)
                attempted == op.attempted \/ op.svc = "marker"
    <2>1. /\ op' = [op EXCEPT !.pc = "create", !.svc = next, !.attempted = attempted]
          /\ report' = report
      BY <1>7 DEF Between
    <2>2. next \in OneShots
      BY <1>7, OperatorTypes, OneShotNames, Successors
    <2>3. attempted \in BOOLEAN
      BY OperatorTypes DEF Operation
    <2>. HIDE DEF next, attempted
    <2>4. /\ op' \in Operation /\ op'.pc = "create" /\ op'.n = op.n /\ op'.svc = next
          /\ op'.attempted = attempted /\ op'.reading = op.reading
      BY <2>1, <2>2, <2>3, OperatorTypes DEF Operation
    <2>5. Enters
      BY <1>0, <1>7, <2>4 DEF Enters, next, attempted
    <2>. QED
      BY <1>0, <2>1, <2>4, <2>5, OperatorTypes, LooksOn DEF OperatorStep
  <1>. QED
    BY <1>4, <1>5, <1>6, <1>7

\* A step that goes on to a state of Working, or gives up.
LEMMA ForwardStep ==
    ASSUME TypeInv, op.pc \in Working \cup {"create"},
           NEW pc \in Working, pc # "remove" \/ op.svc = "drain",
           Then(pc), UNCHANGED <<main, wal, marker, claims, files>>,
           container' \in [Services -> Container], \A s \in OneShots : Touched(s), SameApi,
           Continues, pc \in {"exec", "halt"} => op.svc = "drain",
           faults' \in 0..MaxFaults
    PROVE  OperatorStep
  <1>1. op' \in Operation /\ op'.pc = pc /\ Same /\ report' = report
    BY ThenMoves
  <1>2. GoesForward
    BY <1>1 DEF GoesForward
  <1>3. op'.pc \in {"exec", "halt"} => op'.svc = "drain"
    BY <1>1 DEF Same
  <1>. QED
    BY <1>1, <1>2, <1>3, OperatorTypes DEF OperatorStep

LEMMA FailStep ==
    ASSUME TypeInv, NEW code \in {"failed", "unsafe"}, Raise(code),
           op.pc \notin {"idle", "dead"},
           UNCHANGED <<main, wal, marker, claims, files>>,
           container' \in [Services -> Container], \A s \in OneShots : Touched(s),
           faults' \in 0..MaxFaults
    PROVE  OperatorStep
  <1>1. op' \in Operation /\ op'.pc = "cleanup" /\ GivesUp /\ report' = report
    BY RaiseMoves
  <1>. QED
    BY <1>1, OperatorTypes DEF OperatorStep

LEMMA FreshOK ==
    ASSUME TypeInv
    PROVE  /\ Fresh \in Container /\ Fresh.of = op.n /\ Fresh.state = "created"
           /\ Fresh.ok = FALSE /\ Fresh.pc = "claim"
  <1>1. op.n \in 0..MaxOperations
    BY OperatorTypes DEF Operation
  <1>2. ASSUME NEW c \in Container, NEW n \in 0..MaxOperations
        PROVE  /\ [c EXCEPT !.state = "created", !.of = n] \in Container
               /\ [c EXCEPT !.state = "created", !.of = n].of = n
               /\ [c EXCEPT !.state = "created", !.of = n].state = "created"
               /\ [c EXCEPT !.state = "created", !.of = n].ok = c.ok
               /\ [c EXCEPT !.state = "created", !.of = n].pc = c.pc
    BY DEF Container
  <1>3. NoContainer.ok = FALSE /\ NoContainer.pc = "claim"
    BY DEF NoContainer
  <1>. QED
    BY <1>1, <1>2, <1>3, NoContainerOK DEF Fresh

LEMMA CreateStep == ASSUME TypeInv, Create PROVE OperatorStep
  <1>0. /\ op.pc = "create" /\ UNCHANGED <<main, wal, marker, claims, files>>
        /\ faults' \in 0..MaxFaults
    BY Counted DEF Create, At, Elsewhere
  <1>1. /\ Made \in [Services -> Container]
        /\ \A s \in Services \ {op.svc} : Made[s] = container[s]
        /\ Made[op.svc] = IF container[op.svc].state = "none" THEN Fresh ELSE container[op.svc]
    BY OperatorTypes, FreshOK DEF Made, Fresh
  <1>2. container' \in {container, Made}
    BY DEF Create
  <1>3. /\ container' \in [Services -> Container] /\ SameApi
        /\ \A s \in OneShots : Touched(s)
    BY <1>0, <1>1, <1>2, OperatorTypes, OneShotNames DEF Touched, SameProgram, Is, SameApi
  <1>4. ("failed" \in {"failed", "unsafe"}) /\ "register" \in Working
    BY DEF Working
  <1>5. container' = Made => Continues
    BY <1>0, <1>1 DEF Continues, SameProgram, Is
  <1>. QED
    BY <1>0, <1>3, <1>4, <1>5, ForwardStep, FailStep DEF Create

LEMMA RegisterStep == ASSUME TypeInv, Register PROVE OperatorStep
  <1>0. /\ op.pc = "register" /\ UNCHANGED <<main, wal, marker, claims, files>>
        /\ container' = container /\ faults' \in 0..MaxFaults
    BY Counted DEF Register, At, Look, Elsewhere
  <1>1. CASE Raise("failed")
    BY <1>0, <1>1, LooksOn, FailStep
  <1>2. CASE op' = [op EXCEPT !.pc = "ready", !.ids = @ \cup {op.svc}] /\ report' = report
    <2>1. op \in Operation /\ op.svc \in OneShots
      BY OperatorTypes
    <2>2. op.ids \cup {op.svc} \in SUBSET OneShots
      BY <2>1 DEF Operation
    <2>3. ASSUME NEW ids \in SUBSET OneShots
          PROVE  /\ [op EXCEPT !.pc = "ready", !.ids = ids] \in Operation
                 /\ [op EXCEPT !.pc = "ready", !.ids = ids].pc = "ready"
                 /\ [op EXCEPT !.pc = "ready", !.ids = ids].n = op.n
                 /\ [op EXCEPT !.pc = "ready", !.ids = ids].svc = op.svc
                 /\ [op EXCEPT !.pc = "ready", !.ids = ids].attempted = op.attempted
                 /\ [op EXCEPT !.pc = "ready", !.ids = ids].reading = op.reading
      BY <2>1 DEF Operation
    <2>4. op' \in Operation /\ op'.pc = "ready" /\ Same
      BY <1>2, <2>2, <2>3 DEF Same
    <2>5. GoesForward
      BY <1>0, <2>4, LooksOn DEF GoesForward, Continues, Working
    <2>. QED
      BY <1>0, <1>2, <2>4, <2>5, OperatorTypes, LooksOn DEF OperatorStep
  <1>. QED
    BY <1>1, <1>2 DEF Register

LEMMA ReadyStep == ASSUME TypeInv, Ready PROVE OperatorStep
  <1>0. /\ op.pc = "ready" /\ UNCHANGED <<main, wal, marker, claims, files>>
        /\ container' = container /\ faults' \in 0..MaxFaults
    BY Counted DEF Ready, At, Look, Elsewhere
  <1>1. Then("start") \/ Raise("unsafe")
    BY DEF Ready
  <1>2. "start" \in Working /\ "ready" \in Working
    BY DEF Working
  <1>3. Continues
    BY <1>0, LooksOn DEF Continues
  <1>. QED
    BY <1>0, <1>1, <1>2, <1>3, LooksOn, ForwardStep, FailStep

LEMMA StartStep == ASSUME TypeInv, Start PROVE OperatorStep
  <1>0. /\ op.pc = "start" /\ UNCHANGED <<main, wal, marker, claims, files>>
        /\ faults' \in 0..MaxFaults
    BY Counted DEF Start, At, Elsewhere
  <1>. DEFINE c == [container[op.svc] EXCEPT !.state = "running"]
              next == IF op.svc = "drain" THEN "check" ELSE "poll"
  <1>1. container[op.svc] \in Container
    BY OperatorTypes
  <1>2. /\ c \in Container /\ c.pc = container[op.svc].pc /\ c.next = container[op.svc].next
        /\ c.of = container[op.svc].of /\ c.ok = container[op.svc].ok
    BY <1>1 DEF Container
  <1>3. Started = [container EXCEPT ![op.svc] = c]
    BY DEF Started
  <1>. HIDE DEF c
  <1>4. /\ Started \in [Services -> Container] /\ Started[op.svc] = c
        /\ \A s \in Services \ {op.svc} : Started[s] = container[s]
    BY <1>2, <1>3, OperatorTypes
  <1>5. container' \in {container, Started}
    BY DEF Start
  <1>6. /\ container' \in [Services -> Container] /\ SameApi
        /\ \A s \in OneShots : Touched(s)
    BY <1>0, <1>2, <1>4, <1>5, OperatorTypes, OneShotNames DEF Touched, SameProgram, Is, SameApi
  <1>7. next \in Working \ {"remove", "exec", "halt"} /\ "start" \in Working
    BY DEF Working
  <1>9. Continues
    BY <1>0, <1>2, <1>4, <1>5 DEF Continues, SameProgram
  <1>8. Then(next) \/ Raise("failed")
    BY DEF Start
  <1>. HIDE DEF next
  <1>. QED
    BY <1>0, <1>6, <1>7, <1>8, <1>9, ForwardStep, FailStep

LEMMA PollStep == ASSUME TypeInv, Poll PROVE OperatorStep
  <1>0. /\ op.pc = "poll" /\ UNCHANGED <<main, wal, marker, claims, files>>
        /\ container' = container /\ faults' \in 0..MaxFaults
    BY Counted DEF Poll, At, Look, Elsewhere
  <1>1. "check" \in Working /\ "poll" \in Working /\ "remove" \in Working
    BY DEF Working
  <1>2. CASE Then("check")
    <2>1. Continues
      BY <1>0, LooksOn DEF Continues
    <2>. QED
      BY <1>0, <1>1, <1>2, <2>1, LooksOn, ForwardStep
  <1>3. CASE Raise("failed")
    BY <1>0, <1>3, LooksOn, FailStep
  <1>4. ASSUME Is(op.svc, "exited"), container[op.svc].ok, report' = report,
               op' = [op EXCEPT !.pc = "remove",
                         !.last = IF op.reading THEN container["identity"].next ELSE None]
        PROVE  OperatorStep
    <2>. DEFINE last == IF op.reading THEN container["identity"].next ELSE None
    <2>1. op \in Operation /\ container["identity"] \in Container
      BY OperatorTypes, OneShotNames
    <2>2. last \in 1..10 \cup {None}
      BY <2>1 DEF Container
    <2>3. op' = [op EXCEPT !.pc = "remove", !.last = last]
      BY <1>4
    <2>4. op.reading => last = container["identity"].next
      OBVIOUS
    <2>. HIDE DEF last
    <2>5. /\ op' \in Operation /\ op'.pc = "remove" /\ op'.last = last
          /\ op'.n = op.n /\ op'.svc = op.svc
          /\ op'.attempted = op.attempted /\ op'.reading = op.reading
      BY <2>1, <2>2, <2>3 DEF Operation
    <2>6. GoesForward
      BY <1>0, <1>1, <1>4, <2>4, <2>5, LooksOn DEF GoesForward, Same, Continues
    <2>. QED
      BY <1>0, <1>4, <2>5, <2>6, OperatorTypes, LooksOn DEF OperatorStep
  <1>. QED
    BY <1>2, <1>3, <1>4 DEF Poll

LEMMA CheckStep == ASSUME TypeInv, Check PROVE OperatorStep
  <1>0. /\ op.pc = "check" /\ UNCHANGED <<main, wal, marker, claims, files>>
        /\ container' = container /\ faults' \in 0..MaxFaults
    BY Counted DEF Check, At, Look, Elsewhere
  <1>1. \/ op.svc = "drain" /\ Then("exec")
        \/ Then("poll") \/ Raise("unsafe")
    BY DEF Check
  <1>2. "exec" \in Working /\ "poll" \in Working /\ "check" \in Working
    BY DEF Working
  <1>3. Continues
    BY <1>0, LooksOn DEF Continues
  <1>. QED
    BY <1>0, <1>1, <1>2, <1>3, LooksOn, ForwardStep, FailStep

LEMMA DrainCheckStep == ASSUME TypeInv, DrainCheck PROVE OperatorStep
  <1>0. /\ op.pc = "exec" /\ UNCHANGED <<main, wal, marker, claims, files>>
        /\ container' = container /\ faults' \in 0..MaxFaults
    BY Counted DEF DrainCheck, At, Look, Elsewhere
  <1>1. Then("halt") \/ Then("check")
    BY DEF DrainCheck
  <1>2. /\ "exec" \in Working /\ "halt" \in Working /\ "check" \in Working
        /\ op.svc = "drain"
    BY <1>0, OperatorTypes DEF Working
  <1>3. Continues
    BY <1>0, LooksOn DEF Continues
  <1>. QED
    BY <1>0, <1>1, <1>2, <1>3, LooksOn, ForwardStep

LEMMA HaltStep == ASSUME TypeInv, Halt PROVE OperatorStep
  <1>0. /\ op.pc = "halt" /\ UNCHANGED <<main, wal, marker, claims, files>>
        /\ faults' \in 0..MaxFaults
    BY Counted DEF Halt, At, Elsewhere
  <1>. DEFINE c == [container["drain"] EXCEPT !.state = "exited", !.ok = FALSE, !.open = FALSE]
              d == IF container["drain"].state = "running" THEN c ELSE container["drain"]
  <1>1. "drain" \in Services /\ container["drain"] \in Container
    BY OperatorTypes, OneShotNames
  <1>2. c \in Container
    BY <1>1 DEF Container
  <1>3. /\ c.pc = container["drain"].pc /\ c.next = container["drain"].next
        /\ c.of = container["drain"].of /\ c.ok = FALSE /\ c.state = "exited"
    BY <1>1 DEF Container
  <1>4. Stopped("drain") = [container EXCEPT !["drain"] = d]
    BY DEF Stopped
  <1>. HIDE DEF c
  <1>5. /\ Stopped("drain") \in [Services -> Container] /\ Stopped("drain")["drain"] = d
        /\ \A s \in Services \ {"drain"} : Stopped("drain")[s] = container[s]
    BY <1>1, <1>2, <1>4, OperatorTypes
  <1>6. container' \in {container, Stopped("drain")}
    BY DEF Halt
  <1>7. /\ container' \in [Services -> Container] /\ SameApi
        /\ \A s \in OneShots : Touched(s)
    BY <1>3, <1>5, <1>6, OperatorTypes, OneShotNames DEF Touched, SameProgram, Is, SameApi
  <1>8. "remove" \in Working /\ "halt" \in Working /\ op.svc = "drain"
    BY <1>0, OperatorTypes DEF Working
  <1>9. Then("remove") \/ Raise("failed")
    BY DEF Halt
  <1>10. Continues
    BY <1>0, <1>3, <1>5, <1>6, <1>8 DEF Continues, SameProgram
  <1>. QED
    BY <1>0, <1>7, <1>8, <1>9, <1>10, ForwardStep, FailStep

LEMMA RemoveStep == ASSUME TypeInv, Remove PROVE OperatorStep
  <1>0. /\ op.pc = "remove" /\ UNCHANGED <<main, wal, marker, claims, files>>
        /\ faults' \in 0..MaxFaults
    BY Counted DEF Remove, At, Elsewhere
  <1>1. container' \in {container, Removed({op.svc})}
    BY DEF Remove
  <1>2. /\ container' \in [Services -> Container] /\ SameApi
        /\ \A s \in OneShots : Touched(s)
    BY <1>1, OperatorTypes, OneShotNames, RemovedOK, LooksOn DEF Touched, SameProgram, Is, SameApi
  <1>3. CASE Raise("failed")
    BY <1>0, <1>2, <1>3, FailStep
  <1>4. ASSUME op' = [op EXCEPT !.pc = "between", !.ids = @ \ {op.svc}], report' = report,
               container' = Removed({op.svc})
        PROVE  OperatorStep
    <2>1. op \in Operation
      BY OperatorTypes
    <2>2. op.ids \ {op.svc} \in SUBSET OneShots
      BY <2>1 DEF Operation
    <2>3. ASSUME NEW ids \in SUBSET OneShots
          PROVE  /\ [op EXCEPT !.pc = "between", !.ids = ids] \in Operation
                 /\ [op EXCEPT !.pc = "between", !.ids = ids].pc = "between"
                 /\ [op EXCEPT !.pc = "between", !.ids = ids].n = op.n
                 /\ [op EXCEPT !.pc = "between", !.ids = ids].svc = op.svc
                 /\ [op EXCEPT !.pc = "between", !.ids = ids].last = op.last
                 /\ [op EXCEPT !.pc = "between", !.ids = ids].attempted = op.attempted
                 /\ [op EXCEPT !.pc = "between", !.ids = ids].reading = op.reading
      BY <2>1 DEF Operation
    <2>4. op' \in Operation /\ op'.pc = "between" /\ Same /\ op'.last = op.last
      BY <1>4, <2>2, <2>3 DEF Same
    <2>5. Removes
      BY <1>0, <1>2, <1>4, <2>4 DEF Removes
    <2>. QED
      BY <1>0, <1>2, <1>4, <2>4, <2>5, OperatorTypes DEF OperatorStep
  <1>. QED
    BY <1>3, <1>4 DEF Remove

LEMMA CleanupStep == ASSUME TypeInv, Cleanup PROVE OperatorStep
  <1>0. /\ op.pc = "cleanup" /\ UNCHANGED <<main, wal, marker, claims, files>>
        /\ faults' \in 0..MaxFaults /\ report' = report
    BY Counted DEF Cleanup, At, Elsewhere
  <1>. DEFINE after(c) == IF op.reading \/ c["api"].state # "running" THEN c
                          ELSE [c EXCEPT !["api"] = ApiExited]
  <1>1. container' \in {after(Removed(op.ids)), container, Removed(op.ids), after(container)}
    BY DEF Cleanup, ApiExited
  <1>2. "api" \notin OneShots
    BY OneShotNames
  <1>3. ASSUME NEW cs \in [Services -> Container]
        PROVE  /\ after(cs) \in [Services -> Container]
               /\ \A s \in OneShots : after(cs)[s] = cs[s]
    BY <1>2, ApiExits, OperatorTypes
  <1>4. /\ Removed(op.ids) \in [Services -> Container]
        /\ \A s \in OneShots : Removed(op.ids)[s] \in {NoContainer, container[s]}
    BY OperatorTypes, NoContainerOK DEF Removed
  <1>5. \A s \in OneShots : container'[s] \in {NoContainer, container[s]}
    BY <1>1, <1>3, <1>4, OperatorTypes
  <1>6. container' \in [Services -> Container] /\ \A s \in OneShots : Touched(s)
    <2>1. container' \in [Services -> Container]
      BY <1>1, <1>3, <1>4, OperatorTypes
    <2>. QED
      BY <1>5, <2>1 DEF Touched, SameProgram, Is
  <1>7. op' = [op EXCEPT !.pc = "confirm", !.ids = {}]
    BY DEF Cleanup
  <1>8. op' \in Operation /\ op'.pc = "confirm" /\ Same
    BY <1>7, OperatorTypes DEF Operation, Same
  <1>. QED
    BY <1>0, <1>6, <1>8, OperatorTypes DEF OperatorStep, GivesUp

LEMMA ConfirmStep == ASSUME TypeInv, Confirm PROVE OperatorStep
  <1>0. /\ op.pc = "confirm" /\ container' = container
        /\ UNCHANGED <<main, wal, marker, claims, files>> /\ faults' \in 0..MaxFaults
    BY Counted DEF Confirm, At, Look, Elsewhere
  <1>1. ASSUME Ends, op'.pc = "idle", op' \in Operation, report' \in Report PROVE OperatorStep
    BY <1>0, <1>1, OperatorTypes, LooksOn DEF OperatorStep
  <1>2. ASSUME NEW ok \in BOOLEAN, NEW code \in {"none", "failed", "unsafe"},
               NEW stopped \in BOOLEAN, Ended(ok, code, stopped, None)
        PROVE  OperatorStep
    <2>1. None \in 1..10 \cup {None}
      OBVIOUS
    <2>. QED
      BY <1>0, <1>1, <1>2, <2>1, EndedMoves
  <1>3. op.code \in {"none", "failed", "unsafe"}
    BY OperatorTypes DEF Operation
  <1>4. CASE Ended(FALSE, "unsafe", FALSE, None)
    BY <1>2, <1>4
  <1>5. CASE Ended(FALSE, op.code, TRUE, None)
    BY <1>2, <1>3, <1>5
  <1>6. ASSUME VolumeState({}, {}), op.attempted, report' = report,
               op' = [op EXCEPT !.pc = "create", !.reading = TRUE, !.svc = "identity"]
        PROVE  OperatorStep
    <2>1. op \in Operation /\ "identity" \in OneShots
      BY OperatorTypes, OneShotNames
    <2>2. op' \in Operation
      BY <1>6, <2>1 DEF Operation
    <2>3. /\ op'.pc = "create" /\ op'.n = op.n /\ op'.svc = "identity"
          /\ op'.attempted = op.attempted /\ op'.reading = TRUE
      BY <1>6, <2>1 DEF Operation
    <2>4. Enters
      BY <1>0, <1>6, <2>3 DEF Enters
    <2>. QED
      BY <1>0, <1>6, <2>2, <2>3, <2>4, OperatorTypes, LooksOn DEF OperatorStep
  <1>. QED
    BY <1>4, <1>5, <1>6 DEF Confirm

LEMMA DieStep == ASSUME TypeInv, Die PROVE OperatorStep
  <1>0. /\ op.pc \notin {"idle", "dead"} /\ container' = container
        /\ op' = [Idle EXCEPT !.n = op.n, !.pc = "dead"] /\ report' = report
        /\ UNCHANGED <<main, wal, marker, claims, files>> /\ faults' \in 0..MaxFaults
    BY Counted DEF Die, Look, Elsewhere
  <1>1. op.n \in 0..MaxOperations
    BY OperatorTypes DEF Operation
  <1>2. op' \in Operation /\ op'.pc = "dead"
    BY <1>0, <1>1, IdleTyped
  <1>. QED
    BY <1>0, <1>2, OperatorTypes, LooksOn DEF OperatorStep, Ends

LEMMA RaisingStep == ASSUME TypeInv, QueryFails \/ Deadline PROVE OperatorStep
  <1>0. /\ op.pc \notin {"idle", "dead"} /\ container' = container /\ Raise("failed")
        /\ UNCHANGED <<main, wal, marker, claims, files>> /\ faults' \in 0..MaxFaults
    BY Counted DEF QueryFails, Deadline, Look, Elsewhere
  <1>. QED
    BY <1>0, LooksOn, FailStep

LEMMA OperatorSteps ==
    ASSUME TypeInv, Begin \/ Orchestrate \/ Deadline \/ Die PROVE OperatorStep
  BY BeginStep, StopServicesStep, QuietStep, BetweenStep, CreateStep, RegisterStep,
     ReadyStep, StartStep, PollStep, CheckStep, DrainCheckStep, HaltStep, RemoveStep,
     CleanupStep, ConfirmStep, DieStep, RaisingStep
     DEF Orchestrate
-----------------------------------------------------------------------------
(***************************************************************************)
(* The return of the api, and the steps of the drill.                      *)
(***************************************************************************)
LEMMA ReturnStep ==
    ASSUME TypeInv, Return
    PROVE  /\ container' \in [Services -> Container] /\ faults' \in 0..MaxFaults
           /\ \A s \in OneShots : container'[s] = container[s]
           /\ container'["api"].state = "running"
           /\ op.pc \notin {"idle", "dead"}
           /\ UNCHANGED <<main, wal, marker, claims, files, op, report>>
  <1>. DEFINE c == [NoContainer EXCEPT !.state = "running", !.pc = "write"]
  <1>1. ASSUME NEW d \in Container
        PROVE  /\ [d EXCEPT !.state = "running", !.pc = "write"] \in Container
               /\ [d EXCEPT !.state = "running", !.pc = "write"].state = "running"
    BY DEF Container
  <1>2. c \in Container /\ c.state = "running"
    BY <1>1, NoContainerOK
  <1>3. container' = [container EXCEPT !["api"] = c]
    BY DEF Return
  <1>. HIDE DEF c
  <1>4. "api" \notin OneShots
    BY OneShotNames
  <1>5. faults' \in 0..MaxFaults
    BY OperatorTypes, BoundAssumption DEF Return
  <1>. QED
    BY <1>2, <1>3, <1>4, <1>5, OperatorTypes, SetContainer DEF Return

\* What a step of the drill changes besides its own progress.
DrillTyped ==
    /\ DatabasesOK' /\ attested' \in Database \cup {None} /\ forensic' \in Database \cup {None}
    /\ files' \subseteq File /\ protected' \subseteq File
    /\ drill' \in Drill /\ faults' \in 0..MaxFaults
DrillIn ==
    /\ drill \in Drill /\ attested \in Database \cup {None} /\ forensic \in Database \cup {None}
    /\ files \subseteq File /\ protected \subseteq File /\ faults \in 0..MaxFaults
    /\ DatabasesOK /\ DatabaseOK(Current) /\ backup \in Database \cup {None}

LEMMA DrillTypes == ASSUME TypeInv PROVE DrillIn
  BY CurrentOK DEF TypeInv, TypeOK, DrillIn

LEMMA StepTyped ==
    ASSUME DrillIn, NEW from,
           NEW to \in {"backup", "attest", "armed", "forensic", "replace", "verify", "media",
                       "unlink", "final", "done", "failed"},
           Step(from, to)
    PROVE  /\ drill' \in Drill /\ drill.pc = from /\ drill'.pc = to
           /\ drill'.candidates = drill.candidates /\ drill'.repeated = drill.repeated
  BY DEF Step, Drill, DrillIn

LEMMA DrillSteps ==
    ASSUME TypeInv, DrillOK, DrillNext PROVE DrillTyped
  <1>. USE DrillTypes
  <1>1. CASE TakeInventory
    BY <1>1, StepTyped DEF TakeInventory, Untouched, DrillIn, DrillTyped, DatabasesOK
  <1>2. CASE TakeBackup
    BY <1>2, StepTyped DEF TakeBackup, Untouched, DrillIn, DrillTyped, DatabasesOK
  <1>3. CASE Attest
    BY <1>3, StepTyped DEF Attest, Untouched, DrillIn, DrillTyped, DatabasesOK
  <1>4. CASE Invoke
    <2>1. Step("armed", "forensic") /\ UNCHANGED <<artifacts, files, faults, main, wal>>
      BY <1>4 DEF Invoke, Untouched
    <2>. QED
      BY <2>1, StepTyped DEF DrillIn, DrillTyped, DatabasesOK, artifacts
  <1>5. CASE RecordForensics
    <2>0. UNCHANGED <<main, wal, backup, attested, protected, files, faults>>
      BY <1>5 DEF RecordForensics, Untouched
    <2>1. CASE forensic = None
      <3>1. PICK S \in SUBSET (Derived \cap files) :
                drill' = [drill EXCEPT !.pc = "clear", !.candidates = S]
        BY <1>5, <2>1 DEF RecordForensics
      <3>2. drill' \in Drill
        BY <3>1 DEF Drill, DrillIn
      <3>3. forensic' = main
        BY <1>5, <2>1 DEF RecordForensics
      <3>. QED
        BY <2>0, <3>2, <3>3 DEF DrillIn, DrillTyped, DatabasesOK, DatabaseOK
    <2>2. CASE forensic # None
      <3>1. drill' = [drill EXCEPT !.pc = "failed", !.repeated = TRUE] /\ forensic' = forensic
        BY <1>5, <2>2 DEF RecordForensics
      <3>2. drill' \in Drill
        BY <3>1 DEF Drill, DrillIn
      <3>. QED
        BY <2>0, <3>1, <3>2 DEF DrillIn, DrillTyped, DatabasesOK
    <2>. QED
      BY <2>1, <2>2
  <1>6. CASE RemoveSidecars
    BY <1>6, StepTyped DEF RemoveSidecars, DrillIn, DrillTyped, DatabasesOK, artifacts
  <1>7. CASE Replace
    <2>1. wal' = wal /\ UNCHANGED <<backup, attested, protected, forensic, files, faults>>
      BY <1>7 DEF Replace, artifacts
    <2>2. drill' \in Drill
      BY <1>7, StepTyped DEF Replace
    <2>3. drill.pc = "replace"
      BY <1>7, StepTyped DEF Replace
    <2>4. DatabaseOK(main')
      BY <1>7, <2>3 DEF Replace, DrillIn, DatabasesOK, DrillOK
    <2>. QED
      BY <2>1, <2>2, <2>4 DEF DrillIn, DrillTyped, DatabasesOK
  <1>8. CASE Verify
    BY <1>8, StepTyped DEF Verify, DrillIn, DrillTyped, DatabasesOK, artifacts
  <1>9. CASE Protect
    BY <1>9, StepTyped DEF Protect, Untouched, DrillIn, DrillTyped, DatabasesOK, artifacts
  <1>10. CASE UnlinkOrphan
    BY <1>10 DEF UnlinkOrphan, Untouched, DrillIn, DrillTyped, DatabasesOK, artifacts
  <1>11. CASE UnlinkedAll
    BY <1>11, StepTyped DEF UnlinkedAll, Untouched, DrillIn, DrillTyped, DatabasesOK, artifacts
  <1>12. CASE Reconcile
    BY <1>12, StepTyped DEF Reconcile, Untouched, DrillIn, DrillTyped, DatabasesOK, artifacts
  <1>13. CASE DrillDies
    <2>1. drill' = [drill EXCEPT !.pc = "forensic", !.candidates = {}]
      BY <1>13 DEF DrillDies
    <2>2. drill' \in Drill
      BY <2>1 DEF Drill, DrillIn
    <2>3. faults' \in 0..MaxFaults
      BY <1>13, BoundAssumption DEF DrillDies, DrillIn
    <2>. QED
      BY <1>13, <2>2, <2>3 DEF DrillDies, Untouched, DrillIn, DrillTyped, DatabasesOK, artifacts
  <1>. QED
    BY <1>1, <1>2, <1>3, <1>4, <1>5, <1>6, <1>7, <1>8, <1>9, <1>10, <1>11, <1>12, <1>13
       DEF DrillNext
-----------------------------------------------------------------------------
(***************************************************************************)
(* Every step is one of four kinds: of the orchestrator, of a program, the *)
(* return of the api, or of the drill.                                     *)
(***************************************************************************)
Beside == UNCHANGED <<artifacts, drill>>
OperatorMoves == OperatorStep /\ Beside /\ (op.pc \in {"idle", "dead"} => drill.pc = "armed")
ProgramMoves == Beside /\ \E svc \in Services : ProgramStep(svc)
ApiReturns == Beside /\ Return

LEMMA Moves ==
    ASSUME TypeInv, Next PROVE OperatorMoves \/ ProgramMoves \/ ApiReturns \/ DrillNext
  <1>1. CASE StepOperator
    BY <1>1, OperatorSteps DEF StepOperator, Prepared, OperatorMoves, Beside
  <1>2. CASE StepOrchestrator \/ StepDeadline \/ StepDeath
    <2>1. op.pc \notin {"idle", "dead"}
      BY <1>2 DEF StepOrchestrator, StepDeadline, StepDeath, Orchestrate, StopServices, Quiet,
         Between, Create, Register, Ready, Start, Poll, Check, DrainCheck, Halt, Remove, Cleanup,
         Confirm, QueryFails, Deadline, Die, At
    <2>2. OperatorStep /\ Beside
      BY <1>2, OperatorSteps DEF StepOrchestrator, StepDeadline, StepDeath, Beside
    <2>. QED
      BY <2>1, <2>2 DEF OperatorMoves
  <1>3. CASE StepContainers
    <2>1. Beside /\ ContainersNext
      BY <1>3 DEF StepContainers, Beside
    <2>2. backup' = backup
      BY <2>1 DEF Beside, artifacts
    <2>. QED
      BY <2>1, <2>2, ProgramSteps, KillStep DEF ContainersNext, ProgramMoves, ApiReturns
  <1>. QED
    BY <1>1, <1>2, <1>3 DEF Next

LEMMA Unchanged ==
    ASSUME Beside
    PROVE  /\ backup' = backup /\ attested' = attested /\ protected' = protected
           /\ forensic' = forensic /\ drill' = drill
  BY DEF Beside, artifacts

\* What the operation works on after its step.
LEMMA NextPhase ==
    ASSUME TypeInv, OperatorStep
    PROVE  /\ op'.reading <=> op'.svc = "identity"
           /\ container'["startup"].pc = "write" => container'["startup"].next \in 2..7
  <1>1. op.n \in 0..MaxOperations
    BY OperatorTypes DEF Operation
  <1>2. op'.reading <=> op'.svc = "identity"
    <2>1. CASE GoesForward \/ Removes \/ GivesUp
      BY <2>1, OperatorTypes DEF GoesForward, Removes, GivesUp, Same
    <2>2. CASE Enters
      BY <2>2, OperatorTypes, OneShotNames, Successors DEF Enters, Same
    <2>3. CASE Ends
      <3>1. CASE op' = [Idle EXCEPT !.n = op.n]
        BY <1>1, <3>1, IdleTyped
      <3>2. CASE op' = [Idle EXCEPT !.n = op.n, !.pc = "dead"]
        BY <1>1, <3>2, IdleTyped
      <3>. QED
        BY <2>3, <3>1, <3>2 DEF Ends
    <2>4. CASE Begins
      <3>1. op.n + 1 \in 0..MaxOperations
        <4>1. op'.n = op.n + 1
          BY <2>4 DEF Begins, Idle
        <4>. QED
          BY <4>1 DEF OperatorStep, Operation
      <3>. QED
        BY ZenonT(60), <2>4, <3>1, IdleTyped DEF Begins
    <2>. QED
      BY <2>1, <2>2, <2>3, <2>4 DEF OperatorStep
  <1>3. Touched("startup")
    BY OneShotNames DEF OperatorStep
  <1>4. NoContainer.pc = "claim"
    BY DEF NoContainer
  <1>. QED
    BY <1>2, <1>3, <1>4, Types, FreshOK DEF Touched, SameProgram

LEMMA OperatorTyped == ASSUME TypeInv, OperatorMoves PROVE TypeInv'
  <1>1. OperatorStep /\ Beside
    BY DEF OperatorMoves
  <1>2. UNCHANGED <<main, wal, marker, claims, files>>
    BY <1>1 DEF OperatorStep
  <1>3. TypeOK'
    BY <1>1, <1>2, Unchanged DEF TypeInv, TypeOK, OperatorStep
  <1>4. DatabasesOK'
    BY <1>1, <1>2, Unchanged, Types DEF DatabasesOK
  <1>5. ProgramsOK'
    BY <1>1, NextPhase DEF ProgramsOK, OperatorStep
  <1>. QED
    BY <1>3, <1>4, <1>5 DEF TypeInv

LEMMA ProgramTyped == ASSUME TypeInv, ProgramMoves PROVE TypeInv'
  <1>1. PICK svc \in Services : ProgramStep(svc)
    BY DEF ProgramMoves
  <1>2. Beside
    BY DEF ProgramMoves
  <1>3. DatabasesOK'
    BY <1>1 DEF ProgramStep
  <1>4. claims' \in [Claiming -> 0..MaxOperations]
    <2>1. container[svc].of \in 0..MaxOperations
      BY Types DEF Container
    <2>. QED
      BY <1>1, <2>1, Types DEF ProgramStep, Claimed
  <1>5. main' \in Database /\ wal' \in Database \cup {None}
    BY <1>3 DEF DatabasesOK, DatabaseOK
  <1>6. TypeOK'
    BY <1>1, <1>2, <1>4, <1>5, Unchanged DEF TypeInv, TypeOK, ProgramStep, Ran
  <1>7. container'["startup"].pc = "write" => container'["startup"].next \in 2..7
    <2>1. CASE svc = "startup"
      BY <1>1, <2>1 DEF ProgramStep, StartupGoesOn
    <2>2. CASE svc # "startup"
      BY <1>1, <2>2, OneShotNames, OperatorTypes, Types DEF ProgramStep, Ran
    <2>. QED
      BY <2>1, <2>2
  <1>8. ProgramsOK'
    BY <1>1, <1>7, OperatorTypes DEF ProgramsOK, ProgramStep
  <1>. QED
    BY <1>3, <1>6, <1>8 DEF TypeInv

LEMMA ReturnTyped == ASSUME TypeInv, ApiReturns PROVE TypeInv'
  <1>1. Beside /\ Return
    BY DEF ApiReturns
  <1>2. TypeOK'
    BY <1>1, ReturnStep, Unchanged DEF TypeInv, TypeOK
  <1>3. DatabasesOK'
    BY <1>1, ReturnStep, Unchanged, Types DEF DatabasesOK
  <1>4. ProgramsOK'
    BY <1>1, ReturnStep, OneShotNames, Types, OperatorTypes DEF ProgramsOK
  <1>. QED
    BY <1>2, <1>3, <1>4 DEF TypeInv

\* The drill leaves the volume's containers and the operation alone, or resets them.
Reset ==
    /\ op' = Idle /\ report' = None
    /\ container' = [svc \in Services |-> NoContainer]
    /\ marker' = FALSE /\ claims' = [svc \in Claiming |-> 0]

LEMMA DrillResets ==
    ASSUME DrillNext PROVE Reset \/ UNCHANGED <<marker, claims, container, op, report>>
  BY DEF DrillNext, TakeInventory, TakeBackup, Attest, Invoke, RecordForensics, RemoveSidecars,
     Replace, Verify, Protect, UnlinkOrphan, UnlinkedAll, Reconcile, DrillDies, Kept, Reset

LEMMA IdleIs ==
    /\ Idle \in Operation /\ Idle.pc = "idle" /\ Idle.n = 0 /\ Idle.svc = "marker"
    /\ Idle.reading = FALSE /\ Idle.attempted = FALSE
  BY OneShotNames, BoundAssumption DEF Idle, Operation

LEMMA DrillTypedStep == ASSUME TypeInv, DrillOK, DrillNext PROVE TypeInv'
  <1>1. DrillTyped
    BY DrillSteps
  <1>2. DatabasesOK' /\ main' \in Database /\ wal' \in Database \cup {None}
        /\ backup' \in Database \cup {None}
    BY <1>1 DEF DrillTyped, DatabasesOK, DatabaseOK
  <1>3. /\ marker' \in BOOLEAN /\ claims' \in [Claiming -> 0..MaxOperations]
        /\ container' \in [Services -> Container] /\ op' \in Operation
        /\ report' \in Report \cup {None}
        /\ ProgramsOK'
    <2>1. CASE Reset
      <3>1. container'["startup"] = NoContainer
        BY <2>1, OneShotNames, OperatorTypes DEF Reset
      <3>2. NoContainer.pc = "claim"
        BY DEF NoContainer
      <3>3. ProgramsOK'
        BY <2>1, <3>1, <3>2, IdleIs DEF Reset, ProgramsOK
      <3>4. claims' \in [Claiming -> 0..MaxOperations]
        BY <2>1, BoundAssumption DEF Reset
      <3>. QED
        BY <2>1, <3>3, <3>4, IdleIs, NoContainerOK DEF Reset
    <2>2. CASE UNCHANGED <<marker, claims, container, op, report>>
      BY <2>2 DEF TypeInv, TypeOK, ProgramsOK
    <2>. QED
      BY <2>1, <2>2, DrillResets
  <1>. QED
    BY <1>1, <1>2, <1>3 DEF TypeInv, TypeOK, DrillTyped
-----------------------------------------------------------------------------
(***************************************************************************)
(* Alone.                                                                  *)
(***************************************************************************)
LEMMA EndsAre ==
    ASSUME TypeInv, OperatorStep
    PROVE  /\ Ends => /\ op'.n = op.n /\ op'.svc = "marker" /\ op'.pc \in {"idle", "dead"}
                      /\ op'.attempted = FALSE
           /\ Begins => /\ op'.n = op.n + 1 /\ op'.svc = "marker" /\ op'.pc = "stop"
                        /\ op'.attempted = FALSE
  <1>1. op.n \in 0..MaxOperations
    BY OperatorTypes DEF Operation
  <1>2. ASSUME Ends
        PROVE  /\ op'.n = op.n /\ op'.svc = "marker" /\ op'.pc \in {"idle", "dead"}
               /\ op'.attempted = FALSE
    <2>1. CASE op' = [Idle EXCEPT !.n = op.n]
      BY <1>1, <2>1, IdleTyped
    <2>2. CASE op' = [Idle EXCEPT !.n = op.n, !.pc = "dead"]
      BY <1>1, <2>2, IdleTyped
    <2>. QED
      BY <1>2, <2>1, <2>2 DEF Ends
  <1>3. ASSUME Begins
        PROVE  /\ op'.n = op.n + 1 /\ op'.svc = "marker" /\ op'.pc = "stop"
               /\ op'.attempted = FALSE
    <2>1. op' = [Idle EXCEPT !.n = op.n + 1, !.pc = "stop"]
      BY <1>3 DEF Begins
    <2>. QED
      BY <2>1 DEF Idle
  <1>. QED
    BY <1>2, <1>3

\* Which kind of step has come to a phase.
LEMMA CameTo ==
    ASSUME TypeInv, OperatorStep
    PROVE  /\ op'.pc \in Working => GoesForward
           /\ op'.pc = "create" => Enters
           /\ op'.pc = "between" => Removes
  BY EndsAre DEF OperatorStep, GoesForward, Removes, Enters, GivesUp, Working

LEMMA NothingThere == ASSUME VolumeState({}, {}) PROVE Gone /\ ~Is("api", "running")
  <1>1. Services \ InState("none") \subseteq {"api"} /\ InState("running") = {}
    BY DEF VolumeState
  <1>. QED
    BY <1>1, OneShotNames, ServiceNames DEF InState, Gone

LEMMA AloneOperator == ASSUME TypeInv, Alone, OperatorStep PROVE Alone'
  <1>1. ASSUME NEW s \in OneShots, Is(s, "none"), container'[s].state # "none"
        PROVE  s = op.svc /\ op.pc \in {"start", "create"}
    BY <1>1 DEF OperatorStep, Touched, NoContainer
  <1>2. ASSUME NEW s \in OneShots, NEW t \in OneShots
        PROVE  container'[s].state = "none" \/ container'[t].state = "none" \/ s = t
    BY <1>1, <1>2 DEF Alone, Gone, Working
  <1>3. ASSUME op'.pc \in Working, NEW s \in OneShots
        PROVE  container'[s].state = "none" \/ s = op'.svc
    BY <1>1, <1>3, CameTo DEF Alone, Gone, GoesForward, Same, Is
  <1>4. ASSUME op'.pc = "create", NEW s \in OneShots PROVE container'[s].state = "none"
    BY <1>4, CameTo, NothingThere DEF Enters, Gone, Is
  <1>5. ASSUME op'.pc = "between", NEW s \in OneShots PROVE container'[s].state = "none"
    <2>1. op.pc \in Working /\ container' = Removed({op.svc}) /\ s \in Services
      BY <1>5, CameTo, OperatorTypes DEF Removes, Working
    <2>2. container'[s] = IF s = op.svc THEN NoContainer ELSE container[s]
      BY <2>1, OperatorTypes DEF Removed
    <2>. QED
      BY <2>1, <2>2 DEF Alone, Is, NoContainer
  <1>6. ASSUME op'.pc = "remove", op'.svc # "drain" PROVE container'[op'.svc].state # "running"
    BY <1>6, CameTo DEF GoesForward, Same, Working, Is
  <1>. QED
    BY <1>2, <1>3, <1>4, <1>5, <1>6 DEF Alone, Gone, Is

\* A program leaves containers there or not there.
LEMMA SameNone ==
    ASSUME TypeInv, NEW svc \in Services, ProgramStep(svc), NEW s \in OneShots
    PROVE  container'[s].state = "none" <=> container[s].state = "none"
  BY OperatorTypes DEF ProgramStep, Ran, Is

LEMMA AloneStep == ASSUME TypeInv, Alone, Next PROVE Alone'
  <1>1. CASE OperatorMoves
    BY <1>1, AloneOperator DEF OperatorMoves
  <1>2. CASE ProgramMoves
    <2>1. PICK svc \in Services : ProgramStep(svc)
      BY <1>2 DEF ProgramMoves
    <2>2. op' = op
      BY <2>1 DEF ProgramStep
    <2>3. ~Is(op.svc, "running") => container'[op.svc] = container[op.svc]
      BY <2>1, OperatorTypes DEF ProgramStep, Ran
    <2>. QED
      BY <2>1, <2>2, <2>3, SameNone DEF Alone, Gone, Is
  <1>3. CASE ApiReturns
    <2>1. op' = op /\ \A s \in OneShots : container'[s] = container[s]
      BY <1>3, ReturnStep DEF ApiReturns
    <2>. QED
      BY <2>1, OperatorTypes DEF Alone, Gone, Is
  <1>4. CASE Reset
    <2>1. \A s \in OneShots : container'[s].state = "none"
      BY <1>4, OperatorTypes DEF Reset, NoContainer
    <2>. QED
      BY <1>4, <2>1, IdleIs DEF Alone, Gone, Is, Reset
  <1>5. CASE UNCHANGED <<marker, claims, container, op, report>>
    BY <1>5 DEF Alone, Gone, Is
  <1>. QED
    BY <1>1, <1>2, <1>3, <1>4, <1>5, Moves, DrillResets

-----------------------------------------------------------------------------
(***************************************************************************)
(* Claims.                                                                 *)
(***************************************************************************)
LEMMA ClaimsOperator == ASSUME TypeInv, Alone, ClaimsOK, OperatorStep PROVE ClaimsOK'
  <1>. DEFINE c == container["startup"]
  <1>0. claims' = claims /\ op.n \in Nat
    BY OperatorTypes DEF OperatorStep, Operation
  <1>1. op'.pc # "idle" => op'.n # 0
    <2>1. CASE GoesForward \/ Removes \/ GivesUp
      BY <2>1 DEF GoesForward, Removes, GivesUp, Same, ClaimsOK, Working
    <2>2. CASE Enters
      BY <2>2 DEF Enters, ClaimsOK
    <2>3. CASE Ends
      BY <2>3, EndsAre DEF Ends, ClaimsOK
    <2>4. CASE Begins
      BY <1>0, <2>4, EndsAre
    <2>. QED
      BY <2>1, <2>2, <2>3, <2>4 DEF OperatorStep
  <1>2. \A s \in Claiming : claims[s] # 0 => claims[s] = claims["startup"]
    BY DEF ClaimsOK
  <1>3. ASSUME NEW s \in OneShots, container'[s].state # "none"
        PROVE  /\ container'[s].of # 0
               /\ s \in Later => claims["startup"] = container'[s].of
    <2>1. CASE ~Is(s, "none") /\ SameProgram(s)
      BY <2>1 DEF ClaimsOK, SameProgram
    <2>2. CASE s = op.svc /\ op.pc = "start" /\ SameProgram(s)
      BY <2>2 DEF ClaimsOK, SameProgram, Working
    <2>3. CASE s = op.svc /\ op.pc = "create" /\ container'[s] = Fresh
      BY <2>3, FreshOK DEF ClaimsOK
    <2>. QED
      BY <1>3, <2>1, <2>2, <2>3 DEF OperatorStep, Touched, NoContainer
  <1>4. /\ container'["startup"].pc # "claim" =>
               claims["startup"] = container'["startup"].of /\ container'["startup"].of # 0
        /\ container'["startup"].ok => container'["startup"].pc # "claim"
    <2>1. Touched("startup")
      BY OneShotNames DEF OperatorStep
    <2>2. NoContainer.pc = "claim" /\ NoContainer.ok = FALSE
      BY DEF NoContainer
    <2>. QED
      BY <2>1, <2>2, FreshOK DEF Touched, ClaimsOK, SameProgram
  <1>5. op'.pc \in Working => container'[op'.svc].of = op'.n
    <2>. SUFFICES ASSUME op'.pc \in Working PROVE container'[op'.svc].of = op'.n
      OBVIOUS
    <2>1. GoesForward
      BY CameTo
    <2>2. op'.svc = op.svc /\ op'.n = op.n
      BY <2>1 DEF GoesForward, Same
    <2>3. CASE container'[op.svc] = Fresh
      BY <2>2, <2>3, FreshOK
    <2>4. CASE op.pc \in Working /\ SameProgram(op.svc)
      BY <2>2, <2>4 DEF SameProgram, ClaimsOK
    <2>. QED
      BY <2>1, <2>3, <2>4, OperatorTypes DEF GoesForward, Continues, Alone, Gone
  <1>6. op'.svc \in Later => claims["startup"] = op'.n /\ op'.n # 0
    <2>1. CASE GoesForward \/ Removes \/ GivesUp
      BY <2>1 DEF GoesForward, Removes, GivesUp, Same, ClaimsOK
    <2>2. CASE Enters
      BY <2>2, OperatorTypes, OneShotNames, Successors DEF Enters, Same, ClaimsOK, Later, Claiming
    <2>3. CASE Ends \/ Begins
      BY <2>3, EndsAre DEF Later, Claiming
    <2>. QED
      BY <2>1, <2>2, <2>3 DEF OperatorStep
  <1>7. op'.svc = "startup" /\ op'.pc \in {"remove", "between"} => claims["startup"] = op'.n
    <2>1. CASE op'.pc = "remove"
      <3>1. GoesForward
        BY <2>1, CameTo DEF Working
      <3>. QED
        BY <2>1, <3>1 DEF GoesForward, Same, ClaimsOK
    <2>2. CASE op'.pc = "between"
      BY <2>2, CameTo DEF Removes, Same, ClaimsOK
    <2>. QED
      BY <2>1, <2>2
  <1>. QED
    <2>1. Later \subseteq OneShots
      BY OneShotNames DEF Later, Claiming
    <2>2. \A s \in Later : container'[s].state # "none" => claims["startup"] = container'[s].of
      BY <1>3, <2>1
    <2>3. \A s \in OneShots : container'[s].state # "none" => container'[s].of # 0
      BY <1>3
    <2>. QED
      BY <1>0, <1>1, <1>2, <1>4, <1>5, <1>6, <1>7, <2>2, <2>3 DEF ClaimsOK, Is

LEMMA ClaimsProgram ==
    ASSUME TypeInv, ClaimsOK, NEW svc \in Services, ProgramStep(svc) PROVE ClaimsOK'
  <1>0. /\ op' = op /\ Is(svc, "running") /\ container'[svc].of = container[svc].of
        /\ \A s \in Services \ {svc} : container'[s] = container[s]
    BY DEF ProgramStep, Ran
  <1>1. \A s \in Services : container'[s].of = container[s].of
    BY <1>0
  <1>2. \A s \in OneShots : container'[s].state # "none" <=> ~Is(s, "none")
    BY SameNone DEF Is
  <1>3. Later \subseteq OneShots /\ Claiming \subseteq OneShots /\ OneShots \subseteq Services
        /\ "startup" \in Claiming /\ Claiming = Later \cup {"startup"}
    BY OneShotNames DEF Later, Claiming, Services
  <1>4. container'["startup"].ok => container'["startup"].pc # "claim"
    BY <1>0, <1>3 DEF ProgramStep, StartupGoesOn, ClaimsOK
  <1>5. container'["startup"].pc # "claim" =>
            container["startup"].pc # "claim" \/ (svc = "startup" /\ Claimed("startup"))
    BY <1>0, <1>3 DEF ProgramStep, StartupGoesOn
  <1>6. \A s \in OneShots : container'[s].state # "none" => container'[s].of # 0
    BY <1>1, <1>2, <1>3 DEF ClaimsOK
  <1>7. op.pc \in Working => container'[op.svc].of = op.n
    BY <1>1, OperatorTypes DEF ClaimsOK
  <1>8. CASE claims' = claims /\ ~Claimed(svc)
    <2>1. \A s \in Later : container'[s].state # "none" => claims["startup"] = container'[s].of
      BY <1>1, <1>2, <1>3 DEF ClaimsOK
    <2>2. container'["startup"].pc # "claim" =>
              claims["startup"] = container'["startup"].of /\ container'["startup"].of # 0
      BY <1>1, <1>3, <1>5, <1>8 DEF ClaimsOK
    <2>. QED
      BY <1>0, <1>4, <1>6, <1>7, <1>8, <2>1, <2>2 DEF ClaimsOK, Is
  <1>9. CASE Claimed(svc) /\ svc = "startup"
    <2>1. /\ claims["startup"] = 0 /\ claims'["startup"] = container["startup"].of
          /\ \A s \in Later : claims'[s] = claims[s]
      BY <1>3, <1>9, Types DEF Claimed, Later
    <2>2. \A s \in Later : claims[s] = 0
      BY <1>3, <2>1 DEF ClaimsOK
    <2>3. \A s \in Later : container'[s].state = "none"
      BY <1>2, <1>3, <2>1 DEF ClaimsOK
    <2>4. container["startup"].of # 0
      BY <1>0, <1>3, <1>9 DEF ClaimsOK, Is
    <2>5. op.svc \notin Later
      BY <2>1 DEF ClaimsOK
    <2>6. ~(op.svc = "startup" /\ op.pc \in {"remove", "between"})
      BY <2>1 DEF ClaimsOK
    <2>7. \A s \in Claiming : claims'[s] # 0 => claims'[s] = claims'["startup"]
      BY <1>3, <2>1, <2>2
    <2>8. op.pc # "idle" => op.n # 0
      BY DEF ClaimsOK
    <2>. QED
      BY <1>0, <1>1, <1>3, <1>4, <1>6, <1>7, <2>1, <2>3, <2>4, <2>5, <2>6, <2>7, <2>8
         DEF ClaimsOK, Is
  <1>10. CASE Claimed(svc) /\ svc # "startup"
    <2>1. svc \in Later /\ claims'["startup"] = claims["startup"]
      BY <1>3, <1>10, Types DEF Claimed
    <2>2. container[svc].of = claims["startup"]
      BY <1>0, <1>3, <2>1 DEF ClaimsOK, Is
    <2>3. \A s \in Claiming : claims'[s] # 0 => claims'[s] = claims'["startup"]
      BY <1>3, <1>10, <2>1, <2>2, Types DEF Claimed, ClaimsOK
    <2>4. \A s \in Later : container'[s].state # "none" => claims["startup"] = container'[s].of
      BY <1>1, <1>2, <1>3 DEF ClaimsOK
    <2>5. container'["startup"].pc # "claim" =>
              claims["startup"] = container'["startup"].of /\ container'["startup"].of # 0
      BY <1>1, <1>3, <1>5, <1>10 DEF ClaimsOK
    <2>6. /\ op.pc # "idle" => op.n # 0
          /\ op.svc \in Later => claims["startup"] = op.n /\ op.n # 0
          /\ op.svc = "startup" /\ op.pc \in {"remove", "between"} => claims["startup"] = op.n
      BY DEF ClaimsOK
    <2>. QED
      BY <1>0, <1>4, <1>6, <1>7, <2>1, <2>3, <2>4, <2>5, <2>6 DEF ClaimsOK, Is
  <1>. QED
    BY <1>8, <1>9, <1>10 DEF ProgramStep

LEMMA ClaimsStep == ASSUME TypeInv, Alone, ClaimsOK, Next PROVE ClaimsOK'
  <1>1. CASE OperatorMoves
    BY <1>1, ClaimsOperator DEF OperatorMoves
  <1>2. CASE ProgramMoves
    BY <1>2, ClaimsProgram DEF ProgramMoves
  <1>3. CASE ApiReturns
    <2>1. op' = op /\ claims' = claims /\ \A s \in OneShots : container'[s] = container[s]
      BY <1>3, ReturnStep DEF ApiReturns
    <2>2. "startup" \in OneShots /\ Later \subseteq OneShots /\ op.svc \in OneShots
      BY OneShotNames, OperatorTypes DEF Later, Claiming
    <2>. QED
      BY <2>1, <2>2 DEF ClaimsOK, Is
  <1>4. CASE Reset
    <2>1. \A s \in OneShots : container'[s] = NoContainer
      BY <1>4, OperatorTypes DEF Reset
    <2>2. "startup" \in OneShots /\ Later \subseteq OneShots
      BY OneShotNames DEF Later, Claiming
    <2>3. NoContainer.state = "none" /\ NoContainer.pc = "claim" /\ NoContainer.ok = FALSE
      BY DEF NoContainer
    <2>4. op'.pc = "idle" /\ op'.svc = "marker" /\ \A s \in Claiming : claims'[s] = 0
      BY <1>4, IdleIs DEF Reset
    <2>5. "marker" \notin Later /\ "idle" \notin Working
      BY DEF Later, Claiming, Working
    <2>. QED
      BY <2>1, <2>2, <2>3, <2>4, <2>5 DEF ClaimsOK, Is
  <1>5. CASE UNCHANGED <<marker, claims, container, op, report>>
    BY <1>5 DEF ClaimsOK, Is
  <1>. QED
    BY <1>1, <1>2, <1>3, <1>4, <1>5, Moves, DrillResets

-----------------------------------------------------------------------------
(***************************************************************************)
(* Attempts.                                                               *)
(***************************************************************************)
LEMMA AttemptOperator ==
    ASSUME TypeInv, ClaimsOK, AttemptOK, OperatorStep PROVE AttemptOK'
  <1>0. claims' = claims /\ op.n \in Nat /\ op'.n \in Nat /\ "marker" \notin Claiming
    BY OperatorTypes DEF OperatorStep, Operation, Claiming
  <1>1. \A s \in Claiming : claims[s] \in Nat /\ container[s].of \in Nat /\ s \in OneShots
    BY Types, OneShotNames, OperatorTypes DEF Claiming, Container
  <1>2. op'.n = op.n \/ op'.n = op.n + 1
    BY EndsAre DEF OperatorStep, GoesForward, Removes, Enters, GivesUp, Same
  <1>3. ASSUME NEW s \in Claiming
        PROVE  /\ container'[s].of \in {0, container[s].of, op.n}
               /\ container'[s].of \notin {0, container[s].of} => s = op.svc /\ op.pc = "create"
    BY <1>1, <1>3, FreshOK DEF OperatorStep, Touched, SameProgram, NoContainer
  <1>4. \A s \in Claiming : claims[s] <= op'.n /\ container'[s].of <= op'.n
    BY <1>0, <1>1, <1>2, <1>3 DEF AttemptOK
  <1>5. ASSUME op'.pc \notin {"idle", "dead"}, ~op'.attempted, NEW s \in Claiming
        PROVE  /\ op'.svc = "marker"
               /\ claims[s] # op'.n /\ container'[s].of # op'.n
    <2>1. CASE Begins
      BY <1>0, <1>1, <1>3, <2>1, EndsAre DEF AttemptOK
    <2>2. CASE GoesForward \/ Removes \/ GivesUp
      <3>1. /\ op.pc \notin {"idle", "dead"} /\ ~op.attempted
            /\ op'.n = op.n /\ op'.svc = op.svc
        BY <1>5, <2>2 DEF GoesForward, Removes, GivesUp, Same, Working
      <3>2. op.svc = "marker" /\ claims[s] # op.n /\ container[s].of # op.n /\ op.n # 0
        BY <3>1 DEF AttemptOK, ClaimsOK
      <3>. QED
        BY <1>0, <1>3, <3>1, <3>2
    <2>3. CASE Enters
      <3>1. /\ op.pc \notin {"idle", "dead"} /\ ~op.attempted /\ op'.n = op.n
            /\ container' = container
        BY <1>5, <2>3, OperatorTypes DEF Enters, Same, Operation
      <3>2. op.svc = "marker" /\ claims[s] # op.n /\ container[s].of # op.n
        BY <3>1 DEF AttemptOK
      <3>3. op'.svc = op.svc
        BY <1>5, <2>3, <3>1, <3>2, OperatorTypes DEF Enters, Same, Operation
      <3>. QED
        BY <3>1, <3>2, <3>3
    <2>4. CASE Ends
      BY <1>5, <2>4, EndsAre
    <2>. QED
      BY <2>1, <2>2, <2>3, <2>4 DEF OperatorStep
  <1>6. \E s \in Claiming : TRUE
    BY DEF Claiming
  <1>. QED
    BY <1>0, <1>4, <1>5, <1>6 DEF AttemptOK

LEMMA AttemptStep ==
    ASSUME TypeInv, ClaimsOK, AttemptOK, Next PROVE AttemptOK'
  <1>0. Claiming \subseteq OneShots /\ OneShots \subseteq Services
    BY OneShotNames DEF Claiming, Services
  <1>1. CASE OperatorMoves
    BY <1>1, AttemptOperator DEF OperatorMoves
  <1>2. CASE ProgramMoves
    <2>1. PICK svc \in Services : ProgramStep(svc)
      BY <1>2 DEF ProgramMoves
    <2>2. op' = op /\ \A s \in Services : container'[s].of = container[s].of
      BY <2>1 DEF ProgramStep, Ran
    <2>3. \A s \in Claiming : claims'[s] \in {claims[s], container[s].of}
      BY <2>1, Types DEF ProgramStep, Claimed
    <2>. QED
      BY <1>0, <2>2, <2>3 DEF AttemptOK
  <1>3. CASE ApiReturns
    <2>1. op' = op /\ claims' = claims /\ \A s \in OneShots : container'[s] = container[s]
      BY <1>3, ReturnStep DEF ApiReturns
    <2>. QED
      BY <1>0, <2>1 DEF AttemptOK
  <1>4. CASE Reset
    <2>1. \A s \in Claiming : container'[s].of = 0 /\ claims'[s] = 0
      BY <1>0, <1>4 DEF Reset, NoContainer
    <2>. QED
      BY <1>4, <2>1, IdleIs DEF AttemptOK, Reset
  <1>5. CASE UNCHANGED <<marker, claims, container, op, report>>
    BY <1>5 DEF AttemptOK
  <1>. QED
    BY <1>1, <1>2, <1>3, <1>4, <1>5, Moves, DrillResets
-----------------------------------------------------------------------------
(***************************************************************************)
(* What the preflight and the identity reader have seen.                   *)
(***************************************************************************)
SeenOK == Passed /\ Seen

LEMMA SeenOperator ==
    ASSUME TypeInv, Alone, SeenOK, OperatorStep PROVE SeenOK'
  <1>0. main' = main /\ wal' = wal
    BY DEF OperatorStep
  <1>. SUFFICES ASSUME op'.svc \in {"preflight", "identity"}, container'["api"].state # "running",
                       \/ op'.pc \in {"remove", "between"}
                       \/ op'.pc \in Working /\ container'[op'.svc].ok
                PROVE  /\ op'.svc = "preflight" => wal = None /\ main.version = 9 /\ Drained(main)
                       /\ op'.svc = "identity" =>
                             /\ wal = None
                             /\ op'.pc \in Working /\ container'["identity"].ok =>
                                   container'["identity"].next = main.version
                             /\ op'.pc \in {"remove", "between"} => op'.last = main.version
    BY <1>0 DEF SeenOK, Passed, Seen, Is, Drained
  <1>1. CASE op'.pc = "between"
    <2>1. /\ op.pc = "remove" /\ op'.svc = op.svc /\ op'.last = op.last
          /\ container'["api"] = container["api"]
      BY <1>1, CameTo DEF Removes, Same, SameApi
    <2>. QED
      BY <1>1, <2>1 DEF SeenOK, Passed, Seen, Is, Working
  <1>2. CASE op'.pc = "remove"
    <2>1. /\ op'.svc = op.svc /\ container'["api"] = container["api"]
          /\ container[op.svc].ok /\ container' = container /\ op.pc \in Working
          /\ op.reading => op'.last = container["identity"].next
      BY <1>2, CameTo DEF GoesForward, Same, SameApi, Working
    <2>2. op.reading <=> op.svc = "identity"
      BY OperatorTypes
    <2>. QED
      BY <1>2, <2>1, <2>2 DEF SeenOK, Passed, Seen, Is
  <1>3. CASE op'.pc \in Working /\ op'.pc # "remove" /\ container'[op'.svc].ok
    <2>1. /\ op'.svc = op.svc /\ container'["api"] = container["api"] /\ Continues
          /\ op.pc \in Working \cup {"create"}
      BY <1>3, CameTo DEF GoesForward, Same, SameApi
    <2>2. op.pc \in Working /\ SameProgram(op.svc)
      BY <1>3, <2>1, FreshOK, OperatorTypes DEF Continues, Alone, Gone
    <2>. QED
      BY <1>3, <2>1, <2>2 DEF SeenOK, Passed, Seen, Is, SameProgram, Working
  <1>. QED
    BY <1>1, <1>2, <1>3

LEMMA SeenProgram ==
    ASSUME TypeInv, Alone, SeenOK, NEW svc \in Services, ProgramStep(svc) PROVE SeenOK'
  <1>0. op' = op /\ Is(svc, "running")
    BY DEF ProgramStep
  <1>1. CASE svc = "api"
    <2>1. container'["api"].state = "running"
      BY <1>1 DEF ProgramStep
    <2>. QED
      BY <2>1 DEF SeenOK, Passed, Seen, Is
  <1>2. CASE svc # "api" /\ op.pc \in Working \cup {"between"}
    <2>1. (svc = op.svc /\ op.pc \in Working \ {"remove"}) \/ op.svc = "drain"
      BY <1>0, <1>2, ServiceNames DEF Alone, Gone, Is
    <2>2. ~(op.pc \in {"remove", "between"}) \/ op.svc = "drain"
      BY <2>1 DEF Working
    <2>3. op.svc = "preflight" => PreflightSees
      BY <2>1 DEF ProgramStep
    <2>4. op.svc = "identity" => IdentitySees
      BY <2>1 DEF ProgramStep
    <2>. QED
      BY <1>0, <2>2, <2>3, <2>4 DEF SeenOK, Passed, Seen, Is, PreflightSees, IdentitySees
  <1>3. CASE op.pc \notin Working \cup {"between"}
    BY <1>0, <1>3 DEF SeenOK, Passed, Seen, Working
  <1>. QED
    BY <1>1, <1>2, <1>3

-----------------------------------------------------------------------------
(***************************************************************************)
(* The drill.                                                              *)
(***************************************************************************)
\* While the drill works, no container and no operation does.
LEMMA NobodyElse ==
    ASSUME TypeInv, DrillOK, Next, drill.pc # "armed" PROVE DrillNext
  <1>1. op.pc = "idle" /\ Gone
    BY DEF DrillOK
  <1>2. CASE OperatorMoves
    BY <1>1, <1>2 DEF OperatorMoves
  <1>3. CASE ProgramMoves
    <2>1. PICK svc \in Services : ProgramStep(svc)
      BY <1>3 DEF ProgramMoves
    <2>. QED
      BY <1>1, <2>1, ServiceNames DEF ProgramStep, Gone, Is
  <1>4. CASE ApiReturns
    BY <1>1, <1>4, ReturnStep DEF ApiReturns
  <1>. QED
    BY <1>2, <1>3, <1>4, Moves

\* And once it is armed, only its start is a step of the drill.
LEMMA ArmedStep ==
    ASSUME TypeInv, DrillNext, drill.pc = "armed" PROVE Invoke
  BY StepTyped, DrillTypes
     DEF DrillNext, TakeInventory, TakeBackup, Attest, RecordForensics, RemoveSidecars, Replace,
         Verify, Protect, UnlinkOrphan, UnlinkedAll, Reconcile, DrillDies

LEMMA SeenStep ==
    ASSUME TypeInv, Alone, DrillOK, SeenOK, Next PROVE SeenOK'
  <1>1. CASE OperatorMoves
    BY <1>1, SeenOperator DEF OperatorMoves
  <1>2. CASE ProgramMoves
    BY <1>2, SeenProgram DEF ProgramMoves
  <1>3. CASE ApiReturns
    BY <1>3, ReturnStep DEF ApiReturns, SeenOK, Passed, Seen, Is
  <1>4. CASE DrillNext
    <2>1. op'.pc = "idle"
      <3>1. CASE drill.pc = "armed"
        BY <1>4, <3>1, ArmedStep, IdleIs DEF Invoke
      <3>2. CASE drill.pc # "armed"
        BY <1>4, <3>2, DrillResets, IdleIs DEF DrillOK, Reset
      <3>. QED
        BY <3>1, <3>2
    <2>. QED
      BY <2>1 DEF SeenOK, Passed, Seen, Working
  <1>. QED
    BY <1>1, <1>2, <1>3, <1>4, Moves

\* Steps beside the drill: files only grow.
LEMMA BesideDrill ==
    ASSUME TypeInv, DrillInv, drill.pc = "armed", Beside, files \subseteq files'
    PROVE  DrillInv'
  <1>1. UNCHANGED <<backup, attested, protected, forensic, drill>>
    BY Unchanged
  <1>. QED
    BY <1>1 DEF DrillInv, DrillOK, RestoredWhole, FailsForCause, Referenced

\* What every step of the drill but its start leaves alone.
LEMMA DrillKeeps ==
    ASSUME DrillInv, drill.pc # "armed", Kept
    PROVE  op'.pc = "idle" /\ Gone'
  BY DEF DrillInv, DrillOK, Kept, Gone, Is

LEMMA BackupStep ==
    ASSUME TypeInv, DrillInv, TakeInventory \/ TakeBackup \/ Attest PROVE DrillInv'
  <1>. USE DrillTypes
  <1>0. drill.pc \in {"inventory", "backup", "attest"} /\ Kept
    BY StepTyped DEF TakeInventory, TakeBackup, Attest
  <1>1. op'.pc = "idle" /\ Gone'
    BY <1>0, DrillKeeps
  <1>2. CASE TakeInventory
    <2>1. /\ drill.pc = "inventory" /\ drill'.pc = "backup" /\ protected' = files
          /\ UNCHANGED <<main, wal, backup, attested, forensic, files>>
      BY <1>2, StepTyped DEF TakeInventory, Untouched
    <2>2. DrillOK'
      BY <1>1, <2>1 DEF DrillInv, DrillOK, Referenced
    <2>3. RestoredWhole' /\ FailsForCause'
      BY <2>1 DEF RestoredWhole, FailsForCause
    <2>. QED
      BY <2>2, <2>3 DEF DrillInv
  <1>3. CASE TakeBackup
    <2>1. /\ drill.pc = "backup" /\ drill'.pc = "attest" /\ backup' = Current
          /\ UNCHANGED <<main, wal, attested, protected, forensic, files>>
      BY <1>3, StepTyped DEF TakeBackup, Untouched
    <2>2. backup' = main /\ DatabaseOK(main) /\ Referenced(main) \subseteq protected
      BY <2>1 DEF Current, DrillInv, DrillOK, DrillIn, DatabasesOK
    <2>3. DrillOK'
      BY <1>1, <2>1, <2>2 DEF DrillOK, DatabaseOK, Formal, Referenced
    <2>4. RestoredWhole' /\ FailsForCause'
      BY <2>1 DEF RestoredWhole, FailsForCause, DrillInv
    <2>. QED
      BY <2>3, <2>4 DEF DrillInv
  <1>4. CASE Attest
    <2>1. /\ drill.pc = "attest" /\ drill'.pc = "armed" /\ attested' = backup
          /\ UNCHANGED <<main, wal, backup, protected, forensic, files>>
      BY <1>4, StepTyped DEF Attest, Untouched
    <2>2. DrillOK'
      BY <1>1, <2>1 DEF DrillInv, DrillOK, DatabaseOK, Formal, Referenced
    <2>3. RestoredWhole' /\ FailsForCause'
      BY <2>1 DEF RestoredWhole, FailsForCause, DrillInv
    <2>. QED
      BY <2>2, <2>3 DEF DrillInv
  <1>. QED
    BY <1>2, <1>3, <1>4

\* From the start of the drill on the backup and the inventory stay what they are.
LEMMA BackupStays ==
    ASSUME DrillInv, drill.pc \notin {"inventory", "backup", "attest"},
           UNCHANGED <<backup, attested, protected>>
    PROVE  /\ DatabaseOK(backup)' /\ Referenced(backup)' \subseteq protected'
           /\ attested' = backup'
  BY DEF DrillInv, DrillOK, DatabaseOK, Formal, Referenced

LEMMA InvokeStep == ASSUME TypeInv, DrillInv, Invoke PROVE DrillInv'
  <1>1. /\ drill.pc = "armed" /\ drill'.pc = "forensic" /\ Reset
        /\ UNCHANGED <<main, wal, backup, attested, protected, forensic, files>>
    BY StepTyped, DrillTypes DEF Invoke, Reset, Untouched, artifacts
  <1>2. op'.pc = "idle" /\ Gone'
    BY <1>1, IdleIs, OperatorTypes DEF Reset, Gone, Is, NoContainer
  <1>3. DrillOK'
    BY <1>1, <1>2, BackupStays DEF DrillOK
  <1>4. RestoredWhole' /\ FailsForCause'
    BY <1>1 DEF RestoredWhole, FailsForCause, DrillInv
  <1>. QED
    BY <1>3, <1>4 DEF DrillInv

LEMMA RestoreStep ==
    ASSUME TypeInv, DrillInv, RecordForensics \/ RemoveSidecars \/ Replace \/ Verify \/ DrillDies
    PROVE  DrillInv'
  <1>. USE DrillTypes
  <1>0. /\ drill.pc \notin {"inventory", "backup", "attest", "armed"} /\ Kept
        /\ UNCHANGED <<backup, attested, protected, files>>
    <2>1. CASE RecordForensics
      BY <2>1 DEF RecordForensics
    <2>2. CASE RemoveSidecars
      BY <2>2, StepTyped DEF RemoveSidecars, artifacts
    <2>3. CASE Replace
      <3>1. drill.pc = "replace"
        BY <2>3, StepTyped DEF Replace
      <3>. QED
        BY <2>3, <3>1 DEF Replace, artifacts
    <2>4. CASE Verify
      <3>1. drill.pc = "verify"
        BY <2>4, StepTyped DEF Verify
      <3>. QED
        BY <2>4, <3>1 DEF Verify, artifacts
    <2>5. CASE DrillDies
      BY <2>5 DEF DrillDies, artifacts
    <2>. QED
      BY <2>1, <2>2, <2>3, <2>4, <2>5
  <1>1. op'.pc = "idle" /\ Gone'
    BY <1>0, DrillKeeps
  <1>2. DatabaseOK(backup)' /\ Referenced(backup)' \subseteq protected' /\ attested' = backup'
    BY <1>0, BackupStays
  <1>3. protected' \subseteq files'
    BY <1>0 DEF DrillInv, RestoredWhole
  <1>4. CASE RecordForensics
    <2>1. UNCHANGED <<main, wal>>
      BY <1>4 DEF RecordForensics, Untouched
    <2>2. drill'.pc = "clear" \/ (drill'.pc = "failed" /\ drill'.repeated)
      BY <1>4 DEF RecordForensics, DrillIn, Drill
    <2>. QED
      BY <1>1, <1>2, <1>3, <2>1, <2>2 DEF DrillInv, DrillOK, RestoredWhole, FailsForCause
  <1>5. CASE RemoveSidecars
    <2>1. drill'.pc = "replace" /\ wal' = None
      BY <1>5, StepTyped DEF RemoveSidecars
    <2>. QED
      BY <1>1, <1>2, <1>3, <2>1 DEF DrillInv, DrillOK, RestoredWhole, FailsForCause
  <1>6. CASE Replace
    <2>1. drill.pc = "replace" /\ wal' = wal
      BY <1>6, StepTyped DEF Replace
    <2>2. wal = None /\ backup = attested
      BY <1>0, <2>1 DEF DrillInv, DrillOK
    <2>3. drill'.pc = "verify" /\ main' = backup
      BY <1>6, <2>2, StepTyped DEF Replace
    <2>. QED
      BY <1>0, <1>1, <1>2, <1>3, <2>1, <2>2, <2>3
         DEF DrillInv, DrillOK, RestoredWhole, FailsForCause
  <1>7. CASE Verify
    <2>1. drill.pc = "verify" /\ wal' = None /\ main' = main
      BY <1>7, StepTyped DEF Verify
    <2>2. main = attested
      BY <2>1 DEF DrillInv, RestoredWhole
    <2>3. drill'.pc = "media"
      BY <1>7, <2>2, StepTyped DEF Verify
    <2>. QED
      BY <1>0, <1>1, <1>2, <1>3, <2>1, <2>2, <2>3
         DEF DrillInv, DrillOK, RestoredWhole, FailsForCause
  <1>8. CASE DrillDies
    <2>1. drill'.pc = "forensic"
      BY <1>8 DEF DrillDies, DrillIn, Drill
    <2>. QED
      BY <1>1, <1>2, <1>3, <2>1 DEF DrillInv, DrillOK, RestoredWhole, FailsForCause
  <1>. QED
    BY <1>4, <1>5, <1>6, <1>7, <1>8

LEMMA MediaStep ==
    ASSUME TypeInv, DrillInv, Protect \/ UnlinkOrphan \/ UnlinkedAll \/ Reconcile
    PROVE  DrillInv'
  <1>. USE DrillTypes
  <1>0. /\ drill.pc \in {"media", "unlink", "final"} /\ Kept
        /\ UNCHANGED <<main, wal, backup, attested, protected>>
        /\ drill'.candidates = drill.candidates
    BY StepTyped DEF Protect, UnlinkOrphan, UnlinkedAll, Reconcile, Untouched, artifacts
  <1>1. op'.pc = "idle" /\ Gone'
    BY <1>0, DrillKeeps
  <1>2. DatabaseOK(backup)' /\ Referenced(backup)' \subseteq protected' /\ attested' = backup'
    BY <1>0, BackupStays
  <1>3. /\ main = attested /\ wal = None /\ protected \subseteq files
        /\ attested = backup /\ Referenced(backup) \subseteq protected
    BY <1>0 DEF DrillInv, RestoredWhole, DrillOK
  <1>4. CASE Protect
    <2>1. files' = files
      BY <1>4 DEF Protect
    <2>2. (drill'.pc = "unlink" /\ ~Overlap) \/ (drill'.pc = "failed" /\ Overlap)
      <3>1. (Step("media", "unlink") /\ ~Overlap) \/ (Step("media", "failed") /\ Overlap)
        BY <1>3, <1>4 DEF Protect
      <3>. QED
        BY <3>1, StepTyped
    <2>3. Overlap' <=> Overlap
      BY <1>0 DEF Overlap
    <2>. QED
      BY <1>0, <1>1, <1>2, <1>3, <2>1, <2>2, <2>3
         DEF DrillInv, DrillOK, RestoredWhole, FailsForCause
  <1>5. CASE UnlinkOrphan
    <2>1. PICK f \in Orphans : files' = files \ {f}
      BY <1>5 DEF UnlinkOrphan
    <2>2. drill.pc = "unlink" /\ drill' = drill
      BY <1>5 DEF UnlinkOrphan
    <2>3. ~Overlap /\ ~Overlap'
      BY <1>0, <2>2 DEF DrillInv, DrillOK, Overlap
    <2>4. f \notin protected
      BY <2>1, <2>3 DEF Orphans, Overlap
    <2>. QED
      BY <1>0, <1>1, <1>2, <1>3, <2>1, <2>2, <2>3, <2>4
         DEF DrillInv, DrillOK, RestoredWhole, FailsForCause
  <1>6. CASE UnlinkedAll
    <2>1. /\ drill.pc = "unlink" /\ drill'.pc = "final" /\ Orphans = {} /\ files' = files
      BY <1>6, StepTyped DEF UnlinkedAll
    <2>2. ~Overlap' /\ Orphans' = {}
      BY <1>0, <2>1 DEF DrillInv, DrillOK, Overlap, Orphans, Referenced
    <2>. QED
      BY <1>0, <1>1, <1>2, <1>3, <2>1, <2>2
         DEF DrillInv, DrillOK, RestoredWhole, FailsForCause
  <1>7. CASE Reconcile
    <2>1. drill.pc = "final" /\ drill'.pc \in {"done", "failed"} /\ files' = files
      BY <1>7, StepTyped DEF Reconcile
    <2>2. DrillOK' /\ RestoredWhole'
      BY <1>0, <1>1, <1>2, <1>3, <2>1 DEF DrillOK, RestoredWhole
    <2>3. ASSUME drill'.pc = "failed"
          PROVE  \/ ~((Derived \cap files) \subseteq
                         protected \cup drill.candidates \cup Referenced(attested))
                 \/ ~(protected \cap Derived \subseteq Referenced(attested))
      <3>1. Derived \cap files # Referenced(main)
        BY <1>3, <1>7, <2>1, <2>3, StepTyped DEF Reconcile
      <3>2. Referenced(main) \subseteq Derived \cap files
        BY <1>3 DEF Referenced
      <3>3. PICK f \in Derived \cap files : f \notin Referenced(main)
        BY <3>1, <3>2
      <3>4. f \notin drill.candidates
        BY <2>1, <3>3 DEF DrillInv, DrillOK, Orphans
      <3>. QED
        BY <1>3, <3>3, <3>4
    <2>4. Referenced(attested)' = Referenced(attested)
      BY <1>0 DEF Referenced
    <2>5. FailsForCause'
      BY <1>0, <2>1, <2>3, <2>4 DEF FailsForCause
    <2>. QED
      BY <2>2, <2>5 DEF DrillInv
  <1>. QED
    BY <1>4, <1>5, <1>6, <1>7

LEMMA DrillStep == ASSUME TypeInv, DrillInv, Next PROVE DrillInv'
  <1>1. CASE DrillNext
    BY <1>1, BackupStep, InvokeStep, RestoreStep, MediaStep DEF DrillNext
  <1>2. CASE ~DrillNext
    <2>1. drill.pc = "armed"
      BY <1>2, NobodyElse DEF DrillInv
    <2>2. CASE OperatorMoves
      BY <2>1, <2>2, BesideDrill DEF OperatorMoves, OperatorStep
    <2>3. CASE ProgramMoves
      BY <2>1, <2>3, BesideDrill DEF ProgramMoves, ProgramStep
    <2>4. CASE ApiReturns
      BY <2>1, <2>4, BesideDrill, ReturnStep DEF ApiReturns
    <2>. QED
      BY <1>2, <2>2, <2>3, <2>4, Moves
  <1>. QED
    BY <1>1, <1>2
-----------------------------------------------------------------------------
(***************************************************************************)
(* The invariant of a release, and what it means.                          *)
(***************************************************************************)
Inv == TypeInv /\ Alone /\ ClaimsOK /\ AttemptOK /\ SeenOK /\ DrillInv

LEMMA InitRows == NoRow \in Row /\ InitialRows \subseteq Row
  <1>1. NoRow \in Row
    BY DEF NoRow, Row
  <1>2. ASSUME NEW r \in Row
        PROVE  /\ [r EXCEPT !.step = "uploading"] \in Row
               /\ [r EXCEPT !.step = "queued"] \in Row
               /\ [r EXCEPT !.step = "ready", !.old = TRUE] \in Row
    BY DEF Row
  <1>. QED
    BY <1>1, <1>2 DEF InitialRows

LEMMA InvInit == ASSUME Init PROVE Inv
  <1>. USE DEF Init, ReleaseInit, DrillInit
  <1>1. main \in Database /\ main.version \in {1, 7}
    <2>1. CASE main = [version |-> 1, row |-> [a \in Assets |-> NoRow]]
      BY <2>1, InitRows DEF Database
    <2>2. CASE main \in [version: {7}, row: [Assets -> InitialRows]]
      BY <2>2, InitRows DEF Database
    <2>. QED
      BY <2>1, <2>2
  <1>2. DatabasesOK
    BY <1>1 DEF DatabasesOK, DatabaseOK, Formal
  <1>3. files \subseteq File /\ Referenced(main) \subseteq files
    <2>1. PICK left \in SUBSET {a \in Assets : main.row[a].step = "queued"} :
              files = Referenced(main) \cup (left \X {"old"}) \cup
                  {a \in Assets : main.row[a].step \notin {"absent", "uploading"}} \X {"original"}
      OBVIOUS
    <2>2. Referenced(main) \subseteq File /\ left \X {"old"} \subseteq File
      BY DEF Referenced, Derived, File
    <2>3. {a \in Assets : main.row[a].step \notin {"absent", "uploading"}} \X {"original"}
              \subseteq File
      BY DEF File
    <2>. QED
      BY <2>1, <2>2, <2>3
  <1>. DEFINE api == [NoContainer EXCEPT !.state = "running", !.pc = "write"]
  <1>4. api \in Container
    <2>1. \A c \in Container : [c EXCEPT !.state = "running", !.pc = "write"] \in Container
      BY DEF Container
    <2>. QED
      BY <2>1, NoContainerOK
  <1>5. /\ container \in [Services -> Container]
        /\ \A s \in OneShots : container[s] = NoContainer
    <2>1. container = [[svc \in Services |-> NoContainer] EXCEPT !["api"] = api]
      OBVIOUS
    <2>. HIDE DEF api
    <2>. QED
      BY <1>4, <2>1, NoContainerOK, OneShotNames DEF Services
  <1>6. op = Idle /\ op \in Operation /\ op.pc = "idle" /\ op.n = 0 /\ op.svc = "marker"
        /\ op.reading = FALSE
    BY IdleIs
  <1>7. drill \in Drill /\ drill.pc = "inventory"
    BY DEF Drill
  <1>8. "startup" \in OneShots /\ Claiming \subseteq OneShots /\ Later \subseteq OneShots
        /\ "marker" \notin Later
    BY OneShotNames DEF Claiming, Later
  <1>9. /\ NoContainer.state = "none" /\ NoContainer.pc = "claim" /\ NoContainer.of = 0
        /\ NoContainer.ok = FALSE
    BY DEF NoContainer
  <1>10. claims \in [Claiming -> 0..MaxOperations] /\ \A s \in Claiming : claims[s] = 0
    BY BoundAssumption
  <1>11. TypeInv
    <2>1. faults \in 0..MaxFaults
      BY BoundAssumption
    <2>2. ProgramsOK
      BY <1>5, <1>6, <1>8, <1>9 DEF ProgramsOK
    <2>3. wal = None /\ marker = FALSE /\ report = None /\ backup = None /\ attested = None
          /\ protected = {} /\ forensic = None
      OBVIOUS
    <2>4. TypeOK
      BY <1>1, <1>3, <1>5, <1>6, <1>7, <1>10, <2>1, <2>3 DEF TypeOK
    <2>. QED
      BY <1>2, <2>2, <2>4 DEF TypeInv
  <1>12. Alone /\ Gone
    BY <1>5, <1>6, <1>9 DEF Alone, Gone, Is, Working
  <1>13. ClaimsOK
    BY <1>5, <1>6, <1>8, <1>9, <1>10 DEF ClaimsOK, Is, Working
  <1>14. AttemptOK
    <2>. HIDE DEF Init, ReleaseInit, DrillInit
    <2>1. \A s \in Claiming : claims[s] = 0 /\ container[s].of = 0 /\ op.n = 0
      BY <1>5, <1>6, <1>8, <1>9, <1>10
    <2>2. op.pc = "idle"
      BY <1>6
    <2>. QED
      BY <2>1, <2>2 DEF AttemptOK
  <1>15. SeenOK
    BY <1>6 DEF SeenOK, Passed, Seen
  <1>16. DrillInv
    <2>1. wal = None /\ protected = {}
      OBVIOUS
    <2>. QED
      BY <1>3, <1>6, <1>7, <1>12, <2>1 DEF DrillInv, DrillOK, RestoredWhole, FailsForCause
  <1>. QED
    BY <1>11, <1>12, <1>13, <1>14, <1>15, <1>16 DEF Inv

LEMMA InvStep == ASSUME Inv, [Next]_vars PROVE Inv'
  <1>1. CASE Next
    <2>1. TypeInv'
      BY <1>1, Moves, OperatorTyped, ProgramTyped, ReturnTyped, DrillTypedStep
         DEF Inv, DrillInv
    <2>2. Alone' /\ ClaimsOK' /\ AttemptOK'
      BY <1>1, AloneStep, ClaimsStep, AttemptStep DEF Inv
    <2>3. SeenOK' /\ DrillInv'
      BY <1>1, SeenStep, DrillStep DEF Inv, DrillInv
    <2>. QED
      BY <2>1, <2>2, <2>3 DEF Inv
  <1>2. CASE UNCHANGED vars
    <2>1. UNCHANGED <<main, wal, marker, claims, op, report, files, container, faults, backup,
                      attested, protected, forensic, drill>>
      BY <1>2 DEF vars, volume, host, artifacts
    <2>2. TypeInv'
      BY <2>1 DEF Inv, TypeInv, TypeOK, DatabasesOK, ProgramsOK
    <2>3. Alone' /\ ClaimsOK' /\ AttemptOK' /\ SeenOK'
      BY <2>1 DEF Inv, Alone, Gone, ClaimsOK, AttemptOK, SeenOK, Passed, Seen, Is, Drained
    <2>4. DrillInv'
      BY <2>1 DEF Inv, DrillInv, DrillOK, RestoredWhole, FailsForCause, Gone, Is, Referenced,
         Overlap, Orphans, DatabaseOK, Formal
    <2>. QED
      BY <2>2, <2>3, <2>4 DEF Inv
  <1>. QED
    BY <1>1, <1>2

\* The containers, claims, identities and backups of a release in every state.
THEOREM ReleaseInvariant == Spec => []Inv
  BY InvInit, InvStep, PTL DEF Spec

\* The volume, the operation, the containers and the drill have the types the
\* code gives them, and faults stay within their bound.
THEOREM TypeInvariant == Spec => []TypeOK
  <1>1. Inv => TypeOK
    BY DEF Inv, TypeInv
  <1>. QED
    BY <1>1, ReleaseInvariant, PTL

\* From 008 on every preview belongs to a generation, whatever the api queues
\* between the read preflight of a migrator and its transaction.
THEOREM PreviewsAreFormal == Spec => []FormalEra
  <1>1. Inv => FormalEra
    <2>. SUFFICES ASSUME Inv PROVE FormalEra
      OBVIOUS
    <2>1. DatabaseOK(Current)
      BY Types DEF Inv
    <2>. QED
      BY <2>1 DEF DatabaseOK, Formal, FormalEra
  <1>. QED
    BY <1>1, ReleaseInvariant, PTL

\* A volume is migrated by one operation only, also after the first was killed.
THEOREM OneOperation == Spec => []OneOperationMigrates
  <1>1. Inv => OneOperationMigrates
    BY DEF Inv, ClaimsOK, OneOperationMigrates
  <1>. QED
    BY <1>1, ReleaseInvariant, PTL

\* From the replacement on the database is the attested backup with no -wal file
\* beside it, and no file of the inventory is ever removed.
THEOREM BackupIsRestored == Spec => []RestoredWhole
  <1>1. Inv => RestoredWhole
    BY DEF Inv, DrillInv
  <1>. QED
    BY <1>1, ReleaseInvariant, PTL

\* Where nobody gave the drill a wrong inventory or called it twice, it succeeds
\* wherever the operation and the drill were cut off.
THEOREM DrillFailsForCause == Spec => []FailsForCause
  <1>1. Inv => FailsForCause
    BY DEF Inv, DrillInv
  <1>. QED
    BY <1>1, ReleaseInvariant, PTL
-----------------------------------------------------------------------------
(***************************************************************************)
(* Reports. Only the end of a phase and the confirmation after a failure   *)
(* report, and what they report is the volume they have just looked at.    *)
(***************************************************************************)
Honest ==
    /\ report'.stopped => InState("running") = {}
    /\ report'.ok => Current.version = 9 /\ Drained(Current) /\ wal = None
    /\ report'.last # None => report'.last = Current.version
    /\ ~report'.ok /\ ~report'.restore => \A s \in Claiming : claims[s] # op.n

LEMMA Silent ==
    ASSUME TypeInv, Next, report' # report, report' # None PROVE Between \/ Confirm
  <1>1. CASE StepOperator
    BY <1>1 DEF StepOperator, Begin
  <1>2. CASE StepOrchestrator
    BY <1>2 DEF StepOrchestrator, Orchestrate, StopServices, Quiet, Create, Register, Ready,
       Start, Poll, Check, DrainCheck, Halt, Remove, Cleanup, QueryFails, Then, Raise
  <1>3. CASE StepDeadline \/ StepDeath
    BY <1>3 DEF StepDeadline, StepDeath, Deadline, Die, Raise
  <1>4. CASE StepContainers
    <2>1. backup' = backup /\ ContainersNext
      BY <1>4 DEF StepContainers, artifacts
    <2>2. report' = report
      BY <2>1, ProgramSteps, KillStep DEF ContainersNext, ProgramStep, Return
    <2>. QED
      BY <2>2
  <1>5. CASE DrillNext
    BY <1>5 DEF DrillNext, TakeInventory, TakeBackup, Attest, Invoke, RecordForensics,
       RemoveSidecars, Replace, Verify, Protect, UnlinkOrphan, UnlinkedAll, Reconcile,
       DrillDies, Kept
  <1>. QED
    BY <1>1, <1>2, <1>3, <1>4, <1>5 DEF Next

\* An operation that has not attempted to change the database has claimed nothing.
LEMMA NothingClaimed ==
    ASSUME Inv, op.pc \notin {"idle", "dead"}, ~op.attempted
    PROVE  \A s \in Claiming : claims[s] # op.n
  BY DEF Inv, AttemptOK

LEMMA EndedHonest ==
    ASSUME Inv, op.pc \notin {"idle", "dead"}, NEW ok \in BOOLEAN, NEW code,
           NEW stopped \in BOOLEAN, NEW last, Ended(ok, code, stopped, last),
           stopped => InState("running") = {},
           ok => Current.version = 9 /\ Drained(Current) /\ wal = None,
           last # None => last = Current.version
    PROVE  Honest
  <1>1. /\ report'.stopped = stopped /\ report'.ok = ok /\ report'.last = last
        /\ report'.restore = (~ok /\ op.attempted)
    BY DEF Ended
  <1>2. ~report'.ok /\ ~report'.restore => ~op.attempted
    BY <1>1
  <1>. QED
    BY <1>1, <1>2, NothingClaimed DEF Honest

LEMMA BetweenHonest == ASSUME Inv, Between, report' # report PROVE Honest
  <1>1. op.pc = "between" /\ TypeInv /\ SeenOK
    BY DEF Between, At, Inv
  <1>2. VolumeState({}, {})
    BY DEF Between, Raise
  <1>3. InState("running") = {} /\ ~Is("api", "running")
    BY <1>2, NothingThere DEF VolumeState
  <1>4. CASE op.reading
    <2>1. Ended(FALSE, op.code, TRUE, op.last)
      BY <1>2, <1>4 DEF Between
    <2>2. op.svc = "identity"
      BY <1>1, <1>4, OperatorTypes
    <2>3. wal = None /\ op.last = main.version
      BY <1>1, <1>3, <2>2 DEF SeenOK, Seen
    <2>4. op.last = Current.version
      BY <2>3 DEF Current
    <2>. QED
      BY <1>1, <1>3, <2>1, <2>4, EndedHonest
  <1>5. CASE ~op.reading
    <2>1. op.svc = "preflight" /\ Ended(TRUE, "none", TRUE, None)
      BY <1>2, <1>5 DEF Between
    <2>2. wal = None /\ main.version = 9 /\ Drained(main)
      BY <1>1, <1>3, <2>1 DEF SeenOK, Passed
    <2>3. Current.version = 9 /\ Drained(Current) /\ wal = None
      BY <2>2 DEF Current
    <2>. QED
      BY <1>1, <1>3, <2>1, <2>3, EndedHonest
  <1>. QED
    BY <1>4, <1>5

LEMMA ConfirmHonest == ASSUME Inv, Confirm, report' # report PROVE Honest
  <1>1. op.pc \notin {"idle", "dead"}
    BY DEF Confirm, At
  <1>2. CASE Ended(FALSE, "unsafe", FALSE, None)
    BY <1>1, <1>2, EndedHonest
  <1>3. CASE VolumeState({}, {}) /\ Ended(FALSE, op.code, TRUE, None)
    <2>1. InState("running") = {}
      BY <1>3 DEF VolumeState
    <2>. QED
      BY <1>1, <1>3, <2>1, EndedHonest
  <1>. QED
    BY <1>2, <1>3 DEF Confirm

LEMMA ReportStep == ASSUME Inv, Next, report' # report, report' # None PROVE Honest
  BY Silent, BetweenHonest, ConfirmHonest DEF Inv

\* What the orchestrator reports is so: nothing runs where it says stopped, 009
\* is applied and nothing is left to drain where it says success, the version it
\* names is the database's, and where it asks for no restore nothing migrated.
THEOREM ReportsAreTrue == Spec => ReportsTrue
  <1>1. Inv /\ [Next]_vars => [report' # report /\ report' # None => Honest]_vars
    <2>. SUFFICES ASSUME Inv, [Next]_vars, report' # report, report' # None PROVE Honest
      OBVIOUS
    <2>1. CASE Next
      BY <2>1, ReportStep
    <2>2. CASE UNCHANGED vars
      BY <2>2 DEF vars, host
    <2>. QED
      BY <2>1, <2>2
  <1>2. [report' # report /\ report' # None => Honest]_vars =>
        [report' # report /\ report' # None =>
            /\ report'.stopped => InState("running") = {}
            /\ report'.ok => Current.version = 9 /\ Drained(Current) /\ wal = None
            /\ report'.last # None => report'.last = Current.version
            /\ ~report'.ok /\ ~report'.restore => \A s \in Claiming : claims[s] # op.n]_vars
    BY DEF Honest
  <1>. QED
    BY <1>1, <1>2, ReleaseInvariant, PTL DEF Spec, ReportsTrue
=============================================================================

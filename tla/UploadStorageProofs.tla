------------------------ MODULE UploadStorageProofs ------------------------
(***************************************************************************)
(* Proofs about a resumable upload as it is deployed: docker-compose.yml   *)
(* starts one worker. What needs a power supply says so.                   *)
(***************************************************************************)
EXTENDS ResumableUploadProofs, FiniteSetTheorems

OneWorker == \A v, w \in Workers : v = w
PowerStays == MaxPowerLoss = 0

\* What is proved of every deployment.
Coherent == TypeOK /\ DescriptorsOpen /\ AllMatched /\ LockHeld

LEMMA InitCoherent == ASSUME Init PROVE Coherent
  BY DefaultsTyped, CoherenceInductive DEF Init, Coherent, TypeOK, DescriptorsOpen, NoProcess

LEMMA AlwaysCoherent == Spec => []Coherent
  <1>1. Init => DescriptorsOpen
    BY InitCoherent DEF Coherent
  <1>2. TypeOK /\ DescriptorsOpen /\ [Next]_vars => DescriptorsOpen'
    BY DescriptorsPreserved
  <1>3. TypeOK /\ DescriptorsOpen /\ AllMatched /\ LockHeld => Coherent
    BY DEF Coherent
  <1>. QED
    BY <1>1, <1>2, <1>3, TypeCorrect, CoherenceInductive, PTL DEF Spec

LEMMA StaysOn == ASSUME TypeOK, PowerStays PROVE ~PowerLoss
  BY DEF PowerStays, PowerLoss, TypeOK

LEMMA Named ==
    ASSUME TypeOK
    PROVE  /\ \A w \in Workers : worker[w] \in Process /\ worker[w].s \in Sessions
           /\ \A h \in Handlers :
                /\ handler[h] \in Request /\ handler[h].s \in Sessions
                /\ handler[h].i \in Chunks /\ handler[h].d \in Data /\ handler[h].now \in Nat
  BY DEF TypeOK, Process, Request

LEMMA OrphanIs ==
    ASSUME TypeOK, NEW s \in Sessions, NEW v \in Workers
    PROVE  /\ Orphan(s)[v].pc = worker[v].pc /\ Orphan(s)[v].s = worker[v].s
           /\ Orphan(s)[v].next = worker[v].next
           /\ Orphan(s)[v].fd = IF worker[v].s = s /\ worker[v].fd = "assembly"
                               THEN "orphan" ELSE worker[v].fd
  BY Named DEF Orphan, Process

LEMMA UnstageIs ==
    ASSUME TypeOK, NEW s \in Sessions, NEW h \in Handlers
    PROVE  /\ Unstage(s)[h].pc = handler[h].pc /\ Unstage(s)[h].s = handler[h].s
           /\ Unstage(s)[h].i = handler[h].i /\ Unstage(s)[h].d = handler[h].d
           /\ Unstage(s)[h].now = handler[h].now
  BY Named DEF Unstage, Request

-----------------------------------------------------------------------------
(***************************************************************************)
(* Steps. What a request leaves to the worker, and what the worker does    *)
(* with the job it holds.                                                  *)
(***************************************************************************)
BusyPc == {"claimed", "ensure", "open", "copy", "commit", "failing", "marking"}
Cleaned(s) == worker' = Orphan(s) /\ assembly' = [assembly EXCEPT ![s] = Absent]

LEMMA HandlerLeaves ==
    ASSUME TypeOK, NEW h \in Handlers, HandlerStep(h)
    PROVE  /\ final' = final /\ assets' = assets /\ previews' = previews
           /\ \A t \in Sessions : job[t].status = "running" => job'[t].status = "running"
           /\ UNCHANGED <<worker, assembly>> \/ Cleaned(handler[h].s)
           /\ rows' = rows \/ CommitChunk(h)
  <1>1. CASE CleanupTemporaryFiles(h)
    BY <1>1 DEF CleanupTemporaryFiles, RemoveTemporaryFiles, Cleaned, database
  <1>2. CASE RequeueFinalize(h) \/ StartFinalize(h)
    <2>1. handler[h].s \in Sessions /\ job \in [Sessions -> Job]
      BY Named DEF TypeOK
    <2>2. \A t \in Sessions : job[t].status = "running" => job'[t].status = "running"
      BY <1>2, <2>1 DEF RequeueFinalize, StartFinalize, Job
    <2>. QED
      BY <1>2, <2>2 DEF RequeueFinalize, StartFinalize, disk
  <1>3. CASE ~(CleanupTemporaryFiles(h) \/ RequeueFinalize(h) \/ StartFinalize(h))
    BY <1>3 DEF HandlerStep, Accept, AcceptChunk, Capture, ReturnSession, CreateSession,
       GetSessionOrExpire, RefuseChunk, RepeatChunk, PromoteChunk, CommitChunk,
       FinalizeWithoutChange, CancelSession, RequestLost, OnlyHandler, database, disk
  <1>. QED
    BY <1>1, <1>2, <1>3

LEMMA WorkerKeepsHandlers ==
    ASSUME TypeOK, NEW w \in Workers, WorkerStep(w)
    PROVE  rows' = rows /\ writer' = writer
  BY DEF WorkerStep, ProcessJob, RecoverExpiredJobs, ClaimNextJob, ReadSession, EnsureFinalFile,
     OpenAssembly, CopyChunk, PromoteFinal, StorageFailure, CommitFinalization,
     CleanupAfterCommit, CleanupAssembly, MarkFinalizationFailed, WorkerCrash, OnlyWorker, database

LEMMA GotoIs ==
    ASSUME TypeOK, NEW w \in Workers, NEW pc, WorkerGoto(w, pc)
    PROVE  /\ worker'[w].pc = pc /\ worker'[w].s = worker[w].s
           /\ \A v \in Workers \ {w} : worker'[v] = worker[v]
  BY Named DEF WorkerGoto, TypeOK, Process

LEMMA FailIs ==
    ASSUME TypeOK, NEW w \in Workers, NEW code, Fail(w, code)
    PROVE  /\ worker'[w].pc = "failing" /\ worker'[w].s = worker[w].s
           /\ \A v \in Workers \ {w} : worker'[v] = worker[v]
  BY Named DEF Fail, TypeOK, Process

LEMMA StopIs ==
    ASSUME TypeOK, NEW w \in Workers, worker' = [worker EXCEPT ![w] = NoProcess]
    PROVE  worker'[w].pc = "idle" /\ \A v \in Workers \ {w} : worker'[v] = worker[v]
  BY DEF TypeOK, NoProcess

LEMMA WorkerTakes ==
    ASSUME TypeOK, NEW w \in Workers, WorkerStep(w), worker'[w].pc \in BusyPc
    PROVE  \/ job'[worker'[w].s].status = "running"
           \/ worker[w].pc \in BusyPc /\ worker'[w].s = worker[w].s /\ job' = job
  <1>1. CASE RecoverExpiredJobs(w)
    BY <1>1, GotoIs DEF RecoverExpiredJobs, BusyPc
  <1>2. CASE ClaimNextJob(w)
    <2>1. CASE worker' = [worker EXCEPT ![w] = NoProcess]
      BY <2>1, StopIs DEF BusyPc
    <2>2. CASE \E s \in Sessions :
                 /\ job' = [job EXCEPT ![s] = [status |-> "running", lease |-> clock + Lease]]
                 /\ worker' = [worker EXCEPT ![w].pc = "claimed", ![w].s = s]
      <3>1. PICK s \in Sessions :
                 /\ job' = [job EXCEPT ![s] = [status |-> "running", lease |-> clock + Lease]]
                 /\ worker' = [worker EXCEPT ![w].pc = "claimed", ![w].s = s]
        BY <2>2
      <3>2. worker'[w].s = s
        BY <3>1, Named DEF TypeOK, Process
      <3>. QED
        BY <3>1, <3>2 DEF TypeOK
    <2>. QED
      BY <1>2, <2>1, <2>2 DEF ClaimNextJob
  <1>3. CASE ReadSession(w)
    <2>1. worker'[w].s = worker[w].s
      BY <1>3, GotoIs, Named DEF ReadSession, TypeOK, Process
    <2>. QED
      BY <1>3, <2>1 DEF ReadSession, OnlyWorker, database, BusyPc
  <1>4. CASE EnsureFinalFile(w) \/ StorageFailure(w)
    <2>1. worker'[w].s = worker[w].s
      BY <1>4, GotoIs, FailIs DEF EnsureFinalFile, StorageFailure
    <2>. QED
      BY <1>4, <2>1 DEF EnsureFinalFile, StorageFailure, OnlyWorker, database, BusyPc
  <1>5. CASE OpenAssembly(w)
    <2>1. worker'[w].s = worker[w].s
      BY <1>5, Named DEF OpenAssembly, TypeOK, Process
    <2>. QED
      BY <1>5, <2>1 DEF OpenAssembly, database, BusyPc
  <1>6. CASE CopyChunk(w)
    <2>1. worker'[w].s = worker[w].s
      BY <1>6, FailIs, Named DEF CopyChunk, TypeOK, Process
    <2>. QED
      BY <1>6, <2>1 DEF CopyChunk, database, BusyPc
  <1>7. CASE PromoteFinal(w)
    <2>1. (\E code : Fail(w, code)) => worker'[w].s = worker[w].s
      BY FailIs
    <2>2. worker'[w] = [worker[w] EXCEPT !.pc = "commit", !.fd = "none"]
            => worker'[w].s = worker[w].s
      BY Named DEF Process
    <2>3. worker'[w].s = worker[w].s
      BY <1>7, <2>1, <2>2 DEF PromoteFinal
    <2>. QED
      BY <1>7, <2>3 DEF PromoteFinal, database, BusyPc
  <1>8. CASE CommitFinalization(w)
    <2>1. CASE WorkerGoto(w, "clean")
      BY <2>1, GotoIs DEF BusyPc
    <2>2. CASE Fail(w, "session_not_assembling") /\ UNCHANGED job
      BY <1>8, <2>2, FailIs DEF CommitFinalization, BusyPc
    <2>. QED
      BY <1>8, <2>1, <2>2 DEF CommitFinalization
  <1>9. CASE CleanupAfterCommit(w)
    BY <1>9 DEF CleanupAfterCommit, NoProcess, BusyPc, Orphan
  <1>10. CASE CleanupAssembly(w)
    <2>1. Orphan(worker[w].s) \in [Workers -> Process]
      BY Named, CleanupTyped
    <2>2. worker'[w].s = Orphan(worker[w].s)[w].s
      BY <1>10, <2>1 DEF CleanupAssembly, Process
    <2>. QED
      BY <1>10, <2>2, Named, OrphanIs DEF CleanupAssembly, database, BusyPc
  <1>11. CASE MarkFinalizationFailed(w) \/ WorkerCrash(w)
    BY <1>11, StopIs DEF MarkFinalizationFailed, WorkerCrash, BusyPc
  <1>. QED
    BY <1>1, <1>2, <1>3, <1>4, <1>5, <1>6, <1>7, <1>8, <1>9, <1>10, <1>11 DEF WorkerStep, ProcessJob

(***************************************************************************)
(* The one worker holds its job: nobody else recovers it while it works.   *)
(***************************************************************************)
Holding == \A w \in Workers : worker[w].pc \in BusyPc => job[worker[w].s].status = "running"

LEMMA HoldingNext == ASSUME OneWorker, TypeOK, Holding, [Next]_vars PROVE Holding'
  <1>1. CASE \E h \in Handlers : HandlerStep(h)
    <2>1. PICK h \in Handlers : HandlerStep(h)
      BY <1>1
    <2>2. \A w \in Workers : worker'[w].pc = worker[w].pc /\ worker'[w].s = worker[w].s
      BY <2>1, HandlerLeaves, OrphanIs, Named DEF Cleaned
    <2>. QED
      BY <2>1, <2>2, HandlerLeaves, Named DEF Holding
  <1>2. CASE \E w \in Workers : WorkerStep(w)
    <2>1. PICK w \in Workers : WorkerStep(w)
      BY <1>2
    <2>2. worker'[w].pc \in BusyPc => job'[worker'[w].s].status = "running"
      BY <2>1, WorkerTakes DEF Holding
    <2>. QED
      BY <2>2 DEF Holding, OneWorker
  <1>3. CASE PowerLoss
    BY <1>3 DEF PowerLoss, Holding, NoProcess, BusyPc
  <1>4. CASE Tick \/ UNCHANGED vars
    BY <1>4 DEF Tick, vars, database, Holding
  <1>. QED
    BY <1>1, <1>2, <1>3, <1>4 DEF Next

LEMMA HeldAssembles ==
    ASSUME Coherent, Holding, NEW w \in Workers, worker[w].pc \in BusyPc
    PROVE  session[worker[w].s].status = "assembling"
  BY Named DEF Coherent, Holding, AllMatched, Matched

-----------------------------------------------------------------------------
(***************************************************************************)
(* The file. While the worker copies, what it has written is what the rows *)
(* say, unless a cleanup has taken the file away: then there is no file to *)
(* promote. The rows of its session stand still, since that one assembles. *)
(***************************************************************************)
CopyOK(w) ==
    LET s == worker[w].s IN
    /\ worker[w].pc = "copy" =>
        /\ worker[w].fd \in {"assembly", "orphan"}
        /\ worker[w].fd = "orphan" => assembly[s] = Absent
        /\ worker[w].fd = "assembly" =>
             \A i \in Chunks : i < worker[w].next => assembly[s][i] = rows[s][i]
    /\ worker[w].pc = "commit" => final[s] = Complete
Copying == \A w \in Workers : CopyOK(w)

LEMMA RowsHeld ==
    ASSUME Coherent, Holding, [Next]_vars, NEW w \in Workers, worker[w].pc \in BusyPc
    PROVE  rows'[worker[w].s] = rows[worker[w].s]
  <1>1. session[worker[w].s].status = "assembling"
    BY HeldAssembles
  <1>2. ASSUME NEW h \in Handlers, CommitChunk(h)
        PROVE  rows'[worker[w].s] = rows[worker[w].s]
    <2>1. handler[h].s # worker[w].s
      BY <1>1, <1>2 DEF Coherent, LockHeld, CommitChunk, Uploadable
    <2>. QED
      BY <1>2, <2>1 DEF CommitChunk, Coherent, TypeOK
  <1>3. rows' = rows \/ \E h \in Handlers : CommitChunk(h)
    BY HandlerLeaves, WorkerKeepsHandlers DEF Next, Coherent, Tick, PowerLoss, vars, database
  <1>. QED
    BY <1>2, <1>3

LEMMA HandlerCopying ==
    ASSUME Coherent, Holding, Copying, NEW h \in Handlers, HandlerStep(h), NEW w \in Workers
    PROVE  CopyOK(w)'
  <1>1. [Next]_vars
    BY DEF Next
  <1>2. worker[w].pc \in {"copy", "commit"} => rows'[worker[w].s] = rows[worker[w].s]
    BY <1>1, RowsHeld DEF BusyPc
  <1>3. final' = final /\ (UNCHANGED <<worker, assembly>> \/ Cleaned(handler[h].s))
    BY HandlerLeaves DEF Coherent
  <1>4. CASE UNCHANGED <<worker, assembly>>
    BY <1>2, <1>3, <1>4 DEF Copying, CopyOK
  <1>5. CASE Cleaned(handler[h].s)
    <2> DEFINE t == handler[h].s
    <2>1. /\ worker'[w].pc = worker[w].pc /\ worker'[w].s = worker[w].s
          /\ worker'[w].next = worker[w].next
          /\ worker'[w].fd = IF worker[w].s = t /\ worker[w].fd = "assembly"
                             THEN "orphan" ELSE worker[w].fd
      BY <1>5, Named, OrphanIs DEF Cleaned, Coherent
    <2>2. /\ assembly'[t] = Absent
          /\ \A s \in Sessions \ {t} : assembly'[s] = assembly[s]
      BY <1>5, Named DEF Cleaned, Coherent, TypeOK
    <2>3. worker[w].s \in Sessions /\ CopyOK(w)
      BY Named DEF Coherent, Copying
    <2>4. CASE worker[w].s = t
      BY <1>3, <2>1, <2>2, <2>3, <2>4 DEF CopyOK
    <2>5. CASE worker[w].s # t
      BY <1>2, <1>3, <2>1, <2>2, <2>3, <2>5 DEF CopyOK
    <2>. QED
      BY <2>4, <2>5
  <1>. QED
    BY <1>3, <1>4, <1>5

LEMMA WorkerCopying ==
    ASSUME OneWorker, Coherent, Holding, Copying, NEW w \in Workers, WorkerStep(w)
    PROVE  CopyOK(w)'
  <1>0. TypeOK /\ CopyOK(w) /\ worker[w] \in Process /\ worker[w].s \in Sessions
    BY Named DEF Coherent, Copying
  <1>1. CASE worker'[w].pc \notin {"copy", "commit"}
    BY <1>1 DEF CopyOK
  <1>2. CASE EnsureFinalFile(w)
    <2>1. CASE final[worker[w].s] = Complete /\ WorkerGoto(w, "commit")
      <3>1. worker'[w].pc = "commit" /\ worker'[w].s = worker[w].s
        BY <1>0, <2>1, GotoIs
      <3>. QED
        BY <1>2, <2>1, <3>1 DEF EnsureFinalFile, OnlyWorker, disk, CopyOK
    <2>2. CASE \/ WorkerGoto(w, "open")
               \/ \E code : Fail(w, code)
      BY <1>0, <1>1, <2>2, GotoIs, FailIs
    <2>. QED
      BY <1>2, <2>1, <2>2 DEF EnsureFinalFile
  <1>3. CASE OpenAssembly(w)
    <2>1. worker'[w].pc = "copy" /\ worker'[w].next = 0 /\ worker'[w].fd = "assembly"
      BY <1>0, <1>3 DEF OpenAssembly, TypeOK, Process
    <2>2. \A i \in Chunks : ~(i < 0)
      BY UploadAssumptions DEF Chunks
    <2>. QED
      BY <2>1, <2>2 DEF CopyOK
  <1>4. CASE CopyChunk(w)
    <2> DEFINE s == worker[w].s  i == worker[w].next
    <2>1. CASE \E code : Fail(w, code)
      BY <1>0, <1>1, <2>1, FailIs
    <2>2. CASE ~\E code : Fail(w, code)
      <3>1. /\ files[s][i] = rows[s][i] /\ worker[w].pc = "copy"
            /\ worker' = [worker EXCEPT ![w].next = i + 1]
            /\ assembly' = IF worker[w].fd = "assembly"
                           THEN [assembly EXCEPT ![s][i] = files[s][i]] ELSE assembly
            /\ final' = IF worker[w].fd = "final"
                        THEN [final EXCEPT ![s][i] = files[s][i]] ELSE final
            /\ rows' = rows
        BY <1>4, <2>2 DEF CopyChunk, database
      <3>2. /\ worker'[w].pc = "copy" /\ worker'[w].s = s /\ worker'[w].next = i + 1
            /\ worker'[w].fd = worker[w].fd
        BY <1>0, <3>1 DEF TypeOK, Process
      <3>3. i \in 0 .. NumChunks /\ i < NumChunks
        BY <1>0, <1>4 DEF CopyChunk, Process
      <3>4. i \in Chunks
        BY <3>3, UploadAssumptions DEF Chunks
      <3>5. CASE worker[w].fd = "assembly"
        <4>1. assembly[s] \in File
          BY <1>0, <3>5 DEF Coherent, DescriptorsOpen, TypeOK
        <4>2. assembly'[s] = [assembly[s] EXCEPT ![i] = files[s][i]]
          BY <1>0, <3>1, <3>5 DEF TypeOK
        <4>3. ASSUME NEW j \in Chunks, j < i + 1 PROVE assembly'[s][j] = rows[s][j]
          <5>1. j = i \/ j < i
            BY <3>3, <4>3 DEF Chunks
          <5>. QED
            BY <1>0, <3>1, <3>4, <3>5, <4>1, <4>2, <5>1 DEF CopyOK, File
        <4>. QED
          BY <3>1, <3>2, <3>5, <4>3 DEF CopyOK
      <3>6. CASE worker[w].fd = "orphan"
        BY <1>0, <3>1, <3>2, <3>6 DEF CopyOK
      <3>. QED
        BY <1>0, <3>1, <3>5, <3>6 DEF CopyOK
    <2>. QED
      BY <2>1, <2>2
  <1>5. CASE PromoteFinal(w)
    <2> DEFINE s == worker[w].s
    <2>1. CASE \E code : Fail(w, code)
      BY <1>0, <1>1, <2>1, FailIs
    <2>2. CASE ~\E code : Fail(w, code)
      <3>1. /\ rows[s] = Complete /\ assembly[s] # Absent
            /\ worker[w].pc = "copy" /\ worker[w].next = NumChunks
            /\ final' = [final EXCEPT ![s] = assembly[s]]
        BY <1>5, <2>2 DEF PromoteFinal
      <3>2. worker' = [v \in Workers |->
                   IF v = w THEN [worker[v] EXCEPT !.pc = "commit", !.fd = "none"]
                   ELSE IF worker[v].s # s THEN worker[v]
                   ELSE CASE worker[v].fd = "assembly" -> [worker[v] EXCEPT !.fd = "final"]
                          [] worker[v].fd = "final" -> [worker[v] EXCEPT !.fd = "orphan"]
                          [] OTHER -> worker[v]]
        BY <1>5, <2>2, <3>1 DEF PromoteFinal
      <3>3. worker'[w].pc = "commit" /\ worker'[w].s = s
        BY <1>0, <3>2 DEF Process
      <3>4. worker[w].fd = "assembly"
        BY <1>0, <3>1 DEF CopyOK
      <3>5. \A i \in Chunks : assembly[s][i] = rows[s][i]
        <4>1. \A i \in Chunks : i < NumChunks
          BY UploadAssumptions DEF Chunks
        <4>. QED
          BY <1>0, <3>1, <3>4, <4>1 DEF CopyOK
      <3>6. assembly[s] \in File
        BY <1>0, <3>1 DEF TypeOK
      <3>7. assembly[s] = Complete
        BY <3>1, <3>5, <3>6 DEF Complete, File
      <3>. QED
        BY <1>0, <3>1, <3>3, <3>7 DEF CopyOK, TypeOK
    <2>. QED
      BY <2>1, <2>2
  <1>6. CASE ~(EnsureFinalFile(w) \/ OpenAssembly(w) \/ CopyChunk(w) \/ PromoteFinal(w))
    <2>1. worker'[w].pc \notin {"copy", "commit"}
      <3>1. \A pc : WorkerGoto(w, pc) => worker'[w].pc = pc
        BY <1>0, GotoIs
      <3>2. \A code : Fail(w, code) => worker'[w].pc = "failing"
        BY <1>0, FailIs
      <3>3. worker' = [worker EXCEPT ![w] = NoProcess] => worker'[w].pc = "idle"
        BY <1>0, StopIs
      <3>4. \A s \in Sessions :
                worker' = [worker EXCEPT ![w].pc = "claimed", ![w].s = s] => worker'[w].pc = "claimed"
        BY <1>0 DEF TypeOK, Process
      <3>5. worker' = [worker EXCEPT ![w].pc = "marking", ![w].code = "session_not_assembling"]
                => worker'[w].pc = "marking"
        BY <1>0 DEF TypeOK, Process
      <3>6. CleanupAssembly(w) => worker'[w].pc = "marking"
        BY <1>0, CleanupTyped DEF CleanupAssembly, Process
      <3>7. CleanupAfterCommit(w) => worker'[w].pc = "idle"
        BY DEF CleanupAfterCommit, NoProcess, Orphan
      <3>. QED
        BY <1>6, <3>1, <3>2, <3>3, <3>4, <3>5, <3>6, <3>7 DEF WorkerStep, ProcessJob,
           RecoverExpiredJobs, ClaimNextJob, ReadSession, StorageFailure, CommitFinalization,
           MarkFinalizationFailed, WorkerCrash
    <2>. QED
      BY <1>1, <2>1
  <1>. QED
    BY <1>2, <1>3, <1>4, <1>5, <1>6

LEMMA CopyingNext ==
    ASSUME OneWorker, PowerStays, Coherent, Holding, Copying, [Next]_vars
    PROVE  Copying'
  <1>1. CASE \E h \in Handlers : HandlerStep(h)
    BY <1>1, HandlerCopying DEF Copying
  <1>2. CASE \E w \in Workers : WorkerStep(w)
    BY <1>2, WorkerCopying DEF Copying, OneWorker
  <1>3. CASE Tick \/ UNCHANGED vars
    BY <1>3 DEF Tick, vars, database, disk, Copying, CopyOK
  <1>. QED
    BY <1>1, <1>2, <1>3, StaysOn DEF Next, Coherent

-----------------------------------------------------------------------------
(***************************************************************************)
(* The original. It is promoted for the session that assembles, so that of *)
(* a completed one stands still.                                           *)
(***************************************************************************)
LEMMA FinalSteps ==
    ASSUME OneWorker, PowerStays, Coherent, Holding, Copying, [Next]_vars
    PROVE  \/ final' = final
           \/ /\ UNCHANGED <<session, assets, previews>>
              /\ \E w \in Workers :
                    /\ session[worker[w].s].status = "assembling"
                    /\ \A t \in Sessions \ {worker[w].s} : final'[t] = final[t]
  <1>1. CASE \E w \in Workers : PromoteFinal(w)
    <2>1. PICK w \in Workers : PromoteFinal(w)
      BY <1>1
    <2>2. session[worker[w].s].status = "assembling"
      BY <2>1, HeldAssembles DEF PromoteFinal, BusyPc
    <2>3. /\ UNCHANGED <<session, assets, previews>>
          /\ \A t \in Sessions \ {worker[w].s} : final'[t] = final[t]
      BY <2>1 DEF PromoteFinal, database, disk, Coherent, TypeOK
    <2>. QED
      BY <2>2, <2>3
  <1>2. CASE \E w \in Workers : CopyChunk(w)
    BY <1>2 DEF CopyChunk, Copying, CopyOK, disk
  <1>3. CASE \E h \in Handlers : HandlerStep(h)
    BY <1>3, HandlerLeaves DEF Coherent
  <1>4. CASE Tick \/ UNCHANGED vars
    BY <1>4 DEF Tick, vars, disk
  <1>5. CASE \E w \in Workers : WorkerStep(w) /\ ~PromoteFinal(w) /\ ~CopyChunk(w)
    BY <1>5 DEF WorkerStep, ProcessJob, RecoverExpiredJobs, ClaimNextJob, ReadSession,
       EnsureFinalFile, OpenAssembly, StorageFailure, CommitFinalization, CleanupAfterCommit,
       CleanupAssembly, MarkFinalizationFailed, WorkerCrash, OnlyWorker, disk, RemoveTemporaryFiles
  <1>. QED
    BY <1>1, <1>2, <1>3, <1>4, <1>5, StaysOn DEF Next, Coherent

-----------------------------------------------------------------------------
(***************************************************************************)
(* The stages a session goes through, as the contract names them.          *)
(***************************************************************************)
Unfinished == {"open", "submitted", "retryable"}
StagesKept == \A t \in Sessions : StageOf(session'[t]) = StageOf(session[t])
Goes(s, from, to) ==
    /\ StageOf(session[s]) \in from /\ StageOf(session'[s]) \in to
    /\ \A t \in Sessions \ {s} : session'[t] = session[t]

LEMMA StageIs ==
    ASSUME NEW r \in Session
    PROVE  /\ r.status = "none" => StageOf(r) = "absent"
           /\ r.status \in Expirable => StageOf(r) = "open"
           /\ r.status = "assembling" => StageOf(r) = "submitted"
           /\ r.status = "failed" =>
                StageOf(r) = IF r.failure \in RetryableCodes THEN "retryable" ELSE "rejected"
           /\ r.status = "completed" <=> StageOf(r) = "stored"
           /\ r.status \in {"expired", "cancelled"} => StageOf(r) = "closed"
           /\ Active(r) <=> StageOf(r) \in Unfinished
  <1>1. r.status \in Expirable \cup
          {"none", "assembling", "completed", "failed", "expired", "cancelled"}
    BY DEF Session, Status
  <1>. QED
    BY <1>1 DEF StageOf, Expirable, Retryable, Active, Unfinished

LEMMA ExpireStages ==
    ASSUME NEW r \in Session, NEW now
    PROVE  /\ ExpireIfDue(r, now) \in Session
           /\ \/ StageOf(ExpireIfDue(r, now)) = StageOf(r)
              \/ /\ StageOf(r) \in {"open", "retryable"}
                 /\ StageOf(ExpireIfDue(r, now)) = "closed"
  <1>1. CASE Due(r, now)
    <2>1. ExpireIfDue(r, now) = [r EXCEPT !.status = "expired"]
      BY <1>1 DEF ExpireIfDue
    <2>2. ExpireIfDue(r, now) \in Session /\ ExpireIfDue(r, now).status = "expired"
      BY <2>1 DEF Session, Status
    <2>3. StageOf(ExpireIfDue(r, now)) = "closed"
      BY <2>2, StageIs
    <2>4. StageOf(r) \in {"open", "retryable"}
      BY <1>1, StageIs DEF Due, Retryable
    <2>. QED
      BY <2>2, <2>3, <2>4
  <1>2. CASE ~Due(r, now)
    BY <1>2 DEF ExpireIfDue
  <1>. QED
    BY <1>1, <1>2

LEMMA TouchedIs ==
    ASSUME TypeOK, NEW h \in Handlers, NEW r \in Session
    PROVE  /\ Touched(r, h) \in Session
           /\ Touched(r, h).status = r.status /\ Touched(r, h).failure = r.failure
           /\ Touched(r, h).expires = handler[h].now + Expiry
  BY TouchedTyped DEF Touched, Session

\* POST /upload-sessions: the sessions that are due are closed, and the new one
\* is opened if fewer than the limit are then left.
Opens(h) ==
    LET s == handler[h].s
        swept == [t \in Sessions |-> ExpireIfDue(session[t], handler[h].now)]
    IN  /\ session[s].status = "none"
        /\ Cardinality({t \in Sessions : Active(swept[t])}) < ActiveLimit
        /\ StageOf(session'[s]) = "open"
        /\ \A t \in Sessions \ {s} : session'[t] = swept[t]

LEMMA CreateOpens ==
    ASSUME TypeOK, NEW h \in Handlers, CreateSession(h)
    PROVE  session' = session \/ Opens(h)
  <1> DEFINE s == handler[h].s
             swept == [t \in Sessions |-> ExpireIfDue(session[t], handler[h].now)]
             n == Cardinality({t \in Sessions : Active(swept[t])})
  <1>1. CASE n >= ActiveLimit
    BY <1>1 DEF CreateSession
  <1>2. CASE ~(n >= ActiveLimit)
    <2>1. session[s].status = "none" /\
          session' = [swept EXCEPT ![s] = Touched([NoSession EXCEPT !.status = "created"], h)]
      BY <1>2 DEF CreateSession
    <2>2. n \in Nat
      <3>1. IsFiniteSet({t \in Sessions : Active(swept[t])})
        BY UploadAssumptions, FS_Subset
      <3>. QED
        BY <3>1, FS_CardinalityType
    <2>3. n < ActiveLimit
      BY <1>2, <2>2, UploadAssumptions
    <2>4. [NoSession EXCEPT !.status = "created"] \in Session
      BY DefaultsTyped DEF Session, Status, Expirable
    <2>5. session'[s] = Touched([NoSession EXCEPT !.status = "created"], h)
      BY <2>1, Named
    <2>6. StageOf(session'[s]) = "open"
      <3>1. [NoSession EXCEPT !.status = "created"].status = "created"
        BY DEF NoSession
      <3>2. PICK fresh \in Session : fresh = [NoSession EXCEPT !.status = "created"]
        BY <2>4
      <3>3. session'[s] = Touched(fresh, h) /\ fresh.status = "created"
        BY <2>5, <3>1, <3>2
      <3>4. session'[s] \in Session /\ session'[s].status = "created"
        BY <3>3, TouchedIs
      <3>. QED
        BY <3>4, StageIs DEF Expirable
    <2>7. \A t \in Sessions \ {s} : session'[t] = swept[t]
      BY <2>1
    <2>. QED
      BY <2>1, <2>3, <2>6, <2>7 DEF Opens
  <1>. QED
    BY <1>1, <1>2

LEMMA HandlerStages ==
    ASSUME TypeOK, LockHeld, NEW h \in Handlers, HandlerStep(h)
    PROVE  \/ StagesKept
           \/ Opens(h)
           \/ Goes(handler[h].s, {"open", "retryable"}, {"closed", "submitted"})
  <1> DEFINE s == handler[h].s
  <1>0. /\ s \in Sessions /\ session \in [Sessions -> Session] /\ session[s] \in Session
        /\ session' \in [Sessions -> Session]
    BY Named, HandlerTypeOK DEF TypeOK
  <1>1. CASE CreateSession(h)
    BY <1>1, CreateOpens DEF StagesKept
  <1>2. CASE GetSessionOrExpire(h)
    <2>1. session' = [session EXCEPT ![s] = Current(h)]
      BY <1>2 DEF GetSessionOrExpire
    <2>2. session'[s] = Current(h) /\ \A t \in Sessions \ {s} : session'[t] = session[t]
      BY <1>0, <2>1
    <2>. QED
      BY <1>0, <2>2, ExpireStages DEF Current, Goes, StagesKept
  <1>3. CASE RepeatChunk(h)
    <2>1. session' = [session EXCEPT ![s] = Touched(session[s], h)]
      BY <1>3 DEF RepeatChunk
    <2>2. /\ session'[s] = Touched(session[s], h)
          /\ \A t \in Sessions \ {s} : session'[t] = session[t]
      BY <1>0, <2>1
    <2>3. StageOf(session'[s]) = StageOf(session[s])
      BY <1>0, <2>2, TouchedIs DEF StageOf, Retryable
    <2>. QED
      BY <2>2, <2>3 DEF StagesKept
  <1>4. CASE CommitChunk(h)
    <2>1. session[s].status \in Expirable
      BY <1>4 DEF CommitChunk, LockHeld, Uploadable, Expirable
    <2>2. session'[s].status \in Expirable /\ \A t \in Sessions \ {s} : session'[t] = session[t]
      <3>1. PICK st \in {"ready_to_finalize", "uploading"} :
              session' = [session EXCEPT ![s] = [Touched(session[s], h) EXCEPT !.status = st]]
        BY <1>4 DEF CommitChunk
      <3>2. session'[s] = [Touched(session[s], h) EXCEPT !.status = st]
        BY <1>0, <3>1
      <3>. QED
        BY <1>0, <3>1, <3>2, TouchedIs DEF Session, Expirable
    <2>3. StageOf(session'[s]) = StageOf(session[s])
      BY <1>0, <2>1, <2>2, StageIs
    <2>. QED
      BY <2>2, <2>3 DEF StagesKept
  <1>5. CASE RequeueFinalize(h) \/ StartFinalize(h)
    <2>1. session' = [session EXCEPT ![s] =
            [Touched(session[s], h) EXCEPT !.status = "assembling", !.failure = "none"]]
      BY <1>5 DEF RequeueFinalize, StartFinalize
    <2>2. session'[s].status = "assembling" /\ \A t \in Sessions \ {s} : session'[t] = session[t]
      <3>1. session'[s] = [Touched(session[s], h) EXCEPT !.status = "assembling", !.failure = "none"]
        BY <1>0, <2>1
      <3>. QED
        BY <1>0, <2>1, <3>1, TouchedIs DEF Session
    <2>3. StageOf(session'[s]) = "submitted"
      BY <1>0, <2>2, StageIs
    <2>4. Retryable(Current(h)) \/ Current(h).status \in Expirable
      BY <1>5 DEF RequeueFinalize, StartFinalize
    <2>5. StageOf(Current(h)) \in {"open", "retryable"}
      BY <1>0, <2>4, ExpireStages, StageIs DEF Current, Retryable
    <2>6. StageOf(session[s]) \in {"open", "retryable"}
      BY <1>0, <2>5, ExpireStages DEF Current
    <2>. QED
      BY <2>2, <2>3, <2>6 DEF Goes
  <1>6. CASE CancelSession(h)
    <2>1. CASE session' = session
      BY <2>1 DEF StagesKept
    <2>2. CASE session' # session
      <3>1. /\ Current(h).status \in Cancellable
            /\ Current(h).status = "failed" => Retryable(Current(h))
            /\ session' = [session EXCEPT ![s].status = "cancelled"]
        BY <1>6, <2>2 DEF CancelSession
      <3>2. session'[s].status = "cancelled" /\ \A t \in Sessions \ {s} : session'[t] = session[t]
        BY <1>0, <3>1 DEF Session
      <3>3. StageOf(session'[s]) = "closed"
        BY <1>0, <3>2, StageIs
      <3>4. StageOf(Current(h)) \in {"open", "retryable"}
        BY <1>0, <3>1, ExpireStages, StageIs DEF Current, Retryable, Cancellable, Expirable
      <3>5. StageOf(session[s]) \in {"open", "retryable"}
        BY <1>0, <3>4, ExpireStages DEF Current
      <3>. QED
        BY <3>2, <3>3, <3>5 DEF Goes
    <2>. QED
      BY <2>1, <2>2
  <1>7. CASE session' = session
    BY <1>7 DEF StagesKept
  <1>. QED
    BY <1>1, <1>2, <1>3, <1>4, <1>5, <1>6, <1>7 DEF HandlerStep, Accept, AcceptChunk, Capture,
       ReturnSession, RefuseChunk, PromoteChunk, FinalizeWithoutChange, CleanupTemporaryFiles,
       RequestLost, OnlyHandler, database

LEMMA WorkerStages ==
    ASSUME Coherent, Holding, NEW w \in Workers, WorkerStep(w)
    PROVE  \/ /\ UNCHANGED <<session, assets, previews>>
           \/ /\ CommitFinalization(w)
              /\ Goes(worker[w].s, {"submitted"}, {"stored"})
           \/ /\ UNCHANGED <<assets, previews>>
              /\ Goes(worker[w].s, {"submitted"}, {"retryable", "rejected"})
  <1> DEFINE s == worker[w].s
  <1>0. /\ s \in Sessions /\ session \in [Sessions -> Session] /\ session[s] \in Session
        /\ session' \in [Sessions -> Session] /\ session'[s] \in Session
    BY Named, WorkerTypeOK DEF Coherent, TypeOK
  <1>1. CASE CommitFinalization(w) /\ ~UNCHANGED <<session, assets, previews>>
    <2>1. session[s].status = "assembling"
      BY <1>1, HeldAssembles DEF CommitFinalization, BusyPc
    <2>2. session' = [session EXCEPT ![s].status = "completed", ![s].failure = "none"]
      BY <1>1, <2>1 DEF CommitFinalization
    <2>3. session'[s].status = "completed" /\ \A t \in Sessions \ {s} : session'[t] = session[t]
      BY <1>0, <2>2 DEF Session
    <2>. QED
      BY <1>0, <1>1, <2>1, <2>3, StageIs DEF Goes
  <1>2. CASE MarkFinalizationFailed(w)
    <2>1. session[s].status = "assembling"
      BY <1>2, HeldAssembles DEF MarkFinalizationFailed, BusyPc
    <2>2. session' = [session EXCEPT ![s].status = "failed", ![s].failure = worker[w].code]
      BY <1>2, <2>1 DEF MarkFinalizationFailed
    <2>3. session'[s].status = "failed" /\ \A t \in Sessions \ {s} : session'[t] = session[t]
      BY <1>0, <2>2 DEF Session
    <2>. QED
      BY <1>0, <1>2, <2>1, <2>3, StageIs DEF Goes, MarkFinalizationFailed
  <1>. QED
    BY <1>1, <1>2 DEF WorkerStep, ProcessJob, RecoverExpiredJobs, ClaimNextJob, ReadSession,
       EnsureFinalFile, OpenAssembly, CopyChunk, PromoteFinal, StorageFailure, CommitFinalization,
       CleanupAfterCommit, CleanupAssembly, WorkerCrash, OnlyWorker, database

-----------------------------------------------------------------------------
(***************************************************************************)
(* The theorems about the original, the chunk files and the limit.         *)
(***************************************************************************)
LEMMA HandlerKeepsStored ==
    ASSUME TypeOK, LockHeld, NEW h \in Handlers, HandlerStep(h), NEW t \in Sessions
    PROVE  session'[t].status = "completed" <=> session[t].status = "completed"
  <1>1. session[t] \in Session /\ session'[t] \in Session
    BY HandlerTypeOK DEF TypeOK
  <1>2. StageOf(session'[t]) = "stored" <=> StageOf(session[t]) = "stored"
    <2>1. CASE StagesKept
      BY <2>1 DEF StagesKept
    <2>2. CASE Opens(h)
      <3>1. CASE t = handler[h].s
        BY <1>1, <2>2, <3>1, StageIs DEF Opens
      <3>2. CASE t # handler[h].s
        BY <1>1, <2>2, <3>2, ExpireStages DEF Opens
      <3>. QED
        BY <3>1, <3>2
    <2>3. CASE Goes(handler[h].s, {"open", "retryable"}, {"closed", "submitted"})
      BY <2>3 DEF Goes
    <2>. QED
      BY <2>1, <2>2, <2>3, HandlerStages
  <1>. QED
    BY <1>1, <1>2, StageIs

LEMMA AssetBackedNext ==
    ASSUME OneWorker, PowerStays, Coherent, Holding, Copying, AssetBacked, [Next]_vars
    PROVE  AssetBacked'
  <1>1. CASE \E w \in Workers :
               /\ UNCHANGED <<session, assets, previews>>
               /\ session[worker[w].s].status = "assembling"
               /\ \A t \in Sessions \ {worker[w].s} : final'[t] = final[t]
    BY <1>1 DEF AssetBacked
  <1>2. CASE final' = final
    <2>1. CASE \E h \in Handlers : HandlerStep(h)
      <3>1. PICK h \in Handlers : HandlerStep(h)
        BY <2>1
      <3>2. UNCHANGED <<assets, previews>>
        BY <3>1, HandlerLeaves DEF Coherent
      <3>. QED
        BY <1>2, <3>1, <3>2, HandlerKeepsStored DEF Coherent, AssetBacked
    <2>2. CASE \E w \in Workers : WorkerStep(w)
      <3>1. PICK w \in Workers : WorkerStep(w)
        BY <2>2
      <3> DEFINE s == worker[w].s
      <3>0. /\ s \in Sessions
            /\ \A t \in Sessions : session[t] \in Session /\ session'[t] \in Session
        BY <3>1, Named, WorkerTypeOK DEF Coherent, TypeOK
      <3>2. CASE UNCHANGED <<session, assets, previews>>
        BY <1>2, <3>2 DEF AssetBacked
      <3>3. CASE CommitFinalization(w) /\ Goes(s, {"submitted"}, {"stored"})
        <4>1. session[s].status = "assembling" /\ session'[s].status = "completed"
          <5>1. session[s].status # "completed" /\ session'[s].status = "completed"
            BY <3>0, <3>3, StageIs DEF Goes
          <5>. QED
            BY <3>3, <5>1, HeldAssembles DEF CommitFinalization, BusyPc
        <4>2. assets' = [assets EXCEPT ![s] = IF assets[s] = 0 THEN 1 ELSE assets[s]]
              /\ previews' = [previews EXCEPT ![s] = IF previews[s] = 0 THEN 1 ELSE previews[s]]
          BY <3>3, <4>1 DEF CommitFinalization
        <4>3. assets[s] = 0 /\ previews[s] = 0
          BY <3>0, <4>1 DEF AssetBacked
        <4>4. assets'[s] = 1 /\ previews'[s] = 1
          BY <3>0, <4>2, <4>3 DEF Coherent, TypeOK
        <4>5. \A t \in Sessions \ {s} :
                assets'[t] = assets[t] /\ previews'[t] = previews[t] /\ session'[t] = session[t]
          BY <3>3, <4>2 DEF Goes, Coherent, TypeOK
        <4>6. final[s] = Complete
          BY <3>1, <3>3 DEF Copying, CopyOK, CommitFinalization
        <4>. QED
          BY <1>2, <4>1, <4>4, <4>5, <4>6 DEF AssetBacked
      <3>4. CASE UNCHANGED <<assets, previews>> /\ Goes(s, {"submitted"}, {"retryable", "rejected"})
        <4>1. session[s].status # "completed" /\ session'[s].status # "completed"
          BY <3>0, <3>4, StageIs DEF Goes
        <4>. QED
          BY <1>2, <3>4, <4>1 DEF AssetBacked, Goes
      <3>. QED
        BY <3>1, <3>2, <3>3, <3>4, WorkerStages
    <2>3. CASE Tick \/ UNCHANGED vars
      BY <1>2, <2>3 DEF Tick, vars, database, AssetBacked
    <2>. QED
      BY <2>1, <2>2, <2>3, StaysOn DEF Next, Coherent
  <1>. QED
    BY <1>1, <1>2, FinalSteps

\* What one worker keeps true.
LEMMA InitWorking == ASSUME Init PROVE Holding /\ Copying /\ AssetBacked
  BY DEF Init, Holding, Copying, CopyOK, AssetBacked, NoProcess, NoSession, BusyPc

LEMMA AlwaysHolding == ASSUME OneWorker PROVE Spec => []Holding
  <1>1. Init => Holding
    BY InitWorking
  <1>2. Coherent /\ Holding /\ [Next]_vars => Holding'
    BY HoldingNext DEF Coherent
  <1>. QED
    BY <1>1, <1>2, AlwaysCoherent, PTL DEF Spec

\* An asset row, and the preview job that reads its original, exist for
\* completed sessions alone and once, and the original holds exactly the bytes
\* the phone hashed, as long as the power stays and one worker runs.
THEOREM AssetsAreBacked == ASSUME OneWorker, PowerStays PROVE Spec => []AssetBacked
  <1>1. Init => Copying /\ AssetBacked
    BY InitWorking
  <1>2. Coherent /\ Holding /\ Copying /\ AssetBacked /\ [Next]_vars => Copying' /\ AssetBacked'
    BY CopyingNext, AssetBackedNext
  <1>. QED
    BY <1>1, <1>2, AlwaysCoherent, AlwaysHolding, PTL DEF Spec

(***************************************************************************)
(* A chunk. Its file is replaced by the holder of the write lock before    *)
(* its row is committed.                                                   *)
(***************************************************************************)
Promoted ==
    \A h \in Handlers : handler[h].pc = "promoted" =>
        files[handler[h].s][handler[h].i] \in {"none", handler[h].d}

LEMMA PromotedIs ==
    ASSUME TypeOK, ~PowerLoss, [Next]_vars, NEW g \in Handlers, handler'[g].pc = "promoted"
    PROVE  \/ PromoteChunk(g)
           \/ /\ handler[g].pc = "promoted" /\ handler'[g].s = handler[g].s
              /\ handler'[g].i = handler[g].i /\ handler'[g].d = handler[g].d
  <1>0. handler \in [Handlers -> Request] /\ NoRequest.pc = "idle"
    BY DEF TypeOK, NoRequest
  <1>1. ASSUME NEW h \in Handlers, HandlerStep(h), ~PromoteChunk(h)
        PROVE  /\ handler[g].pc = "promoted" /\ handler'[g].s = handler[g].s
               /\ handler'[g].i = handler[g].i /\ handler'[g].d = handler[g].d
    <2>1. CASE CleanupTemporaryFiles(h)
      <3>1. handler'[g] = IF g = h THEN NoRequest ELSE Unstage(handler[h].s)[g]
        BY <2>1, Named DEF CleanupTemporaryFiles, Unstage
      <3>. QED
        BY <1>0, <3>1, Named, UnstageIs
    <2>2. CASE Accept(h) \/ AcceptChunk(h) \/ Capture(h)
      <3>1. handler'[h].pc # "promoted" /\ \A f \in Handlers \ {h} : handler'[f] = handler[f]
        BY ZenonT(60), <1>0, <2>2 DEF Accept, AcceptChunk, Capture, NoRequest, Request
      <3>. QED
        BY <3>1
    <2>3. CASE Done(h) \/ ThenGet(h) \/ Goto(h, "cleanup")
      <3>1. handler'[h].pc # "promoted" /\ \A f \in Handlers \ {h} : handler'[f] = handler[f]
        BY <1>0, <2>3 DEF Done, ThenGet, Goto, Request
      <3>. QED
        BY <3>1
    <2>. QED
      BY <1>1, <2>1, <2>2, <2>3 DEF HandlerStep, ReturnSession, CreateSession, GetSessionOrExpire,
         RefuseChunk, RepeatChunk, CommitChunk, FinalizeWithoutChange, RequeueFinalize,
         StartFinalize, CancelSession, RequestLost, Reply
  <1>2. ASSUME NEW h \in Handlers, PromoteChunk(h), g # h
        PROVE  handler'[g] = handler[g]
    BY <1>0, <1>2 DEF PromoteChunk
  <1>3. ASSUME NEW w \in Workers, WorkerStep(w)
        PROVE  /\ handler[g].pc = "promoted" /\ handler'[g].s = handler[g].s
               /\ handler'[g].i = handler[g].i /\ handler'[g].d = handler[g].d
    <2>1. handler' = handler \/ handler' = Unstage(worker[w].s)
      BY <1>3 DEF WorkerStep, ProcessJob, RecoverExpiredJobs, ClaimNextJob, ReadSession,
         EnsureFinalFile, OpenAssembly, CopyChunk, PromoteFinal, StorageFailure,
         CommitFinalization, CleanupAfterCommit, CleanupAssembly, MarkFinalizationFailed,
         WorkerCrash, OnlyWorker
    <2>. QED
      BY <2>1, Named, UnstageIs
  <1>4. CASE Tick \/ UNCHANGED vars
    BY <1>4 DEF Tick, vars
  <1>. QED
    BY <1>1, <1>2, <1>3, <1>4 DEF Next

LEMMA FileSteps ==
    ASSUME TypeOK, ~PowerLoss, [Next]_vars
    PROVE  \/ files' = files
           \/ \E h \in Handlers : PromoteChunk(h)
           \/ rows' = rows /\ \E s \in Sessions : files' = [files EXCEPT ![s] = NoChunks]
  <1>1. ASSUME NEW h \in Handlers, CleanupTemporaryFiles(h)
        PROVE  rows' = rows /\ \E s \in Sessions : files' = [files EXCEPT ![s] = NoChunks]
    BY <1>1, Named DEF CleanupTemporaryFiles, RemoveTemporaryFiles, database
  <1>2. ASSUME NEW w \in Workers, CleanupAfterCommit(w)
        PROVE  rows' = rows /\ \E s \in Sessions : files' = [files EXCEPT ![s] = NoChunks]
    BY <1>2, Named DEF CleanupAfterCommit, RemoveTemporaryFiles, database
  <1>3. ASSUME NEW h \in Handlers, HandlerStep(h), ~CleanupTemporaryFiles(h), ~PromoteChunk(h)
        PROVE  files' = files
    BY <1>3 DEF HandlerStep, Accept, AcceptChunk, Capture, ReturnSession, CreateSession,
       GetSessionOrExpire, RefuseChunk, RepeatChunk, CommitChunk, FinalizeWithoutChange,
       RequeueFinalize, StartFinalize, CancelSession, RequestLost, OnlyHandler, disk
  <1>4. ASSUME NEW w \in Workers, WorkerStep(w), ~CleanupAfterCommit(w)
        PROVE  files' = files
    BY <1>4 DEF WorkerStep, ProcessJob, RecoverExpiredJobs, ClaimNextJob, ReadSession,
       EnsureFinalFile, OpenAssembly, CopyChunk, PromoteFinal, StorageFailure,
       CommitFinalization, CleanupAssembly, MarkFinalizationFailed, WorkerCrash, OnlyWorker, disk
  <1>5. CASE Tick \/ UNCHANGED vars
    BY <1>5 DEF Tick, vars, disk
  <1>. QED
    BY <1>1, <1>2, <1>3, <1>4, <1>5 DEF Next

LEMMA PromotedNext ==
    ASSUME PowerStays, Coherent, Promoted, [Next]_vars
    PROVE  Promoted'
  <1> SUFFICES ASSUME NEW g \in Handlers, handler'[g].pc = "promoted"
               PROVE  files'[handler'[g].s][handler'[g].i] \in {"none", handler'[g].d}
    BY DEF Promoted
  <1>0. /\ handler[g].s \in Sessions /\ handler[g].i \in Chunks
        /\ files \in [Sessions -> File] /\ handler \in [Handlers -> Request]
        /\ handler[g] \in Request
    BY Named DEF Coherent, TypeOK
  <1>1. CASE PromoteChunk(g)
    <2>1. /\ handler'[g].s = handler[g].s /\ handler'[g].i = handler[g].i
          /\ handler'[g].d = handler[g].d
      BY <1>0, <1>1 DEF PromoteChunk, Request
    <2>2. files'[handler[g].s][handler[g].i] = handler[g].d
      BY <1>0, <1>1 DEF PromoteChunk, File
    <2>. QED
      BY <2>1, <2>2
  <1>2. CASE /\ handler[g].pc = "promoted" /\ handler'[g].s = handler[g].s
             /\ handler'[g].i = handler[g].i /\ handler'[g].d = handler[g].d
    <2>1. files[handler[g].s][handler[g].i] \in {"none", handler[g].d}
      BY <1>2 DEF Promoted
    <2>2. ~\E h \in Handlers : PromoteChunk(h)
      BY <1>2, UploadAssumptions DEF Coherent, LockHeld, PromoteChunk, Transaction
    <2>3. CASE \E s \in Sessions : files' = [files EXCEPT ![s] = NoChunks]
      BY <1>0, <1>2, <2>1, <2>3 DEF NoChunks
    <2>. QED
      BY <1>2, <2>1, <2>2, <2>3, FileSteps, StaysOn DEF Coherent
  <1>. QED
    BY <1>1, <1>2, PromotedIs, StaysOn DEF Coherent

LEMMA RowSteps ==
    ASSUME TypeOK, [Next]_vars
    PROVE  rows' = rows \/ \E h \in Handlers : CommitChunk(h)
  BY HandlerLeaves, WorkerKeepsHandlers DEF Next, Tick, PowerLoss, vars, database

LEMMA ChunksNext ==
    ASSUME PowerStays, Coherent, Promoted, ChunkFileMatchesRow, [Next]_vars
    PROVE  ChunkFileMatchesRow'
  <1>0. /\ files \in [Sessions -> File] /\ rows \in [Sessions -> [Chunks -> Row]]
        /\ \A h \in Handlers : handler[h].s \in Sessions /\ handler[h].i \in Chunks
    BY Named DEF Coherent, TypeOK
  <1>1. CASE \E h \in Handlers : CommitChunk(h)
    <2>1. PICK h \in Handlers : CommitChunk(h)
      BY <1>1
    <2>2. files' = files /\ handler[h].pc = "promoted"
          /\ rows' = [rows EXCEPT ![handler[h].s][handler[h].i] = handler[h].d]
      BY <2>1 DEF CommitChunk, disk
    <2>3. files[handler[h].s][handler[h].i] \in {"none", handler[h].d}
      BY <2>2 DEF Promoted
    <2>4. ASSUME NEW s \in Sessions, NEW i \in Chunks
          PROVE  rows'[s][i] = IF s = handler[h].s /\ i = handler[h].i
                               THEN handler[h].d ELSE rows[s][i]
      BY <1>0, <2>2
    <2>. QED
      BY <2>2, <2>3, <2>4 DEF ChunkFileMatchesRow
  <1>2. CASE rows' = rows
    <2>1. CASE files' = files
      BY <1>2, <2>1 DEF ChunkFileMatchesRow
    <2>2. CASE \E h \in Handlers : PromoteChunk(h)
      <3>1. PICK h \in Handlers : PromoteChunk(h)
        BY <2>2
      <3>2. rows[handler[h].s][handler[h].i] = "none"
            /\ files' = [files EXCEPT ![handler[h].s][handler[h].i] = handler[h].d]
        BY <3>1 DEF PromoteChunk
      <3>3. ASSUME NEW s \in Sessions, NEW i \in Chunks
            PROVE  files'[s][i] = IF s = handler[h].s /\ i = handler[h].i
                                  THEN handler[h].d ELSE files[s][i]
        BY <1>0, <3>2 DEF File
      <3>. QED
        BY <1>2, <3>2, <3>3 DEF ChunkFileMatchesRow
    <2>3. CASE \E s \in Sessions : files' = [files EXCEPT ![s] = NoChunks]
      BY <1>0, <1>2, <2>3 DEF ChunkFileMatchesRow, NoChunks
    <2>. QED
      BY <2>1, <2>2, <2>3, FileSteps, StaysOn DEF Coherent
  <1>. QED
    BY <1>1, <1>2, RowSteps DEF Coherent

\* A chunk file that is there holds the bytes its verified row was made for,
\* however many requests and workers there are, as long as the power stays.
THEOREM ChunkFilesMatchRows == ASSUME PowerStays PROVE Spec => []ChunkFileMatchesRow
  <1>1. Init => Promoted /\ ChunkFileMatchesRow
    BY DEF Init, Promoted, ChunkFileMatchesRow, NoRequest, NoChunks
  <1>2. Coherent /\ Promoted /\ ChunkFileMatchesRow /\ [Next]_vars
          => Promoted' /\ ChunkFileMatchesRow'
    BY PromotedNext, ChunksNext
  <1>. QED
    BY <1>1, <1>2, AlwaysCoherent, PTL DEF Spec

(***************************************************************************)
(* The limit on open sessions.                                             *)
(***************************************************************************)
LEMMA SessionsTyped ==
    ASSUME TypeOK, DescriptorsOpen, [Next]_vars
    PROVE  \A t \in Sessions : session[t] \in Session /\ session'[t] \in Session
  <1>1. CASE session' = session
    BY <1>1 DEF TypeOK
  <1>. QED
    BY <1>1, HandlerTypeOK, WorkerTypeOK DEF Next, Tick, PowerLoss, vars, database, TypeOK

Counted == {s \in Sessions : Active(session[s])}

LEMMA CountedNext ==
    ASSUME OneWorker, Coherent, Holding, [Next]_vars
    PROVE  \/ Counted' \subseteq Counted
           \/ \E h \in Handlers : Opens(h)
  <1>0. \A t \in Sessions : session[t] \in Session /\ session'[t] \in Session
    BY SessionsTyped DEF Coherent
  <1>1. ASSUME StagesKept PROVE Counted' \subseteq Counted
    BY <1>0, <1>1, StageIs DEF StagesKept, Counted
  <1>2. ASSUME NEW s \in Sessions, StageOf(session[s]) \in Unfinished,
               \A t \in Sessions \ {s} : session'[t] = session[t]
        PROVE  Counted' \subseteq Counted
    <2>1. Active(session[s])
      BY <1>0, <1>2, StageIs
    <2>. QED
      BY <1>2, <2>1 DEF Counted
  <1>3. ASSUME NEW h \in Handlers, HandlerStep(h), ~Opens(h)
        PROVE  Counted' \subseteq Counted
    <2>1. StagesKept \/ Goes(handler[h].s, {"open", "retryable"}, {"closed", "submitted"})
      BY <1>3, HandlerStages DEF Coherent
    <2>2. handler[h].s \in Sessions
      BY Named DEF Coherent
    <2>3. \/ StagesKept
          \/ /\ StageOf(session[handler[h].s]) \in Unfinished
             /\ \A t \in Sessions \ {handler[h].s} : session'[t] = session[t]
      BY <2>1 DEF Goes, Unfinished
    <2>. QED
      BY <1>1, <1>2, <2>2, <2>3
  <1>4. ASSUME NEW w \in Workers, WorkerStep(w)
        PROVE  Counted' \subseteq Counted
    <2>1. \/ StagesKept
          \/ Goes(worker[w].s, {"submitted"}, {"stored"})
          \/ Goes(worker[w].s, {"submitted"}, {"retryable", "rejected"})
      BY <1>4, WorkerStages DEF StagesKept
    <2>2. worker[w].s \in Sessions
      BY Named DEF Coherent
    <2>3. \/ StagesKept
          \/ /\ StageOf(session[worker[w].s]) \in Unfinished
             /\ \A t \in Sessions \ {worker[w].s} : session'[t] = session[t]
      BY <2>1 DEF Goes, Unfinished
    <2>. QED
      BY <1>1, <1>2, <2>2, <2>3
  <1>5. CASE Tick \/ PowerLoss \/ UNCHANGED vars
    BY <1>1, <1>5 DEF Tick, PowerLoss, vars, database, StagesKept
  <1>. QED
    BY <1>3, <1>4, <1>5 DEF Next

LEMMA LimitNext ==
    ASSUME OneWorker, Coherent, Holding, ActiveLimitKept, [Next]_vars
    PROVE  ActiveLimitKept'
  <1>0. IsFiniteSet(Counted) /\ ActiveLimit \in Nat
    BY UploadAssumptions, FS_Subset DEF Counted
  <1>1. CASE Counted' \subseteq Counted
    <2>1. Cardinality(Counted') <= Cardinality(Counted) /\ IsFiniteSet(Counted')
      BY <1>0, <1>1, FS_Subset
    <2>2. Cardinality(Counted) <= ActiveLimit
      BY DEF ActiveLimitKept, Counted
    <2>3. Cardinality(Counted) \in Nat /\ Cardinality(Counted') \in Nat
      BY <1>0, <2>1, FS_CardinalityType
    <2>4. Cardinality(Counted') <= ActiveLimit
      BY <1>0, <2>1, <2>2, <2>3
    <2>. QED
      BY <2>4 DEF ActiveLimitKept, Counted
  <1>2. CASE \E h \in Handlers : Opens(h)
    <2>1. PICK h \in Handlers : Opens(h)
      BY <1>2
    <2> DEFINE s == handler[h].s
               left == {t \in Sessions : Active(ExpireIfDue(session[t], handler[h].now))}
    <2>2. s \in Sessions /\ session[s].status = "none"
      BY <2>1, Named DEF Coherent, Opens
    <2>3. IsFiniteSet(left)
      BY UploadAssumptions, FS_Subset
    <2>4. Cardinality(left) < ActiveLimit
      <3>1. left = {t \in Sessions :
              Active([u \in Sessions |-> ExpireIfDue(session[u], handler[h].now)][t])}
        OBVIOUS
      <3>. QED
        BY <2>1, <3>1 DEF Opens
    <2>5. Counted' \subseteq left \cup {s}
      BY <2>1, <2>2 DEF Opens, Counted
    <2>6. s \notin left
      <3>1. session[s] \in Session /\ StageOf(session[s]) = "absent"
        BY <2>2, StageIs DEF Coherent, TypeOK
      <3>2. StageOf(ExpireIfDue(session[s], handler[h].now)) = "absent"
            /\ ExpireIfDue(session[s], handler[h].now) \in Session
        BY <3>1, ExpireStages
      <3>. QED
        BY <3>2, StageIs DEF Unfinished
    <2> HIDE DEF left
    <2>7. Cardinality(left \cup {s}) = Cardinality(left) + 1 /\ IsFiniteSet(left \cup {s})
      BY <2>3, <2>6, FS_AddElement
    <2>8. Cardinality(Counted') <= Cardinality(left \cup {s}) /\ IsFiniteSet(Counted')
      BY <2>5, <2>7, FS_Subset
    <2>9. Cardinality(left) \in Nat /\ Cardinality(Counted') \in Nat
      BY <2>3, <2>8, FS_CardinalityType
    <2>10. Cardinality(Counted') <= ActiveLimit
      BY <1>0, <2>4, <2>7, <2>8, <2>9
    <2>. QED
      BY <2>10 DEF ActiveLimitKept, Counted
  <1>. QED
    BY <1>1, <1>2, CountedNext

\* However many sessions there are and whatever expires, fails, is retried or
\* cancelled between them, at most the limit are open at once. A second worker
\* could break it: past its lease it may fail, with a code that can be retried, a
\* session that had stopped counting.
THEOREM LimitIsKept == ASSUME OneWorker PROVE Spec => []ActiveLimitKept
  <1>1. Init => ActiveLimitKept
    <2>1. ASSUME Init PROVE {s \in Sessions : Active(session[s])} = {}
      BY <2>1 DEF Init, NoSession, Active, Retryable
    <2>. QED
      BY <2>1, FS_EmptySet, UploadAssumptions DEF ActiveLimitKept
  <1>2. Coherent /\ Holding /\ ActiveLimitKept /\ [Next]_vars => ActiveLimitKept'
    BY LimitNext
  <1>. QED
    BY <1>1, <1>2, AlwaysCoherent, AlwaysHolding, PTL DEF Spec

-----------------------------------------------------------------------------
(***************************************************************************)
(* The contract. Given AssetBacked, what the client sees of the original   *)
(* is decided by the stage.                                                *)
(***************************************************************************)
Stages == [s \in Sessions |-> StageOf(session[s])]
Originals ==
    [s \in Sessions |-> IF session[s].status = "completed" THEN final[s] ELSE Absent]
Working == Coherent /\ Holding /\ Copying /\ AssetBacked /\ ActiveLimitKept

LEMMA OriginalsFollow ==
    ASSUME OneWorker, PowerStays, Working, [Next]_vars
    PROVE  /\ Originals = [s \in Sessions |-> IF Stages[s] = "stored" THEN Complete ELSE Absent]
           /\ Originals' = [s \in Sessions |-> IF Stages'[s] = "stored" THEN Complete ELSE Absent]
  <1>1. \A t \in Sessions : session[t] \in Session /\ session'[t] \in Session
    BY SessionsTyped DEF Working, Coherent
  <1>2. AssetBacked /\ AssetBacked'
    BY AssetBackedNext DEF Working
  <1>3. \A t \in Sessions :
          /\ session[t].status = "completed" <=> Stages[t] = "stored"
          /\ session'[t].status = "completed" <=> Stages'[t] = "stored"
    BY <1>1, StageIs DEF Stages
  <1>. QED
    BY <1>2, <1>3 DEF Originals, AssetBacked

LEMMA StagesMove ==
    ASSUME NEW s \in Sessions, NEW from, NEW to, Goes(s, from, to)
    PROVE  /\ Stages[s] \in from /\ Stages'[s] \in to
           /\ Stages' = [Stages EXCEPT ![s] = Stages'[s]]
  BY DEF Stages, Goes

LEMMA ContractMoves ==
    ASSUME OneWorker, PowerStays, Working, [Next]_vars, NEW s \in Sessions,
           NEW from, NEW to, Goes(s, from, to), "stored" \notin from \cup to
    PROVE  Contract!Move(s, from, to)
  <1>1. Stages' = [Stages EXCEPT ![s] = StageOf(session'[s])]
    BY DEF Stages, Goes
  <1>2. \A t \in Sessions : Stages'[t] = "stored" <=> Stages[t] = "stored"
    BY DEF Stages, Goes
  <1>3. Originals' = Originals
    BY <1>2, OriginalsFollow
  <1>. QED
    BY <1>1, <1>3 DEF Contract!Move, Goes, Stages, Originals

LEMMA ContractOpens ==
    ASSUME OneWorker, PowerStays, Working, [Next]_vars, NEW h \in Handlers, Opens(h)
    PROVE  Contract!Open(handler[h].s)
  <1> DEFINE s == handler[h].s
             gone == {t \in Sessions : Stages[t] \in {"open", "retryable"} /\ Stages'[t] = "closed"}
  <1>0. /\ \A t \in Sessions : session[t] \in Session /\ session'[t] \in Session
        /\ s \in Sessions /\ session[s].status = "none"
    BY Named, SessionsTyped DEF Working, Coherent, Opens
  <1>1. Stages[s] = "absent" /\ Stages'[s] = "open"
    BY <1>0, StageIs DEF Stages, Opens
  <1>2. ASSUME NEW t \in Sessions, t # s
        PROVE  \/ Stages'[t] = Stages[t]
               \/ Stages[t] \in {"open", "retryable"} /\ Stages'[t] = "closed"
    BY <1>0, <1>2, ExpireStages DEF Stages, Opens
  <1>3. Stages' = [t \in Sessions |->
          IF t = s THEN "open" ELSE IF t \in gone THEN "closed" ELSE Stages[t]]
    <2>1. Stages' = [t \in Sessions |-> Stages'[t]]
      BY DEF Stages
    <2>. QED
      BY <1>1, <1>2, <2>1
  <1>4. gone \in SUBSET {t \in Sessions : Stages[t] \in {"open", "retryable"}}
    OBVIOUS
  <1>5. Cardinality({t \in Sessions : Stages'[t] \in Unfinished}) <= ActiveLimit
    <2>1. ActiveLimitKept'
      BY LimitNext DEF Working
    <2>2. {t \in Sessions : Stages'[t] \in Unfinished} = {t \in Sessions : Active(session'[t])}
      BY <1>0, StageIs DEF Stages
    <2>. QED
      BY <2>1, <2>2 DEF ActiveLimitKept
  <1>6. Originals' = Originals
    <2>1. \A t \in Sessions : Stages'[t] = "stored" <=> Stages[t] = "stored"
      BY <1>1, <1>2
    <2>. QED
      BY <2>1, OriginalsFollow
  <1> HIDE DEF gone
  <1>7. \E g \in SUBSET {t \in Sessions : Stages[t] \in {"open", "retryable"}} :
          Stages' = [t \in Sessions |->
            IF t = s THEN "open" ELSE IF t \in g THEN "closed" ELSE Stages[t]]
    BY <1>3, <1>4
  <1>8. \A S : Contract!Cardinality(S) = Cardinality(S)
    BY DEF Contract!Cardinality, Cardinality, Contract!IsFiniteSet, IsFiniteSet
  <1>. QED
    BY <1>0, <1>1, <1>5, <1>6, <1>7, <1>8
       DEF Contract!Open, Contract!Closable, Contract!Unfinished, Unfinished, Stages, Originals

LEMMA ContractStores ==
    ASSUME OneWorker, PowerStays, Working, [Next]_vars, NEW s \in Sessions,
           Goes(s, {"submitted"}, {"stored"})
    PROVE  Contract!Store(s)
  <1>1. Stages[s] = "submitted" /\ Stages' = [Stages EXCEPT ![s] = "stored"]
    <2>1. Stages[s] \in {"submitted"} /\ Stages'[s] \in {"stored"}
          /\ Stages' = [Stages EXCEPT ![s] = Stages'[s]]
      BY StagesMove
    <2>. QED
      BY <2>1
  <1>2. Originals' = [Originals EXCEPT ![s] = Complete]
    <2>1. \A t \in Sessions : Stages'[t] = IF t = s THEN "stored" ELSE Stages[t]
      BY <1>1 DEF Stages
    <2>2. Originals = [t \in Sessions |-> IF Stages[t] = "stored" THEN Complete ELSE Absent]
          /\ Originals' = [t \in Sessions |-> IF Stages'[t] = "stored" THEN Complete ELSE Absent]
      BY OriginalsFollow
    <2>. QED
      BY <2>1, <2>2
  <1>. QED
    BY <1>1, <1>2 DEF Contract!Store, Stages, Originals

LEMMA ContractNext ==
    ASSUME OneWorker, PowerStays, Working, [Next]_vars
    PROVE  [Contract!Next]_<<Stages, Originals>>
  <1>1. CASE StagesKept
    <2>1. Stages' = Stages
      BY <1>1 DEF StagesKept, Stages
    <2>. QED
      BY <2>1, OriginalsFollow
  <1>2. ASSUME NEW h \in Handlers, HandlerStep(h), ~StagesKept
        PROVE  Contract!Next
    <2>0. handler[h].s \in Sessions
      BY Named DEF Working, Coherent
    <2>1. CASE Opens(h)
      BY <2>0, <2>1, ContractOpens DEF Contract!Next
    <2>2. CASE Goes(handler[h].s, {"open", "retryable"}, {"closed", "submitted"})
      <3>1. \/ Goes(handler[h].s, {"open", "retryable"}, {"closed"})
            \/ Goes(handler[h].s, {"open", "retryable"}, {"submitted"})
        BY <2>2 DEF Goes
      <3>2. \/ Contract!Move(handler[h].s, {"open", "retryable"}, {"closed"})
            \/ Contract!Move(handler[h].s, {"open", "retryable"}, {"submitted"})
        BY <2>0, <3>1, ContractMoves
      <3>. QED
        BY <2>0, <3>2 DEF Contract!Next, Contract!Submit, Contract!Close, Contract!Closable
    <2>. QED
      BY <1>2, <2>1, <2>2, HandlerStages DEF Working, Coherent
  <1>3. ASSUME NEW w \in Workers, WorkerStep(w), ~StagesKept
        PROVE  Contract!Next
    <2>0. worker[w].s \in Sessions
      BY Named DEF Working, Coherent
    <2>1. CASE Goes(worker[w].s, {"submitted"}, {"stored"})
      BY <2>0, <2>1, ContractStores DEF Contract!Next
    <2>2. CASE Goes(worker[w].s, {"submitted"}, {"retryable", "rejected"})
      <3>1. Contract!Move(worker[w].s, {"submitted"}, {"retryable", "rejected"})
        BY <2>0, <2>2, ContractMoves
      <3>. QED
        BY <2>0, <3>1 DEF Contract!Next, Contract!Fail
    <2>3. ~UNCHANGED <<session, assets, previews>>
      BY <1>3 DEF StagesKept
    <2>. QED
      BY <1>3, <2>1, <2>2, <2>3, WorkerStages DEF Working
  <1>4. CASE Tick \/ PowerLoss \/ UNCHANGED vars
    BY <1>1, <1>4 DEF Tick, PowerLoss, vars, database, StagesKept
  <1>. QED
    BY <1>1, <1>2, <1>3, <1>4 DEF Next

\* A resumable upload implements UploadContract: a session moves only forward,
\* what is stored is the file the phone hashed and stays, and the limit holds
\* at every opening, whatever requests, crashes and retries come in between.
THEOREM UploadImplementsContract ==
    ASSUME OneWorker, PowerStays PROVE Spec => ImplementsContract
  <1>1. Init => Contract!Init
    <2>1. ASSUME Init
          PROVE  Stages = [s \in Sessions |-> "absent"] /\ Originals = [s \in Sessions |-> Absent]
      BY <2>1, DefaultsTyped, StageIs DEF Init, NoSession, Stages, Originals
    <2>. QED
      BY <2>1 DEF Contract!Init, Stages, Originals
  <1>2. Working /\ [Next]_vars => [Contract!Next]_<<Stages, Originals>>
    BY ContractNext
  <1>3. Coherent /\ Holding /\ Copying /\ AssetBacked /\ ActiveLimitKept => Working
    BY DEF Working
  <1>4. Init => Copying
    BY InitWorking
  <1>5. Coherent /\ Holding /\ Copying /\ [Next]_vars => Copying'
    BY CopyingNext
  <1>. QED
    BY <1>1, <1>2, <1>3, <1>4, <1>5, AlwaysCoherent, AlwaysHolding, AssetsAreBacked, LimitIsKept,
       PTL DEF Spec, ImplementsContract, Contract!Spec, Stages, Originals

-----------------------------------------------------------------------------
(***************************************************************************)
(* The chunks of a session that can still complete. Any number of requests *)
(* overlap; a request in the middle of a chunk keeps its session from      *)
(* being expired or touched by others, but not from being cleaned up.      *)
(***************************************************************************)
RequestOK(h) ==
    LET r == handler[h] IN
    /\ r.pc \in {"ready", "promoted"} => r.now <= clock
    /\ r.pc = "cleanup" => session[r.s].status # "none"
    /\ r.pc = "promoted" => ~Due(session[r.s], r.now)
RequestsOK == \A h \in Handlers : RequestOK(h)
CleanOK == \A w \in Workers : worker[w].pc = "clean" => session[worker[w].s].status = "completed"
Unstarted == \A s \in Sessions : session[s].status = "none" => rows[s] = NoChunks
Chunked == Coherent /\ Holding /\ RequestsOK /\ CleanOK /\ Unstarted

LEMMA DueLater ==
    ASSUME NEW r \in Session, NEW a \in Nat, NEW b \in Nat, a <= b, Due(r, a)
    PROVE  Due(r, b)
  BY DEF Due, Session

Unsubmitted(r) == r.status \in Expirable \/ Retryable(r)
LEMMA InTime ==
    ASSUME NEW r \in Session, NEW now \in Nat, Unsubmitted(ExpireIfDue(r, now))
    PROVE  Unsubmitted(r) /\ ~Due(r, now) /\ now < r.expires
  <1>1. ~Due(r, now)
    BY DEF ExpireIfDue, Unsubmitted, Retryable, Session, Expirable
  <1>2. ExpireIfDue(r, now) = r
    BY <1>1 DEF ExpireIfDue
  <1>. QED
    BY <1>1, <1>2 DEF Due, Unsubmitted, Session

LEMMA FinalStays ==
    ASSUME TypeOK, DescriptorsOpen, [Next]_vars, NEW s \in Sessions, final[s] # Absent
    PROVE  final'[s] # Absent
  <1>0. final \in [Sessions -> File \cup {Absent}] /\ Absent \notin File /\ TornFile \in File
    BY UploadAssumptions, DefaultsTyped DEF TypeOK
  <1>1. CASE final' = final
    BY <1>1
  <1>2. CASE \E h \in Handlers : HandlerStep(h)
    BY <1>2, <1>1, HandlerLeaves
  <1>3. ASSUME NEW w \in Workers, CopyChunk(w) PROVE final'[s] # Absent
    <2> DEFINE t == worker[w].s  i == worker[w].next
    <2>1. CASE final' = [final EXCEPT ![t][i] = files[t][i]] /\ worker[w].fd = "final"
      <3>1. t \in Sessions /\ i \in Chunks
        <4>1. i \in 0 .. NumChunks /\ i < NumChunks /\ t \in Sessions
          BY <1>3, Named DEF CopyChunk, Process
        <4>. QED
          BY <4>1, UploadAssumptions DEF Chunks
      <3>2. final[t] \in File /\ files[t][i] \in Bytes
        BY <1>0, <2>1, <3>1 DEF DescriptorsOpen, TypeOK, File
      <3>3. [final[t] EXCEPT ![i] = files[t][i]] \in File
        BY <3>1, <3>2 DEF File
      <3>4. final'[s] = IF s = t THEN [final[t] EXCEPT ![i] = files[t][i]] ELSE final[s]
        BY <1>0, <2>1, <3>1
      <3>. QED
        BY <1>0, <3>3, <3>4
    <2>. QED
      BY <1>1, <1>3, <2>1 DEF CopyChunk, disk
  <1>4. ASSUME NEW w \in Workers, PromoteFinal(w) PROVE final'[s] # Absent
    BY <1>0, <1>1, <1>4 DEF PromoteFinal, disk
  <1>5. ASSUME NEW w \in Workers, WorkerStep(w), ~PromoteFinal(w), ~CopyChunk(w)
        PROVE  final' = final
    BY <1>5 DEF WorkerStep, ProcessJob, RecoverExpiredJobs, ClaimNextJob, ReadSession,
       EnsureFinalFile, OpenAssembly, StorageFailure, CommitFinalization, CleanupAfterCommit,
       CleanupAssembly, MarkFinalizationFailed, WorkerCrash, OnlyWorker, disk, RemoveTemporaryFiles
  <1>6. CASE PowerLoss
    BY <1>0, <1>6 DEF PowerLoss
  <1>7. CASE Tick \/ UNCHANGED vars
    BY <1>1, <1>7 DEF Tick, vars, disk
  <1>. QED
    BY <1>1, <1>2, <1>3, <1>4, <1>5, <1>6, <1>7 DEF Next

LEMMA Turns ==
    ASSUME TypeOK, NEW h \in Handlers, HandlerStep(h)
    PROVE  \/ handler'[h].pc \in {"idle", "begin"}
           \/ Capture(h) \/ PromoteChunk(h) \/ Goto(h, "cleanup")
  <1>0. handler \in [Handlers -> Request] /\ NoRequest.pc = "idle"
    BY DEF TypeOK, NoRequest
  <1>1. CASE Accept(h) \/ AcceptChunk(h)
    BY <1>0, <1>1 DEF Accept, AcceptChunk, NoRequest
  <1>2. CASE Done(h) \/ ThenGet(h)
    BY <1>0, <1>2 DEF Done, ThenGet, Request
  <1>3. CASE CleanupTemporaryFiles(h)
    BY <1>0, <1>3 DEF CleanupTemporaryFiles, Unstage
  <1>. QED
    BY <1>1, <1>2, <1>3 DEF HandlerStep, ReturnSession, CreateSession, GetSessionOrExpire,
       RefuseChunk, RepeatChunk, CommitChunk, FinalizeWithoutChange, RequeueFinalize,
       StartFinalize, CancelSession, RequestLost, Reply

LEMMA CleansUp ==
    ASSUME TypeOK, NEW h \in Handlers, RequestOK(h), HandlerStep(h), handler'[h].pc = "cleanup"
    PROVE  LET s == handler[h].s IN
           \/ session'[s].status \in {"expired", "cancelled"}
           \/ Due(session'[s], clock)
  <1> DEFINE s == handler[h].s
  <1>0. /\ s \in Sessions /\ session \in [Sessions -> Session] /\ handler \in [Handlers -> Request]
        /\ handler[h].now \in Nat /\ clock \in Nat /\ NoRequest.pc = "idle"
    BY Named DEF TypeOK, NoRequest
  <1>1. ~Done(h) /\ ~ThenGet(h) /\ ~Capture(h) /\ ~PromoteChunk(h)
    BY <1>0 DEF Done, ThenGet, Capture, PromoteChunk, Request
  <1>2. ~Accept(h) /\ ~AcceptChunk(h) /\ ~CleanupTemporaryFiles(h)
    BY <1>0 DEF Accept, AcceptChunk, NoRequest, CleanupTemporaryFiles, Unstage
  <1>3. ASSUME handler[h].pc = "ready", Current(h).status = "expired", session' = session
        PROVE  session'[s].status \in {"expired", "cancelled"} \/ Due(session'[s], clock)
    <2>1. session[s].status = "expired" \/ Due(session[s], handler[h].now)
      BY <1>3 DEF Current, ExpireIfDue
    <2>. QED
      BY <1>0, <1>3, <2>1, DueLater DEF RequestOK
  <1>4. CASE GetSessionOrExpire(h)
    BY <1>0, <1>1, <1>4 DEF GetSessionOrExpire, Reply
  <1>5. CASE CancelSession(h)
    <2>1. CASE Current(h).status = "expired"
      <3>1. session' = session /\ handler[h].pc = "ready"
        BY <1>5, <2>1 DEF CancelSession, Cancellable, Transaction
      <3>. QED
        BY <1>3, <2>1, <3>1
    <2>2. CASE Current(h).status # "expired"
      <3>1. session' = [session EXCEPT ![s].status = "cancelled"]
        BY <1>1, <1>5, <2>2 DEF CancelSession, Reply
      <3>. QED
        BY <1>0, <3>1 DEF Session
    <2>. QED
      BY <2>1, <2>2
  <1>6. CASE ReturnSession(h) \/ RefuseChunk(h) \/ FinalizeWithoutChange(h)
    BY <1>1, <1>3, <1>6 DEF ReturnSession, RefuseChunk, FinalizeWithoutChange, Reply, Transaction,
       OnlyHandler, database
  <1>. QED
    BY <1>1, <1>2, <1>4, <1>5, <1>6 DEF HandlerStep, CreateSession, RepeatChunk, CommitChunk,
       RequeueFinalize, StartFinalize, RequestLost

-----------------------------------------------------------------------------
LEMMA OtherRequests ==
    ASSUME TypeOK, NEW h \in Handlers, HandlerStep(h)
    PROVE  /\ clock' = clock
           /\ \A g \in Handlers \ {h} :
                /\ handler'[g].pc = handler[g].pc /\ handler'[g].s = handler[g].s
                /\ handler'[g].i = handler[g].i /\ handler'[g].now = handler[g].now
  <1>0. handler \in [Handlers -> Request] /\ handler[h].s \in Sessions
    BY Named DEF TypeOK
  <1>1. CASE CleanupTemporaryFiles(h)
    <2>1. /\ clock' = clock
          /\ \A g \in Handlers \ {h} : handler'[g] = Unstage(handler[h].s)[g]
      BY <1>0, <1>1 DEF CleanupTemporaryFiles, Unstage
    <2>. QED
      BY <1>0, <2>1, UnstageIs
  <1>2. CASE ~CleanupTemporaryFiles(h)
    <2>1. clock' = clock
      BY <1>2 DEF HandlerStep, Accept, AcceptChunk, Capture, ReturnSession, CreateSession,
         GetSessionOrExpire, RefuseChunk, RepeatChunk, PromoteChunk, CommitChunk,
         FinalizeWithoutChange, RequeueFinalize, StartFinalize, CancelSession, RequestLost,
         OnlyHandler
    <2>2. \E r : handler' = [handler EXCEPT ![h] = r]
      <3>1. CASE Accept(h) \/ AcceptChunk(h)
        BY <3>1 DEF Accept, AcceptChunk
      <3>2. CASE Capture(h)
        BY <3>2 DEF Capture
      <3>3. CASE PromoteChunk(h)
        BY <3>3 DEF PromoteChunk
      <3>4. CASE Done(h) \/ ThenGet(h) \/ Goto(h, "cleanup")
        BY <3>4 DEF Done, ThenGet, Goto
      <3>. QED
        BY <1>2, <3>1, <3>2, <3>3, <3>4 DEF HandlerStep, ReturnSession, CreateSession,
           GetSessionOrExpire, RefuseChunk, RepeatChunk, CommitChunk, FinalizeWithoutChange,
           RequeueFinalize, StartFinalize, CancelSession, RequestLost, Reply
    <2>. QED
      BY <1>0, <2>1, <2>2
  <1>. QED
    BY <1>1, <1>2

\* Nobody changes a session while a chunk of it waits for its commit.
LEMMA LockedOut ==
    ASSUME Coherent, NEW h \in Handlers, HandlerStep(h), NEW g \in Handlers \ {h},
           handler[g].pc = "promoted"
    PROVE  session' = session
  <1>1. writer = g /\ writer # h /\ writer # NoWriter /\ handler[h].pc # "promoted"
    BY UploadAssumptions DEF Coherent, LockHeld
  <1>. QED
    BY <1>1 DEF HandlerStep, Accept, AcceptChunk, Capture, ReturnSession, CreateSession,
       GetSessionOrExpire, RefuseChunk, RepeatChunk, PromoteChunk, CommitChunk,
       FinalizeWithoutChange, RequeueFinalize, StartFinalize, CancelSession,
       CleanupTemporaryFiles, RequestLost, OnlyHandler, Transaction, database

LEMMA HandlerOthers ==
    ASSUME Chunked, NEW h \in Handlers, HandlerStep(h)
    PROVE  /\ CleanOK' /\ Unstarted'
           /\ \A t \in Sessions : session'[t].status = "none" => session[t].status = "none"
  <1>1. CleanOK'
    <2>1. \A w \in Workers : worker'[w].pc = worker[w].pc /\ worker'[w].s = worker[w].s
      BY HandlerLeaves, OrphanIs, Named DEF Cleaned, Chunked, Coherent
    <2>2. \A w \in Workers : worker[w].s \in Sessions
      BY Named DEF Chunked, Coherent
    <2>. QED
      BY <2>1, <2>2, HandlerKeepsStored DEF Chunked, Coherent, CleanOK
  <1>2. ASSUME NEW t \in Sessions, session'[t].status = "none"
        PROVE  session[t].status = "none" /\ rows'[t] = rows[t]
    <2>0. session[t] \in Session /\ session'[t] \in Session
      BY HandlerTypeOK DEF Chunked, Coherent, TypeOK
    <2>1. StageOf(session'[t]) = "absent"
      BY <1>2, <2>0, StageIs
    <2>2. StageOf(session[t]) = "absent"
      <3>1. CASE StagesKept
        BY <2>1, <3>1 DEF StagesKept
      <3>2. CASE Opens(h)
        BY <2>0, <2>1, <3>2, ExpireStages DEF Opens
      <3>3. CASE Goes(handler[h].s, {"open", "retryable"}, {"closed", "submitted"})
        BY <2>1, <3>3 DEF Goes
      <3>. QED
        BY <3>1, <3>2, <3>3, HandlerStages DEF Chunked, Coherent
    <2>3. session[t].status = "none"
      BY <2>0, <2>2, StageIs DEF Session, Status
    <2>4. rows'[t] = rows[t]
      <3>1. CASE CommitChunk(h)
        <4>1. handler[h].s # t
          BY <2>3, <3>1 DEF CommitChunk, Chunked, Coherent, LockHeld, Uploadable
        <4>. QED
          BY <3>1, <4>1 DEF CommitChunk, Chunked, Coherent, TypeOK
      <3>. QED
        BY <3>1, HandlerLeaves DEF Chunked, Coherent
    <2>. QED
      BY <2>3, <2>4
  <1>. QED
    BY <1>1, <1>2 DEF Chunked, Unstarted

LEMMA HandlerRequestsOK ==
    ASSUME Chunked, NEW h \in Handlers, HandlerStep(h)
    PROVE  RequestsOK'
  <1>0. /\ handler \in [Handlers -> Request] /\ handler[h] \in Request /\ clock \in Nat
        /\ handler[h].s \in Sessions /\ handler[h].now \in Nat
        /\ session[handler[h].s] \in Session
        /\ RequestOK(h) /\ TypeOK /\ clock' = clock
    BY Named, OtherRequests DEF Chunked, Coherent, TypeOK, RequestsOK
  <1>1. ASSUME NEW g \in Handlers \ {h} PROVE RequestOK(g)'
    <2>1. RequestOK(g) /\ handler[g].s \in Sessions
      BY <1>0, Named DEF Chunked, RequestsOK
    <2>2. handler[g].pc = "promoted" => session' = session
      BY LockedOut DEF Chunked
    <2>3. session'[handler[g].s].status = "none" => session[handler[g].s].status = "none"
      BY <2>1, HandlerOthers
    <2>. QED
      BY <1>0, <2>1, <2>2, <2>3, OtherRequests DEF RequestOK
  <1>2. RequestOK(h)'
    <2>1. CASE handler'[h].pc \in {"idle", "begin"}
      BY <2>1 DEF RequestOK
    <2>2. CASE Capture(h)
      <3>1. handler'[h].pc = "ready" /\ handler'[h].now = clock
        BY <1>0, <2>2 DEF Capture, Request
      <3>. QED
        BY <1>0, <3>1 DEF RequestOK
    <2>3. CASE PromoteChunk(h)
      <3>1. /\ handler'[h].pc = "promoted" /\ handler'[h].now = handler[h].now
            /\ handler'[h].s = handler[h].s /\ session' = session /\ handler[h].pc = "ready"
            /\ Current(h).status \in Uploadable
        BY <1>0, <2>3 DEF PromoteChunk, Request, database, Transaction
      <3>2. ~Due(session[handler[h].s], handler[h].now)
        BY <1>0, <3>1, InTime DEF Current, Unsubmitted, Uploadable, Expirable
      <3>. QED
        BY <1>0, <3>1, <3>2 DEF RequestOK
    <2>4. CASE Goto(h, "cleanup")
      <3>1. handler'[h].pc = "cleanup" /\ handler'[h].s = handler[h].s
        BY <1>0, <2>4 DEF Goto, Request
      <3>2. \/ session'[handler[h].s].status \in {"expired", "cancelled"}
            \/ Due(session'[handler[h].s], clock)
        BY <1>0, <3>1, CleansUp
      <3>. QED
        BY <3>1, <3>2 DEF RequestOK, Due, Retryable, Expirable
    <2>. QED
      BY <1>0, <2>1, <2>2, <2>3, <2>4, Turns
  <1>. QED
    BY <1>1, <1>2 DEF RequestsOK

-----------------------------------------------------------------------------
(***************************************************************************)
(* The steps of a request. A session that can complete after the step      *)
(* could before it, or is new: whoever prolongs one that had expired is    *)
(* the late request of Revived.                                            *)
(***************************************************************************)
LEMMA StillCompletes ==
    ASSUME Chunked, NEW h \in Handlers, HandlerStep(h), NEW t \in Sessions, ~Revived(t),
           CanComplete(t)'
    PROVE  CanComplete(t) \/ (session[t].status = "none" /\ CreateSession(h))
  <1> DEFINE s == handler[h].s  now == handler[h].now
  <1>0. /\ s \in Sessions /\ now \in Nat /\ clock \in Nat /\ clock' = clock /\ Expiry \in Nat
        /\ session \in [Sessions -> Session] /\ session[s] \in Session /\ session[t] \in Session
        /\ TypeOK
    BY Named, OtherRequests, UploadAssumptions DEF Chunked, Coherent, TypeOK
  <1>1. CASE session'[t] = session[t]
    BY <1>0, <1>1 DEF CanComplete
  <1>2. CASE session'[t] = ExpireIfDue(session[t], now)
    <2>1. session'[t] = session[t] \/ session'[t] = [session[t] EXCEPT !.status = "expired"]
      BY <1>2 DEF ExpireIfDue
    <2>2. session'[t] # [session[t] EXCEPT !.status = "expired"]
      BY <1>0 DEF CanComplete, Retryable, Expirable, Session
    <2>. QED
      BY <1>1, <2>1, <2>2
  <1>3. ASSUME Unsubmitted(session[s]), now < session[s].expires, t = s,
               handler[h].pc \in {"ready", "promoted"}, session'[s].expires = now + Expiry
        PROVE  CanComplete(t)
    <2>1. ~(session[s].expires <= clock)
      BY <1>3 DEF Revived
    <2>2. session[s].expires > clock
      BY <1>0, <2>1 DEF Session
    <2>. QED
      BY <1>3, <2>2 DEF CanComplete, Unsubmitted
  <1>4. CASE CreateSession(h)
    <2>1. \/ session' = session
          \/ /\ session[s].status = "none"
             /\ session' = [[u \in Sessions |-> ExpireIfDue(session[u], now)]
                  EXCEPT ![s] = Touched([NoSession EXCEPT !.status = "created"], h)]
      BY <1>4 DEF CreateSession
    <2>2. \/ session'[t] = session[t] \/ session'[t] = ExpireIfDue(session[t], now)
          \/ t = s /\ session[s].status = "none"
      BY <2>1
    <2>. QED
      BY <1>1, <1>2, <1>4, <2>2
  <1>5. CASE GetSessionOrExpire(h)
    <2>1. session'[t] = IF t = s THEN ExpireIfDue(session[t], now) ELSE session[t]
      BY <1>0, <1>5 DEF GetSessionOrExpire, Current
    <2>. QED
      BY <1>1, <1>2, <2>1
  <1>6. CASE RepeatChunk(h)
    <2>1. /\ handler[h].pc = "ready" /\ \A u \in Sessions \ {s} : session'[u] = session[u]
          /\ session'[s] = Touched(session[s], h) /\ Current(h).status \in Uploadable
      BY <1>0, <1>6 DEF RepeatChunk, Transaction
    <2>2. Unsubmitted(session[s]) /\ now < session[s].expires
      BY <1>0, <2>1, InTime DEF Current, Unsubmitted, Uploadable, Expirable
    <2>3. session'[s].expires = now + Expiry
      BY <1>0, <2>1, TouchedIs
    <2>. QED
      BY <1>1, <1>3, <2>1, <2>2, <2>3
  <1>7. CASE CommitChunk(h)
    <2>1. PICK st \in {"ready_to_finalize", "uploading"} :
            session' = [session EXCEPT ![s] = [Touched(session[s], h) EXCEPT !.status = st]]
      BY <1>7 DEF CommitChunk
    <2>2. /\ handler[h].pc = "promoted" /\ \A u \in Sessions \ {s} : session'[u] = session[u]
          /\ session'[s] = [Touched(session[s], h) EXCEPT !.status = st]
      BY <1>0, <1>7, <2>1 DEF CommitChunk
    <2>3. Unsubmitted(session[s]) /\ ~Due(session[s], now)
      BY <2>2 DEF Chunked, RequestsOK, RequestOK, Coherent, LockHeld, Unsubmitted, Uploadable,
         Expirable
    <2>4. now < session[s].expires
      BY <1>0, <2>3 DEF Due, Unsubmitted, Session
    <2>5. session'[s].expires = now + Expiry
      BY <1>0, <2>2, TouchedIs DEF Session
    <2>. QED
      BY <1>1, <1>3, <2>2, <2>3, <2>4, <2>5
  <1>8. CASE RequeueFinalize(h) \/ StartFinalize(h)
    <2>1. /\ handler[h].pc = "ready" /\ \A u \in Sessions \ {s} : session'[u] = session[u]
          /\ session'[s] = [Touched(session[s], h) EXCEPT !.status = "assembling", !.failure = "none"]
          /\ Unsubmitted(Current(h))
      BY <1>0, <1>8 DEF RequeueFinalize, StartFinalize, Transaction, Unsubmitted
    <2>2. Unsubmitted(session[s]) /\ now < session[s].expires
      BY <1>0, <2>1, InTime DEF Current
    <2>3. session'[s].expires = now + Expiry
      BY <1>0, <2>1, TouchedIs DEF Session
    <2>. QED
      BY <1>1, <1>3, <2>1, <2>2, <2>3
  <1>9. CASE CancelSession(h)
    <2>1. CASE session' = [session EXCEPT ![s].status = "cancelled"]
      <3>1. session'[t] = IF t = s THEN [session[s] EXCEPT !.status = "cancelled"] ELSE session[t]
        BY <1>0, <2>1
      <3>2. t # s
        BY <1>0, <3>1 DEF CanComplete, Retryable, Expirable, Session
      <3>. QED
        BY <1>1, <3>1, <3>2
    <2>. QED
      BY <1>1, <1>9, <2>1 DEF CancelSession
  <1>. QED
    BY <1>1, <1>4, <1>5, <1>6, <1>7, <1>8, <1>9 DEF HandlerStep, Accept, AcceptChunk, Capture,
       ReturnSession, RefuseChunk, PromoteChunk, FinalizeWithoutChange, CleanupTemporaryFiles,
       RequestLost, OnlyHandler, database

\* The files a request leaves, of a session whose chunks are safe.
LEMMA HandlerFiles ==
    ASSUME Chunked, NEW h \in Handlers, HandlerStep(h), NEW t \in Sessions,
           ChunksSafe(t), CanComplete(t)
    PROVE  /\ \A i \in Chunks : files[t][i] # "none" => files'[t][i] # "none"
           /\ \A i \in Chunks :
                rows'[t][i] # "none" => rows[t][i] # "none" \/ files'[t][i] # "none"
  <1> DEFINE s == handler[h].s  i == handler[h].i
  <1>0. /\ s \in Sessions /\ i \in Chunks /\ handler[h].d \in Data
        /\ files \in [Sessions -> File] /\ rows \in [Sessions -> [Chunks -> Row]]
    BY Named DEF Chunked, Coherent, TypeOK
  <1>1. CASE CleanupTemporaryFiles(h)
    <2>1. /\ handler[h].pc = "cleanup" /\ files' = [files EXCEPT ![s] = NoChunks] /\ rows' = rows
      BY <1>1 DEF CleanupTemporaryFiles, RemoveTemporaryFiles, database
    <2>2. s # t
      BY <2>1 DEF ChunksSafe
    <2>. QED
      BY <1>0, <2>1, <2>2
  <1>2. CASE PromoteChunk(h)
    <2>1. rows' = rows /\ files' = [files EXCEPT ![s][i] = handler[h].d]
      BY <1>2 DEF PromoteChunk, database
    <2>2. \A k \in Chunks : files'[t][k] = IF t = s /\ k = i THEN handler[h].d ELSE files[t][k]
      BY <1>0, <2>1 DEF File
    <2>. QED
      BY <1>0, <2>1, <2>2 DEF Data
  <1>3. CASE CommitChunk(h)
    <2>1. /\ files' = files /\ rows' = [rows EXCEPT ![s][i] = handler[h].d]
          /\ handler[h].pc = "promoted"
      BY <1>3 DEF CommitChunk, disk
    <2>2. \A k \in Chunks : rows'[t][k] = IF t = s /\ k = i THEN handler[h].d ELSE rows[t][k]
      BY <1>0, <2>1
    <2>3. t = s => files[t][i] # "none"
      BY <2>1 DEF ChunksSafe
    <2>. QED
      BY <2>1, <2>2, <2>3
  <1>4. CASE rows' = rows /\ files' = files
    BY <1>4
  <1>. QED
    BY <1>1, <1>2, <1>3, <1>4 DEF HandlerStep, Accept, AcceptChunk, Capture, ReturnSession,
       CreateSession, GetSessionOrExpire, RefuseChunk, RepeatChunk, FinalizeWithoutChange,
       RequeueFinalize, StartFinalize, CancelSession, RequestLost, OnlyHandler, database, disk

LEMMA HandlerSafe ==
    ASSUME Chunked, NEW h \in Handlers, HandlerStep(h), NEW t \in Sessions,
           ChunksSafe(t), ~Revived(t)
    PROVE  ChunksSafe(t)'
  <1> SUFFICES ASSUME CanComplete(t)'
               PROVE  /\ \/ final'[t] # Absent
                         \/ \A i \in Chunks : rows'[t][i] # "none" => files'[t][i] # "none"
                      /\ \A g \in Handlers : handler'[g].s = t =>
                           /\ handler'[g].pc # "cleanup"
                           /\ handler'[g].pc = "promoted" => files'[t][handler'[g].i] # "none"
    BY DEF ChunksSafe
  <1>0. /\ TypeOK /\ handler \in [Handlers -> Request] /\ handler[h] \in Request
        /\ handler[h].s \in Sessions /\ clock' = clock /\ final' = final
        /\ handler[h].i \in Chunks /\ handler[h].d \in Data /\ files \in [Sessions -> File]
        /\ \A g \in Handlers : RequestOK(g) /\ handler[g].i \in Chunks
    BY Named, OtherRequests, HandlerLeaves DEF Chunked, Coherent, TypeOK, RequestsOK
  <1>1. CASE CanComplete(t)
    <2>1. \/ final'[t] # Absent
          \/ \A i \in Chunks : rows'[t][i] # "none" => files'[t][i] # "none"
      BY <1>0, <1>1, HandlerFiles DEF ChunksSafe
    <2>2. ASSUME NEW g \in Handlers \ {h}, handler'[g].s = t
          PROVE  /\ handler'[g].pc # "cleanup"
                 /\ handler'[g].pc = "promoted" => files'[t][handler'[g].i] # "none"
      BY <1>0, <1>1, <2>2, OtherRequests, HandlerFiles DEF ChunksSafe
    <2>3. ASSUME handler'[h].s = t
          PROVE  /\ handler'[h].pc # "cleanup"
                 /\ handler'[h].pc = "promoted" => files'[t][handler'[h].i] # "none"
      <3>1. CASE handler'[h].pc \in {"idle", "begin"}
        BY <3>1
      <3>2. CASE Capture(h)
        BY <1>0, <3>2 DEF Capture, Request
      <3>3. CASE PromoteChunk(h)
        <4>1. /\ handler'[h].pc = "promoted" /\ handler'[h].s = handler[h].s
              /\ handler'[h].i = handler[h].i
              /\ files' = [files EXCEPT ![handler[h].s][handler[h].i] = handler[h].d]
          BY <1>0, <3>3 DEF PromoteChunk, Request
        <4>. QED
          BY <1>0, <2>3, <4>1 DEF File, Data
      <3>4. CASE Goto(h, "cleanup")
        <4>1. handler'[h].pc = "cleanup" /\ handler'[h].s = handler[h].s
          BY <1>0, <3>4 DEF Goto, Request
        <4>2. session'[t].status \in {"expired", "cancelled"} \/ Due(session'[t], clock)
          BY <1>0, <2>3, <4>1, CleansUp
        <4>3. session'[t] \in Session /\ clock \in Nat
          BY <1>0, HandlerTypeOK DEF TypeOK
        <4>. QED
          BY <1>0, <4>2, <4>3 DEF CanComplete, Due, Retryable, Expirable, Session
      <3>. QED
        BY <1>0, <3>1, <3>2, <3>3, <3>4, Turns
    <2>. QED
      BY <2>1, <2>2, <2>3
  <1>2. CASE session[t].status = "none" /\ CreateSession(h)
    <2>1. \A i \in Chunks : rows'[t][i] = "none"
      BY <1>2 DEF CreateSession, Chunked, Unstarted, NoChunks
    <2>2. handler'[h].pc \in {"idle", "begin"}
      BY <1>0, <1>2 DEF CreateSession, Done, ThenGet, NoRequest, Request
    <2>3. ASSUME NEW g \in Handlers \ {h}, handler'[g].s = t
          PROVE  handler'[g].pc \notin {"cleanup", "promoted"}
      BY <1>0, <1>2, <2>3, OtherRequests DEF RequestOK, Chunked, Coherent, LockHeld, Uploadable
    <2>. QED
      BY <2>1, <2>2, <2>3
  <1>. QED
    BY <1>1, <1>2, StillCompletes

-----------------------------------------------------------------------------
LEMMA WorkerSessions ==
    ASSUME Coherent, Holding, NEW w \in Workers, WorkerStep(w), NEW t \in Sessions,
           session[t].status # "assembling"
    PROVE  session'[t] = session[t]
  <1>1. StageOf(session[t]) # "submitted"
    BY StageIs DEF Coherent, TypeOK, Session, Status
  <1>. QED
    BY <1>1, WorkerStages DEF Goes

LEMMA WorkerChunked ==
    ASSUME OneWorker, Chunked, NEW w \in Workers, WorkerStep(w)
    PROVE  RequestsOK' /\ CleanOK' /\ Unstarted'
  <1> DEFINE s == worker[w].s
  <1>0. /\ s \in Sessions /\ TypeOK /\ rows' = rows /\ worker[w] \in Process
        /\ files \in [Sessions -> File] /\ session \in [Sessions -> Session]
        /\ session' \in [Sessions -> Session]
    BY Named, WorkerTypeOK, WorkerKeepsHandlers DEF Chunked, Coherent, TypeOK
  <1>1. clock' = clock
    BY DEF WorkerStep, ProcessJob, RecoverExpiredJobs, ClaimNextJob, ReadSession, EnsureFinalFile,
       OpenAssembly, CopyChunk, PromoteFinal, StorageFailure, CommitFinalization,
       CleanupAfterCommit, CleanupAssembly, MarkFinalizationFailed, WorkerCrash, OnlyWorker
  <1>2. \A h \in Handlers :
          /\ handler'[h].pc = handler[h].pc /\ handler'[h].s = handler[h].s
          /\ handler'[h].i = handler[h].i /\ handler'[h].now = handler[h].now
    <2>1. handler' = handler \/ handler' = Unstage(s)
      BY DEF WorkerStep, ProcessJob, RecoverExpiredJobs, ClaimNextJob, ReadSession,
         EnsureFinalFile, OpenAssembly, CopyChunk, PromoteFinal, StorageFailure,
         CommitFinalization, CleanupAfterCommit, CleanupAssembly, MarkFinalizationFailed,
         WorkerCrash, OnlyWorker
    <2>. QED
      BY <1>0, <2>1, UnstageIs
  <1>3. ASSUME NEW t \in Sessions, session'[t].status = "none"
        PROVE  session[t].status = "none"
    <2>1. StageOf(session'[t]) = "absent" /\ session[t] \in Session
      BY <1>0, <1>3, StageIs
    <2>2. session'[t] = session[t]
      BY <2>1, WorkerStages DEF Chunked, Goes
    <2>. QED
      BY <1>3, <2>2
  <1>4. RequestsOK'
    <2> SUFFICES ASSUME NEW h \in Handlers PROVE RequestOK(h)'
      BY DEF RequestsOK
    <2>1. RequestOK(h) /\ handler[h].s \in Sessions
      BY <1>0, Named DEF Chunked, RequestsOK
    <2>2. handler[h].pc = "promoted" => session'[handler[h].s] = session[handler[h].s]
      BY <2>1, WorkerSessions DEF Chunked, Coherent, LockHeld, Uploadable
    <2>. QED
      BY <1>1, <1>2, <1>3, <2>1, <2>2 DEF RequestOK
  <1>5. CleanOK'
    <2> SUFFICES ASSUME worker'[w].pc = "clean"
                 PROVE  session'[worker'[w].s].status = "completed"
      BY DEF CleanOK, OneWorker
    <2>1. CommitFinalization(w)
      <3>1. \A pc : WorkerGoto(w, pc) => worker'[w].pc = pc
        BY <1>0, GotoIs
      <3>2. \A code : Fail(w, code) => worker'[w].pc = "failing"
        BY <1>0, FailIs
      <3>3. worker' = [worker EXCEPT ![w] = NoProcess] => worker'[w].pc = "idle"
        BY <1>0, StopIs
      <3>4. \A u \in Sessions :
              worker' = [worker EXCEPT ![w].pc = "claimed", ![w].s = u] => worker'[w].pc = "claimed"
        BY <1>0 DEF TypeOK, Process
      <3>5. worker' = [worker EXCEPT ![w].pc = "marking", ![w].code = "session_not_assembling"]
              => worker'[w].pc = "marking"
        BY <1>0 DEF TypeOK, Process
      <3>6. CleanupAssembly(w) => worker'[w].pc = "marking"
        BY <1>0, CleanupTyped DEF CleanupAssembly, Process
      <3>7. CleanupAfterCommit(w) => worker'[w].pc = "idle"
        BY DEF CleanupAfterCommit, NoProcess, Orphan
      <3>8. OpenAssembly(w) => worker'[w].pc = "copy"
        BY <1>0 DEF OpenAssembly, TypeOK, Process
      <3>9. CopyChunk(w) => worker'[w].pc # "clean"
        <4>1. worker' = [worker EXCEPT ![w].next = worker[w].next + 1]
                => worker'[w].pc = worker[w].pc
          BY <1>0 DEF TypeOK, Process
        <4>. QED
          BY <3>2, <4>1 DEF CopyChunk
      <3>10. PromoteFinal(w) => worker'[w].pc # "clean"
        <4>1. worker'[w] = [worker[w] EXCEPT !.pc = "commit", !.fd = "none"]
                => worker'[w].pc # "clean"
          BY <1>0 DEF Process
        <4>. QED
          BY <3>2, <4>1 DEF PromoteFinal
      <3>. QED
        BY <3>1, <3>2, <3>3, <3>4, <3>5, <3>6, <3>7, <3>8, <3>9, <3>10 DEF WorkerStep, ProcessJob,
           RecoverExpiredJobs, ClaimNextJob, ReadSession, EnsureFinalFile, StorageFailure,
           MarkFinalizationFailed, WorkerCrash
    <2>2. session[s].status = "assembling"
      BY <2>1, HeldAssembles DEF CommitFinalization, BusyPc, Chunked
    <2>3. /\ session' = [session EXCEPT ![s].status = "completed", ![s].failure = "none"]
          /\ WorkerGoto(w, "clean")
      BY <2>1, <2>2 DEF CommitFinalization
    <2>4. worker'[w].s = s
      BY <1>0, <2>3, GotoIs
    <2>. QED
      BY <1>0, <2>3, <2>4 DEF Session
  <1>6. Unstarted'
    BY <1>0, <1>3 DEF Chunked, Unstarted
  <1>. QED
    BY <1>4, <1>5, <1>6

LEMMA WorkerSafe ==
    ASSUME Chunked, NEW w \in Workers, WorkerStep(w), NEW t \in Sessions, ChunksSafe(t)
    PROVE  ChunksSafe(t)'
  <1> DEFINE s == worker[w].s
  <1>0. /\ s \in Sessions /\ TypeOK /\ DescriptorsOpen /\ [Next]_vars
        /\ files \in [Sessions -> File] /\ rows' = rows
        /\ \A h \in Handlers : handler[h].i \in Chunks
    BY Named, WorkerKeepsHandlers DEF Chunked, Coherent, TypeOK, Next
  <1>1. /\ clock' = clock
        /\ handler' = handler \/ handler' = Unstage(s)
        /\ CleanupAfterCommit(w) \/ files' = files
    BY DEF WorkerStep, ProcessJob, RecoverExpiredJobs, ClaimNextJob, ReadSession,
       EnsureFinalFile, OpenAssembly, CopyChunk, PromoteFinal, StorageFailure,
       CommitFinalization, CleanupAfterCommit, CleanupAssembly, MarkFinalizationFailed,
       WorkerCrash, OnlyWorker, disk
  <1>2. \A h \in Handlers :
          /\ handler'[h].pc = handler[h].pc /\ handler'[h].s = handler[h].s
          /\ handler'[h].i = handler[h].i
    BY <1>0, <1>1, UnstageIs
  <1> SUFFICES ASSUME CanComplete(t)'
               PROVE  ChunksSafe(t)'
    BY DEF ChunksSafe
  <1>3. CanComplete(t)
    <2>1. CASE session[t].status = "assembling"
      BY <2>1 DEF CanComplete
    <2>2. CASE session[t].status # "assembling"
      <3>1. Coherent /\ Holding
        BY DEF Chunked
      <3>2. session'[t] = session[t]
        BY <2>2, <3>1, WorkerSessions
      <3>. QED
        BY <1>1, <3>2 DEF CanComplete
    <2>. QED
      BY <2>1, <2>2
  <1>4. files'[t] = files[t]
    <2>1. CASE CleanupAfterCommit(w)
      <3>1. files' = [files EXCEPT ![s] = NoChunks] /\ session[s].status = "completed"
        BY <2>1 DEF CleanupAfterCommit, RemoveTemporaryFiles, Chunked, CleanOK
      <3>2. s # t
        BY <1>3, <3>1 DEF CanComplete, Retryable, Expirable
      <3>. QED
        BY <1>0, <3>1, <3>2
    <2>. QED
      BY <1>1, <2>1
  <1>. QED
    BY <1>0, <1>2, <1>3, <1>4, FinalStays DEF ChunksSafe

LEMMA BackgroundChunked ==
    ASSUME Chunked, Tick \/ PowerLoss \/ UNCHANGED vars
    PROVE  /\ RequestsOK' /\ CleanOK' /\ Unstarted'
           /\ \A t \in Sessions : ChunksSafe(t) => ChunksSafe(t)'
  <1>0. /\ TypeOK /\ clock \in Nat /\ clock' \in Nat /\ clock <= clock'
        /\ UNCHANGED <<session, rows>>
        /\ \A t \in Sessions : session[t] \in Session
    BY DEF Chunked, Coherent, TypeOK, Tick, PowerLoss, vars, database
  <1>1. ASSUME NEW t \in Sessions, CanComplete(t)' PROVE CanComplete(t)
    BY <1>0, <1>1 DEF CanComplete, Session
  <1>2. CASE Tick \/ UNCHANGED vars
    <2>1. UNCHANGED <<files, final, handler, worker>>
      BY <1>2 DEF Tick, vars, disk
    <2>2. RequestsOK'
      BY <1>0, <2>1, Named DEF Chunked, RequestsOK, RequestOK
    <2>. QED
      BY <1>0, <1>1, <2>1, <2>2 DEF Chunked, CleanOK, Unstarted, ChunksSafe
  <1>3. CASE PowerLoss
    <2>1. /\ \A h \in Handlers : handler'[h].pc = "idle"
          /\ \A w \in Workers : worker'[w].pc = "idle"
      BY <1>3 DEF PowerLoss, NoRequest, NoProcess
    <2>2. ASSUME NEW t \in Sessions, ChunksSafe(t) PROVE ChunksSafe(t)'
      <3>0. DescriptorsOpen /\ [Next]_vars
        BY <1>3 DEF Chunked, Coherent, Next
      <3>1. final[t] # Absent => final'[t] # Absent
        BY <1>0, <3>0, FinalStays
      <3>2. ASSUME NEW k \in Chunks, files'[t][k] = "none" PROVE files[t][k] = "none"
        BY <1>0, <1>3, <3>2 DEF PowerLoss, TypeOK, File
      <3>. QED
        BY <1>0, <1>1, <2>1, <2>2, <3>1, <3>2 DEF ChunksSafe
    <2>. QED
      BY <1>0, <2>1, <2>2 DEF Chunked, RequestsOK, RequestOK, CleanOK, Unstarted
  <1>. QED
    BY <1>2, <1>3

\* However many requests overlap, the verified chunks of a session that can
\* still complete stay there, with nobody about to remove them, unless a request
\* that captured the time before the session expired revives it after.
THEOREM ChunksOfLiveSessions == ASSUME OneWorker PROVE Spec => ChunksStaySafe
  <1> DEFINE Kept == RequestsOK /\ CleanOK /\ Unstarted
             Step == \A s \in Sessions : ChunksSafe(s) => ChunksSafe(s)' \/ Revived(s)
  <1>1. Init => Kept
    BY DEF Init, RequestsOK, RequestOK, CleanOK, Unstarted, NoRequest, NoProcess
  <1>2. ASSUME Chunked, [Next]_vars PROVE RequestsOK' /\ CleanOK' /\ Unstarted'
    BY <1>2, HandlerRequestsOK, HandlerOthers, WorkerChunked, BackgroundChunked DEF Next
  <1>3. ASSUME Chunked, [Next]_vars PROVE Step
    BY <1>3, HandlerSafe, WorkerSafe, BackgroundChunked DEF Next
  <1>4. Coherent /\ Holding /\ Kept /\ [Next]_vars => Kept' /\ [Step]_vars
    BY <1>2, <1>3 DEF Chunked
  <1>. QED
    BY <1>1, <1>4, AlwaysCoherent, AlwaysHolding, PTL DEF Spec, ChunksStaySafe
=============================================================================

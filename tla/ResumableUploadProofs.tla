----------------------- MODULE ResumableUploadProofs -----------------------
EXTENDS ResumableUpload, TLAPS

LEMMA DefaultsTyped ==
    /\ AnySession \in Sessions
    /\ NoRequest \in Request
    /\ NoProcess \in Process
    /\ NoChunks \in File /\ NoChunks \in [Chunks -> Row] /\ TornFile \in File
    /\ NoSession \in Session /\ NoJob \in Job
<1>1. AnySession \in Sessions
  BY UploadAssumptions DEF AnySession
<1>2. 0 \in Chunks
  BY UploadAssumptions DEF Chunks
<1>3. 0 \in 0 .. NumChunks
  BY UploadAssumptions
<1>4. QED
  BY <1>1, <1>2, <1>3 DEF NoRequest, Request, Operation, Data, NoProcess, Process, FailureCode,
     RetryableCodes, NoChunks, TornFile, File, Bytes, Row, NoSession, Session, Status, Expirable,
     NoJob, Job

LEMMA TouchedTyped ==
    ASSUME TypeOK, NEW h \in Handlers, NEW r \in Session
    PROVE  Touched(r, h) \in Session
<1>1. handler[h].now \in Nat
  BY DEF TypeOK, Request
<1>2. handler[h].now + Expiry \in Nat
  BY <1>1, UploadAssumptions
<1>3. QED
  BY <1>2 DEF Touched, Session

LEMMA ExpireTyped ==
    ASSUME NEW r \in Session, NEW now
    PROVE  ExpireIfDue(r, now) \in Session
BY DEF ExpireIfDue, Session, Status

LEMMA CurrentTyped ==
    ASSUME TypeOK, NEW h \in Handlers
    PROVE  Current(h) \in Session /\ handler[h] \in Request /\ handler[h].s \in Sessions
BY ExpireTyped DEF TypeOK, Current, Request

LEMMA CleanupTyped ==
    ASSUME TypeOK, NEW s \in Sessions
    PROVE  /\ Unstage(s) \in [Handlers -> Request]
           /\ Orphan(s) \in [Workers -> Process]
           /\ RemoveTemporaryFiles(s) =>
                /\ files' \in [Sessions -> File]
                /\ assembly' \in [Sessions -> File \cup {Absent}]
                /\ final' \in [Sessions -> File \cup {Absent}]
<1>1. \A h \in Handlers : handler[h] \in Request /\ [handler[h] EXCEPT !.staged = FALSE] \in Request
  BY DEF TypeOK, Request
<1>2. \A w \in Workers : worker[w] \in Process /\ [worker[w] EXCEPT !.fd = "orphan"] \in Process
  BY DEF TypeOK, Process
<1>3. ASSUME RemoveTemporaryFiles(s)
      PROVE  /\ files' \in [Sessions -> File]
             /\ assembly' \in [Sessions -> File \cup {Absent}]
             /\ final' \in [Sessions -> File \cup {Absent}]
  <2>1. files' = [files EXCEPT ![s] = NoChunks] /\ NoChunks \in File
    BY <1>3, DefaultsTyped DEF RemoveTemporaryFiles
  <2>2. assembly' = [assembly EXCEPT ![s] = Absent] /\ final' = final
    BY <1>3 DEF RemoveTemporaryFiles
  <2>3. QED
    BY <2>1, <2>2 DEF TypeOK
<1>4. Unstage(s) \in [Handlers -> Request]
  BY <1>1 DEF Unstage
<1>5. Orphan(s) \in [Workers -> Process]
  BY <1>2 DEF Orphan
<1>6. QED
  BY <1>3, <1>4, <1>5

LEMMA ReplyTyped ==
    ASSUME TypeOK, NEW h \in Handlers, NEW expired \in BOOLEAN
    PROVE  /\ Done(h) => handler' \in [Handlers -> Request]
           /\ Goto(h, "cleanup") => handler' \in [Handlers -> Request]
           /\ ThenGet(h) => handler' \in [Handlers -> Request]
           /\ Reply(h, expired) => handler' \in [Handlers -> Request]
<1>1. handler \in [Handlers -> Request] /\ NoRequest \in Request
  BY DefaultsTyped DEF TypeOK
<1>2. /\ [handler[h] EXCEPT !.pc = "cleanup"] \in Request
      /\ [handler[h] EXCEPT !.pc = "begin", !.op = "get"] \in Request
  BY <1>1 DEF Request, Operation
<1>3. Done(h) => handler' \in [Handlers -> Request]
  BY <1>1 DEF Done
<1>4. Goto(h, "cleanup") => handler' \in [Handlers -> Request]
  BY <1>1, <1>2 DEF Goto
<1>5. ThenGet(h) => handler' \in [Handlers -> Request]
  BY <1>1, <1>2 DEF ThenGet
<1>6. QED
  BY <1>3, <1>4, <1>5 DEF Reply

LEMMA HandlerTypeOK ==
    ASSUME TypeOK, NEW h \in Handlers, HandlerStep(h)
    PROVE  TypeOK'
<1> USE DEF TypeOK, database, disk, bounds
<1>0. handler[h] \in Request /\ handler[h].s \in Sessions /\ Current(h) \in Session
  BY CurrentTyped
<1>1. CASE Accept(h)
  <2>1. PICK op \in {"create", "get", "finalize", "cancel"}, s \in Sessions :
          handler' = [handler EXCEPT ![h] =
               [NoRequest EXCEPT !.pc = "begin", !.op = op, !.s = s]]
    BY <1>1 DEF Accept
  <2>2. [NoRequest EXCEPT !.pc = "begin", !.op = op, !.s = s] \in Request
    BY DefaultsTyped DEF Request, Operation
  <2>3. handler' \in [Handlers -> Request]
    BY <2>1, <2>2
  <2>4. QED
    BY <1>1, <2>3 DEF Accept, OnlyHandler
<1>2. CASE AcceptChunk(h)
  <2>1. PICK s \in Sessions, i \in Chunks, d \in Data :
          handler' = [handler EXCEPT ![h] =
               [NoRequest EXCEPT !.pc = "begin", !.op = "chunk", !.s = s,
                                 !.i = i, !.d = d, !.staged = TRUE]]
    BY <1>2 DEF AcceptChunk
  <2>2. [NoRequest EXCEPT !.pc = "begin", !.op = "chunk", !.s = s,
                          !.i = i, !.d = d, !.staged = TRUE] \in Request
    BY DefaultsTyped DEF Request, Operation
  <2>3. handler' \in [Handlers -> Request]
    BY <2>1, <2>2
  <2>4. QED
    BY <1>2, <2>3 DEF AcceptChunk, OnlyHandler
<1>3. CASE Capture(h)
  <2>1. [handler[h] EXCEPT !.pc = "ready", !.now = clock] \in Request
    BY <1>0 DEF Request
  <2>2. handler' = [handler EXCEPT ![h] = [handler[h] EXCEPT !.pc = "ready", !.now = clock]]
    BY <1>3 DEF Capture
  <2>3. QED
    BY <1>3, <2>1, <2>2 DEF Capture, OnlyHandler
<1>4. CASE ReturnSession(h) \/ RefuseChunk(h) \/ FinalizeWithoutChange(h)
  <2>1. handler' \in [Handlers -> Request]
    BY <1>4, ReplyTyped DEF ReturnSession, RefuseChunk, FinalizeWithoutChange
  <2>2. QED
    BY <1>4, <2>1 DEF ReturnSession, RefuseChunk, FinalizeWithoutChange, OnlyHandler
<1>5. CASE CreateSession(h)
  <2>1. handler' \in [Handlers -> Request]
    BY <1>5, ReplyTyped DEF CreateSession
  <2>2. Touched([NoSession EXCEPT !.status = "created"], h) \in Session
    <3>1. [NoSession EXCEPT !.status = "created"] \in Session
      BY DefaultsTyped DEF Session, Status, Expirable
    <3>2. QED
      BY <3>1, TouchedTyped
  <2>3. \A t \in Sessions : ExpireIfDue(session[t], handler[h].now) \in Session
    BY ExpireTyped
  <2>4. session' \in [Sessions -> Session]
    <3>1. CASE session' = session
      BY <3>1
    <3>2. CASE session' = [[t \in Sessions |-> ExpireIfDue(session[t], handler[h].now)]
                             EXCEPT ![handler[h].s] =
                               Touched([NoSession EXCEPT !.status = "created"], h)]
      BY <1>0, <2>2, <2>3, <3>2
    <3>3. QED
      BY <1>5, <3>1, <3>2 DEF CreateSession
  <2>5. QED
    BY <1>5, <2>1, <2>4 DEF CreateSession
<1>6. CASE GetSessionOrExpire(h)
  BY <1>0, <1>6, ReplyTyped DEF GetSessionOrExpire
<1>7. CASE RepeatChunk(h)
  BY <1>0, <1>7, ReplyTyped, TouchedTyped DEF RepeatChunk
<1>8. CASE PromoteChunk(h)
  <2>1. handler' \in [Handlers -> Request]
    <3>1. [handler[h] EXCEPT !.pc = "promoted", !.staged = FALSE] \in Request
      BY <1>0 DEF Request
    <3>2. handler' = [handler EXCEPT ![h] =
                        [handler[h] EXCEPT !.pc = "promoted", !.staged = FALSE]]
      BY <1>8 DEF PromoteChunk
    <3>3. QED
      BY <3>1, <3>2
  <2>2. files' \in [Sessions -> File]
    BY <1>0, <1>8 DEF PromoteChunk, Request, File, Bytes, Row
  <2>3. QED
    BY <1>8, <2>1, <2>2 DEF PromoteChunk
<1>9. CASE CommitChunk(h)
  <2>1. rows' \in [Sessions -> [Chunks -> Row]]
    BY <1>0, <1>9 DEF CommitChunk, Request, Row
  <2>2. \A st \in {"ready_to_finalize", "uploading"} :
          [Touched(session[handler[h].s], h) EXCEPT !.status = st] \in Session
    BY <1>0, TouchedTyped DEF Session, Status, Expirable
  <2>3. session' \in [Sessions -> Session]
    BY <1>0, <1>9, <2>2 DEF CommitChunk
  <2>4. QED
    BY <1>9, <2>1, <2>3, ReplyTyped DEF CommitChunk
<1>10. CASE RequeueFinalize(h) \/ StartFinalize(h)
  <2>1. [Touched(session[handler[h].s], h) EXCEPT !.status = "assembling", !.failure = "none"]
          \in Session
    BY <1>0, TouchedTyped DEF Session, Status, FailureCode
  <2>2. session' \in [Sessions -> Session]
    BY <1>10, <2>1 DEF RequeueFinalize, StartFinalize
  <2>3. job' \in [Sessions -> Job]
    <3>1. [status |-> "queued", lease |-> 0] \in Job
      BY DEF Job
    <3>2. [job[handler[h].s] EXCEPT !.status = "queued"] \in Job
      BY SMTT(30), <1>0 DEF Job
    <3>3. CASE RequeueFinalize(h)
      BY <3>1, <3>3 DEF RequeueFinalize
    <3>4. CASE StartFinalize(h)
      BY <3>2, <3>4 DEF StartFinalize
    <3>5. QED
      BY <1>10, <3>3, <3>4
  <2>4. QED
    BY <1>10, <2>2, <2>3, ReplyTyped DEF RequeueFinalize, StartFinalize
<1>11. CASE CancelSession(h)
  <2>1. session' \in [Sessions -> Session]
    BY <1>0, <1>11 DEF CancelSession, Session, Status
  <2>2. handler' \in [Handlers -> Request]
    BY <1>11, ReplyTyped DEF CancelSession
  <2>3. QED
    BY <1>11, <2>1, <2>2 DEF CancelSession
<1>12. CASE CleanupTemporaryFiles(h)
  BY <1>0, <1>12, CleanupTyped, DefaultsTyped DEF CleanupTemporaryFiles
<1>13. CASE RequestLost(h)
  BY <1>13, ReplyTyped DEF RequestLost
<1>14. QED
  BY <1>1, <1>2, <1>3, <1>4, <1>5, <1>6, <1>7, <1>8, <1>9, <1>10, <1>11, <1>12, <1>13
     DEF HandlerStep

\* TypeOK alone is not inductive: CopyChunk writes through a descriptor, so the
\* file it is open on has to exist.
DescriptorsOpen ==
    \A w \in Workers :
        /\ worker[w].fd # "none" => worker[w].pc = "copy"
        /\ worker[w].fd = "assembly" => assembly[worker[w].s] # Absent
        /\ worker[w].fd = "final" => final[worker[w].s] # Absent

LEMMA WorkerTypeOK ==
    ASSUME TypeOK, DescriptorsOpen, NEW w \in Workers, WorkerStep(w)
    PROVE  TypeOK'
<1> USE DEF TypeOK, database, disk, bounds
<1>0. worker[w] \in Process /\ worker[w].s \in Sessions
  BY DEF Process
<1>a. ASSUME NEW pc \in {"polled", "ensure", "open", "commit", "clean"}, WorkerGoto(w, pc)
      PROVE  worker' \in [Workers -> Process]
  <2>1. [worker[w] EXCEPT !.pc = pc] \in Process
    BY <1>0 DEF Process
  <2>2. QED
    BY <1>a, <2>1 DEF WorkerGoto
<1>b. ASSUME NEW code \in FailureCode, Fail(w, code)
      PROVE  worker' \in [Workers -> Process]
  <2>1. [worker[w] EXCEPT !.pc = "failing", !.code = code, !.fd = "none"] \in Process
    BY <1>0 DEF Process
  <2>2. worker' = [worker EXCEPT ![w] =
                     [worker[w] EXCEPT !.pc = "failing", !.code = code, !.fd = "none"]]
    BY <1>b DEF Fail
  <2>3. QED
    BY <2>1, <2>2
<1>c. /\ {"finalization_storage_failure", "session_not_assembling",
          "final_original_hash_mismatch", "verified_chunk_missing", "verified_chunks_missing",
          "verified_chunk_hash_mismatch", "completed_hash_mismatch", "none"} = FailureCode
      /\ NoProcess \in Process
      /\ [worker EXCEPT ![w] = NoProcess] \in [Workers -> Process]
  BY DefaultsTyped DEF FailureCode, RetryableCodes
<1>d. [status |-> "queued", lease |-> 0] \in Job /\ [status |-> "failed", lease |-> 0] \in Job
        /\ [status |-> "done", lease |-> 0] \in Job
  BY DEF Job
<1>1. CASE RecoverExpiredJobs(w)
  <2>1. worker' \in [Workers -> Process]
    BY <1>1, <1>a DEF RecoverExpiredJobs
  <2>2. job' \in [Sessions -> Job]
    BY <1>1, <1>d DEF RecoverExpiredJobs
  <2>3. QED
    BY <1>1, <2>1, <2>2 DEF RecoverExpiredJobs
<1>2. CASE ClaimNextJob(w)
  <2>1. CASE UNCHANGED job /\ worker' = [worker EXCEPT ![w] = NoProcess]
    BY <1>2, <1>c, <2>1 DEF ClaimNextJob
  <2>2. CASE \E s \in Sessions :
               /\ job' = [job EXCEPT ![s] = [status |-> "running", lease |-> clock + Lease]]
               /\ worker' = [worker EXCEPT ![w].pc = "claimed", ![w].s = s]
    <3>1. PICK s \in Sessions :
               /\ job' = [job EXCEPT ![s] = [status |-> "running", lease |-> clock + Lease]]
               /\ worker' = [worker EXCEPT ![w].pc = "claimed", ![w].s = s]
      BY <2>2
    <3>2. clock + Lease \in Nat
      BY UploadAssumptions
    <3>3. [status |-> "running", lease |-> clock + Lease] \in Job
      BY <3>2 DEF Job
    <3>4. [worker[w] EXCEPT !.pc = "claimed", !.s = s] \in Process
      BY <1>0 DEF Process
    <3>5. worker' = [worker EXCEPT ![w] = [worker[w] EXCEPT !.pc = "claimed", !.s = s]]
      BY <3>1
    <3>6. QED
      <4>1. worker' \in [Workers -> Process]
        BY <3>4, <3>5
      <4>2. job' \in [Sessions -> Job]
        BY <3>1, <3>3
      <4>3. QED
        BY <1>2, <4>1, <4>2 DEF ClaimNextJob
  <2>3. QED
    BY <1>2, <2>1, <2>2 DEF ClaimNextJob
<1>3. CASE ReadSession(w)
  <2>1. [worker[w] EXCEPT !.pc = "marking", !.code = "session_not_assembling"] \in Process
    <3>1. "session_not_assembling" \in FailureCode
      BY <1>c
    <3>2. QED
      BY <1>0, <3>1 DEF Process
  <2>2. worker' \in [Workers -> Process]
    <3>1. CASE WorkerGoto(w, "ensure")
      BY <1>a, <3>1
    <3>2. CASE worker' = [worker EXCEPT ![w] =
                 [worker[w] EXCEPT !.pc = "marking", !.code = "session_not_assembling"]]
      BY <2>1, <3>2
    <3>3. QED
      BY <1>3, <3>1, <3>2 DEF ReadSession
  <2>3. QED
    BY <1>3, <2>2 DEF ReadSession, OnlyWorker
<1>4. CASE EnsureFinalFile(w) \/ StorageFailure(w)
  <2>1. worker' \in [Workers -> Process]
    BY <1>4, <1>a, <1>b, <1>c DEF EnsureFinalFile, StorageFailure
  <2>2. QED
    BY <1>4, <2>1 DEF EnsureFinalFile, StorageFailure, OnlyWorker
<1>5. CASE OpenAssembly(w)
  <2>1. [worker[w] EXCEPT !.pc = "copy", !.next = 0, !.fd = "assembly"] \in Process
    <3>1. 0 \in 0 .. NumChunks
      BY UploadAssumptions
    <3>2. QED
      BY <1>0, <3>1 DEF Process
  <2>2. worker' = [worker EXCEPT ![w] =
                     [worker[w] EXCEPT !.pc = "copy", !.next = 0, !.fd = "assembly"]]
    BY <1>5 DEF OpenAssembly
  <2>3. assembly' \in [Sessions -> File \cup {Absent}]
    BY <1>0, <1>5, DefaultsTyped DEF OpenAssembly
  <2>4. QED
    BY <1>5, <2>1, <2>2, <2>3 DEF OpenAssembly
<1>6. CASE CopyChunk(w)
  <2> DEFINE s == worker[w].s
             i == worker[w].next
  <2>1. i \in Chunks /\ i + 1 \in 0 .. NumChunks
    <3>1. i \in 0 .. NumChunks /\ i < NumChunks
      BY <1>0, <1>6 DEF CopyChunk, Process
    <3>2. QED
      BY <3>1, UploadAssumptions DEF Chunks
  <2>2. CASE /\ \/ Fail(w, "verified_chunk_missing")
                \/ Fail(w, "verified_chunk_hash_mismatch")
             /\ UNCHANGED disk
    <3>1. worker' \in [Workers -> Process]
      BY <2>2, <1>b, <1>c
    <3>2. QED
      BY <1>6, <2>2, <3>1 DEF CopyChunk
  <2>3. CASE /\ worker' = [worker EXCEPT ![w].next = i + 1]
             /\ assembly' = IF worker[w].fd = "assembly"
                            THEN [assembly EXCEPT ![s][i] = files[s][i]] ELSE assembly
             /\ final' = IF worker[w].fd = "final"
                         THEN [final EXCEPT ![s][i] = files[s][i]] ELSE final
             /\ UNCHANGED files
    <3>1. [worker[w] EXCEPT !.next = i + 1] \in Process
      BY <1>0, <2>1 DEF Process
    <3>2. PICK b \in Bytes : b = files[s][i]
      BY <1>0, <2>1 DEF File
    <3>3. \A f \in File : [f EXCEPT ![i] = b] \in File
      BY <2>1 DEF File
    <3>4. worker' \in [Workers -> Process]
      <4>1. worker' = [worker EXCEPT ![w] = [worker[w] EXCEPT !.next = i + 1]]
        BY <2>3
      <4>2. QED
        BY <3>1, <4>1
    <3>5. assembly' \in [Sessions -> File \cup {Absent}]
      <4>1. CASE worker[w].fd = "assembly"
        <5>1. [assembly[s] EXCEPT ![i] = b] \in File
          BY <1>0, <3>3, <4>1 DEF DescriptorsOpen
        <5>2. assembly' = [assembly EXCEPT ![s] = [assembly[s] EXCEPT ![i] = b]]
          BY <2>3, <3>2, <4>1
        <5>3. QED
          BY <5>1, <5>2
      <4>2. QED
        BY <2>3, <4>1
    <3>6. final' \in [Sessions -> File \cup {Absent}]
      <4>1. CASE worker[w].fd = "final"
        <5>1. [final[s] EXCEPT ![i] = b] \in File
          BY <1>0, <3>3, <4>1 DEF DescriptorsOpen
        <5>2. final' = [final EXCEPT ![s] = [final[s] EXCEPT ![i] = b]]
          BY <2>3, <3>2, <4>1
        <5>3. QED
          BY <5>1, <5>2
      <4>2. QED
        BY <2>3, <4>1
    <3>7. QED
      BY <1>6, <2>3, <3>4, <3>5, <3>6 DEF CopyChunk
  <2>4. QED
    BY <1>6, <2>2, <2>3 DEF CopyChunk
<1>7. CASE PromoteFinal(w)
  <2> DEFINE s == worker[w].s
  <2>1. CASE /\ \/ Fail(w, "completed_hash_mismatch")
                \/ Fail(w, "finalization_storage_failure")
             /\ UNCHANGED disk
    <3>1. worker' \in [Workers -> Process]
      BY <2>1, <1>b, <1>c
    <3>2. QED
      BY <1>7, <2>1, <3>1 DEF PromoteFinal
  <2>2. CASE rows[s] = Complete /\ assembly[s] # Absent
    <3>1. \A v \in Workers :
            /\ worker[v] \in Process
            /\ [worker[v] EXCEPT !.pc = "commit", !.fd = "none"] \in Process
            /\ [worker[v] EXCEPT !.fd = "final"] \in Process
            /\ [worker[v] EXCEPT !.fd = "orphan"] \in Process
      BY ZenonT(60) DEF Process
    <3>2. worker' \in [Workers -> Process]
      BY ZenonT(60), <1>7, <2>2, <3>1 DEF PromoteFinal
    <3>3. assembly[s] \in File
      BY <1>0, <2>2
    <3>4. QED
      BY <1>0, <1>7, <2>2, <3>2, <3>3 DEF PromoteFinal
  <2>3. QED
    BY <1>7, <2>1, <2>2 DEF PromoteFinal
<1>8. CASE CommitFinalization(w)
  <2> DEFINE s == worker[w].s
  <2>1. worker' \in [Workers -> Process]
    BY <1>8, <1>a, <1>b, <1>c DEF CommitFinalization
  <2>2. /\ [session[s] EXCEPT !.status = "completed", !.failure = "none"] \in Session
        /\ [job[s] EXCEPT !.status = "done"] \in Job
    <3>1. session[s] \in Session /\ job[s] \in Job
      BY <1>0
    <3>2. [session[s] EXCEPT !.status = "completed", !.failure = "none"] \in Session
      BY <3>1 DEF Session, Status, FailureCode
    <3>3. QED
      BY <3>1, <3>2 DEF Job
  <2>3. session' \in [Sessions -> Session]
    <3>1. CASE session[s].status = "completed"
      BY <1>8, <3>1 DEF CommitFinalization
    <3>2. CASE session[s].status = "assembling"
      <4>1. session' = [session EXCEPT ![s].status = "completed", ![s].failure = "none"]
        BY <1>8, <3>2 DEF CommitFinalization
      <4>2. session' = [session EXCEPT ![s] =
             [session[s] EXCEPT !.status = "completed", !.failure = "none"]]
        BY <4>1
      <4>3. QED
        BY <2>2, <4>2
    <3>3. CASE session[s].status \notin {"completed", "assembling"}
      BY <1>8, <3>3 DEF CommitFinalization
    <3>4. QED
      BY <3>1, <3>2, <3>3
  <2>4. job' \in [Sessions -> Job]
    BY ZenonT(60), <1>d, <1>8, <2>2 DEF CommitFinalization
  <2>5. assets' \in [Sessions -> Nat] /\ previews' \in [Sessions -> Nat]
    BY <1>8 DEF CommitFinalization
  <2>6. QED
    BY <1>8, <2>1, <2>3, <2>4, <2>5 DEF CommitFinalization
<1>9. CASE CleanupAfterCommit(w)
  <2>1. worker' \in [Workers -> Process] /\ handler' \in [Handlers -> Request]
    BY <1>0, <1>9, <1>c, CleanupTyped DEF CleanupAfterCommit
  <2>2. QED
    BY <1>0, <1>9, <2>1, CleanupTyped DEF CleanupAfterCommit
<1>10. CASE CleanupAssembly(w)
  <2>1. Orphan(worker[w].s) \in [Workers -> Process]
    BY <1>0, CleanupTyped
  <2>2. [Orphan(worker[w].s) EXCEPT ![w].pc = "marking"] \in [Workers -> Process]
    BY ZenonT(60), <2>1 DEF Process
  <2>3. QED
    BY <1>10, <2>2 DEF CleanupAssembly
<1>11. CASE MarkFinalizationFailed(w)
  <2>1. [session[worker[w].s] EXCEPT !.status = "failed", !.failure = worker[w].code] \in Session
    <3>1. session[worker[w].s] \in Session /\ worker[w].code \in FailureCode
      BY <1>0 DEF Process
    <3>2. QED
      BY <3>1 DEF Session, Status
  <2>2. session' \in [Sessions -> Session]
    BY <1>11, <2>1 DEF MarkFinalizationFailed
  <2>3. job' \in [Sessions -> Job]
    BY <1>d, <1>11 DEF MarkFinalizationFailed
  <2>4. QED
    BY <1>c, <1>11, <2>2, <2>3 DEF MarkFinalizationFailed
<1>12. CASE WorkerCrash(w)
  BY <1>c, <1>12, UploadAssumptions DEF WorkerCrash
<1>13. QED
  BY <1>1, <1>2, <1>3, <1>4, <1>5, <1>6, <1>7, <1>8, <1>9, <1>10, <1>11, <1>12
     DEF WorkerStep, ProcessJob

LEMMA DescriptorsPreserved ==
    ASSUME TypeOK, DescriptorsOpen, [Next]_vars
    PROVE  DescriptorsOpen'
<1> USE DEF DescriptorsOpen, database, disk, bounds
<1>t. /\ worker \in [Workers -> Process]
      /\ \A v \in Workers : worker[v] \in Process /\ worker[v].s \in Sessions
      /\ assembly \in [Sessions -> File \cup {Absent}]
      /\ final \in [Sessions -> File \cup {Absent}]
      /\ NoChunks # Absent /\ TornFile # Absent
  BY DefaultsTyped, UploadAssumptions DEF TypeOK, Process
<1>o. ASSUME NEW s \in Sessions
      PROVE  \A v \in Workers :
                /\ Orphan(s)[v].s = worker[v].s /\ Orphan(s)[v].pc = worker[v].pc
                /\ Orphan(s)[v].fd = IF worker[v].s = s /\ worker[v].fd = "assembly"
                                    THEN "orphan" ELSE worker[v].fd
  BY <1>t DEF Orphan, Process
<1>1. CASE UNCHANGED <<worker, assembly, final>>
  BY <1>1
<1>2. CASE PowerLoss
  BY <1>2 DEF PowerLoss, NoProcess
<1>3. ASSUME NEW h \in Handlers, HandlerStep(h)
      PROVE  DescriptorsOpen'
  <2>1. CASE CleanupTemporaryFiles(h)
    <3>1. handler[h].s \in Sessions
      BY DEF TypeOK, Request
    <3>2. worker' = Orphan(handler[h].s)
            /\ assembly' = [assembly EXCEPT ![handler[h].s] = Absent] /\ final' = final
      BY <2>1 DEF CleanupTemporaryFiles, RemoveTemporaryFiles
    <3>3. QED
      BY <1>t, <1>o, <3>1, <3>2
  <2>2. CASE ~CleanupTemporaryFiles(h)
    BY <1>1, <1>3, <2>2 DEF HandlerStep, Accept, AcceptChunk, Capture, ReturnSession,
       CreateSession, GetSessionOrExpire, RefuseChunk, RepeatChunk, PromoteChunk, CommitChunk,
       FinalizeWithoutChange, RequeueFinalize, StartFinalize, CancelSession, RequestLost,
       OnlyHandler
  <2>3. QED
    BY <2>1, <2>2
<1>4. ASSUME NEW w \in Workers, WorkerStep(w)
      PROVE  DescriptorsOpen'
  <2> DEFINE s == worker[w].s
  <2>1. CASE UNCHANGED <<assembly, final>> /\ worker' = [worker EXCEPT ![w] = NoProcess]
    BY <1>t, <2>1 DEF NoProcess
  <2>2. ASSUME NEW code, Fail(w, code), UNCHANGED disk
        PROVE  DescriptorsOpen'
    BY <1>t, <2>2 DEF Fail, Process
  <2>3. ASSUME NEW pc, WorkerGoto(w, pc), UNCHANGED disk, worker[w].pc # "copy"
        PROVE  DescriptorsOpen'
    BY <1>t, <2>3 DEF WorkerGoto, Process
  <2>4. CASE RecoverExpiredJobs(w)
    BY <1>t, <2>4 DEF RecoverExpiredJobs, WorkerGoto, Process
  <2>5. CASE ClaimNextJob(w)
    <3>1. CASE worker' = [worker EXCEPT ![w] = NoProcess]
      BY <2>1, <2>5, <3>1 DEF ClaimNextJob
    <3>2. CASE \E t \in Sessions : worker' = [worker EXCEPT ![w].pc = "claimed", ![w].s = t]
      <4>1. worker[w].fd = "none" /\ assembly' = assembly /\ final' = final
        BY <2>5 DEF ClaimNextJob
      <4>2. \A v \in Workers : worker'[v].fd = worker[v].fd
                               /\ (v # w => worker'[v] = worker[v])
        BY <1>t, <3>2 DEF Process
      <4>3. QED
        BY <4>1, <4>2
    <3>3. QED
      BY <2>5, <3>1, <3>2 DEF ClaimNextJob
  <2>6. CASE ReadSession(w)
    <3>1. CASE WorkerGoto(w, "ensure")
      BY <2>3, <2>6, <3>1 DEF ReadSession, OnlyWorker
    <3>2. CASE worker' = [worker EXCEPT ![w].pc = "marking", ![w].code = "session_not_assembling"]
      BY <1>t, <2>6, <3>2 DEF ReadSession, OnlyWorker, Process
    <3>3. QED
      BY <2>6, <3>1, <3>2 DEF ReadSession
  <2>7. CASE EnsureFinalFile(w)
    BY <2>2, <2>3, <2>7 DEF EnsureFinalFile, OnlyWorker
  <2>8. CASE OpenAssembly(w)
    BY <1>t, <2>8 DEF OpenAssembly, Process
  <2>9. CASE CopyChunk(w)
    <3>1. CASE UNCHANGED disk /\ \E code \in FailureCode : Fail(w, code)
      BY <2>2, <3>1
    <3>2. CASE worker' = [worker EXCEPT ![w].next = worker[w].next + 1]
      <4>1. \A v \in Workers : worker'[v].fd = worker[v].fd /\ worker'[v].pc = worker[v].pc
                               /\ worker'[v].s = worker[v].s
        BY <1>t, <3>2 DEF Process
      <4>2. \A t \in Sessions : t # s => assembly'[t] = assembly[t] /\ final'[t] = final[t]
        BY <1>t, <2>9 DEF CopyChunk
      <4>3. /\ assembly[s] # Absent => assembly'[s] # Absent
            /\ final[s] # Absent => final'[s] # Absent
        <5> DEFINE i == worker[w].next
        <5>1. i \in 0 .. NumChunks /\ i < NumChunks
          BY <1>t, <2>9 DEF CopyChunk, Process
        <5>2. i \in Chunks
          BY <5>1, UploadAssumptions DEF Chunks
        <5>3. files[s][i] \in Bytes
          BY <1>t, <5>2 DEF TypeOK, File
        <5>4. \A f \in File : [f EXCEPT ![i] = files[s][i]] \in File
          BY <5>2, <5>3 DEF File
        <5>5. Absent \notin File
          BY UploadAssumptions
        <5>6. assembly[s] # Absent => assembly'[s] # Absent
          <6>1. assembly' = assembly \/ assembly' = [assembly EXCEPT ![s][i] = files[s][i]]
            BY <2>9 DEF CopyChunk
          <6>2. assembly[s] # Absent => assembly[s] \in File
            BY <1>t
          <6>3. QED
            BY <1>t, <5>4, <5>5, <6>1, <6>2
        <5>7. final[s] # Absent => final'[s] # Absent
          <6>1. final' = final \/ final' = [final EXCEPT ![s][i] = files[s][i]]
            BY <2>9 DEF CopyChunk
          <6>2. final[s] # Absent => final[s] \in File
            BY <1>t
          <6>3. QED
            BY <1>t, <5>4, <5>5, <6>1, <6>2
        <5>8. QED
          BY <5>6, <5>7
      <4>4. QED
        BY <1>t, <4>1, <4>2, <4>3
    <3>3. QED
      BY <2>9, <3>1, <3>2 DEF CopyChunk, FailureCode, RetryableCodes
  <2>10. CASE PromoteFinal(w)
    <3>1. CASE UNCHANGED disk /\ \E code \in FailureCode : Fail(w, code)
      BY <2>2, <3>1
    <3>2. CASE rows[s] = Complete /\ assembly[s] # Absent
      <4>1. /\ final' = [final EXCEPT ![s] = assembly[s]]
            /\ assembly' = [assembly EXCEPT ![s] = Absent]
        BY <2>10, <3>2 DEF PromoteFinal
      <4>2. \A v \in Workers :
              /\ worker'[v].s = worker[v].s
              /\ worker'[v].pc = IF v = w THEN "commit" ELSE worker[v].pc
              /\ worker'[v].fd =
                   IF v = w THEN "none"
                   ELSE IF worker[v].s # s THEN worker[v].fd
                   ELSE IF worker[v].fd = "assembly" THEN "final"
                   ELSE IF worker[v].fd = "final" THEN "orphan" ELSE worker[v].fd
        <5>1. worker' = [v \in Workers |->
                   IF v = w THEN [worker[v] EXCEPT !.pc = "commit", !.fd = "none"]
                   ELSE IF worker[v].s # s THEN worker[v]
                   ELSE CASE worker[v].fd = "assembly" -> [worker[v] EXCEPT !.fd = "final"]
                          [] worker[v].fd = "final" -> [worker[v] EXCEPT !.fd = "orphan"]
                          [] OTHER -> worker[v]]
          BY <2>10, <3>2 DEF PromoteFinal
        <5>2. QED
          BY <1>t, <5>1 DEF Process
      <4>3. QED
        BY <1>t, <3>2, <4>1, <4>2
    <3>3. QED
      BY <2>10, <3>1, <3>2 DEF PromoteFinal, FailureCode, RetryableCodes
  <2>11. CASE StorageFailure(w)
    BY <2>2, <2>11 DEF StorageFailure, OnlyWorker
  <2>12. CASE CommitFinalization(w)
    BY <2>2, <2>3, <2>12 DEF CommitFinalization
  <2>13. CASE CleanupAfterCommit(w)
    <3>1. /\ worker' = [Orphan(s) EXCEPT ![w] = NoProcess]
          /\ assembly' = [assembly EXCEPT ![s] = Absent] /\ final' = final
      BY <2>13 DEF CleanupAfterCommit, RemoveTemporaryFiles
    <3>2. QED
      BY <1>t, <1>o, <3>1 DEF NoProcess
  <2>14. CASE CleanupAssembly(w)
    <3>1. /\ worker' = [Orphan(s) EXCEPT ![w].pc = "marking"]
          /\ assembly' = [assembly EXCEPT ![s] = Absent] /\ final' = final
          /\ worker[w].pc # "copy"
      BY <2>14 DEF CleanupAssembly
    <3>2. Orphan(s) \in [Workers -> Process]
      BY <1>t, CleanupTyped
    <3>3. \A v \in Workers : worker'[v].fd = Orphan(s)[v].fd /\ worker'[v].s = Orphan(s)[v].s
                             /\ worker'[v].pc = IF v = w THEN "marking" ELSE Orphan(s)[v].pc
      BY <3>1, <3>2 DEF Process
    <3>4. QED
      BY <1>t, <1>o, <3>1, <3>3
  <2>15. CASE MarkFinalizationFailed(w) \/ WorkerCrash(w)
    BY <2>1, <2>15 DEF MarkFinalizationFailed, WorkerCrash
  <2>16. QED
    BY <1>4, <2>4, <2>5, <2>6, <2>7, <2>8, <2>9, <2>10, <2>11, <2>12, <2>13, <2>14, <2>15
       DEF WorkerStep, ProcessJob
<1>5. CASE Tick \/ UNCHANGED vars
  BY <1>1, <1>5 DEF Tick, vars
<1>6. QED
  BY <1>2, <1>3, <1>4, <1>5 DEF Next

\* Every variable keeps its type, for any sets of sessions, requests and
\* workers, any number of chunks and any limits.
THEOREM TypeCorrect == Spec => []TypeOK
<1>1. Init => TypeOK /\ DescriptorsOpen
  BY DefaultsTyped DEF Init, TypeOK, DescriptorsOpen, NoProcess
<1>2. TypeOK /\ DescriptorsOpen /\ [Next]_vars => TypeOK' /\ DescriptorsOpen'
  <2> SUFFICES ASSUME TypeOK, DescriptorsOpen, [Next]_vars PROVE TypeOK'
    BY DescriptorsPreserved
  <2>1. CASE \E h \in Handlers : HandlerStep(h)
    BY <2>1, HandlerTypeOK
  <2>2. CASE \E w \in Workers : WorkerStep(w)
    BY <2>2, WorkerTypeOK
  <2>3. CASE Tick
    BY <2>3 DEF Tick, TypeOK, database, disk, bounds
  <2>4. CASE PowerLoss
    <3>1. /\ handler' \in [Handlers -> Request] /\ worker' \in [Workers -> Process]
          /\ writer' \in Handlers \cup {NoWriter} /\ losses' \in Nat /\ crashes' \in Nat
      BY <2>4, DefaultsTyped DEF PowerLoss, TypeOK
    <3>2. files' \in [Sessions -> File] /\ final' \in [Sessions -> File \cup {Absent}]
      <4>1. \A s \in Sessions, i \in Chunks : [files[s] EXCEPT ![i] = "torn"] \in File
        BY DEF TypeOK, File, Bytes
      <4>2. PICK s \in Sessions :
              \/ final' = [final EXCEPT ![s] = TornFile] /\ UNCHANGED files
              \/ /\ \E i \in Chunks : files' = [files EXCEPT ![s][i] = "torn"]
                 /\ UNCHANGED final
        BY <2>4 DEF PowerLoss
      <4>3. CASE final' = [final EXCEPT ![s] = TornFile] /\ UNCHANGED files
        BY <4>3, DefaultsTyped DEF TypeOK
      <4>4. CASE (\E i \in Chunks : files' = [files EXCEPT ![s][i] = "torn"]) /\ UNCHANGED final
        <5>1. PICK i \in Chunks : files' = [files EXCEPT ![s] = [files[s] EXCEPT ![i] = "torn"]]
          BY <4>4
        <5>2. QED
          BY <4>1, <4>4, <5>1 DEF TypeOK
      <4>5. QED
        BY <4>2, <4>3, <4>4
    <3>3. QED
      BY <2>4, <3>1, <3>2 DEF PowerLoss, TypeOK, database
  <2>5. CASE UNCHANGED vars
    BY <2>5 DEF vars, TypeOK, database, disk, bounds
  <2>6. QED
    BY <2>1, <2>2, <2>3, <2>4, <2>5 DEF Next
<1>3. QED
  BY <1>1, <1>2, PTL DEF Spec

-----------------------------------------------------------------------------
\* SessionJobCoherent is not inductive: StartFinalize keeps a job that is
\* already there, so an open session must not have one, and CommitChunk writes
\* a status it computed before it took its last step, so nobody else may have
\* changed the session since. The second is what the write lock is for.
Matched(status, work) ==
    /\ status = "assembling" <=> work \in {"queued", "running"}
    /\ status = "completed" <=> work = "done"
    /\ status = "failed" => work = "failed"
    /\ status \in Expirable \cup {"none"} => work = "none"
AllMatched == \A s \in Sessions : Matched(session[s].status, job[s].status)
LockHeld ==
    \A h \in Handlers :
        handler[h].pc = "promoted" =>
            writer = h /\ session[handler[h].s].status \in Uploadable

LEMMA HandlerKeepsMatched ==
    ASSUME TypeOK, AllMatched, LockHeld, NEW h \in Handlers, HandlerStep(h)
    PROVE  AllMatched'
<1> USE DEF Matched, AllMatched
<1> DEFINE s == handler[h].s
<1>0. /\ s \in Sessions /\ session \in [Sessions -> Session] /\ job \in [Sessions -> Job]
  BY DEF TypeOK, Request
<1>1. CASE UNCHANGED <<session, job>>
  BY <1>1
<1>2. \A r \in Session, now \in Nat :
        \/ ExpireIfDue(r, now).status = r.status
        \/ ExpireIfDue(r, now).status = "expired" /\ r.status \in Expirable \cup {"failed"}
  BY DEF ExpireIfDue, Due, Retryable, Session
<1>3. \A t \in Sessions :
        Matched(ExpireIfDue(session[t], handler[h].now).status, job[t].status)
  <2>1. handler[h].now \in Nat
    BY DEF TypeOK, Request
  <2>2. QED
    BY <1>0, <1>2, <2>1 DEF Expirable
<1>4. CASE CreateSession(h)
  <2>1. CASE session' = session
    BY <1>1, <1>4, <2>1 DEF CreateSession
  <2>2. CASE session' = [[t \in Sessions |-> ExpireIfDue(session[t], handler[h].now)]
                           EXCEPT ![s] = Touched([NoSession EXCEPT !.status = "created"], h)]
    <3>1. Touched([NoSession EXCEPT !.status = "created"], h).status = "created"
      BY DEF Touched, NoSession
    <3>2. job' = job /\ job[s].status = "none"
      BY <1>0, <1>4 DEF CreateSession
    <3>3. QED
      BY <1>0, <1>3, <2>2, <3>1, <3>2 DEF Expirable
  <2>3. QED
    BY <1>4, <2>1, <2>2 DEF CreateSession
<1>5. CASE GetSessionOrExpire(h)
  BY <1>0, <1>3, <1>5 DEF GetSessionOrExpire, Current
<1>6. CASE RepeatChunk(h)
  <2>1. session'[s].status = session[s].status
    BY <1>0, <1>6 DEF RepeatChunk, Touched, Session
  <2>2. QED
    BY <1>0, <1>6, <2>1 DEF RepeatChunk
<1>7. CASE CommitChunk(h)
  <2>1. session'[s].status \in {"ready_to_finalize", "uploading"}
    BY <1>0, <1>7 DEF CommitChunk, Touched, Session
  <2>2. session[s].status \in Uploadable
    BY <1>7 DEF CommitChunk, LockHeld
  <2>3. QED
    BY <1>0, <1>7, <2>1, <2>2 DEF CommitChunk, Uploadable, Expirable
<1>8. CASE RequeueFinalize(h)
  <2>1. session'[s].status = "assembling"
    BY <1>0, <1>8 DEF RequeueFinalize, Touched, Session
  <2>2. job'[s].status = "queued"
    BY <1>0, <1>8 DEF RequeueFinalize
  <2>3. QED
    BY <1>0, <1>8, <2>1, <2>2 DEF RequeueFinalize, Expirable
<1>9. CASE StartFinalize(h)
  <2>1. session'[s].status = "assembling"
    BY <1>0, <1>9 DEF StartFinalize, Touched, Session
  <2>2. job[s].status = "none"
    BY <1>0, <1>3, <1>9 DEF StartFinalize, Current
  <2>3. job'[s].status = "queued"
    BY <1>0, <1>9, <2>2 DEF StartFinalize, Job
  <2>4. QED
    BY <1>0, <1>9, <2>1, <2>3 DEF StartFinalize, Expirable
<1>10. CASE CancelSession(h)
  <2>1. CASE session' = session
    BY <1>1, <1>10, <2>1 DEF CancelSession
  <2>2. CASE /\ Current(h).status \in Cancellable
             /\ session' = [session EXCEPT ![s].status = "cancelled"]
    <3>1. job[s].status \in {"none", "failed"}
      BY <1>0, <1>3, <2>2 DEF Current, Cancellable, Expirable
    <3>2. session'[s].status = "cancelled"
      BY <1>0, <2>2 DEF Session
    <3>3. QED
      BY <1>0, <1>10, <2>2, <3>1, <3>2 DEF CancelSession, Expirable
  <2>3. QED
    BY <1>10, <2>1, <2>2 DEF CancelSession
<1>11. QED
  BY <1>1, <1>4, <1>5, <1>6, <1>7, <1>8, <1>9, <1>10 DEF HandlerStep, Accept, AcceptChunk,
     Capture, ReturnSession, RefuseChunk, PromoteChunk, FinalizeWithoutChange,
     CleanupTemporaryFiles, RequestLost, OnlyHandler, database

LEMMA WorkerKeepsMatched ==
    ASSUME TypeOK, AllMatched, NEW w \in Workers, WorkerStep(w)
    PROVE  AllMatched'
<1> USE DEF Matched, AllMatched
<1> DEFINE s == worker[w].s
<1>0. /\ s \in Sessions /\ session \in [Sessions -> Session] /\ job \in [Sessions -> Job]
  BY DEF TypeOK, Process
<1>1. CASE UNCHANGED <<session, job>>
  BY <1>1
<1>2. CASE RecoverExpiredJobs(w)
  <2>1. \A t \in Sessions :
          \/ job'[t].status = job[t].status
          \/ job'[t].status = "queued" /\ job[t].status = "running"
    <3>1. job' = [t \in Sessions |->
             IF job[t].status = "running" /\ job[t].lease <= clock
             THEN [status |-> "queued", lease |-> 0] ELSE job[t]]
      BY <1>2 DEF RecoverExpiredJobs
    <3>2. clock \in Nat /\ \A t \in Sessions : job[t].lease \in Nat
      BY <1>0 DEF TypeOK, Job
    <3>3. QED
      BY <3>1, <3>2
  <2>2. session' = session
    BY <1>2 DEF RecoverExpiredJobs
  <2>3. QED
    BY <2>1, <2>2 DEF Expirable
<1>3. CASE ClaimNextJob(w)
  <2>1. CASE job' = job
    BY <1>1, <1>3, <2>1 DEF ClaimNextJob
  <2>2. CASE \E t \in Sessions :
               /\ job[t].status = "queued"
               /\ job' = [job EXCEPT ![t] = [status |-> "running", lease |-> clock + Lease]]
    BY <1>0, <1>3, <2>2 DEF ClaimNextJob, Expirable
  <2>3. QED
    BY <1>3, <2>1, <2>2 DEF ClaimNextJob
<1>4. CASE CommitFinalization(w)
  <2>1. CASE session[s].status = "completed"
    BY <1>0, <1>4, <2>1 DEF CommitFinalization, Job
  <2>2. CASE session[s].status = "assembling"
    <3>1. session'[s].status = "completed"
      BY <1>0, <1>4, <2>2 DEF CommitFinalization, Session
    <3>2. job'[s].status = "done"
      BY <1>0, <1>4, <2>2 DEF CommitFinalization
    <3>3. \A t \in Sessions : t # s => session'[t] = session[t] /\ job'[t] = job[t]
      BY <1>0, <1>4, <2>2 DEF CommitFinalization
    <3>4. QED
      BY <3>1, <3>2, <3>3 DEF Expirable
  <2>3. CASE session[s].status \notin {"completed", "assembling"}
    BY <1>1, <1>4, <2>3 DEF CommitFinalization
  <2>4. QED
    BY <2>1, <2>2, <2>3
<1>5. CASE MarkFinalizationFailed(w)
  <2>1. CASE session[s].status = "completed"
    BY <1>1, <1>5, <2>1 DEF MarkFinalizationFailed
  <2>2. CASE session[s].status # "completed"
    <3>1. session'[s].status = "failed"
      BY <1>0, <1>5, <2>2 DEF MarkFinalizationFailed, Session
    <3>2. job'[s].status = "failed"
      BY <1>0, <1>5, <2>2 DEF MarkFinalizationFailed
    <3>3. \A t \in Sessions : t # s => session'[t] = session[t] /\ job'[t] = job[t]
      BY <1>0, <1>5 DEF MarkFinalizationFailed
    <3>4. QED
      BY <3>1, <3>2, <3>3 DEF Expirable
  <2>3. QED
    BY <2>1, <2>2
<1>6. QED
  BY <1>1, <1>2, <1>3, <1>4, <1>5 DEF WorkerStep, ProcessJob, ReadSession, EnsureFinalFile,
     OpenAssembly, CopyChunk, PromoteFinal, CleanupAfterCommit, CleanupAssembly,
     StorageFailure, WorkerCrash, OnlyWorker, database

\* A row changes only while nobody holds the write lock, or by its holder.
LEMMA LockProtects ==
    ASSUME TypeOK, LockHeld, [Next]_vars
    PROVE  LockHeld'
<1> USE DEF LockHeld
<1> SUFFICES ASSUME NEW g \in Handlers, handler'[g].pc = "promoted"
             PROVE  writer' = g /\ session'[handler'[g].s].status \in Uploadable
  OBVIOUS
<1>0. /\ handler \in [Handlers -> Request] /\ \A h \in Handlers : handler[h].s \in Sessions
      /\ session \in [Sessions -> Session] /\ NoWriter \notin Handlers
      /\ NoRequest.pc # "promoted"
  BY UploadAssumptions DEF TypeOK, Request, NoRequest
<1>1. ASSUME handler'[g].pc = handler[g].pc, handler'[g].s = handler[g].s,
             UNCHANGED <<writer, session>>
      PROVE  writer' = g /\ session'[handler'[g].s].status \in Uploadable
  BY <1>1
<1>u. ASSUME NEW t \in Sessions
      PROVE  Unstage(t)[g].pc = handler[g].pc /\ Unstage(t)[g].s = handler[g].s
  BY <1>0 DEF Unstage, Request
<1>2. ASSUME NEW h \in Handlers, HandlerStep(h)
      PROVE  writer' = g /\ session'[handler'[g].s].status \in Uploadable
  <2>1. CASE PromoteChunk(h)
    <3>1. handler'[h].s = handler[h].s /\ \A f \in Handlers \ {h} : handler'[f] = handler[f]
      BY <1>0, <2>1 DEF PromoteChunk, Request
    <3>2. g = h
      BY <1>0, <2>1, <3>1 DEF PromoteChunk, Transaction
    <3>3. session[handler[h].s].status \in Uploadable
      <4>1. Current(h).status \in Uploadable
        BY <2>1 DEF PromoteChunk
      <4>2. session[handler[h].s] \in Session
        BY <1>0
      <4>3. QED
        BY <4>1, <4>2 DEF Current, ExpireIfDue, Uploadable, Session
    <3>4. QED
      BY <2>1, <3>1, <3>2, <3>3 DEF PromoteChunk, database
  <2>2. CASE CommitChunk(h)
    <3>1. \A f \in Handlers : handler'[f] = IF f = h THEN NoRequest ELSE handler[f]
      BY <1>0, <2>2 DEF CommitChunk, Done
    <3>2. QED
      BY <1>0, <2>2, <3>1 DEF CommitChunk
  <2>3. CASE RequestLost(h)
    <3>1. \A f \in Handlers : handler'[f] = IF f = h THEN NoRequest ELSE handler[f]
      BY <1>0, <2>3 DEF RequestLost, Done
    <3>2. QED
      BY <1>0, <2>3, <3>1 DEF RequestLost, database
  <2>4. CASE CleanupTemporaryFiles(h)
    <3>1. \A f \in Handlers :
            handler'[f] = IF f = h THEN NoRequest ELSE Unstage(handler[h].s)[f]
      BY <1>0, <2>4 DEF CleanupTemporaryFiles, Unstage
    <3>2. QED
      BY <1>0, <1>u, <2>4, <3>1 DEF CleanupTemporaryFiles, database
  <2>5. CASE Accept(h) \/ AcceptChunk(h) \/ Capture(h)
    <3>1. handler'[h].pc # "promoted" /\ \A f \in Handlers \ {h} : handler'[f] = handler[f]
      BY ZenonT(60), <1>0, <2>5 DEF Accept, AcceptChunk, Capture, NoRequest, Request
    <3>2. QED
      BY <2>5, <3>1 DEF Accept, AcceptChunk, Capture, OnlyHandler, database
  <2>6. ASSUME writer = NoWriter, \/ Done(h) \/ ThenGet(h) \/ Goto(h, "cleanup")
        PROVE  FALSE
    <3>1. handler'[h].pc # "promoted" /\ \A f \in Handlers \ {h} : handler'[f] = handler[f]
      BY <1>0, <2>6 DEF Done, ThenGet, Goto, NoRequest, Request
    <3>2. QED
      BY <1>0, <2>6, <3>1
  <2>7. QED
    BY <1>2, <2>1, <2>2, <2>3, <2>4, <2>5, <2>6 DEF HandlerStep, ReturnSession, CreateSession,
       GetSessionOrExpire, RefuseChunk, RepeatChunk, FinalizeWithoutChange, RequeueFinalize,
       StartFinalize, CancelSession, Transaction, Reply
<1>3. ASSUME NEW w \in Workers, WorkerStep(w)
      PROVE  writer' = g /\ session'[handler'[g].s].status \in Uploadable
  <2>1. CASE CleanupAfterCommit(w)
    <3>1. worker[w].s \in Sessions
      BY DEF TypeOK, Process
    <3>2. QED
      BY <1>u, <1>1, <2>1, <3>1 DEF CleanupAfterCommit, database
  <2>2. CASE handler' = handler /\ UNCHANGED <<writer, session>>
    BY <1>1, <2>2
  <2>3. CASE handler' = handler /\ writer = NoWriter
    BY <1>0, <2>3
  <2>4. QED
    BY <1>3, <2>1, <2>2, <2>3 DEF WorkerStep, ProcessJob, RecoverExpiredJobs, ClaimNextJob,
       ReadSession, EnsureFinalFile, OpenAssembly, CopyChunk, PromoteFinal, StorageFailure,
       CommitFinalization, CleanupAssembly, MarkFinalizationFailed, WorkerCrash, OnlyWorker,
       database
<1>4. CASE Tick \/ UNCHANGED vars
  BY <1>1, <1>4 DEF Tick, vars, database
<1>5. CASE PowerLoss
  BY <1>0, <1>5 DEF PowerLoss
<1>6. QED
  BY <1>2, <1>3, <1>4, <1>5 DEF Next

LEMMA CoherenceInductive ==
    /\ Init => AllMatched /\ LockHeld
    /\ TypeOK /\ AllMatched /\ LockHeld /\ [Next]_vars => AllMatched' /\ LockHeld'
<1>1. Init => AllMatched /\ LockHeld
  BY DEF Init, AllMatched, Matched, LockHeld, NoSession, NoJob, NoRequest
<1>2. ASSUME TypeOK, AllMatched, LockHeld, [Next]_vars
      PROVE  AllMatched' /\ LockHeld'
  <2>1. CASE Tick \/ PowerLoss \/ UNCHANGED vars
    BY <1>2, <2>1, LockProtects DEF Tick, PowerLoss, vars, database, AllMatched
  <2>2. QED
    BY <1>2, <2>1, LockProtects, HandlerKeepsMatched, WorkerKeepsMatched DEF Next
<1>3. QED
  BY <1>1, <1>2

\* The session row and the job row never contradict each other, however many
\* requests, workers, crashes and expired leases there are.
THEOREM SessionAndJobAgree == Spec => []SessionJobCoherent
<1>1. AllMatched => SessionJobCoherent
  BY DEF AllMatched, Matched, SessionJobCoherent
<1>2. QED
  BY <1>1, TypeCorrect, CoherenceInductive, PTL DEF Spec

LEMMA DoneStaysDone ==
    ASSUME TypeOK, [Next]_vars, NEW t \in Sessions, job[t].status = "done"
    PROVE  job'[t].status = "done"
<1>0. job \in [Sessions -> Job]
  BY DEF TypeOK
<1>1. CASE job' = job
  BY <1>1
<1>2. ASSUME NEW h \in Handlers, RequeueFinalize(h) \/ StartFinalize(h)
      PROVE  job'[t].status = "done"
  BY <1>0, <1>2 DEF RequeueFinalize, StartFinalize
<1>3. ASSUME NEW w \in Workers, RecoverExpiredJobs(w) \/ ClaimNextJob(w)
      PROVE  job'[t].status = "done"
  BY <1>0, <1>3 DEF RecoverExpiredJobs, ClaimNextJob
<1>4. ASSUME NEW w \in Workers, CommitFinalization(w) \/ MarkFinalizationFailed(w)
      PROVE  job'[t].status = "done"
  BY SMTT(30), <1>0, <1>4 DEF CommitFinalization, MarkFinalizationFailed, Job
<1>5. QED
  BY ZenonT(60), <1>1, <1>2, <1>3, <1>4 DEF Next, HandlerStep, WorkerStep, ProcessJob, Accept, AcceptChunk,
     Capture, ReturnSession, CreateSession, GetSessionOrExpire, RefuseChunk, RepeatChunk,
     PromoteChunk, CommitChunk, FinalizeWithoutChange, CancelSession, CleanupTemporaryFiles,
     RequestLost, OnlyHandler, ReadSession, EnsureFinalFile, OpenAssembly, CopyChunk,
     PromoteFinal, StorageFailure, CleanupAfterCommit, CleanupAssembly, WorkerCrash, OnlyWorker,
     Tick, PowerLoss, vars, database

\* No step of any request or worker takes a session out of completed.
THEOREM CompletionIsFinal == Spec => CompletedStaysCompleted
<1>1. ASSUME TypeOK, AllMatched, LockHeld, [Next]_vars
      PROVE  [\A s \in Sessions :
                 session[s].status = "completed" => session'[s].status = "completed"]_session
  <2> SUFFICES ASSUME NEW s \in Sessions, session[s].status = "completed",
                      session'[s].status # "completed"
               PROVE  FALSE
    OBVIOUS
  <2>1. job[s].status = "done"
    BY <1>1 DEF AllMatched, Matched
  <2>2. AllMatched'
    BY <1>1, CoherenceInductive
  <2>3. job'[s].status # "done"
    BY <2>2 DEF AllMatched, Matched
  <2>4. QED
    BY <1>1, <2>1, <2>3, DoneStaysDone
<1>2. QED
  BY <1>1, TypeCorrect, CoherenceInductive, PTL DEF Spec, CompletedStaysCompleted
=============================================================================

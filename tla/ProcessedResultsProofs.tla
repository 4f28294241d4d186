----------------------- MODULE ProcessedResultsProofs -----------------------
(***************************************************************************)
(* Proofs about ProcessedResults for every value of its constants: types,  *)
(* an inductive invariant over what a step may do to the tables, and from  *)
(* it that the results implement their contract; the tables keep these     *)
(* promises whatever becomes of the files. Then, for one worker, what      *)
(* becomes of the files: pointers are backed and downloads authoritative.  *)
(***************************************************************************)
EXTENDS ProcessedResults, TLAPS

(***************************************************************************)
(* Type correctness.                                                       *)
(***************************************************************************)
LEMMA DefaultsTyped ==
    /\ Idle \in Process /\ NoRequest \in Request
    /\ NoResult \in Result /\ NoRendition \in Rendition /\ Migrated \in Rendition
BY DEF Idle, Process, Pc, Owners, AttemptState, Terminal, Bytes, FailureCode, NoRequest, Request,
   NoResult, Result, NoRendition, Rendition, RenditionState, InProgress, Migrated

LEMMA WorkerTyped ==
    ASSUME worker \in [Workers -> Process], NEW w \in Workers, NEW pc \in Pc
    PROVE  /\ [worker EXCEPT ![w].pc = pc] \in [Workers -> Process]
           /\ [worker EXCEPT ![w] = Idle] \in [Workers -> Process]
           /\ \A code \in FailureCode :
                [worker EXCEPT ![w].pc = pc, ![w].code = code, ![w].fd = "none"]
                    \in [Workers -> Process]
           /\ \A from \in AttemptState \cup RenditionState :
                [worker EXCEPT ![w].pc = pc, ![w].from = from] \in [Workers -> Process]
           /\ \A id \in Bytes :
                [worker EXCEPT ![w].pc = pc, ![w].id = id] \in [Workers -> Process]
           /\ \A fd \in {"none", "candidate"} :
                [worker EXCEPT ![w].pc = pc, ![w].fd = fd] \in [Workers -> Process]
<1> DEFINE p == worker[w]
<1>1. p \in Process /\ Idle \in Process
  BY DefaultsTyped
<1>2. [p EXCEPT !.pc = pc] \in Process
  BY <1>1 DEF Process
<1>3. ASSUME NEW code \in FailureCode
      PROVE  [worker EXCEPT ![w].pc = pc, ![w].code = code, ![w].fd = "none"] \in [Workers -> Process]
  <2>1. [p EXCEPT !.pc = pc, !.code = code, !.fd = "none"] \in Process
    BY <1>1 DEF Process
  <2>2. [worker EXCEPT ![w].pc = pc, ![w].code = code, ![w].fd = "none"]
            = [worker EXCEPT ![w] = [p EXCEPT !.pc = pc, !.code = code, !.fd = "none"]]
    BY <1>1
  <2>3. QED
    BY <2>1, <2>2
<1>4. ASSUME NEW from \in AttemptState \cup RenditionState
      PROVE  [worker EXCEPT ![w].pc = pc, ![w].from = from] \in [Workers -> Process]
  <2>1. [p EXCEPT !.pc = pc, !.from = from] \in Process
    BY <1>1 DEF Process
  <2>2. [worker EXCEPT ![w].pc = pc, ![w].from = from]
            = [worker EXCEPT ![w] = [p EXCEPT !.pc = pc, !.from = from]]
    BY <1>1
  <2>3. QED
    BY <2>1, <2>2
<1>5. ASSUME NEW id \in Bytes
      PROVE  [worker EXCEPT ![w].pc = pc, ![w].id = id] \in [Workers -> Process]
  <2>1. [p EXCEPT !.pc = pc, !.id = id] \in Process
    BY <1>1 DEF Process
  <2>2. [worker EXCEPT ![w].pc = pc, ![w].id = id]
            = [worker EXCEPT ![w] = [p EXCEPT !.pc = pc, !.id = id]]
    BY <1>1
  <2>3. QED
    BY <2>1, <2>2
<1>6. ASSUME NEW fd \in {"none", "candidate"}
      PROVE  [worker EXCEPT ![w].pc = pc, ![w].fd = fd] \in [Workers -> Process]
  <2>1. [p EXCEPT !.pc = pc, !.fd = fd] \in Process
    BY <1>1 DEF Process
  <2>2. [worker EXCEPT ![w].pc = pc, ![w].fd = fd]
            = [worker EXCEPT ![w] = [p EXCEPT !.pc = pc, !.fd = fd]]
    BY <1>1
  <2>3. QED
    BY <2>1, <2>2
<1>7. QED
  BY <1>1, <1>2, <1>3, <1>4, <1>5, <1>6

LEMMA UnlinkTyped ==
    ASSUME TypeOK, NEW next \in [Workers -> Process]
    PROVE  /\ UnlinkCandidate(next) =>
                /\ candidate' \in Bytes /\ linked' \in BOOLEAN
                /\ worker' \in [Workers -> Process]
                /\ published' \in [Owners -> Bytes]
           /\ UnlinkPublished(next) =>
                /\ candidate' \in Bytes /\ linked' \in BOOLEAN
                /\ worker' \in [Workers -> Process]
                /\ published' \in [Owners -> Bytes]
<1>1. \A v \in Workers, fd \in {"published", "orphan"} : [next[v] EXCEPT !.fd = fd] \in Process
  BY DEF Process
<1>2. "none" \in Bytes
  BY DEF Bytes
<1>3. UnlinkCandidate(next) => worker' \in [Workers -> Process]
  BY <1>1 DEF UnlinkCandidate
<1>4. UnlinkPublished(next) => worker' \in [Workers -> Process]
  BY <1>1 DEF UnlinkPublished
<1>5. QED
  BY <1>2, <1>3, <1>4 DEF UnlinkCandidate, UnlinkPublished, TypeOK

LEMMA FormalTyped ==
    ASSUME TypeOK, NEW w \in Workers, ProcessFormalPreview(w) \/ FailureUnrecorded(w)
    PROVE  TypeOK'
<1> DEFINE WorkersTyped == worker' \in [Workers -> Process]
<1>w. worker \in [Workers -> Process]
  BY DEF TypeOK
<1>a. ASSUME NEW pc \in Pc PROVE Goto(w, pc) => WorkersTyped
  <2>1. [worker EXCEPT ![w].pc = pc] \in [Workers -> Process]
    BY <1>w, WorkerTyped
  <2>2. QED
    BY <2>1 DEF Goto
<1>b. ASSUME NEW pc \in Pc, NEW code \in FailureCode PROVE Fail(w, pc, code) => WorkersTyped
  <2>1. [worker EXCEPT ![w].pc = pc, ![w].code = code, ![w].fd = "none"] \in [Workers -> Process]
    BY <1>w, WorkerTyped
  <2>2. QED
    BY <2>1 DEF Fail
<1>c. Release(w) => WorkersTyped
  <2>1. "idle" \in Pc
    BY DEF Pc
  <2>2. [worker EXCEPT ![w] = Idle] \in [Workers -> Process]
    BY <1>w, <2>1, WorkerTyped
  <2>3. QED
    BY <2>2 DEF Release
<1> USE DEF TypeOK, tables, disk
<1>0. /\ Formal \in Owners /\ worker[w] \in Process
      /\ \A pc \in Pc : Goto(w, pc) => WorkersTyped
      /\ \A pc \in Pc, code \in FailureCode : Fail(w, pc, code) => WorkersTyped
      /\ Release(w) => WorkersTyped
  BY <1>a, <1>b, <1>c DEF Owners
<1>1. CASE PrepareAttempt(w)
  <2>1. attempt' \in Attempt
    BY <1>1 DEF PrepareAttempt, Attempt, AttemptState, Terminal
  <2>2. WorkersTyped
    <3>1. CASE Release(w)
      BY <1>0, <3>1
    <3>2. CASE worker' = [worker EXCEPT ![w].pc = "source", ![w].from = attempt'.state]
      BY ZenonT(60), <2>1, <3>2, WorkerTyped DEF Attempt, Pc
    <3>3. QED
      BY <1>1, <3>1, <3>2 DEF PrepareAttempt
  <2>3. job' \in [Owners -> JobStatus]
    BY <1>0, <1>1 DEF PrepareAttempt, JobStatus
  <2>4. QED
    BY <1>1, <2>1, <2>2, <2>3 DEF PrepareAttempt
<1>2. CASE VerifyOriginal(w)
  <2>1. PhaseOf(worker[w].from) \in Pc
    BY DEF PhaseOf, Pc
  <2>2. QED
    BY <1>0, <1>2, <2>1 DEF VerifyOriginal
<1>3. CASE PersistDetection(w)
  <2>1. attempt' \in Attempt
    BY <1>3 DEF PersistDetection, Attempt, AttemptState, Terminal
  <2>2. WorkersTyped
    <3>1. "resolve" \in Pc /\ "resolving" \in AttemptState \cup RenditionState
      BY DEF Pc, AttemptState
    <3>2. [worker EXCEPT ![w].pc = "resolve", ![w].from = "resolving"] \in [Workers -> Process]
      BY <1>w, <3>1, WorkerTyped
    <3>3. QED
      BY <1>3, <3>2 DEF PersistDetection
  <2>3. QED
    BY <1>3, <2>1, <2>2 DEF PersistDetection
<1>4. CASE PersistPreset(w)
  <2>1. attempt' \in Attempt
    BY <1>4 DEF PersistPreset, Attempt, AttemptState, Terminal
  <2>2. WorkersTyped
    BY <1>4, WorkerTyped DEF PersistPreset, Pc, AttemptState
  <2>3. QED
    BY <1>4, <2>1, <2>2 DEF PersistPreset
<1>5. CASE DiscardCandidate(w)
  <2>1. [worker EXCEPT ![w].pc = "render"] \in [Workers -> Process]
    BY WorkerTyped DEF Pc
  <2>2. QED
    BY <1>5, <2>1, UnlinkTyped DEF DiscardCandidate
<1>6. CASE StartRender(w)
  <2>1. WorkersTyped
    BY <1>6, WorkerTyped DEF StartRender, Pc
  <2>2. QED
    BY <1>0, <1>6, <2>1 DEF StartRender, Bytes
<1>7. CASE FinishRender(w)
  <2>1. WorkersTyped
    BY <1>7, WorkerTyped DEF FinishRender, Pc
  <2>2. PICK b \in Written(w) :
          /\ candidate' = IF worker[w].fd = "candidate" THEN b ELSE candidate
          /\ published' =
              IF worker[w].fd \in {"published"} \cup (IF linked THEN {"candidate"} ELSE {})
              THEN [published EXCEPT ![Formal] = b] ELSE published
    BY <1>7 DEF FinishRender
  <2>3. b \in Bytes
    BY <2>2 DEF Written, Bytes
  <2>4. QED
    BY <1>0, <1>7, <2>1, <2>2, <2>3 DEF FinishRender
<1>8. CASE InspectCandidate(w)
  <2>1. WorkersTyped
    <3>1. candidate \in Bytes /\ {"advance", "promote"} \subseteq Pc
      BY DEF Pc
    <3>2. \A pc \in {"advance", "promote"} :
            [worker EXCEPT ![w].pc = pc, ![w].id = candidate] \in [Workers -> Process]
      BY <1>w, <3>1, WorkerTyped
    <3>3. QED
      BY <1>8, <3>2 DEF InspectCandidate
  <2>2. QED
    BY <1>8, <2>1 DEF InspectCandidate
<1>9. CASE TransitionToFinalizing(w)
  <2>1. attempt' \in Attempt
    BY <1>9 DEF TransitionToFinalizing, Attempt, AttemptState, Terminal
  <2>2. QED
    BY <1>0, <1>9, <2>1 DEF TransitionToFinalizing, Pc
<1>10. CASE PromoteCandidate(w)
  BY <1>0, <1>10 DEF PromoteCandidate, Pc
<1>11. CASE CheckPublished(w)
  BY <1>0, <1>11 DEF CheckPublished, Pc
<1>12. CASE CommitFormalPreview(w)
  <2>1. attempt' \in Attempt /\ asset' \in Asset
    BY <1>0, <1>12 DEF CommitFormalPreview, Attempt, AttemptState, Terminal, Asset
  <2>2. ReadyResult(worker[w].id) \in Result
    BY <1>0 DEF Result, Process, ReadyResult
  <2>3. job' \in [Owners -> JobStatus]
    BY <1>0, <1>12 DEF CommitFormalPreview, JobStatus
  <2>4. QED
    BY <1>0, <1>12, <2>1, <2>2, <2>3 DEF CommitFormalPreview, Pc
<1>13. CASE RefuseFormalPreview(w)
  BY <1>0, <1>13 DEF RefuseFormalPreview, Pc, FailureCode
<1>14. CASE UndoPublication(w)
  <2>1. [worker EXCEPT ![w].pc = "undone"] \in [Workers -> Process]
    BY WorkerTyped DEF Pc
  <2>2. QED
    BY <1>14, <2>1, UnlinkTyped DEF UndoPublication
<1>15. CASE DropCandidate(w)
  <2>1. /\ [worker EXCEPT ![w].pc = "fail"] \in [Workers -> Process]
        /\ [worker EXCEPT ![w] = Idle] \in [Workers -> Process]
    BY WorkerTyped DEF Pc
  <2>2. QED
    BY <1>15, <2>1, UnlinkTyped DEF DropCandidate
<1>16. CASE StepFails(w)
  <2>1. "step_failed" \in FailureCode
    BY DEF FailureCode
  <2>2. WorkersTyped
    BY <1>0, <1>16, <2>1 DEF StepFails, Pc
  <2>3. QED
    BY <1>16, <2>2 DEF StepFails
<1>17. CASE FailAttempt(w)
  <2>1. attempt' \in Attempt /\ asset' \in Asset
    BY <1>0, <1>17 DEF FailAttempt, Attempt, AttemptState, Terminal, Asset, Process
  <2>2. WorkersTyped
    BY <1>0, <1>17 DEF FailAttempt, Pc
  <2>3. job' \in [Owners -> JobStatus]
    BY <1>0, <1>17 DEF FailAttempt, JobStatus
  <2>4. QED
    BY <1>17, <2>1, <2>2, <2>3 DEF FailAttempt
<1>18. CASE FailureUnrecorded(w)
  <2>1. WorkersTyped
    BY <1>0, <1>18 DEF FailureUnrecorded, Pc
  <2>2. QED
    BY <1>18, <2>1 DEF FailureUnrecorded
<1>19. QED
  BY <1>1, <1>2, <1>3, <1>4, <1>5, <1>6, <1>7, <1>8, <1>9, <1>10, <1>11, <1>12, <1>13, <1>14,
     <1>15, <1>16, <1>17, <1>18 DEF ProcessFormalPreview

LEMMA RenditionTyped ==
    ASSUME TypeOK, NEW w \in Workers, ProcessRendition(w)
    PROVE  TypeOK'
<1> DEFINE WorkersTyped == worker' \in [Workers -> Process]
<1>w. worker \in [Workers -> Process]
  BY DEF TypeOK
<1>a. ASSUME NEW pc \in Pc PROVE Goto(w, pc) => WorkersTyped
  <2>1. [worker EXCEPT ![w].pc = pc] \in [Workers -> Process]
    BY <1>w, WorkerTyped
  <2>2. QED
    BY <2>1 DEF Goto
<1>b. ASSUME NEW pc \in Pc, NEW code \in FailureCode PROVE Fail(w, pc, code) => WorkersTyped
  <2>1. [worker EXCEPT ![w].pc = pc, ![w].code = code, ![w].fd = "none"] \in [Workers -> Process]
    BY <1>w, WorkerTyped
  <2>2. QED
    BY <2>1 DEF Fail
<1>c. Release(w) => WorkersTyped
  <2>1. "idle" \in Pc
    BY DEF Pc
  <2>2. [worker EXCEPT ![w] = Idle] \in [Workers -> Process]
    BY <1>w, <2>1, WorkerTyped
  <2>3. QED
    BY <2>2 DEF Release
<1> DEFINE r == worker[w].owner
<1>0. r \in Owners /\ worker[w].code \in FailureCode
  BY <1>w DEF Process
<1>s. ASSUME NEW s \in RenditionState, r \in Requests
      PROVE  [rendition EXCEPT ![r].state = s] \in [Requests -> Rendition]
  <2>1. [rendition[r] EXCEPT !.state = s] \in Rendition
    BY <1>s DEF Rendition, TypeOK
  <2>2. QED
    BY <1>s, <2>1 DEF TypeOK
<1> USE DEF TypeOK, tables, disk
<1>1. CASE RestartValidation(w)
  <2>0. r \in Requests
    BY <1>1 DEF RestartValidation, On
  <2>1. rendition' \in [Requests -> Rendition]
    BY <1>1, <1>s, <2>0 DEF RestartValidation, RenditionState, InProgress
  <2>2. WorkersTyped
    <3>1. CASE Release(w)
      BY <1>c, <3>1
    <3>2. CASE worker' = [worker EXCEPT ![w].pc = "clean", ![w].from = rendition[r].state]
      <4>1. "clean" \in Pc /\ rendition[r].state \in AttemptState \cup RenditionState
        BY <2>0 DEF Pc, Rendition
      <4>2. QED
        BY <1>w, <3>2, <4>1, WorkerTyped
    <3>3. QED
      BY <1>1, <3>1, <3>2 DEF RestartValidation
  <2>3. job' \in [Owners -> JobStatus]
    BY <1>0, <1>1 DEF RestartValidation, JobStatus
  <2>4. QED
    BY <1>1, <2>1, <2>2, <2>3 DEF RestartValidation
<1>2. CASE CleanupUncommitted(w)
  BY <1>a, <1>2, <1>0 DEF CleanupUncommitted, Pc, Bytes
<1>3. ASSUME NEW pc, NEW state, NEW next \in Pc, CheckState(w, pc, state, next)
      PROVE  TypeOK'
  BY <1>3, <1>a DEF CheckState
<1>4. ASSUME NEW pc, NEW state \in RenditionState, NEW next \in Pc, StoreState(w, pc, state, next)
      PROVE  TypeOK'
  <2>1. rendition' \in [Requests -> Rendition]
    BY <1>4, <1>s DEF StoreState, On
  <2>2. QED
    BY <1>4, <1>a, <2>1 DEF StoreState
<1>5. CASE BeginRendering(w)
  BY <1>3, <1>4, <1>5 DEF BeginRendering, Pc, RenditionState, InProgress
<1>6. CASE EndRendering(w)
  BY <1>3, <1>4, <1>6 DEF EndRendering, Pc, RenditionState, InProgress
<1>7. CASE PromoteRendition(w)
  BY <1>a, <1>7, <1>0 DEF PromoteRendition, Pc, Bytes
<1>8. CASE CommitRendition(w)
  <2>0. r \in Requests /\ asset.active \in Owners
    BY <1>8 DEF CommitRendition, On, RenditionPublishable, TransitionValid, Asset
  <2>1. rendition' \in [Requests -> Rendition]
    <3>1. "ready" \in RenditionState
      BY DEF RenditionState, Terminal
    <3>2. QED
      BY <1>8, <1>s, <2>0, <3>1 DEF CommitRendition
  <2>2. asset' \in Asset
    BY <1>8, <2>0 DEF CommitRendition, Asset, Owners
  <2>3. result' \in [Owners -> Result]
    <3>1. Superseded(asset.active) \in Result
      BY <2>0 DEF Superseded, Result
    <3>2. ReadyResult(published[r]) \in Result
      BY <2>0 DEF Result, Owners, ReadyResult
    <3>3. QED
      BY <1>8, <2>0, <3>1, <3>2 DEF CommitRendition
  <2>4. job' \in [Owners -> JobStatus]
    BY <1>8, <1>0 DEF CommitRendition, JobStatus
  <2>5. QED
    BY <1>8, <1>c, <2>1, <2>2, <2>3, <2>4 DEF CommitRendition
<1>9. CASE RefuseRendition(w)
  BY <1>b, <1>9 DEF RefuseRendition, Pc, FailureCode
<1>10. CASE UndoRendition(w)
  BY <1>a, <1>0, <1>10 DEF UndoRendition, Pc, Bytes
<1>11. CASE RenditionStepFails(w)
  <2>1. "step_failed" \in FailureCode /\ "fail" \in Pc /\ "undo" \in Pc
    BY DEF FailureCode, Pc
  <2>2. WorkersTyped
    BY <1>b, <1>11, <2>1 DEF RenditionStepFails, PresetUnusable
  <2>3. QED
    BY <1>11, <2>2 DEF RenditionStepFails
<1>12. CASE FailRendition(w)
  <2>0. r \in Requests
    BY <1>12 DEF FailRendition, On
  <2>1. rendition' \in [Requests -> Rendition]
    <3>1. [rendition[r] EXCEPT !.state = "failed", !.error = worker[w].code] \in Rendition
      BY <1>0, <2>0 DEF Rendition, RenditionState, Terminal
    <3>2. [rendition EXCEPT ![r].state = "failed", ![r].error = worker[w].code]
            = [rendition EXCEPT ![r] = [rendition[r] EXCEPT !.state = "failed", !.error = worker[w].code]]
      BY <2>0
    <3>3. QED
      BY <1>12, <3>1, <3>2 DEF FailRendition
  <2>2. job' \in [Owners -> JobStatus]
    BY <1>12, <1>0 DEF FailRendition, JobStatus
  <2>3. QED
    BY <1>12, <1>c, <2>1, <2>2 DEF FailRendition
<1>13. QED
  BY <1>1, <1>2, <1>5, <1>6, <1>7, <1>8, <1>9, <1>10, <1>11, <1>12 DEF ProcessRendition

LEMMA RequestTyped ==
    ASSUME TypeOK, NEW h \in Handlers, RenditionRequest(h) \/ DownloadRequest(h)
    PROVE  TypeOK'
<1> USE DEF TypeOK, tables, disk
<1>0. handler[h] \in Request /\ NoRequest \in Request /\ handler[h].o \in Owners
  BY DefaultsTyped DEF Request
<1>1. ASSUME NEW r \in Requests, AcceptRendition(h, r) PROVE TypeOK'
  <2>1. [pc |-> "begin", op |-> "create", o |-> r, base |-> Nobody] \in Request
    BY DEF Request, Owners
  <2>2. QED
    BY <1>1, <2>1 DEF AcceptRendition
<1>2. CASE Preflight(h)
  <2>1. handler' \in [Handlers -> Request]
    <3>1. CASE handler' = [handler EXCEPT ![h] = NoRequest]
      BY <1>0, <3>1
    <3>2. CASE handler' = [handler EXCEPT ![h].pc = "ready", ![h].base = asset.active]
      <4>1. [handler[h] EXCEPT !.pc = "ready", !.base = asset.active] \in Request
        BY <1>0 DEF Request, Asset
      <4>2. handler' = [handler EXCEPT ![h] = [handler[h] EXCEPT !.pc = "ready", !.base = asset.active]]
        BY <3>2
      <4>3. QED
        BY <4>1, <4>2
    <3>3. QED
      BY <1>2, <3>1, <3>2 DEF Preflight
  <2>2. QED
    BY <1>2, <2>1 DEF Preflight
<1>3. CASE CreateRendition(h)
  <2>1. asset' \in Asset
    BY <1>3 DEF CreateRendition, Asset
  <2>2. rendition' \in [Requests -> Rendition]
    <3>1. [state |-> "queued", generation |-> asset.selection + 1,
           base |-> handler[h].base, error |-> "none"] \in Rendition
      BY <1>0 DEF Rendition, Request, Asset, RenditionState, InProgress, FailureCode
    <3>2. QED
      BY <1>3, <3>1 DEF CreateRendition, NewRendition
  <2>3. job' \in [Owners -> JobStatus]
    BY <1>0, <1>3 DEF CreateRendition, JobStatus
  <2>4. QED
    BY <1>0, <1>3, <2>1, <2>2, <2>3 DEF CreateRendition
<1>4. ASSUME NEW o \in Owners, AcceptDownload(h, o) PROVE TypeOK'
  <2>1. [pc |-> "begin", op |-> "download", o |-> o, base |-> Nobody] \in Request
    BY DEF Request
  <2>2. QED
    BY <1>4, <2>1 DEF AcceptDownload
<1>5. [handler[h] EXCEPT !.pc = "ready"] \in Request /\ [handler[h] EXCEPT !.pc = "serving"] \in Request
  BY <1>0 DEF Request
<1>6. CASE ResolveResult(h)
  BY <1>0, <1>5, <1>6 DEF ResolveResult
<1>7. CASE OpenResult(h)
  BY <1>0, <1>5, <1>7 DEF OpenResult
<1>8. CASE EndDownload(h)
  BY <1>0, <1>8 DEF EndDownload
<1>9. QED
  BY <1>1, <1>2, <1>3, <1>4, <1>6, <1>7, <1>8 DEF RenditionRequest, DownloadRequest

LEMMA QueueTyped ==
    ASSUME TypeOK, NEW w \in Workers,
           RecoverExpiredJob(w) \/ ClaimNextJob(w) \/ WorkerKilled(w)
    PROVE  TypeOK'
<1> USE DEF TypeOK, tables, disk
<1>0. Idle \in Process
  BY DefaultsTyped
<1>1. CASE RecoverExpiredJob(w)
  <2>1. job' \in [Owners -> JobStatus]
    BY <1>1 DEF RecoverExpiredJob, JobStatus
  <2>2. QED
    BY <1>1, <2>1 DEF RecoverExpiredJob
<1>2. CASE ClaimNextJob(w)
  <2>1. PICK o \in Owners :
          /\ job' = [job EXCEPT ![o] = "running"]
          /\ worker' = [worker EXCEPT ![w] = [Idle EXCEPT !.pc = "prepare", !.owner = o]]
    BY <1>2 DEF ClaimNextJob
  <2>2. [Idle EXCEPT !.pc = "prepare", !.owner = o] \in Process
    BY <1>0 DEF Process, Pc
  <2>3. QED
    BY <1>2, <2>1, <2>2 DEF ClaimNextJob, JobStatus
<1>3. CASE WorkerKilled(w)
  BY <1>0, <1>3 DEF WorkerKilled, Release
<1>4. QED
  BY <1>1, <1>2, <1>3

LEMMA InitTyped == Init => TypeOK
<1> SUFFICES ASSUME Init PROVE TypeOK
  OBVIOUS
<1> USE DEF TypeOK
<1>1. PICK kept \in {{}} \cup {{r} : r \in Requests} :
        /\ asset = [preview |-> "preview_generating", formal |-> FALSE,
                    active |-> IF kept = {} THEN Nobody ELSE CHOOSE r \in kept : TRUE,
                    selection |-> IF kept = {} THEN 0 ELSE 1]
        /\ rendition = [r \in Requests |-> IF r \in kept THEN Migrated ELSE NoRendition]
        /\ job = [o \in Owners |->
                    IF o = Formal THEN "queued" ELSE IF o \in kept THEN "done" ELSE "none"]
        /\ result = [o \in Owners |->
                    IF o \in kept THEN ReadyResult("full") ELSE NoResult]
        /\ published = [o \in Owners |-> IF o \in kept THEN "full" ELSE "none"]
  BY DEF Init
<1>2. asset \in Asset
  <2>1. asset.active \in Owners \cup {Nobody}
    BY <1>1 DEF Owners
  <2>2. QED
    BY <1>1, <2>1 DEF Asset
<1>3. rendition \in [Requests -> Rendition]
  BY <1>1, DefaultsTyped
<1>4. result \in [Owners -> Result]
  BY <1>1, DefaultsTyped DEF Result, Bytes, ReadyResult
<1>5. attempt \in Attempt
  BY DEF Init, Attempt, AttemptState, Detection, FailureCode
<1>6. QED
  BY <1>1, <1>2, <1>3, <1>4, <1>5, DefaultsTyped DEF Init, JobStatus, Bytes

LEMMA StepTyped == TypeOK /\ [Next]_vars => TypeOK'
<1> SUFFICES ASSUME TypeOK, [Next]_vars PROVE TypeOK'
  OBVIOUS
<1>1. ASSUME NEW w \in Workers, WorkerStep(w) PROVE TypeOK'
  BY <1>1, FormalTyped, RenditionTyped, QueueTyped DEF WorkerStep, ProcessJob
<1>2. ASSUME NEW h \in Handlers, RenditionRequest(h) \/ DownloadRequest(h) PROVE TypeOK'
  BY <1>2, RequestTyped
<1>3. CASE UNCHANGED vars
  BY <1>3 DEF vars, tables, disk, TypeOK
<1>4. QED
  BY <1>1, <1>2, <1>3 DEF Next

\* Every variable keeps its type, whatever workers, requests and kills there are.
THEOREM ResultsTypeCorrect == Spec => []TypeOK
BY InitTyped, StepTyped, PTL DEF Spec

(***************************************************************************)
(* The invariant. A selection is numbered when it is made and never again; *)
(* what is on display, and every rendition with a result, is ready, and    *)
(* only the commit of a rendition leaves that state; the attempt settles   *)
(* with its job, and is never superseded as there is only one generation.  *)
(***************************************************************************)
CreationsNameRequests ==
    \A h \in Handlers : handler[h].op = "create" => handler[h].o \in Requests
AttemptLive ==
    /\ attempt.state # "superseded"
    /\ attempt.state \in {"none", "probing"} => attempt.detection = "none"
SelectionsNumbered ==
    \A r \in Requests :
        rendition[r].state # "none" => rendition[r].generation \in 1 .. asset.selection
DisplayedIsReady ==
    /\ asset.active \in Requests => rendition[asset.active].state = "ready"
    /\ asset.active = Formal => asset.formal
ResultsAreReady ==
    \A r \in Requests : result[r].status # "none" => rendition[r].state = "ready"
RInv ==
    /\ TypeOK /\ CreationsNameRequests /\ AttemptLive /\ AttemptJobAgree
    /\ SelectionsNumbered /\ DisplayedIsReady /\ ResultsAreReady /\ SupersededIsReplaced

(***************************************************************************)
(* What a step may do to the tables: nothing but queueing, or one of the   *)
(* six changes below.                                                      *)
(***************************************************************************)
Bookkeeping ==
    /\ UNCHANGED <<asset, attempt, rendition, result>>
    /\ \A s \in {"done", "failed"} : job'[Formal] = s <=> job[Formal] = s
AttemptAdvances ==
    /\ UNCHANGED <<asset, rendition, job, result>>
    /\ attempt.state \notin Terminal
    /\ attempt'.state \in {"probing", "resolving", "rendering", "finalizing"}
    /\ attempt'.failure = attempt.failure
    /\ attempt'.detection # attempt.detection => attempt.state = "probing"
    /\ attempt'.state = "probing" => attempt'.detection = attempt.detection
                                     /\ attempt.state \in {"none", "probing"}
AttemptFails ==
    /\ UNCHANGED <<rendition, result>>
    /\ attempt.state \notin Terminal /\ attempt'.state = "failed"
    /\ attempt'.detection = attempt.detection
    /\ job'[Formal] = "failed"
    /\ asset' = [asset EXCEPT !.preview = "failed"]
FormalPublished == \E w \in Workers : CommitFormalPreview(w)
Selected(r) ==
    /\ UNCHANGED <<attempt, result>> /\ job'[Formal] = job[Formal]
    /\ rendition[r].state = "none" /\ asset.active # Nobody /\ Deliverable(asset.active)
    /\ asset' = [asset EXCEPT !.selection = @ + 1]
    /\ rendition'[r].state = "queued" /\ rendition'[r].generation = asset.selection + 1
    /\ \A q \in Requests \ {r} : rendition'[q] = rendition[q]
RenditionMoves(r) ==
    /\ UNCHANGED <<asset, attempt, result>> /\ job'[Formal] = job[Formal]
    /\ rendition[r].state \in InProgress
    /\ rendition'[r].state \in InProgress \cup {"failed"}
    /\ rendition'[r].generation = rendition[r].generation
    /\ \A q \in Requests \ {r} : rendition'[q] = rendition[q]
RenditionPublished == \E w \in Workers : CommitRendition(w)
TableStep ==
    \/ Bookkeeping \/ AttemptAdvances \/ AttemptFails \/ FormalPublished
    \/ \E r \in Requests : Selected(r) \/ RenditionMoves(r)
    \/ RenditionPublished

LEMMA FormalTableStep ==
    ASSUME RInv, NEW w \in Workers, ProcessFormalPreview(w) \/ FailureUnrecorded(w)
    PROVE  TableStep
<1> USE DEF tables, TableStep
<1>0. attempt \in Attempt /\ attempt.state # "superseded" /\ Formal \in Owners
      /\ job \in [Owners -> JobStatus] /\ asset \in Asset
      /\ (job[Formal] = "done" <=> attempt.state = "ready")
      /\ (job[Formal] = "failed" <=> attempt.state = "failed")
  BY DEF RInv, TypeOK, AttemptLive, AttemptJobAgree, Owners
<1>1. CASE PrepareAttempt(w)
  <2>1. CASE attempt.state \in Terminal
    <3>1. Bookkeeping
      BY <1>0, <1>1, <2>1 DEF PrepareAttempt, Bookkeeping, Terminal
    <3>2. QED
      BY <3>1
  <2>2. CASE attempt.state \notin Terminal
    <3>1. AttemptAdvances
      BY <1>0, <1>1, <2>2 DEF PrepareAttempt, AttemptAdvances, Attempt, AttemptState
    <3>2. QED
      BY <3>1
  <2>3. QED
    BY <2>1, <2>2
<1>2. CASE PersistDetection(w)
  <2>1. AttemptAdvances
    BY <1>0, <1>2 DEF PersistDetection, AttemptAdvances, Attempt, Terminal
  <2>2. QED
    BY <2>1
<1>3. CASE PersistPreset(w)
  <2>1. AttemptAdvances
    BY <1>0, <1>3 DEF PersistPreset, AttemptAdvances, Attempt, Terminal
  <2>2. QED
    BY <2>1
<1>4. CASE TransitionToFinalizing(w)
  <2>1. AttemptAdvances
    BY <1>0, <1>4 DEF TransitionToFinalizing, AttemptAdvances, Attempt, Terminal
  <2>2. QED
    BY <2>1
<1>5. CASE FailAttempt(w)
  <2>1. CASE attempt.state \in Terminal
    <3>1. Bookkeeping
      BY <1>0, <1>5, <2>1 DEF FailAttempt, Bookkeeping, Terminal
    <3>2. QED
      BY <3>1
  <2>2. CASE attempt.state \notin Terminal
    <3>1. AttemptFails
      BY <1>0, <1>5, <2>2 DEF FailAttempt, AttemptFails, Attempt
    <3>2. QED
      BY <3>1
  <2>3. QED
    BY <2>1, <2>2
<1>6. CASE CommitFormalPreview(w)
  BY <1>6 DEF FormalPublished
<1>7. CASE UNCHANGED tables
  <2>1. Bookkeeping
    BY <1>7 DEF Bookkeeping
  <2>2. QED
    BY <2>1
<1>8. QED
  BY <1>1, <1>2, <1>3, <1>4, <1>5, <1>6, <1>7
     DEF ProcessFormalPreview, VerifyOriginal, DiscardCandidate, StartRender, FinishRender,
         InspectCandidate, PromoteCandidate, CheckPublished, RefuseFormalPreview, UndoPublication,
         DropCandidate, StepFails, FailureUnrecorded

LEMMA RenditionTableStep ==
    ASSUME RInv, NEW w \in Workers, ProcessRendition(w)
    PROVE  TableStep
<1> USE DEF tables, TableStep
<1> DEFINE r == worker[w].owner
<1>0. /\ rendition \in [Requests -> Rendition] /\ job \in [Owners -> JobStatus]
      /\ Formal \in Owners /\ Formal \notin Requests
  BY ResultAssumptions DEF RInv, TypeOK, Owners
<1>1. CASE RestartValidation(w)
  <2>0. r \in Requests
    BY <1>1 DEF RestartValidation, On
  <2>1. CASE rendition[r].state \in Terminal
    <3>1. Bookkeeping
      BY <1>0, <1>1, <2>0, <2>1 DEF RestartValidation, Bookkeeping, Terminal, InProgress
    <3>2. QED
      BY <3>1
  <2>2. CASE rendition[r].state \notin Terminal
    <3>1. RenditionMoves(r)
      BY <1>0, <1>1, <2>0, <2>2 DEF RestartValidation, RenditionMoves, Rendition, InProgress
    <3>2. QED
      BY <2>0, <3>1
  <2>3. QED
    BY <2>1, <2>2
<1>2. ASSUME NEW pc, NEW state \in InProgress, NEW next, StoreState(w, pc, state, next)
      PROVE  TableStep
  <2>0. r \in Requests
    BY <1>2 DEF StoreState, On
  <2>1. RenditionMoves(r)
    BY <1>0, <1>2, <2>0 DEF StoreState, RenditionMoves, Rendition
  <2>2. QED
    BY <2>0, <2>1
<1>3. CASE FailRendition(w)
  <2>0. r \in Requests
    BY <1>3 DEF FailRendition, On
  <2>1. CASE rendition[r].state \in InProgress
    <3>1. RenditionMoves(r)
      BY <1>0, <1>3, <2>0, <2>1 DEF FailRendition, RenditionMoves, Rendition
    <3>2. QED
      BY <2>0, <3>1
  <2>2. CASE rendition[r].state \notin InProgress
    <3>1. Bookkeeping
      BY <1>0, <1>3, <2>0, <2>2 DEF FailRendition, Bookkeeping
    <3>2. QED
      BY <3>1
  <2>3. QED
    BY <2>1, <2>2
<1>4. CASE CommitRendition(w)
  BY <1>4 DEF RenditionPublished
<1>5. CASE UNCHANGED tables
  <2>1. Bookkeeping
    BY <1>5 DEF Bookkeeping
  <2>2. QED
    BY <2>1
<1>6. {"rendering", "finalizing"} \subseteq InProgress
  BY DEF InProgress
<1>7. QED
  BY <1>1, <1>2, <1>3, <1>4, <1>5, <1>6
     DEF ProcessRendition, CleanupUncommitted, BeginRendering, EndRendering, CheckState,
         PromoteRendition, RefuseRendition, UndoRendition, RenditionStepFails

LEMMA EveryTableStep ==
    ASSUME RInv, [Next]_vars
    PROVE  TableStep
<1> USE DEF tables, TableStep
<1>0. job \in [Owners -> JobStatus] /\ Formal \in Owners
  BY DEF RInv, TypeOK, Owners
<1>1. ASSUME NEW w \in Workers, WorkerStep(w) PROVE TableStep
  <2>1. CASE RecoverExpiredJob(w) \/ ClaimNextJob(w) \/ WorkerKilled(w)
    <3>1. Bookkeeping
      BY <1>0, <2>1 DEF Bookkeeping, RecoverExpiredJob, ClaimNextJob, WorkerKilled
    <3>2. QED
      BY <3>1
  <2>2. QED
    BY <1>1, <2>1, FormalTableStep, RenditionTableStep DEF WorkerStep, ProcessJob
<1>2. ASSUME NEW h \in Handlers, CreateRendition(h) PROVE TableStep
  <2>0. handler[h].o \in Requests /\ rendition \in [Requests -> Rendition]
    BY <1>2 DEF CreateRendition, RInv, TypeOK, CreationsNameRequests
  <2>1. CASE Creatable(h)
    <3>1. Selected(handler[h].o)
      BY <1>0, <1>2, <2>0, <2>1, ResultAssumptions
         DEF CreateRendition, Creatable, Eligible, NewRendition, Selected
    <3>2. QED
      BY <2>0, <3>1
  <2>2. CASE ~Creatable(h)
    <3>1. Bookkeeping
      BY <1>2, <2>2 DEF CreateRendition, Bookkeeping
    <3>2. QED
      BY <3>1
  <2>3. QED
    BY <2>1, <2>2
<1>3. CASE UNCHANGED tables
  <2>1. Bookkeeping
    BY <1>3 DEF Bookkeeping
  <2>2. QED
    BY <2>1
<1>4. QED
  BY <1>1, <1>2, <1>3
     DEF Next, vars, RenditionRequest, DownloadRequest, AcceptRendition, Preflight, AcceptDownload,
         ResolveResult, OpenResult, EndDownload

\* The pointer moves only when a result is published.
LEMMA FormalPublishedEffect ==
    ASSUME RInv, FormalPublished
    PROVE  /\ attempt.state = "finalizing" /\ ~asset.formal
           /\ attempt'.state = "ready" /\ attempt'.detection = attempt.detection
           /\ attempt'.failure = attempt.failure
           /\ asset'.formal = TRUE /\ asset'.selection = asset.selection
           /\ \/ asset'.active = asset.active /\ asset.active # Nobody
              \/ asset'.active = Formal /\ asset.active = Nobody
           /\ result'[Formal].status = "ready"
           /\ \A r \in Requests : result'[r] = result[r]
           /\ job'[Formal] = "done" /\ rendition' = rendition
<1>0. /\ Formal \in Owners /\ Formal \notin Requests /\ Nobody \notin Owners
      /\ asset \in Asset /\ attempt \in Attempt
      /\ result \in [Owners -> Result] /\ job \in [Owners -> JobStatus]
      /\ Requests \subseteq Owners
  BY ResultAssumptions DEF RInv, TypeOK, Owners
<1>1. PICK w \in Workers : CommitFormalPreview(w)
  BY DEF FormalPublished
<1>2. attempt.state = "finalizing" /\ ~asset.formal
  BY <1>1 DEF CommitFormalPreview, Publishable
<1>3. /\ attempt'.state = "ready" /\ attempt'.detection = attempt.detection
      /\ attempt'.failure = attempt.failure
  BY <1>0, <1>1 DEF CommitFormalPreview, Attempt
<1>4. asset'.formal = TRUE /\ asset'.selection = asset.selection
  BY <1>0, <1>1 DEF CommitFormalPreview, Asset
<1>5. \/ asset'.active = asset.active /\ asset.active # Nobody
      \/ asset'.active = Formal /\ asset.active = Nobody
  <2>1. CASE asset.active = Nobody
    <3>1. Authority = "none"
      BY <2>1 DEF Authority
    <3>2. QED
      BY <1>0, <1>1, <2>1, <3>1 DEF CommitFormalPreview, Asset
  <2>2. CASE asset.active # Nobody
    <3>1. Authority # "none"
      BY <2>2 DEF Authority
    <3>2. QED
      BY <1>0, <1>1, <2>2, <3>1 DEF CommitFormalPreview, Asset
  <2>3. QED
    BY <2>1, <2>2
<1>6. result'[Formal].status = "ready" /\ \A r \in Requests : result'[r] = result[r]
  BY <1>0, <1>1 DEF CommitFormalPreview, ReadyResult
<1>7. job'[Formal] = "done" /\ rendition' = rendition
  BY <1>0, <1>1 DEF CommitFormalPreview, ReadyResult
<1>8. QED
  BY <1>2, <1>3, <1>4, <1>5, <1>6, <1>7

LEMMA RenditionPublishedEffect ==
    ASSUME RInv, RenditionPublished
    PROVE  \E r \in Requests :
           /\ asset.active \in Owners /\ asset.active # r
           /\ rendition[r].state = "finalizing"
           /\ rendition[r].generation = asset.selection
           /\ asset.active = Formal => asset.formal
           /\ asset.active \in Requests =>
                rendition[asset.active].generation < rendition[r].generation
           /\ asset'.active = r /\ asset'.formal = asset.formal
           /\ asset'.selection = asset.selection
           /\ rendition'[r].state = "ready"
           /\ \A q \in Requests :
                /\ rendition'[q].generation = rendition[q].generation
                /\ q # r => rendition'[q] = rendition[q]
           /\ result'[r].status = "ready"
           /\ \A o \in Owners : o # r /\ (o = Formal \/ o # asset.active) => result'[o] = result[o]
           /\ job'[Formal] = job[Formal] /\ attempt' = attempt
<1>0. /\ Formal \in Owners /\ Formal \notin Requests /\ Nobody \notin Owners
      /\ asset \in Asset /\ rendition \in [Requests -> Rendition]
      /\ result \in [Owners -> Result] /\ job \in [Owners -> JobStatus]
      /\ Requests \subseteq Owners
  BY ResultAssumptions DEF RInv, TypeOK, Owners
<1>1. PICK w \in Workers : CommitRendition(w)
  BY DEF RenditionPublished
<1> DEFINE r == worker[w].owner
<1>2. r \in Requests /\ RenditionPublishable(r)
  BY <1>1 DEF CommitRendition, On
<1>3. rendition[r].state = "finalizing" /\ TransitionValid(r)
  BY <1>2 DEF RenditionPublishable
<1>4. /\ asset.active \in Owners /\ rendition[r].generation = asset.selection
      /\ asset.active = Formal => asset.formal
      /\ asset.active \in Requests =>
            /\ rendition[asset.active].state = "ready"
            /\ rendition[asset.active].generation < rendition[r].generation
  BY <1>0, <1>3 DEF TransitionValid, Asset
<1>5. asset.active # r
  BY <1>2, <1>3, <1>4
<1>6. asset'.active = r /\ asset'.formal = asset.formal /\ asset'.selection = asset.selection
  BY <1>0, <1>1 DEF CommitRendition, Asset
<1>7. /\ rendition'[r].state = "ready"
      /\ \A q \in Requests :
            /\ rendition'[q].generation = rendition[q].generation
            /\ q # r => rendition'[q] = rendition[q]
  <2>1. rendition' = [rendition EXCEPT ![r].state = "ready"]
    BY <1>1 DEF CommitRendition
  <2>2. rendition[r] \in Rendition
    BY <1>0, <1>2
  <2>3. QED
    BY <1>0, <1>2, <2>1, <2>2 DEF Rendition
<1>8. /\ result'[r].status = "ready"
      /\ \A o \in Owners : o # r /\ (o = Formal \/ o # asset.active) => result'[o] = result[o]
  <2>1. result' = [result EXCEPT ![r] = ReadyResult(published[r]),
                                 ![asset.active] = Superseded(asset.active)]
    BY <1>1 DEF CommitRendition
  <2>2. asset.active = Formal => Superseded(asset.active) = result[Formal]
    BY <1>4 DEF Superseded
  <2>3. QED
    BY <1>0, <1>2, <1>4, <1>5, <2>1, <2>2 DEF ReadyResult
<1>9. job'[Formal] = job[Formal] /\ attempt' = attempt
  BY <1>0, <1>1, <1>2 DEF CommitRendition
<1>10. QED
  BY <1>2, <1>3, <1>4, <1>5, <1>6, <1>7, <1>8, <1>9

LEMMA RequestsNameCreations == RInv /\ [Next]_vars => CreationsNameRequests'
<1> SUFFICES ASSUME RInv, [Next]_vars PROVE CreationsNameRequests'
  OBVIOUS
<1>0. handler \in [Handlers -> Request] /\ CreationsNameRequests
  BY DEF RInv, TypeOK
<1>1. CASE UNCHANGED handler
  BY <1>0, <1>1 DEF CreationsNameRequests
<1>2. ASSUME NEW h \in Handlers, NEW q,
             q.op = "create" => q.o \in Requests, handler' = [handler EXCEPT ![h] = q]
      PROVE  CreationsNameRequests'
  BY <1>0, <1>2 DEF CreationsNameRequests
<1>3. ASSUME NEW h \in Handlers, RenditionRequest(h) PROVE CreationsNameRequests'
  <2>1. ASSUME NEW r \in Requests, AcceptRendition(h, r) PROVE CreationsNameRequests'
    BY <1>2, <2>1 DEF AcceptRendition
  <2>2. CASE Preflight(h)
    <3>1. CASE handler' = [handler EXCEPT ![h] = NoRequest]
      BY <1>2, <3>1 DEF NoRequest
    <3>2. CASE handler' = [handler EXCEPT ![h].pc = "ready", ![h].base = asset.active]
      BY <1>0, <3>2 DEF CreationsNameRequests, Request
    <3>3. QED
      BY <2>2, <3>1, <3>2 DEF Preflight
  <2>3. CASE CreateRendition(h)
    BY <1>2, <2>3 DEF CreateRendition, NoRequest
  <2>4. QED
    BY <1>3, <2>1, <2>2, <2>3 DEF RenditionRequest
<1>4. ASSUME NEW h \in Handlers, DownloadRequest(h) PROVE CreationsNameRequests'
  <2>1. ASSUME NEW o \in Owners, AcceptDownload(h, o) PROVE CreationsNameRequests'
    BY <1>2, <2>1 DEF AcceptDownload
  <2>2. CASE ResolveResult(h) \/ OpenResult(h) \/ EndDownload(h)
    BY <1>0, <2>2 DEF ResolveResult, OpenResult, EndDownload, CreationsNameRequests, NoRequest,
                      Request
  <2>3. QED
    BY <1>4, <2>1, <2>2 DEF DownloadRequest
<1>5. ASSUME NEW w \in Workers, WorkerStep(w) PROVE UNCHANGED handler
  BY <1>5 DEF WorkerStep, RecoverExpiredJob, ClaimNextJob, WorkerKilled, FailureUnrecorded,
     ProcessJob, ProcessFormalPreview, PrepareAttempt, VerifyOriginal, PersistDetection,
     PersistPreset, DiscardCandidate, StartRender, FinishRender, InspectCandidate,
     TransitionToFinalizing, PromoteCandidate, CheckPublished, CommitFormalPreview,
     RefuseFormalPreview, UndoPublication, DropCandidate, StepFails, FailAttempt,
     ProcessRendition, RestartValidation, CleanupUncommitted, BeginRendering, EndRendering,
     CheckState, StoreState, PromoteRendition, CommitRendition, RefuseRendition, UndoRendition,
     RenditionStepFails, FailRendition
<1>6. QED
  BY <1>1, <1>3, <1>4, <1>5 DEF Next, vars

LEMMA TablesInvariant ==
    ASSUME RInv, TableStep
    PROVE  /\ AttemptLive' /\ AttemptJobAgree' /\ SelectionsNumbered'
           /\ DisplayedIsReady' /\ ResultsAreReady' /\ SupersededIsReplaced'
<1> DEFINE Goal == /\ AttemptLive' /\ AttemptJobAgree' /\ SelectionsNumbered'
                   /\ DisplayedIsReady' /\ ResultsAreReady' /\ SupersededIsReplaced'
<1>0. /\ Formal \in Owners /\ Formal \notin Requests /\ Nobody \notin Owners
      /\ Owners = Requests \cup {Formal}
      /\ asset \in Asset /\ attempt \in Attempt /\ rendition \in [Requests -> Rendition]
      /\ result \in [Owners -> Result] /\ job \in [Owners -> JobStatus]
  BY ResultAssumptions DEF RInv, TypeOK, Owners
<1>i. /\ AttemptLive /\ AttemptJobAgree /\ SelectionsNumbered
      /\ DisplayedIsReady /\ ResultsAreReady /\ SupersededIsReplaced
  BY DEF RInv
<1>n. asset.selection \in Nat /\ asset.active \in Owners \cup {Nobody}
      /\ \A r \in Requests : rendition[r].generation \in Nat
  BY <1>0 DEF Asset, Rendition
<1>1. CASE Bookkeeping
  BY <1>i, <1>1 DEF Bookkeeping, AttemptLive, AttemptJobAgree, SelectionsNumbered,
     DisplayedIsReady, ResultsAreReady, SupersededIsReplaced
<1>2. CASE AttemptAdvances
  <2>1. AttemptLive' /\ AttemptJobAgree'
    BY <1>i, <1>2 DEF AttemptAdvances, AttemptLive, AttemptJobAgree, Terminal
  <2>2. QED
    BY <1>i, <1>2, <2>1 DEF AttemptAdvances, SelectionsNumbered,
       DisplayedIsReady, ResultsAreReady, SupersededIsReplaced
<1>3. CASE AttemptFails
  <2>1. asset'.formal = asset.formal /\ asset'.active = asset.active
        /\ asset'.selection = asset.selection
    BY <1>0, <1>3 DEF AttemptFails, Asset
  <2>2. AttemptLive' /\ AttemptJobAgree'
    BY <1>i, <1>3, <2>1 DEF AttemptFails, AttemptLive, AttemptJobAgree, Terminal
  <2>3. QED
    BY <1>i, <1>3, <2>1, <2>2 DEF AttemptFails, SelectionsNumbered,
       DisplayedIsReady, ResultsAreReady, SupersededIsReplaced
<1>4. CASE FormalPublished
  <2>0. /\ attempt'.state = "ready"
        /\ asset'.formal = TRUE /\ asset'.selection = asset.selection
        /\ \/ asset'.active = asset.active /\ asset.active # Nobody
           \/ asset'.active = Formal /\ asset.active = Nobody
        /\ result'[Formal].status = "ready"
        /\ \A r \in Requests : result'[r] = result[r]
        /\ job'[Formal] = "done" /\ rendition' = rendition
    BY <1>4, FormalPublishedEffect
  <2>1. AttemptLive' /\ AttemptJobAgree'
    BY <2>0 DEF AttemptLive, AttemptJobAgree
  <2>2. SelectionsNumbered' /\ DisplayedIsReady' /\ ResultsAreReady'
    BY <1>0, <1>i, <2>0 DEF SelectionsNumbered, DisplayedIsReady, ResultsAreReady
  <2>3. SupersededIsReplaced'
    <3>1. ASSUME NEW o \in Owners, result'[o].status = "superseded"
          PROVE  /\ o # Formal /\ asset.active \in Requests /\ result[o].status = "superseded"
                 /\ rendition[asset.active].generation > rendition[o].generation
      BY <1>0, <1>i, <2>0, <3>1 DEF SupersededIsReplaced
    <3>2. ASSUME NEW o \in Owners, result'[o].status = "superseded"
          PROVE  asset'.active = asset.active
      BY <1>0, <2>0, <3>1, <3>2
    <3>3. QED
      BY <2>0, <3>1, <3>2 DEF SupersededIsReplaced
  <2>4. QED
    BY <2>1, <2>2, <2>3
<1>5. ASSUME NEW r \in Requests, Selected(r) PROVE Goal
  <2>0. /\ asset'.formal = asset.formal /\ asset'.active = asset.active
        /\ asset'.selection = asset.selection + 1
    BY <1>0, <1>5 DEF Selected, Asset
  <2>1. asset.active # r /\ result[r].status = "none"
    BY <1>0, <1>i, <1>5 DEF Selected, DisplayedIsReady, ResultsAreReady, Result
  <2>2. AttemptLive' /\ AttemptJobAgree'
    BY <1>i, <1>5, <2>0 DEF Selected, AttemptLive, AttemptJobAgree
  <2>3. SelectionsNumbered'
    <3>1. \A q \in Requests \ {r} :
            rendition'[q].state # "none" => rendition'[q].generation \in 1 .. asset.selection
      BY <1>i, <1>5 DEF Selected, SelectionsNumbered
    <3>2. rendition'[r].generation = asset.selection + 1
      BY <1>5 DEF Selected
    <3>3. QED
      BY <1>n, <2>0, <3>1, <3>2 DEF SelectionsNumbered
  <2>4. DisplayedIsReady' /\ ResultsAreReady'
    BY <1>i, <1>5, <2>0, <2>1 DEF Selected, DisplayedIsReady, ResultsAreReady
  <2>5. SupersededIsReplaced'
    BY <1>0, <1>i, <1>5, <2>0, <2>1 DEF Selected, SupersededIsReplaced
  <2>6. QED
    BY <2>2, <2>3, <2>4, <2>5
<1>6. ASSUME NEW r \in Requests, RenditionMoves(r) PROVE Goal
  <2>1. asset.active # r /\ result[r].status = "none"
    BY <1>0, <1>i, <1>6 DEF RenditionMoves, DisplayedIsReady, ResultsAreReady, Result, InProgress
  <2>2. AttemptLive' /\ AttemptJobAgree'
    BY <1>i, <1>6 DEF RenditionMoves, AttemptLive, AttemptJobAgree
  <2>3. SelectionsNumbered'
    <3>1. rendition[r].state # "none"
      BY <1>6 DEF RenditionMoves, InProgress
    <3>2. QED
      BY <1>i, <1>6, <3>1 DEF RenditionMoves, SelectionsNumbered
  <2>4. DisplayedIsReady' /\ ResultsAreReady'
    BY <1>i, <1>6, <2>1 DEF RenditionMoves, DisplayedIsReady, ResultsAreReady
  <2>5. SupersededIsReplaced'
    BY <1>0, <1>i, <1>6, <2>1 DEF RenditionMoves, SupersededIsReplaced
  <2>6. QED
    BY <2>2, <2>3, <2>4, <2>5
<1>7. CASE RenditionPublished
  <2>0. PICK r \in Requests :
           /\ asset.active \in Owners /\ asset.active # r
           /\ rendition[r].state = "finalizing"
           /\ rendition[r].generation = asset.selection
           /\ asset.active = Formal => asset.formal
           /\ asset.active \in Requests =>
                rendition[asset.active].generation < rendition[r].generation
           /\ asset'.active = r /\ asset'.formal = asset.formal
           /\ asset'.selection = asset.selection
           /\ rendition'[r].state = "ready"
           /\ \A q \in Requests :
                /\ rendition'[q].generation = rendition[q].generation
                /\ q # r => rendition'[q] = rendition[q]
           /\ result'[r].status = "ready"
           /\ \A o \in Owners : o # r /\ (o = Formal \/ o # asset.active) => result'[o] = result[o]
           /\ job'[Formal] = job[Formal] /\ attempt' = attempt
    BY <1>7, RenditionPublishedEffect
  <2>1. AttemptLive' /\ AttemptJobAgree'
    BY <1>i, <2>0 DEF AttemptLive, AttemptJobAgree
  <2>2. SelectionsNumbered'
    BY <1>i, <2>0 DEF SelectionsNumbered
  <2>3. DisplayedIsReady'
    BY <1>0, <2>0 DEF DisplayedIsReady
  <2>4. ResultsAreReady'
    <3>1. ASSUME NEW q \in Requests, result'[q].status # "none", q # r
          PROVE  rendition[q].state = "ready"
      BY <1>0, <1>i, <2>0, <3>1 DEF ResultsAreReady, DisplayedIsReady
    <3>2. QED
      BY <2>0, <3>1 DEF ResultsAreReady
  <2>5. SupersededIsReplaced'
    <3>1. ASSUME NEW o \in Owners, result'[o].status = "superseded"
          PROVE  o \in Requests /\ o # r
      BY <1>0, <1>i, <2>0, <3>1 DEF SupersededIsReplaced
    <3>2. ASSUME NEW o \in Owners, result'[o].status = "superseded"
          PROVE  rendition[r].generation > rendition[o].generation
      <4>1. CASE o = asset.active
        BY <1>n, <2>0, <3>1, <3>2, <4>1
      <4>2. CASE o # asset.active
        <5>1. /\ asset.active \in Requests
              /\ rendition[asset.active].generation > rendition[o].generation
          BY <1>i, <2>0, <3>1, <3>2, <4>2 DEF SupersededIsReplaced
        <5>2. QED
          BY <1>n, <2>0, <3>1, <3>2, <5>1
      <4>3. QED
        BY <4>1, <4>2
    <3>3. QED
      BY <1>0, <2>0, <3>1, <3>2 DEF SupersededIsReplaced
  <2>6. QED
    BY <2>1, <2>2, <2>3, <2>4, <2>5
<1>8. QED
  BY <1>1, <1>2, <1>3, <1>4, <1>5, <1>6, <1>7 DEF TableStep

LEMMA InitInvariant == Init => RInv
<1> SUFFICES ASSUME Init PROVE RInv
  OBVIOUS
<1>0. Formal \notin Requests /\ Nobody \notin Owners /\ Owners = Requests \cup {Formal}
  BY ResultAssumptions DEF Owners
<1>1. PICK kept \in {{}} \cup {{r} : r \in Requests} :
        /\ asset = [preview |-> "preview_generating", formal |-> FALSE,
                    active |-> IF kept = {} THEN Nobody ELSE CHOOSE r \in kept : TRUE,
                    selection |-> IF kept = {} THEN 0 ELSE 1]
        /\ rendition = [r \in Requests |-> IF r \in kept THEN Migrated ELSE NoRendition]
        /\ job = [o \in Owners |->
                    IF o = Formal THEN "queued" ELSE IF o \in kept THEN "done" ELSE "none"]
        /\ result = [o \in Owners |->
                    IF o \in kept THEN ReadyResult("full") ELSE NoResult]
        /\ published = [o \in Owners |-> IF o \in kept THEN "full" ELSE "none"]
  BY DEF Init
<1>2. kept \subseteq Requests /\ (kept = {} \/ asset.active \in kept)
  BY <1>1
<1>3. CreationsNameRequests
  BY DEF Init, CreationsNameRequests, NoRequest
<1>4. AttemptLive /\ AttemptJobAgree
  BY <1>0, <1>1 DEF Init, AttemptLive, AttemptJobAgree
<1>5. SelectionsNumbered
  BY <1>1 DEF SelectionsNumbered, Migrated, NoRendition
<1>6. DisplayedIsReady
  BY <1>0, <1>1, <1>2 DEF DisplayedIsReady, Migrated
<1>7. ResultsAreReady
  BY <1>0, <1>1 DEF ResultsAreReady, Migrated, NoResult, ReadyResult
<1>8. SupersededIsReplaced
  BY <1>1 DEF SupersededIsReplaced, NoResult, ReadyResult
<1>9. QED
  BY <1>3, <1>4, <1>5, <1>6, <1>7, <1>8, InitTyped DEF RInv

LEMMA StepInvariant == RInv /\ [Next]_vars => RInv'
<1> SUFFICES ASSUME RInv, [Next]_vars PROVE RInv'
  OBVIOUS
<1>1. TypeOK'
  BY StepTyped DEF RInv
<1>2. CreationsNameRequests'
  BY RequestsNameCreations
<1>3. TableStep
  BY EveryTableStep
<1>4. /\ AttemptLive' /\ AttemptJobAgree' /\ SelectionsNumbered'
      /\ DisplayedIsReady' /\ ResultsAreReady' /\ SupersededIsReplaced'
  BY <1>3, TablesInvariant
<1>5. QED
  BY <1>1, <1>2, <1>4 DEF RInv

LEMMA AlwaysInvariant == Spec => []RInv
BY InitInvariant, StepInvariant, PTL DEF Spec

(***************************************************************************)
(* What it gives, for any number of workers, requests and kills.           *)
(***************************************************************************)
\* The formal preview's attempt and job never settle apart, although two
\* workers past each other's lease may both finish it, fail it or find it done.
THEOREM AttemptAndJobAgree == Spec => []AttemptJobAgree
<1>1. RInv => AttemptJobAgree
  BY DEF RInv
<1>2. QED
  BY <1>1, AlwaysInvariant, PTL

\* A result is superseded only when a newer selection has taken its place, and
\* the formal preview never is.
THEOREM SupersededOnlyIfReplaced == Spec => []SupersededIsReplaced
<1>1. RInv => SupersededIsReplaced
  BY DEF RInv
<1>2. QED
  BY <1>1, AlwaysInvariant, PTL

\* No retry and no second worker decides the log format again.
THEOREM DetectionNeverRemade == Spec => DetectionKept
<1>1. ASSUME RInv, [Next]_vars, attempt.detection # "none"
      PROVE  attempt'.detection = attempt.detection
  <2>1. TableStep /\ attempt.state \notin {"none", "probing"}
    BY <1>1, EveryTableStep DEF RInv, AttemptLive
  <2>2. CASE FormalPublished
    BY <1>1, <2>2, FormalPublishedEffect
  <2>3. CASE RenditionPublished
    BY <1>1, <2>3, RenditionPublishedEffect
  <2>4. QED
    BY <2>1, <2>2, <2>3
       DEF TableStep, Bookkeeping, AttemptAdvances, AttemptFails, Selected, RenditionMoves
<1>2. RInv /\ [Next]_vars
        => [attempt.detection # "none" => attempt'.detection = attempt.detection]_vars
  BY <1>1
<1>3. QED
  BY <1>2, AlwaysInvariant, PTL DEF Spec, DetectionKept

\* Whenever the pointer moves, the schema's trigger on it would let it.
THEOREM PointerTriggerNeverFires == Spec => PointerTriggerSatisfied
<1> DEFINE Satisfied ==
      asset'.active # asset.active =>
        /\ result'[asset'.active].status = "ready"
        /\ \/ asset'.active = Formal /\ asset'.formal
           \/ /\ asset'.active \in Requests
              /\ LET g == rendition'[asset'.active].generation IN
                 /\ g <= asset'.selection
                 /\ \A r \in Requests :
                    rendition'[r].generation > g =>
                        rendition'[r].state \notin InProgress \cup {"ready"}
<1>1. ASSUME RInv, [Next]_vars PROVE Satisfied
  <2>0. /\ TableStep /\ asset \in Asset /\ SelectionsNumbered'
        /\ asset.selection \in Nat /\ rendition' \in [Requests -> Rendition]
    <3>1. TypeOK' /\ SelectionsNumbered'
      BY <1>1, StepInvariant DEF RInv
    <3>2. TableStep
      BY <1>1, EveryTableStep
    <3>3. QED
      BY <1>1, <3>1, <3>2 DEF RInv, TypeOK, Asset
  <2>1. CASE FormalPublished
    BY <1>1, <2>1, FormalPublishedEffect
  <2>2. CASE RenditionPublished
    <3>1. PICK r \in Requests :
            /\ asset'.active = r /\ asset'.selection = asset.selection
            /\ rendition'[r].generation = asset.selection
            /\ result'[r].status = "ready"
      BY <1>1, <2>2, RenditionPublishedEffect
    <3>2. ASSUME NEW q \in Requests, rendition'[q].generation > rendition'[r].generation
          PROVE  rendition'[q].state \notin InProgress \cup {"ready"}
      <4>1. rendition'[q].generation \in Nat
        BY <2>0 DEF Rendition
      <4>2. rendition'[q].generation \notin 1 .. asset'.selection
        BY <2>0, <3>1, <3>2, <4>1
      <4>3. rendition'[q].state = "none"
        BY <2>0, <4>2 DEF SelectionsNumbered
      <4>4. QED
        BY <4>3 DEF InProgress
    <3>3. QED
      BY <2>0, <3>1, <3>2
  <2>3. CASE asset'.active = asset.active
    BY <2>3
  <2>4. asset'.active = asset.active \/ FormalPublished \/ RenditionPublished
    BY <2>0 DEF TableStep, Bookkeeping, AttemptAdvances, AttemptFails, Selected, RenditionMoves,
                Asset
  <2>5. QED
    BY <2>1, <2>2, <2>3, <2>4
<1>2. RInv /\ [Next]_vars => [Satisfied]_vars
  BY <1>1
<1>3. Spec => [][Satisfied]_vars
  <2>1. RInv /\ [Next]_vars => [Satisfied]_vars
    BY <1>2
  <2> HIDE DEF Satisfied
  <2>2. QED
    BY <2>1, AlwaysInvariant, PTL DEF Spec
<1>4. QED
  BY <1>3 DEF PointerTriggerSatisfied

(***************************************************************************)
(* The tables implement the contract: the commit of the formal preview and *)
(* its failure are Settle, a creation is Select, the commit of a rendition *)
(* is Display, and the rest is not seen.                                   *)
(***************************************************************************)
LEMMA ContractInit == Init => Contract!Init
<1> SUFFICES ASSUME Init PROVE Contract!Init
  OBVIOUS
<1>0. Nobody \notin Requests
  BY ResultAssumptions
<1>1. PICK kept \in {{}} \cup {{r} : r \in Requests} :
        /\ asset = [preview |-> "preview_generating", formal |-> FALSE,
                    active |-> IF kept = {} THEN Nobody ELSE CHOOSE r \in kept : TRUE,
                    selection |-> IF kept = {} THEN 0 ELSE 1]
        /\ rendition = [r \in Requests |-> IF r \in kept THEN Migrated ELSE NoRendition]
  BY DEF Init
<1>2. attempt.state = "none"
  BY DEF Init
<1>3. CASE kept = {}
  BY <1>0, <1>1, <1>2, <1>3 DEF Contract!Init
<1>4. CASE kept # {}
  <2>1. asset.active \in kept /\ asset.active \in Requests
    BY <1>1, <1>4
  <2>2. rendition[asset.active].generation = 1
    BY <1>1, <2>1 DEF Migrated
  <2>3. QED
    BY <1>1, <1>2, <1>4, <2>1, <2>2 DEF Contract!Init
<1>5. QED
  BY <1>3, <1>4

\* The refinement mapping, named.
ShownPreview ==
    IF asset.formal THEN "ready" ELSE IF attempt.state = "failed" THEN "failed" ELSE "pending"
ShownSelection == IF asset.active \in Requests THEN rendition[asset.active].generation ELSE 0
Unseen == UNCHANGED <<ShownPreview, asset.selection, ShownSelection>>
ContractStep ==
    \/ /\ ShownPreview = "pending" /\ ShownPreview' \in {"ready", "failed"}
       /\ asset'.selection = asset.selection /\ ShownSelection' = ShownSelection
    \/ /\ ShownPreview = "ready" \/ ShownSelection > 0
       /\ asset'.selection = asset.selection + 1
       /\ ShownPreview' = ShownPreview /\ ShownSelection' = ShownSelection
    \/ /\ ShownSelection < asset.selection /\ ShownSelection' = asset.selection
       /\ ShownPreview' = ShownPreview /\ asset'.selection = asset.selection
    \/ Unseen

LEMMA TableStepMaps ==
    ASSUME RInv, TableStep
    PROVE  ContractStep
<1>0. /\ Formal \in Owners /\ Formal \notin Requests /\ Nobody \notin Owners
      /\ Owners = Requests \cup {Formal}
      /\ asset \in Asset /\ attempt \in Attempt /\ rendition \in [Requests -> Rendition]
  BY ResultAssumptions DEF RInv, TypeOK, Owners
<1>i. SelectionsNumbered /\ DisplayedIsReady /\ (asset.formal <=> attempt.state = "ready")
  BY DEF RInv, AttemptJobAgree
<1>n. asset.selection \in Nat /\ asset.active \in Owners \cup {Nobody} /\ asset.formal \in BOOLEAN
      /\ \A r \in Requests : rendition[r].generation \in Nat
  BY <1>0 DEF Asset, Rendition
<1>1. CASE Bookkeeping
  BY <1>1 DEF Bookkeeping, ContractStep, Unseen, ShownPreview, ShownSelection
<1>2. CASE AttemptAdvances
  <2>1. attempt.state # "failed" /\ attempt'.state # "failed"
    BY <1>2 DEF AttemptAdvances, Terminal
  <2>2. QED
    BY <1>2, <2>1 DEF AttemptAdvances, ContractStep, Unseen, ShownPreview, ShownSelection
<1>3. CASE AttemptFails
  <2>1. asset'.formal = asset.formal /\ asset'.active = asset.active
        /\ asset'.selection = asset.selection /\ rendition' = rendition
    BY <1>0, <1>3 DEF AttemptFails, Asset
  <2>2. ShownPreview = "pending" /\ ShownPreview' = "failed"
    BY <1>i, <1>3, <2>1 DEF AttemptFails, ShownPreview, Terminal
  <2>3. ShownSelection' = ShownSelection
    BY <2>1 DEF ShownSelection
  <2>4. QED
    BY <2>1, <2>2, <2>3 DEF ContractStep
<1>4. CASE FormalPublished
  <2>0. /\ attempt.state = "finalizing" /\ ~asset.formal
        /\ asset'.formal = TRUE /\ asset'.selection = asset.selection
        /\ \/ asset'.active = asset.active /\ asset.active # Nobody
           \/ asset'.active = Formal /\ asset.active = Nobody
        /\ rendition' = rendition
    BY <1>4, FormalPublishedEffect
  <2>1. ShownPreview = "pending" /\ ShownPreview' = "ready"
    BY <2>0 DEF ShownPreview
  <2>2. ShownSelection' = ShownSelection
    BY <1>0, <2>0 DEF ShownSelection
  <2>3. QED
    BY <2>0, <2>1, <2>2 DEF ContractStep
<1>5. ASSUME NEW r \in Requests, Selected(r) PROVE ContractStep
  <2>0. /\ asset'.formal = asset.formal /\ asset'.active = asset.active
        /\ asset'.selection = asset.selection + 1
    BY <1>0, <1>5 DEF Selected, Asset
  <2>1. asset.active # r
    BY <1>i, <1>5 DEF Selected, DisplayedIsReady
  <2>2. ShownSelection' = ShownSelection
    BY <1>5, <2>0, <2>1 DEF Selected, ShownSelection
  <2>3. ShownPreview' = ShownPreview
    BY <1>5, <2>0 DEF Selected, ShownPreview
  <2>4. ShownPreview = "ready" \/ ShownSelection > 0
    <3>1. Deliverable(asset.active) /\ asset.active \in Owners
      BY <1>n, <1>5 DEF Selected
    <3>2. CASE asset.active = Formal
      BY <1>0, <3>1, <3>2 DEF Deliverable, FormalDeliverable, ShownPreview
    <3>3. CASE asset.active \in Requests
      <4>1. rendition[asset.active].generation \in 1 .. asset.selection
        BY <1>i, <3>3 DEF SelectionsNumbered, DisplayedIsReady
      <4>2. QED
        BY <1>n, <3>3, <4>1 DEF ShownSelection
    <3>4. QED
      BY <1>0, <3>1, <3>2, <3>3
  <2>5. QED
    BY <2>0, <2>2, <2>3, <2>4 DEF ContractStep
<1>6. ASSUME NEW r \in Requests, RenditionMoves(r) PROVE ContractStep
  <2>1. \A q \in Requests : rendition'[q].generation = rendition[q].generation
    BY <1>6 DEF RenditionMoves
  <2>2. UNCHANGED <<asset, attempt>>
    BY <1>6 DEF RenditionMoves
  <2>3. ShownSelection' = ShownSelection
    BY <2>1, <2>2 DEF ShownSelection
  <2>4. QED
    BY <2>2, <2>3 DEF ContractStep, Unseen, ShownPreview
<1>7. CASE RenditionPublished
  <2>0. PICK r \in Requests :
           /\ asset.active \in Owners
           /\ rendition[r].state = "finalizing"
           /\ rendition[r].generation = asset.selection
           /\ asset.active \in Requests =>
                rendition[asset.active].generation < rendition[r].generation
           /\ asset'.active = r /\ asset'.formal = asset.formal
           /\ asset'.selection = asset.selection
           /\ rendition'[r].generation = rendition[r].generation
           /\ attempt' = attempt
    BY <1>7, RenditionPublishedEffect
  <2>1. ShownSelection' = asset.selection
    BY <2>0 DEF ShownSelection
  <2>2. ShownSelection < asset.selection
    <3>1. CASE asset.active \in Requests
      BY <2>0, <3>1 DEF ShownSelection
    <3>2. CASE asset.active \notin Requests
      <4>1. rendition[r].generation \in 1 .. asset.selection
        BY <1>i, <2>0 DEF SelectionsNumbered
      <4>2. QED
        BY <1>n, <2>0, <3>2, <4>1 DEF ShownSelection
    <3>3. QED
      BY <3>1, <3>2
  <2>3. ShownPreview' = ShownPreview
    BY <2>0 DEF ShownPreview
  <2>4. QED
    BY <2>0, <2>1, <2>2, <2>3 DEF ContractStep
<1>8. QED
  BY <1>1, <1>2, <1>3, <1>4, <1>5, <1>6, <1>7 DEF TableStep

LEMMA ContractNext == RInv /\ [Next]_vars => [Contract!Next]_<<ShownPreview, asset.selection, ShownSelection>>
<1> SUFFICES ASSUME RInv, [Next]_vars
             PROVE  [Contract!Next]_<<ShownPreview, asset.selection, ShownSelection>>
  OBVIOUS
<1>1. ContractStep
  BY EveryTableStep, TableStepMaps
<1>2. QED
  BY <1>1 DEF ContractStep, Unseen, Contract!Next, Contract!Settle, Contract!Select,
              Contract!Display, ShownPreview, ShownSelection

\* Kills, retries, stale renditions, racing requests and any number of workers
\* never settle the preview twice or display a selection that is not the newest.
THEOREM ContractImplemented == Spec => ImplementsContract
BY ContractInit, ContractNext, AlwaysInvariant, PTL
   DEF Spec, ImplementsContract, Contract!Spec, ShownPreview, ShownSelection

(***************************************************************************)
(* One worker, as docker-compose.yml starts it. What follows holds for it, *)
(* for any number of selections, requests and interruptions; two workers   *)
(* past each other's lease share file names, and can break it.             *)
(***************************************************************************)
OneWorker == \A v, w \in Workers : v = w

\* The phase of the attempt, and the file, that a worker on the formal preview
\* can rely on from its program counter.
FormalHeldBy(w) ==
    worker[w].owner = Formal =>
        /\ worker[w].pc = "source" =>
            /\ worker[w].from = attempt.state
            /\ attempt.state \in {"probing", "resolving", "rendering", "finalizing"}
        /\ worker[w].pc = "probe" => attempt.state = "probing"
        /\ worker[w].pc = "resolve" => attempt.state = "resolving"
        /\ worker[w].pc \in {"discard", "render", "rendering"} =>
            attempt.state = "rendering" /\ worker[w].from = "rendering"
        /\ worker[w].pc = "rendering" => worker[w].fd = "candidate"
        /\ worker[w].pc = "inspect" =>
            /\ worker[w].from = attempt.state /\ attempt.state \in {"rendering", "finalizing"}
            /\ candidate \in {"none", "full"}
        /\ worker[w].pc = "advance" => attempt.state = "rendering" /\ candidate = "full"
        /\ worker[w].pc \in {"promote", "check", "commit", "undo", "undone"} =>
            attempt.state = "finalizing"
        /\ worker[w].pc \in {"advance", "promote", "check", "commit"} => worker[w].id = "full"
        /\ worker[w].pc = "commit" => published[Formal] = "full"
FormalHeld == \A w \in Workers : FormalHeldBy(w)

\* From finalizing on there is no half-written candidate, and only then is
\* there a published file: a whole one.
FormalFiles ==
    /\ attempt.state \in {"finalizing", "ready"} => candidate \in {"none", "full"}
    /\ published[Formal] \in {"none", "full"}
    /\ attempt.state \notin {"finalizing", "ready", "failed"} => published[Formal] = "none"
    /\ linked => published[Formal] = "full"
FormalBacked == asset.formal => published[Formal] = "full" /\ result[Formal] = ReadyResult("full")
FormalInv == FormalHeld /\ FormalFiles /\ FormalBacked

FormalStep(w) == ProcessFormalPreview(w) \/ FailureUnrecorded(w)

LEMMA FormalStays ==
    ASSUME OneWorker, RInv, FormalInv, NEW w \in Workers, FormalStep(w)
    PROVE  FormalInv'
<1>0. /\ worker \in [Workers -> Process] /\ attempt \in Attempt /\ asset \in Asset
      /\ published \in [Owners -> Bytes] /\ result \in [Owners -> Result]
      /\ linked \in BOOLEAN /\ candidate \in Bytes
      /\ Formal \in Owners /\ \A v \in Workers : v = w
  BY DEF RInv, TypeOK, Owners, OneWorker
<1>1. FormalHeldBy(w) /\ FormalFiles /\ FormalBacked
  BY DEF FormalInv, FormalHeld
<1>2. asset.formal <=> attempt.state = "ready"
  BY DEF RInv, AttemptJobAgree
<1>3. SUFFICES FormalHeldBy(w)' /\ FormalFiles' /\ FormalBacked'
  BY <1>0 DEF FormalInv, FormalHeld
<1> USE DEF At, Process, Attempt, Goto, Fail, Release, Idle, disk, tables
<1>4. CASE PrepareAttempt(w)
  BY <1>0, <1>1, <1>2, <1>4
     DEF PrepareAttempt, FormalHeldBy, FormalFiles, FormalBacked, Terminal, AttemptState
<1>5. CASE VerifyOriginal(w)
  BY <1>0, <1>1, <1>2, <1>5 DEF VerifyOriginal, PhaseOf, FormalHeldBy, FormalFiles, FormalBacked
<1>6. CASE PersistDetection(w) \/ PersistPreset(w) \/ TransitionToFinalizing(w)
  <2>1. CASE PersistDetection(w)
    BY <1>0, <1>1, <1>2, <2>1 DEF PersistDetection, FormalHeldBy, FormalFiles, FormalBacked
  <2>2. CASE PersistPreset(w)
    BY <1>0, <1>1, <1>2, <2>2 DEF PersistPreset, FormalHeldBy, FormalFiles, FormalBacked
  <2>3. CASE TransitionToFinalizing(w)
    BY <1>0, <1>1, <1>2, <2>3 DEF TransitionToFinalizing, FormalHeldBy, FormalFiles, FormalBacked
  <2>4. QED
    BY <1>6, <2>1, <2>2, <2>3
<1>7. CASE DiscardCandidate(w) \/ DropCandidate(w)
  BY <1>0, <1>1, <1>2, <1>7
     DEF DiscardCandidate, DropCandidate, UnlinkCandidate, FormalHeldBy, FormalFiles, FormalBacked
<1>8. CASE StartRender(w)
  BY <1>0, <1>1, <1>2, <1>8 DEF StartRender, FormalHeldBy, FormalFiles, FormalBacked
<1>9. CASE FinishRender(w)
  <2>1. Written(w) = {"full"}
    BY <1>0 DEF Written
  <2>2. QED
    BY <1>0, <1>1, <1>2, <1>9, <2>1 DEF FinishRender, FormalHeldBy, FormalFiles, FormalBacked
<1>10. CASE InspectCandidate(w)
  BY <1>0, <1>1, <1>2, <1>10 DEF InspectCandidate, FormalHeldBy, FormalFiles, FormalBacked
<1>11. CASE PromoteCandidate(w) \/ CheckPublished(w)
  BY <1>0, <1>1, <1>2, <1>11
     DEF PromoteCandidate, CheckPublished, Same, FormalHeldBy, FormalFiles, FormalBacked
<1>12. CASE CommitFormalPreview(w)
  BY <1>0, <1>1, <1>2, <1>12
     DEF CommitFormalPreview, FormalHeldBy, FormalFiles, FormalBacked, ReadyResult
<1>13. CASE RefuseFormalPreview(w) \/ StepFails(w) \/ FailureUnrecorded(w)
  BY <1>0, <1>1, <1>2, <1>13
     DEF RefuseFormalPreview, StepFails, FailureUnrecorded, FormalHeldBy, FormalFiles, FormalBacked
<1>14. CASE UndoPublication(w)
  BY <1>0, <1>1, <1>2, <1>14
     DEF UndoPublication, UnlinkPublished, FormalHeldBy, FormalFiles, FormalBacked
<1>15. CASE FailAttempt(w)
  <2>1. FormalHeldBy(w)'
    BY <1>0, <1>1, <1>15 DEF FailAttempt, FormalHeldBy
  <2>2. UNCHANGED <<candidate, published, linked, result>> /\ asset'.formal = asset.formal
    BY <1>0, <1>15 DEF FailAttempt, Asset
  <2>3. attempt' = attempt \/ attempt'.state = "failed"
    BY <1>0, <1>15 DEF FailAttempt
  <2>4. QED
    BY <1>1, <2>1, <2>2, <2>3 DEF FormalFiles, FormalBacked
<1>16. QED
  BY <1>4, <1>5, <1>6, <1>7, <1>8, <1>9, <1>10, <1>11, <1>12, <1>13, <1>14, <1>15
     DEF FormalStep, ProcessFormalPreview

(***************************************************************************)
(* What the two kinds of work leave alone.                                 *)
(***************************************************************************)
LEMMA FormalLeaves ==
    ASSUME OneWorker, RInv, NEW w \in Workers, FormalStep(w)
    PROVE  /\ worker[w].owner = Formal /\ worker'[w].owner = Formal
           /\ rendition' = rendition /\ handler' = handler
           /\ \A r \in Requests : /\ job'[r] = job[r] /\ published'[r] = published[r]
                                  /\ result'[r] = result[r]
           /\ \/ asset'.active = asset.active
              \/ asset.active = Nobody /\ asset'.active = Formal
           /\ interruptions' \in {interruptions, interruptions + 1}
<1>0. /\ worker \in [Workers -> Process] /\ attempt \in Attempt /\ asset \in Asset
      /\ published \in [Owners -> Bytes] /\ result \in [Owners -> Result]
      /\ job \in [Owners -> JobStatus]
      /\ Formal \in Owners /\ Formal \notin Requests /\ Requests \subseteq Owners
  BY ResultAssumptions DEF RInv, TypeOK, Owners
<1> USE DEF At, Goto, Fail, Release, Idle, disk, tables
<1>1. CASE CommitFormalPreview(w)
  <2>1. Authority = "none" => asset.active = Nobody
    BY <1>0, ResultAssumptions DEF Authority, Asset, Owners
  <2>2. QED
    BY <1>0, <1>1, <2>1 DEF CommitFormalPreview, Asset, Process
<1>2. CASE DiscardCandidate(w) \/ DropCandidate(w) \/ UndoPublication(w)
  BY <1>0, <1>2
     DEF DiscardCandidate, DropCandidate, UndoPublication, UnlinkCandidate, UnlinkPublished, Process
<1>3. CASE StartRender(w) \/ FinishRender(w) \/ PromoteCandidate(w)
  BY <1>0, <1>3 DEF StartRender, FinishRender, PromoteCandidate, Process
<1>4. CASE PrepareAttempt(w)
  BY <1>0, <1>4 DEF PrepareAttempt, Process
<1>9. CASE VerifyOriginal(w)
  BY <1>0, <1>9 DEF VerifyOriginal, Process
<1>10. CASE PersistDetection(w) \/ PersistPreset(w)
  <2>1. /\ UNCHANGED <<asset, rendition, job, result, published, handler, interruptions>>
        /\ worker[w].owner = Formal
    BY <1>10 DEF PersistDetection, PersistPreset
  <2>2. worker'[w].owner = worker[w].owner
    BY <1>0, <1>10 DEF PersistDetection, PersistPreset, Process
  <2>3. QED
    BY <2>1, <2>2
<1>5. CASE InspectCandidate(w) \/ TransitionToFinalizing(w) \/ CheckPublished(w)
           \/ RefuseFormalPreview(w)
  BY <1>0, <1>5
     DEF InspectCandidate, TransitionToFinalizing, CheckPublished, RefuseFormalPreview, Process
<1>6. CASE StepFails(w) \/ FailureUnrecorded(w)
  BY <1>0, <1>6 DEF StepFails, FailureUnrecorded, Process
<1>7. CASE FailAttempt(w)
  BY <1>0, <1>7 DEF FailAttempt, Process, Asset
<1>8. QED
  BY <1>1, <1>2, <1>3, <1>4, <1>5, <1>6, <1>7, <1>9, <1>10
     DEF FormalStep, ProcessFormalPreview

LEMMA RenditionLeaves ==
    ASSUME RInv, NEW w \in Workers, ProcessRendition(w)
    PROVE  /\ worker[w].owner \in Requests
           /\ worker'[w] = Idle \/ worker'[w].owner = worker[w].owner
           /\ \A v \in Workers \ {w} : worker'[v] = worker[v]
           /\ UNCHANGED <<attempt, candidate, linked, handler, interruptions>>
           /\ published'[Formal] = published[Formal] /\ job'[Formal] = job[Formal]
           /\ result'[Formal] = result[Formal] /\ asset'.formal = asset.formal
           /\ \A r \in Requests : worker[w].owner # r =>
                /\ job'[r] = job[r] /\ published'[r] = published[r]
                /\ rendition'[r] = rendition[r]
<1>0. /\ worker \in [Workers -> Process] /\ asset \in Asset
      /\ published \in [Owners -> Bytes] /\ result \in [Owners -> Result]
      /\ job \in [Owners -> JobStatus] /\ rendition \in [Requests -> Rendition]
      /\ Formal \in Owners /\ Formal \notin Requests /\ Requests \subseteq Owners
      /\ asset.active = Formal => asset.formal
  BY ResultAssumptions DEF RInv, TypeOK, Owners, DisplayedIsReady
<1> USE DEF On, Goto, Fail, Release, disk, tables
<1>1. CASE CommitRendition(w)
  <2>1. result'[Formal] = result[Formal]
    BY <1>0, <1>1 DEF CommitRendition, Superseded
  <2>2. QED
    BY <1>0, <1>1, <2>1 DEF CommitRendition, Asset, Process
<1>2. CASE RestartValidation(w)
  BY <1>0, <1>2 DEF RestartValidation, Process
<1>3. CASE BeginRendering(w) \/ EndRendering(w)
  BY <1>0, <1>3 DEF BeginRendering, EndRendering, CheckState, StoreState, Process
<1>4. CASE CleanupUncommitted(w) \/ PromoteRendition(w) \/ UndoRendition(w)
  BY <1>0, <1>4 DEF CleanupUncommitted, PromoteRendition, UndoRendition, Process
<1>5. CASE RefuseRendition(w) \/ RenditionStepFails(w)
  BY <1>0, <1>5 DEF RefuseRendition, RenditionStepFails, PresetUnusable, Process
<1>6. CASE FailRendition(w)
  BY <1>0, <1>6 DEF FailRendition, Process
<1>7. QED
  BY <1>1, <1>2, <1>3, <1>4, <1>5, <1>6 DEF ProcessRendition

\* The queue and a kill: no table but the jobs', and no file.
QueueStep(w) == RecoverExpiredJob(w) \/ ClaimNextJob(w) \/ WorkerKilled(w)
LEMMA QueueLeaves ==
    ASSUME RInv, NEW w \in Workers, QueueStep(w)
    PROVE  /\ UNCHANGED <<asset, attempt, rendition, result, disk, handler>>
           /\ \A v \in Workers \ {w} : worker'[v] = worker[v]
           /\ \/ worker'[w] = worker[w] \/ worker'[w] = Idle
              \/ worker'[w].pc = "prepare" /\ worker'[w].code = "none"
           /\ interruptions' \in {interruptions, interruptions + 1}
<1>1. worker \in [Workers -> Process] /\ worker[w] \in Process
  BY DEF RInv, TypeOK
<1>2. QED
  BY <1>1 DEF QueueStep, RecoverExpiredJob, ClaimNextJob, WorkerKilled, Release, tables, Idle

\* Requests move no pointer, no file and no worker; they may create a rendition.
RequestStep(h) == RenditionRequest(h) \/ DownloadRequest(h)
LEMMA RequestLeaves ==
    ASSUME RInv, NEW h \in Handlers, RequestStep(h)
    PROVE  /\ UNCHANGED <<attempt, result, disk, worker, interruptions>>
           /\ asset'.active = asset.active /\ asset'.formal = asset.formal
           /\ job'[Formal] = job[Formal]
           /\ \A r \in Requests :
                \/ rendition'[r] = rendition[r] /\ job'[r] = job[r]
                \/ /\ rendition[r].state = "none" /\ asset.active # r
                   /\ rendition'[r].state = "queued" /\ job'[r] = "queued"
<1>0. /\ asset \in Asset /\ job \in [Owners -> JobStatus] /\ rendition \in [Requests -> Rendition]
      /\ Formal \in Owners /\ Formal \notin Requests /\ Requests \subseteq Owners
      /\ CreationsNameRequests /\ DisplayedIsReady
  BY ResultAssumptions DEF RInv, TypeOK, Owners
<1>1. CASE CreateRendition(h)
  <2>1. handler[h].o \in Requests
    BY <1>0, <1>1 DEF CreateRendition, CreationsNameRequests
  <2>2. CASE Creatable(h)
    <3>1. rendition[handler[h].o].state = "none" /\ asset.active # handler[h].o
      BY <1>0, <2>1, <2>2 DEF Creatable, Eligible, DisplayedIsReady
    <3>2. QED
      BY <1>0, <1>1, <2>1, <2>2, <3>1 DEF CreateRendition, NewRendition, Asset, disk
  <2>3. CASE ~Creatable(h)
    BY <1>0, <1>1, <2>3 DEF CreateRendition, disk
  <2>4. QED
    BY <2>2, <2>3
<1>2. CASE UNCHANGED <<tables, disk, worker, interruptions>>
  BY <1>2 DEF tables, disk
<1>3. QED
  BY <1>1, <1>2
     DEF RequestStep, RenditionRequest, DownloadRequest, AcceptRendition, Preflight,
         AcceptDownload, ResolveResult, OpenResult, EndDownload

LEMMA NextCases ==
    ASSUME [Next]_vars
    PROVE  \/ \E w \in Workers : FormalStep(w) \/ ProcessRendition(w) \/ QueueStep(w)
           \/ \E h \in Handlers : RequestStep(h)
           \/ UNCHANGED vars
BY DEF Next, WorkerStep, ProcessJob, FormalStep, QueueStep, RequestStep

LEMMA FormalNext == OneWorker /\ RInv /\ FormalInv /\ [Next]_vars => FormalInv'
<1> SUFFICES ASSUME OneWorker, RInv, FormalInv, [Next]_vars PROVE FormalInv'
  OBVIOUS
<1>0. FormalHeld /\ FormalFiles /\ FormalBacked /\ Formal \notin Requests
  BY ResultAssumptions DEF FormalInv
<1>1. ASSUME UNCHANGED <<attempt, candidate, linked>>,
             published'[Formal] = published[Formal], result'[Formal] = result[Formal],
             asset'.formal = asset.formal,
             \A v \in Workers : \/ worker'[v] = worker[v] \/ worker'[v].owner \in Requests
                                \/ worker'[v].pc \in {"idle", "prepare"}
      PROVE  FormalInv'
  BY <1>0, <1>1 DEF FormalInv, FormalHeld, FormalHeldBy, FormalFiles, FormalBacked
<1>2. ASSUME NEW w \in Workers, ProcessRendition(w) PROVE FormalInv'
  BY <1>1, <1>2, RenditionLeaves DEF Idle
<1>3. ASSUME NEW w \in Workers, QueueStep(w) PROVE FormalInv'
  BY <1>1, <1>3, QueueLeaves DEF Idle, disk
<1>4. ASSUME NEW h \in Handlers, RequestStep(h) PROVE FormalInv'
  BY <1>1, <1>4, RequestLeaves DEF disk
<1>5. CASE UNCHANGED vars
  BY <1>1, <1>5 DEF vars, tables, disk
<1>6. QED
  BY <1>2, <1>3, <1>4, <1>5, NextCases, FormalStays

(***************************************************************************)
(* Renditions. A worker that holds one holds its running job, and no other *)
(* state than in progress; what is on display is whole.                    *)
(***************************************************************************)
RenditionHeldBy(w) ==
    worker[w].pc # "idle" /\ worker[w].owner \in Requests =>
        /\ job[worker[w].owner] = "running"
        /\ rendition[worker[w].owner].state \in InProgress
        /\ worker[w].pc = "clean" => rendition[worker[w].owner].state = "validating"
        /\ worker[w].pc = "promote" => rendition[worker[w].owner].state = "finalizing"
        /\ worker[w].pc = "commit" => published[worker[w].owner] = "full"
RenditionHeld == \A w \in Workers : RenditionHeldBy(w)
DisplayBacked ==
    asset.active \in Requests =>
        published[asset.active] = "full" /\ result[asset.active] = ReadyResult("full")
NoneSuperseded == \A r \in Requests : rendition[r].state # "superseded"
RenditionInv == RenditionHeld /\ RenditionJobAgree /\ DisplayBacked /\ NoneSuperseded

LEMMA RenditionStays ==
    ASSUME OneWorker, RInv, RenditionInv, NEW w \in Workers, ProcessRendition(w)
    PROVE  RenditionInv'
<1>0. /\ worker \in [Workers -> Process] /\ asset \in Asset
      /\ published \in [Owners -> Bytes] /\ result \in [Owners -> Result]
      /\ job \in [Owners -> JobStatus] /\ rendition \in [Requests -> Rendition]
      /\ Requests \subseteq Owners /\ \A v \in Workers : v = w
      /\ asset.active \in Requests => rendition[asset.active].state = "ready"
  BY DEF RInv, TypeOK, Owners, DisplayedIsReady, OneWorker
<1>1. RenditionHeldBy(w) /\ RenditionJobAgree /\ DisplayBacked /\ NoneSuperseded
  BY DEF RenditionInv, RenditionHeld
<1>2. PICK r \in Requests : r = worker[w].owner
  BY RenditionLeaves
<1>3. worker[w].pc # "idle"
  BY DEF ProcessRendition, RestartValidation, CleanupUncommitted, BeginRendering, EndRendering,
         CheckState, StoreState, PromoteRendition, CommitRendition, RefuseRendition, UndoRendition,
         RenditionStepFails, PresetUnusable, FailRendition, On
<1>4. /\ job[r] = "running" /\ rendition[r].state \in InProgress /\ asset.active # r
      /\ worker[w].pc = "clean" => rendition[r].state = "validating"
      /\ worker[w].pc = "promote" => rendition[r].state = "finalizing"
      /\ worker[w].pc = "commit" => published[r] = "full"
  BY <1>0, <1>1, <1>2, <1>3 DEF RenditionHeldBy, InProgress
<1>5. \A q \in Requests \ {r} : /\ job'[q] = job[q] /\ published'[q] = published[q]
                                /\ rendition'[q] = rendition[q]
  BY <1>2, RenditionLeaves
<1>6. SUFFICES /\ RenditionHeldBy(w)'
               /\ DisplayBacked'
               /\ rendition'[r].state # "superseded"
               /\ job'[r] = "none" <=> rendition'[r].state = "none"
               /\ job'[r] = "done" <=> rendition'[r].state = "ready"
               /\ job'[r] = "failed" <=> rendition'[r].state = "failed"
  BY <1>0, <1>1, <1>5 DEF RenditionInv, RenditionHeld, RenditionJobAgree, NoneSuperseded
<1> USE DEF On, Goto, Fail, Release, Idle, Process, Rendition, InProgress, disk, tables
<1>7. CASE RestartValidation(w)
  BY <1>0, <1>1, <1>2, <1>4, <1>7 DEF RestartValidation, RenditionHeldBy, DisplayBacked, Terminal
<1>8. CASE CleanupUncommitted(w)
  BY <1>0, <1>1, <1>2, <1>4, <1>8 DEF CleanupUncommitted, RenditionHeldBy, DisplayBacked
<1>9. CASE BeginRendering(w)
  BY <1>0, <1>1, <1>2, <1>4, <1>9
     DEF BeginRendering, CheckState, StoreState, RenditionHeldBy, DisplayBacked
<1>10. CASE EndRendering(w)
  BY <1>0, <1>1, <1>2, <1>4, <1>10
     DEF EndRendering, CheckState, StoreState, RenditionHeldBy, DisplayBacked
<1>11. CASE PromoteRendition(w) \/ UndoRendition(w)
  BY <1>0, <1>1, <1>2, <1>4, <1>11 DEF PromoteRendition, UndoRendition, RenditionHeldBy, DisplayBacked
<1>12. CASE CommitRendition(w)
  BY <1>0, <1>1, <1>2, <1>4, <1>12
     DEF CommitRendition, Asset, RenditionHeldBy, DisplayBacked, ReadyResult
<1>13. CASE RefuseRendition(w) \/ RenditionStepFails(w)
  BY <1>0, <1>1, <1>2, <1>4, <1>13
     DEF RefuseRendition, RenditionStepFails, PresetUnusable, RenditionHeldBy, DisplayBacked
<1>14. CASE FailRendition(w)
  BY <1>0, <1>1, <1>2, <1>4, <1>14 DEF FailRendition, RenditionHeldBy, DisplayBacked
<1>15. QED
  BY <1>7, <1>8, <1>9, <1>10, <1>11, <1>12, <1>13, <1>14 DEF ProcessRendition

LEMMA RenditionNext == OneWorker /\ RInv /\ RenditionInv /\ [Next]_vars => RenditionInv'
<1> SUFFICES ASSUME OneWorker, RInv, RenditionInv, [Next]_vars PROVE RenditionInv'
  OBVIOUS
<1>0. /\ RenditionHeld /\ RenditionJobAgree /\ DisplayBacked /\ NoneSuperseded
      /\ Formal \notin Requests /\ Nobody \notin Requests /\ Requests \subseteq Owners
      /\ asset.active \in Requests => rendition[asset.active].state = "ready"
      /\ rendition \in [Requests -> Rendition] /\ job \in [Owners -> JobStatus]
      /\ worker \in [Workers -> Process]
  BY ResultAssumptions DEF RenditionInv, RInv, TypeOK, DisplayedIsReady, Owners
<1>1. ASSUME NEW w \in Workers, FormalStep(w) PROVE RenditionInv'
  <2>1. /\ rendition' = rendition /\ worker'[w].owner = Formal
        /\ \A r \in Requests : /\ job'[r] = job[r] /\ published'[r] = published[r]
                               /\ result'[r] = result[r]
        /\ asset'.active = asset.active \/ asset'.active = Formal
    BY <1>1, FormalLeaves
  <2>2. RenditionHeld'
    BY <1>0, <2>1 DEF RenditionHeld, RenditionHeldBy, OneWorker
  <2>3. QED
    BY <1>0, <2>1, <2>2 DEF RenditionInv, RenditionJobAgree, DisplayBacked, NoneSuperseded
<1>2. ASSUME NEW w \in Workers, QueueStep(w) PROVE RenditionInv'
  <2>1. UNCHANGED <<asset, rendition, result, published>>
    BY <1>2, QueueLeaves DEF disk
  <2>2. ASSUME NEW r \in Requests, rendition[r].state \notin InProgress PROVE job'[r] = job[r]
    <3>1. job[r] \notin {"queued", "running"}
      BY <1>0, <2>2 DEF RenditionJobAgree, NoneSuperseded, Rendition, RenditionState, Terminal
    <3>2. QED
      BY <1>0, <1>2, <2>2, <3>1 DEF QueueStep, RecoverExpiredJob, ClaimNextJob, WorkerKilled, tables
  <2>3. ASSUME NEW r \in Requests, rendition[r].state \in InProgress
        PROVE  job'[r] \in {"queued", "running"}
    <3>1. job[r] \in {"queued", "running"}
      BY <1>0, <2>3 DEF RenditionJobAgree, JobStatus, InProgress
    <3>2. QED
      BY <1>0, <1>2, <2>3, <3>1 DEF QueueStep, RecoverExpiredJob, ClaimNextJob, WorkerKilled, tables
  <2>4. RenditionJobAgree' /\ DisplayBacked' /\ NoneSuperseded'
    <3>1. ASSUME NEW r \in Requests
          PROVE  /\ job'[r] = "none" <=> rendition'[r].state = "none"
                 /\ job'[r] = "done" <=> rendition'[r].state = "ready"
                 /\ job'[r] = "failed" <=> rendition'[r].state = "failed"
      BY <1>0, <2>1, <2>2, <2>3, <3>1 DEF RenditionJobAgree, InProgress
    <3>2. QED
      BY <1>0, <2>1, <3>1 DEF RenditionJobAgree, DisplayBacked, NoneSuperseded
  <2>5. RenditionHeldBy(w)'
    <3>1. CASE ClaimNextJob(w)
      <4>1. PICK o \in Owners :
              /\ job[o] = "queued" /\ job' = [job EXCEPT ![o] = "running"]
              /\ worker' = [worker EXCEPT ![w] = [Idle EXCEPT !.pc = "prepare", !.owner = o]]
        BY <3>1 DEF ClaimNextJob
      <4>2. worker'[w].owner = o /\ worker'[w].pc = "prepare" /\ job'[o] = "running"
        BY <1>0, <4>1 DEF Idle
      <4>3. ASSUME o \in Requests PROVE rendition'[o].state \in InProgress
        BY <1>0, <2>1, <4>1, <4>3
           DEF RenditionJobAgree, NoneSuperseded, Rendition, RenditionState, Terminal
      <4>4. QED
        BY <4>2, <4>3 DEF RenditionHeldBy
    <3>2. CASE RecoverExpiredJob(w)
      BY <3>2 DEF RecoverExpiredJob, RenditionHeldBy
    <3>3. CASE WorkerKilled(w)
      BY <1>0, <3>3 DEF WorkerKilled, Release, Idle, RenditionHeldBy
    <3>4. QED
      BY <1>2, <3>1, <3>2, <3>3 DEF QueueStep
  <2>6. RenditionHeld'
    BY <2>5 DEF RenditionHeld, OneWorker
  <2>7. QED
    BY <2>4, <2>6 DEF RenditionInv
<1>3. ASSUME NEW h \in Handlers, RequestStep(h) PROVE RenditionInv'
  <2>1. /\ UNCHANGED <<result, published, worker>> /\ asset'.active = asset.active
        /\ \A r \in Requests :
                \/ rendition'[r] = rendition[r] /\ job'[r] = job[r]
                \/ /\ rendition[r].state = "none" /\ asset.active # r
                   /\ rendition'[r].state = "queued" /\ job'[r] = "queued"
    BY <1>3, RequestLeaves DEF disk
  <2>2. RenditionHeld'
    BY <1>0, <2>1 DEF RenditionHeld, RenditionHeldBy, InProgress
  <2>3. RenditionJobAgree' /\ NoneSuperseded' /\ DisplayBacked'
    BY <1>0, <2>1 DEF RenditionJobAgree, NoneSuperseded, DisplayBacked
  <2>4. QED
    BY <2>2, <2>3 DEF RenditionInv
<1>4. CASE UNCHANGED vars
  BY <1>0, <1>4 DEF vars, tables, disk, RenditionInv, RenditionHeld, RenditionHeldBy,
     RenditionJobAgree, DisplayBacked, NoneSuperseded
<1>5. QED
  BY <1>1, <1>2, <1>3, <1>4, NextCases, RenditionStays

(***************************************************************************)
(* Why a formal preview is refused. From its refusal on to the record of   *)
(* it, the selection that made the display ambiguous stays in progress: no *)
(* other worker could settle it.                                           *)
(***************************************************************************)
Blocked ==
    \E r \in Requests :
        /\ asset.active \in Requests /\ rendition[r].state \in InProgress
        /\ rendition[r].generation > rendition[asset.active].generation
RefusedIsBlocked ==
    \A w \in Workers : worker[w].owner = Formal /\ worker[w].code = "relation_invalid" => Blocked
\* The display shows the newest of the selections that became ready.
ReadyIsOlder ==
    \A r \in Requests : rendition[r].state = "ready" =>
        asset.active \in Requests /\ rendition[r].generation <= rendition[asset.active].generation

LEMMA ReadyIsOlderNext == RInv /\ ReadyIsOlder /\ [Next]_vars => ReadyIsOlder'
<1> SUFFICES ASSUME RInv, ReadyIsOlder, [Next]_vars PROVE ReadyIsOlder'
  OBVIOUS
<1>0. /\ asset \in Asset /\ rendition \in [Requests -> Rendition] /\ SelectionsNumbered
      /\ DisplayedIsReady /\ Formal \notin Requests /\ Nobody \notin Requests
      /\ asset.selection \in Nat /\ \A r \in Requests : rendition[r].generation \in Nat
  BY ResultAssumptions DEF RInv, TypeOK, Asset, Rendition
<1>1. CASE RenditionPublished
  <2>1. PICK r \in Requests :
           /\ rendition[r].generation = asset.selection
           /\ asset'.active = r
           /\ \A q \in Requests : /\ rendition'[q].generation = rendition[q].generation
                                  /\ q # r => rendition'[q] = rendition[q]
    BY <1>1, RenditionPublishedEffect
  <2>2. ASSUME NEW q \in Requests, rendition'[q].state = "ready"
        PROVE  rendition'[q].generation <= rendition'[r].generation
    <3>1. CASE q = r
      BY <1>0, <2>1, <3>1
    <3>2. CASE q # r
      <4>1. rendition[q].state = "ready"
        BY <2>1, <2>2, <3>2
      <4>2. rendition[q].generation \in 1 .. asset.selection
        BY <1>0, <4>1 DEF SelectionsNumbered
      <4>3. QED
        BY <1>0, <2>1, <4>2
    <3>3. QED
      BY <3>1, <3>2
  <2>3. QED
    BY <2>1, <2>2 DEF ReadyIsOlder
<1>2. CASE FormalPublished
  BY <1>0, <1>2, FormalPublishedEffect DEF ReadyIsOlder
<1>3. ASSUME NEW r \in Requests, Selected(r) PROVE ReadyIsOlder'
  <2>1. asset'.active = asset.active /\ asset.active # r
    BY <1>0, <1>3 DEF Selected, DisplayedIsReady, Asset
  <2>2. QED
    BY <1>0, <1>3, <2>1 DEF Selected, ReadyIsOlder
<1>4. ASSUME NEW r \in Requests, RenditionMoves(r) PROVE ReadyIsOlder'
  BY <1>0, <1>4 DEF RenditionMoves, DisplayedIsReady, ReadyIsOlder, InProgress
<1>5. CASE Bookkeeping \/ AttemptAdvances \/ AttemptFails
  BY <1>0, <1>5 DEF Bookkeeping, AttemptAdvances, AttemptFails, ReadyIsOlder, Asset
<1>6. QED
  BY <1>1, <1>2, <1>3, <1>4, <1>5, EveryTableStep DEF TableStep

\* A refusal is recorded with the worker's code, and there is no other source
\* of that code than the refusal itself.
LEMMA RefusalIsBlocked ==
    ASSUME OneWorker, RInv, FormalInv, RenditionInv, ReadyIsOlder,
           NEW w \in Workers, RefuseFormalPreview(w)
    PROVE  Blocked
<1>0. /\ asset \in Asset /\ result \in [Owners -> Result]
      /\ rendition \in [Requests -> Rendition] /\ Formal \notin Requests
      /\ \A r \in Requests : rendition[r].generation \in Nat
  BY ResultAssumptions DEF RInv, TypeOK, Rendition
<1>1. attempt.state = "finalizing" /\ ~asset.formal
  BY DEF RefuseFormalPreview, At, FormalInv, FormalHeld, FormalHeldBy, RInv, AttemptJobAgree
<1>2. Authority \notin {"none", "current_managed"}
  BY <1>1 DEF RefuseFormalPreview, Publishable
<1>3. asset.active \in Requests /\ rendition[asset.active].state = "ready"
  BY <1>0, <1>1, <1>2 DEF Authority, Asset, Owners, RInv, DisplayedIsReady
<1>4. result[asset.active].status = "ready"
  BY <1>3 DEF RenditionInv, DisplayBacked, ReadyResult
<1>5. HasNewerCandidate(rendition[asset.active].generation)
  BY <1>0, <1>2, <1>3, <1>4 DEF Authority
<1>6. QED
  BY <1>0, <1>3, <1>5 DEF HasNewerCandidate, ReadyIsOlder, Blocked

LEMMA BlockedNext ==
    ASSUME OneWorker, RInv, FormalInv, RenditionInv, ReadyIsOlder, RefusedIsBlocked, [Next]_vars
    PROVE  RefusedIsBlocked'
<1>0. /\ worker \in [Workers -> Process] /\ asset \in Asset /\ Formal \in Owners
      /\ DisplayedIsReady /\ Formal \notin Requests /\ Nobody \notin Requests
  BY ResultAssumptions DEF RInv, TypeOK, Owners
<1>1. ASSUME NEW w \in Workers, FormalStep(w) PROVE RefusedIsBlocked'
  <2>1. /\ worker[w].owner = Formal /\ rendition' = rendition
        /\ asset'.active = asset.active \/ asset.active = Nobody
    BY <1>1, FormalLeaves
  <2>2. Blocked => Blocked'
    BY <1>0, <2>1 DEF Blocked
  <2>3. CASE RefuseFormalPreview(w)
    BY <2>2, <2>3, RefusalIsBlocked DEF RefusedIsBlocked
  <2>4. CASE DiscardCandidate(w) \/ DropCandidate(w) \/ UndoPublication(w)
    <3>1. worker'[w].code \in {worker[w].code, "none"}
      BY <1>0, <2>4 DEF DiscardCandidate, DropCandidate, UndoPublication, UnlinkCandidate,
         UnlinkPublished, Idle, Process
    <3>2. QED
      BY <2>1, <2>2, <3>1 DEF RefusedIsBlocked, OneWorker
  <2>5. CASE ~(RefuseFormalPreview(w) \/ DiscardCandidate(w) \/ DropCandidate(w) \/ UndoPublication(w))
    <3>1. worker'[w].code \in {worker[w].code, "none", "step_failed"}
      <4>1. CASE PrepareAttempt(w)
        BY <1>0, <4>1 DEF PrepareAttempt, Release, Idle, Process
      <4>6. CASE VerifyOriginal(w)
        BY <1>0, <4>6 DEF VerifyOriginal, Goto, Process
      <4>7. CASE PersistDetection(w) \/ PersistPreset(w)
        BY <1>0, <4>7 DEF PersistDetection, PersistPreset, Process
      <4>2. CASE StartRender(w) \/ FinishRender(w) \/ InspectCandidate(w)
        BY <1>0, <4>2 DEF StartRender, FinishRender, InspectCandidate, Process
      <4>3. CASE TransitionToFinalizing(w) \/ PromoteCandidate(w) \/ CheckPublished(w)
                 \/ CommitFormalPreview(w)
        BY <1>0, <4>3 DEF TransitionToFinalizing, PromoteCandidate, CheckPublished,
           CommitFormalPreview, Goto, Process
      <4>4. CASE StepFails(w) \/ FailAttempt(w) \/ FailureUnrecorded(w)
        BY <1>0, <4>4 DEF StepFails, FailAttempt, FailureUnrecorded, Goto, Fail, Release, Idle, Process
      <4>5. QED
        BY <1>1, <2>5, <4>1, <4>2, <4>3, <4>4, <4>6, <4>7 DEF FormalStep, ProcessFormalPreview
    <3>2. QED
      BY <2>1, <2>2, <3>1 DEF RefusedIsBlocked, OneWorker
  <2>6. QED
    BY <2>3, <2>4, <2>5
<1>2. ASSUME NEW w \in Workers, ProcessRendition(w) PROVE RefusedIsBlocked'
  <2>1. worker'[w] = Idle \/ worker'[w].owner \in Requests
    BY <1>2, RenditionLeaves
  <2>2. QED
    BY <1>0, <2>1 DEF RefusedIsBlocked, OneWorker, Idle
<1>3. ASSUME NEW w \in Workers, QueueStep(w) PROVE RefusedIsBlocked'
  BY <1>3, QueueLeaves DEF RefusedIsBlocked, OneWorker, Idle, Blocked
<1>4. ASSUME NEW h \in Handlers, RequestStep(h) PROVE RefusedIsBlocked'
  <2>1. /\ worker' = worker /\ asset'.active = asset.active
        /\ \A r \in Requests : rendition'[r] = rendition[r] \/ rendition[r].state = "none"
    BY <1>4, RequestLeaves
  <2>2. Blocked => Blocked'
    BY <1>0, <2>1 DEF Blocked, DisplayedIsReady, InProgress
  <2>3. QED
    BY <2>1, <2>2 DEF RefusedIsBlocked
<1>5. CASE UNCHANGED vars
  BY <1>5 DEF vars, tables, disk, RefusedIsBlocked, Blocked
<1>6. QED
  BY <1>1, <1>2, <1>3, <1>4, <1>5, NextCases

(***************************************************************************)
(* Files of failed renditions. A file without a ready rendition belongs to *)
(* one that is finalizing, or to the attempt that is about to remove it; a *)
(* rendition is finalizing without a worker only after an interruption.    *)
(***************************************************************************)
Finalizes(w, r) == worker[w].owner = r /\ worker[w].pc \in {"promote", "commit", "undo", "fail"}
FinalizingIsHeld ==
    \A r \in Requests : rendition[r].state = "finalizing" =>
        interruptions >= 1 \/ \E w \in Workers : Finalizes(w, r)
Recovers(w, r) ==
    /\ worker[w].owner = r /\ worker[w].pc = "clean" /\ worker[w].from = "finalizing"
    /\ interruptions = 1
FilesKnown ==
    \A r \in Requests : published[r] # "none" =>
        rendition[r].state \in {"finalizing", "ready"} \/ \E w \in Workers : Recovers(w, r)
NothingYet ==
    \A w \in Workers :
        worker[w].pc \in {"validate", "begin", "rendering", "end", "promote", "fail"} =>
            \A r \in Requests : worker[w].owner = r => published[r] = "none"
Leftovers == interruptions < 2 => FilesKnown /\ NothingYet
FileInv == FinalizingIsHeld /\ Leftovers

LEMMA FilesStay ==
    ASSUME OneWorker, RInv, RenditionInv, FileInv, NEW w \in Workers, ProcessRendition(w)
    PROVE  FileInv'
<1>0. /\ worker \in [Workers -> Process] /\ published \in [Owners -> Bytes]
      /\ rendition \in [Requests -> Rendition] /\ interruptions \in Nat
      /\ Requests \subseteq Owners /\ \A v \in Workers : v = w
      /\ interruptions' = interruptions
  BY RenditionLeaves DEF RInv, TypeOK, Owners, OneWorker
<1>2. PICK r \in Requests : r = worker[w].owner
  BY RenditionLeaves
<1>3. worker[w].pc # "idle"
  BY DEF ProcessRendition, RestartValidation, CleanupUncommitted, BeginRendering, EndRendering,
         CheckState, StoreState, PromoteRendition, CommitRendition, RefuseRendition, UndoRendition,
         RenditionStepFails, PresetUnusable, FailRendition, On
<1>4. /\ rendition[r].state \in InProgress
      /\ worker[w].pc = "clean" => rendition[r].state = "validating"
      /\ worker[w].pc = "promote" => rendition[r].state = "finalizing"
  BY <1>2, <1>3 DEF RenditionInv, RenditionHeld, RenditionHeldBy
<1>5. /\ worker'[w] = Idle \/ worker'[w].owner = r
      /\ \A q \in Requests \ {r} :
            published'[q] = published[q] /\ rendition'[q] = rendition[q]
  BY <1>2, RenditionLeaves
<1> DEFINE HeldBy(q) == rendition[q].state = "finalizing" => interruptions >= 1 \/ Finalizes(w, q)
           KnownBy(q) == published[q] # "none" =>
                rendition[q].state \in {"finalizing", "ready"} \/ Recovers(w, q)
           NothingBy(q) ==
              worker[w].pc \in {"validate", "begin", "rendering", "end", "promote", "fail"}
                /\ worker[w].owner = q => published[q] = "none"
<1>6. \A q \in Requests : HeldBy(q) /\ (interruptions < 2 => KnownBy(q) /\ NothingBy(q))
  BY <1>0 DEF FileInv, FinalizingIsHeld, Leftovers, FilesKnown, NothingYet
<1>7. SUFFICES HeldBy(r)' /\ (interruptions < 2 => KnownBy(r)' /\ NothingBy(r)')
  <2>1. ASSUME NEW q \in Requests \ {r}
        PROVE  HeldBy(q)' /\ (interruptions < 2 => KnownBy(q)' /\ NothingBy(q)')
    <3>1. worker[w].owner # q /\ (worker'[w].pc = "idle" \/ worker'[w].owner # q)
      BY <1>2, <1>5 DEF Idle
    <3>2. QED
      BY <1>0, <1>5, <1>6, <3>1 DEF Finalizes, Recovers
  <2>2. \A q \in Requests : HeldBy(q)' /\ (interruptions < 2 => KnownBy(q)' /\ NothingBy(q)')
    BY <1>7, <2>1
  <2>3. QED
    BY <1>0, <2>2 DEF FileInv, FinalizingIsHeld, Leftovers, FilesKnown, NothingYet
<1>8. HeldBy(r) /\ (interruptions < 2 => KnownBy(r) /\ NothingBy(r))
  BY <1>6
<1> USE DEF On, Goto, Fail, Release, Idle, Process, Rendition, InProgress, disk, tables,
            Finalizes, Recovers
<1>9. CASE RestartValidation(w)
  BY <1>0, <1>2, <1>4, <1>8, <1>9 DEF RestartValidation, Terminal
<1>10. CASE CleanupUncommitted(w)
  BY <1>0, <1>2, <1>4, <1>8, <1>10 DEF CleanupUncommitted
<1>11. CASE BeginRendering(w)
  BY <1>0, <1>2, <1>4, <1>8, <1>11 DEF BeginRendering, CheckState, StoreState
<1>12. CASE EndRendering(w)
  BY <1>0, <1>2, <1>4, <1>8, <1>12 DEF EndRendering, CheckState, StoreState
<1>13. CASE PromoteRendition(w)
  BY <1>0, <1>2, <1>4, <1>8, <1>13 DEF PromoteRendition
<1>14. CASE UndoRendition(w)
  BY <1>0, <1>2, <1>4, <1>8, <1>14 DEF UndoRendition
<1>15. CASE CommitRendition(w)
  BY <1>0, <1>2, <1>4, <1>8, <1>15 DEF CommitRendition
<1>16. CASE RefuseRendition(w) \/ RenditionStepFails(w)
  BY <1>0, <1>2, <1>4, <1>8, <1>16 DEF RefuseRendition, RenditionStepFails, PresetUnusable
<1>17. CASE FailRendition(w)
  BY <1>0, <1>2, <1>4, <1>8, <1>17 DEF FailRendition
<1>18. QED
  BY <1>9, <1>10, <1>11, <1>12, <1>13, <1>14, <1>15, <1>16, <1>17 DEF ProcessRendition

LEMMA FilesNext ==
    ASSUME OneWorker, RInv, RenditionInv, FileInv, [Next]_vars
    PROVE  FileInv'
<1>0. /\ worker \in [Workers -> Process] /\ interruptions \in Nat
      /\ FinalizingIsHeld /\ Leftovers /\ Formal \notin Requests
      /\ rendition \in [Requests -> Rendition]
  BY ResultAssumptions DEF RInv, TypeOK, FileInv
<1>1. ASSUME NEW w \in Workers, FormalStep(w) PROVE FileInv'
  <2>1. /\ worker[w].owner = Formal /\ worker'[w].owner = Formal /\ rendition' = rendition
        /\ \A r \in Requests : published'[r] = published[r]
        /\ interruptions' \in {interruptions, interruptions + 1}
    BY <1>1, FormalLeaves
  <2>2. \A v \in Workers : v = w
    BY <1>1 DEF OneWorker
  <2>3. FinalizingIsHeld'
    BY <1>0, <2>1, <2>2 DEF FinalizingIsHeld, Finalizes
  <2>4. Leftovers'
    BY <1>0, <2>1, <2>2 DEF Leftovers, FilesKnown, NothingYet, Recovers
  <2>5. QED
    BY <2>3, <2>4 DEF FileInv
<1>2. ASSUME NEW w \in Workers, QueueStep(w) PROVE FileInv'
  <2>1. \A v \in Workers : v = w
    BY <1>2 DEF OneWorker
  <2>2. CASE RecoverExpiredJob(w)
    BY <1>0, <2>2 DEF RecoverExpiredJob, disk, FileInv, FinalizingIsHeld, Finalizes,
       Leftovers, FilesKnown, NothingYet, Recovers
  <2>3. CASE ClaimNextJob(w)
    <3>1. /\ worker[w].pc = "idle" /\ worker'[w].pc = "prepare"
          /\ UNCHANGED <<rendition, published, interruptions>>
      BY <1>0, <2>3 DEF ClaimNextJob, disk, Idle
    <3>2. FinalizingIsHeld'
      BY <1>0, <2>1, <3>1 DEF FinalizingIsHeld, Finalizes
    <3>3. Leftovers'
      BY <1>0, <2>1, <3>1 DEF Leftovers, FilesKnown, NothingYet, Recovers
    <3>4. QED
      BY <3>2, <3>3 DEF FileInv
  <2>4. CASE WorkerKilled(w)
    <3>1. /\ worker'[w].pc = "idle" /\ interruptions' = interruptions + 1
          /\ UNCHANGED <<rendition, published>>
      BY <1>0, <2>4 DEF WorkerKilled, disk, tables, Idle, Release
    <3>2. FinalizingIsHeld'
      BY <1>0, <3>1 DEF FinalizingIsHeld
    <3>3. Leftovers'
      BY <1>0, <2>1, <3>1 DEF Leftovers, FilesKnown, NothingYet, Recovers
    <3>4. QED
      BY <3>2, <3>3 DEF FileInv
  <2>5. QED
    BY <1>2, <2>2, <2>3, <2>4 DEF QueueStep
<1>3. ASSUME NEW h \in Handlers, RequestStep(h) PROVE FileInv'
  <2>1. /\ UNCHANGED <<published, worker, interruptions>>
        /\ \A r \in Requests :
                \/ rendition'[r] = rendition[r]
                \/ rendition[r].state = "none" /\ rendition'[r].state = "queued"
    BY <1>3, RequestLeaves DEF disk
  <2>2. FinalizingIsHeld'
    BY <1>0, <2>1 DEF FinalizingIsHeld, Finalizes
  <2>3. Leftovers'
    BY <1>0, <2>1 DEF Leftovers, FilesKnown, NothingYet, Recovers
  <2>4. QED
    BY <2>2, <2>3 DEF FileInv
<1>4. CASE UNCHANGED vars
  BY <1>0, <1>4 DEF vars, tables, disk, FileInv, FinalizingIsHeld, Finalizes,
     Leftovers, FilesKnown, NothingYet, Recovers
<1>5. QED
  BY <1>1, <1>2, <1>3, <1>4, NextCases, FilesStay

(***************************************************************************)
(* The invariant of a lone worker, and what it gives.                      *)
(***************************************************************************)
LoneInv == RInv /\ FormalInv /\ RenditionInv /\ ReadyIsOlder /\ RefusedIsBlocked /\ FileInv

LEMMA InitLone == Init => LoneInv
<1> SUFFICES ASSUME Init PROVE LoneInv
  OBVIOUS
<1>0. /\ Formal \notin Requests /\ Nobody \notin Owners /\ Owners = Requests \cup {Formal}
      /\ RInv
  BY ResultAssumptions, InitInvariant DEF Owners
<1>1. PICK kept \in {{}} \cup {{r} : r \in Requests} :
        /\ asset = [preview |-> "preview_generating", formal |-> FALSE,
                    active |-> IF kept = {} THEN Nobody ELSE CHOOSE r \in kept : TRUE,
                    selection |-> IF kept = {} THEN 0 ELSE 1]
        /\ rendition = [r \in Requests |-> IF r \in kept THEN Migrated ELSE NoRendition]
        /\ job = [o \in Owners |->
                    IF o = Formal THEN "queued" ELSE IF o \in kept THEN "done" ELSE "none"]
        /\ result = [o \in Owners |->
                    IF o \in kept THEN ReadyResult("full") ELSE NoResult]
        /\ published = [o \in Owners |-> IF o \in kept THEN "full" ELSE "none"]
  BY DEF Init
<1>2. /\ kept \subseteq Requests /\ (kept = {} \/ asset.active \in kept)
      /\ kept = {} => asset.active = Nobody
      /\ \A q, r \in kept : q = r
  BY <1>1
<1>3. /\ worker = [w \in Workers |-> Idle] /\ attempt.state = "none" /\ ~linked
  BY DEF Init
<1>4. FormalInv
  BY <1>0, <1>1, <1>2, <1>3
     DEF FormalInv, FormalHeld, FormalHeldBy, FormalFiles, FormalBacked, Idle
<1>5. RenditionInv
  <2>1. DisplayBacked
    BY <1>0, <1>1, <1>2 DEF DisplayBacked
  <2>2. RenditionJobAgree /\ NoneSuperseded
    BY <1>0, <1>1, <1>2 DEF RenditionJobAgree, NoneSuperseded, Migrated, NoRendition
  <2>3. QED
    BY <1>3, <2>1, <2>2 DEF RenditionInv, RenditionHeld, RenditionHeldBy, Idle
<1>6. ReadyIsOlder
  <2>1. \A r \in Requests : rendition[r].state = "ready" => r \in kept
    BY <1>1 DEF NoRendition
  <2>2. \A r \in kept : asset.active = r /\ rendition[r].generation = 1
    BY <1>1, <1>2 DEF Migrated
  <2>3. QED
    BY <1>2, <2>1, <2>2 DEF ReadyIsOlder
<1>7. RefusedIsBlocked
  BY <1>3 DEF RefusedIsBlocked, Idle
<1>8. FileInv
  BY <1>0, <1>1, <1>2, <1>3 DEF FileInv, FinalizingIsHeld, Leftovers, FilesKnown, NothingYet,
     Idle, Migrated, NoRendition
<1>9. QED
  BY <1>0, <1>4, <1>5, <1>6, <1>7, <1>8 DEF LoneInv

LEMMA LoneNext == ASSUME OneWorker PROVE LoneInv /\ [Next]_vars => LoneInv'
BY StepInvariant, FormalNext, RenditionNext, ReadyIsOlderNext, BlockedNext, FilesNext DEF LoneInv

LEMMA AlwaysLone == ASSUME OneWorker PROVE Spec => []LoneInv
BY InitLone, LoneNext, PTL DEF Spec

\* What the asset points at, its active result and its formal preview, is
\* ready and on disk with the recorded digest, whatever kills and retries the
\* worker went through (src/backend/app/services/formal_previews.py,
\* rendition_processing.py).
THEOREM PointersAreBacked == ASSUME OneWorker PROVE Spec => []PointersBacked
<1>1. LoneInv => PointersBacked
  BY ResultAssumptions DEF LoneInv, RInv, DisplayedIsReady, FormalInv, FormalBacked, RenditionInv,
     DisplayBacked, PointersBacked, ReadyResult, Owners
<1>2. QED
  BY <1>1, AlwaysLone, PTL

\* A rendition and its job settle together, although the failure path marks
\* the job without looking at the rendition.
THEOREM RenditionAndJobAgree == ASSUME OneWorker PROVE Spec => []RenditionJobAgree
<1>1. LoneInv => RenditionJobAgree
  BY DEF LoneInv, RenditionInv
<1>2. QED
  BY <1>1, AlwaysLone, PTL

\* No published file outlives a rendition that failed, unless a second
\* interruption hits the attempt that recovers from the first.
THEOREM FailedLeaveNoFile == ASSUME OneWorker PROVE Spec => []FailedRenditionLeavesNoFile
<1>1. ASSUME LoneInv, interruptions < 2, NEW r \in Requests, rendition[r].state = "failed"
      PROVE  published[r] = "none"
  <2>1. \A w \in Workers : ~Recovers(w, r)
    BY <1>1 DEF LoneInv, RenditionInv, RenditionHeld, RenditionHeldBy, Recovers
  <2>2. QED
    BY <1>1, <2>1 DEF LoneInv, FileInv, Leftovers, FilesKnown
<1>2. LoneInv => FailedRenditionLeavesNoFile
  BY <1>1 DEF FailedRenditionLeavesNoFile
<1>3. QED
  BY <1>2, AlwaysLone, PTL

\* The publication of a formal preview is refused for one reason only: a
\* selection newer than the managed result on display is still in progress.
THEOREM RefusedForASelection == ASSUME OneWorker PROVE Spec => FormalRefusedOnlyForSelection
<1> DEFINE ForSelection ==
      attempt'.failure = "relation_invalid" /\ attempt.failure = "none" =>
        \E r \in Requests :
            /\ asset.active \in Requests /\ rendition[r].state \in InProgress
            /\ rendition[r].generation > rendition[asset.active].generation
<1>1. ASSUME LoneInv, [Next]_vars, attempt'.failure = "relation_invalid", attempt.failure = "none"
      PROVE  Blocked
  <2>0. attempt \in Attempt
    BY <1>1 DEF LoneInv, RInv, TypeOK
  <2>1. PICK w \in Workers : FormalStep(w)
    <3>1. attempt' # attempt /\ RInv
      BY <1>1 DEF LoneInv
    <3>2. QED
      BY <1>1, <3>1, NextCases, RenditionLeaves, QueueLeaves, RequestLeaves DEF vars, tables
  <2>2. FailAttempt(w)
    BY <1>1, <2>0, <2>1 DEF FormalStep, ProcessFormalPreview, FailureUnrecorded, PrepareAttempt,
       VerifyOriginal, PersistDetection, PersistPreset, DiscardCandidate, StartRender,
       FinishRender, InspectCandidate, TransitionToFinalizing, PromoteCandidate, CheckPublished,
       CommitFormalPreview, RefuseFormalPreview, UndoPublication, DropCandidate, StepFails,
       tables, Attempt
  <2>3. worker[w].owner = Formal /\ worker[w].code = "relation_invalid"
    BY <1>1, <2>0, <2>2 DEF FailAttempt, At, Attempt
  <2>4. QED
    BY <1>1, <2>3 DEF LoneInv, RefusedIsBlocked
<1>2. LoneInv /\ [Next]_vars => [ForSelection]_vars
  BY <1>1 DEF Blocked
<1>3. Spec => [][ForSelection]_vars
  <2>1. LoneInv /\ [Next]_vars => [ForSelection]_vars
    BY <1>2
  <2> HIDE DEF ForSelection
  <2>2. QED
    BY <2>1, AlwaysLone, PTL DEF Spec
<1>4. QED
  BY <1>3 DEF FormalRefusedOnlyForSelection

\* Bytes are sent only from a whole file of a ready result that is the formal
\* preview, or on display with no newer selection under way, at the moment the
\* file is opened (src/backend/app/services/processed_result_streaming.py).
THEOREM ServedOnlyIfAuthoritative == ASSUME OneWorker PROVE Spec => ServedIsAuthoritative
<1> DEFINE Authoritative ==
      \A h \in Handlers :
        handler'[h].pc = "serving" /\ handler[h].pc # "serving" =>
            LET o == handler[h].o IN
            /\ result[o].status = "ready" /\ published[o] = "full"
            /\ o \in Requests => o = asset.active /\ ~HasNewerCandidate(rendition[o].generation)
<1>1. ASSUME LoneInv, [Next]_vars, NEW h \in Handlers,
             handler'[h].pc = "serving", handler[h].pc # "serving"
      PROVE  /\ result[handler[h].o].status = "ready" /\ published[handler[h].o] = "full"
             /\ handler[h].o \in Requests =>
                    /\ handler[h].o = asset.active
                    /\ ~HasNewerCandidate(rendition[handler[h].o].generation)
  <2>0. handler \in [Handlers -> Request] /\ RInv /\ Formal \notin Requests
    BY <1>1, ResultAssumptions DEF LoneInv, RInv, TypeOK
  <2>1. PICK g \in Handlers : RequestStep(g)
    <3>1. handler' # handler
      BY <1>1
    <3>2. QED
      BY <1>1, <2>0, <3>1, NextCases, FormalLeaves, RenditionLeaves, QueueLeaves DEF vars
  <2>2. g = h /\ OpenResult(h) /\ Deliverable(handler[h].o)
    BY <1>1, <2>0, <2>1 DEF RequestStep, RenditionRequest, DownloadRequest, AcceptRendition,
       Preflight, CreateRendition, AcceptDownload, ResolveResult, OpenResult, EndDownload,
       NoRequest, Request
  <2>3. handler[h].o = Formal => published[Formal] = "full"
    BY <1>1, <2>0, <2>2 DEF Deliverable, FormalDeliverable, LoneInv, FormalInv, FormalBacked
  <2>4. handler[h].o \in Requests =>
            /\ handler[h].o = asset.active /\ published[handler[h].o] = "full"
            /\ Authority = "current_managed"
    BY <1>1, <2>0, <2>2 DEF Deliverable, LoneInv, RenditionInv, DisplayBacked
  <2>5. Authority = "current_managed" => ~HasNewerCandidate(rendition[asset.active].generation)
    BY DEF Authority
  <2>6. handler[h].o = Formal \/ handler[h].o \in Requests
    BY <2>2 DEF Deliverable
  <2>7. result[handler[h].o].status = "ready"
    BY <2>2 DEF Deliverable
  <2>8. QED
    BY <2>3, <2>4, <2>5, <2>6, <2>7
<1>2. LoneInv /\ [Next]_vars => [Authoritative]_vars
  BY <1>1
<1>3. Spec => [][Authoritative]_vars
  <2>1. LoneInv /\ [Next]_vars => [Authoritative]_vars
    BY <1>2
  <2> HIDE DEF Authoritative
  <2>2. QED
    BY <2>1, AlwaysLone, PTL DEF Spec
<1>4. QED
  BY <1>3 DEF ServedIsAuthoritative
=============================================================================

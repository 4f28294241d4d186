------------------------ MODULE LegacyPreviewsProofs ------------------------
(***************************************************************************)
(* Proofs about previews without a generation, for any number of videos,   *)
(* photos, workers and names, and any bounds on errors, kills and leases   *)
(* that are outlived.                                                      *)
(***************************************************************************)
EXTENDS LegacyPreviews, FiniteSetTheorems, TLAPS

-----------------------------------------------------------------------------
(***************************************************************************)
(* What a worker holds at each step, besides its type. It has a file       *)
(* exactly from the end of FFmpeg to the commit or the cleanup.            *)
(***************************************************************************)
Processing ==
    {"claimed", "encoding", "encoded", "cleanup", "existing", "confirmed", "retryable",
     "failing"}
Fits(o) ==
    /\ o.pc \in Processing \cup {"inspected", "outcome"} => o.asset \in Assets
    /\ o.file # None <=> o.pc \in {"encoded", "cleanup"}
    /\ o.pc \in {"existing", "confirmed", "inspected"} => o.seen \in Previews
    /\ o.pc = "outcome" => o.outcome # "none"
WorkersOK == worker \in [Workers -> Worker] /\ \A w \in Workers : Fits(worker[w])

TablesOK ==
    /\ asset \in [Assets -> Asset]
    /\ job \in [Assets -> Job]
    /\ derived \in [Previews -> Derived]
    /\ result \in [Previews -> {"none", "ready", "superseded"}]
    /\ disk \in [Previews -> File]
    /\ upload \in [Photos -> Upload]
Used == [load: Loads, faults: Nat, kills: Nat, overdue: Nat]
UsedOK ==
    /\ used \in Used
    /\ used.faults <= used.load.faults /\ used.kills <= used.load.kills
    /\ used.overdue <= used.load.overdue
Typed == TablesOK /\ WorkersOK /\ UsedOK

(***************************************************************************)
(* Rows and files. Rows are numbered upwards, so that an asset with rows   *)
(* has a newest one. A file in the hands of a worker has no row and no     *)
(* other worker has it; recovery leaves it alone because it is new.        *)
(***************************************************************************)
RowSet == {f \in Previews : derived[f].id # 0}
Newest(a, f) == f \in RowsOf(a) /\ \A g \in RowsOf(a) : derived[g].id <= derived[f].id
RowsOK ==
    /\ \A f \in Previews :
        /\ derived[f].id = 0 <=> derived[f].asset = None
        /\ derived[f].id <= Cardinality(RowSet)
    /\ \A a \in Assets : RowsOf(a) # {} => \E f \in Previews : Newest(a, f)
HeldFilesOK ==
    /\ \A w \in Workers : worker[w].file # None =>
        /\ derived[worker[w].file] = NoRow
        /\ worker[w].pc = "encoded" => disk[worker[w].file] = "new"
    /\ \A w, v \in Workers : worker[w].file = worker[v].file /\ w # v => worker[w].file = None
FilesInv == Typed /\ RowsOK /\ HeldFilesOK /\ RowsBacked

(***************************************************************************)
(* Results. The active result is ready and its preview the newest; a ready *)
(* result is active. A preview from before there were results is the only  *)
(* one of its video, and nobody makes another one.                         *)
(***************************************************************************)
Making(a) == \E w \in Workers : worker[w].asset = a /\ worker[w].pc \in {"encoding", "encoded"}
ActiveOK ==
    \A a \in Assets : asset[a].active # None =>
        /\ SessionVideo(a)
        /\ asset[a].active \in RowsOf(a) /\ result[asset[a].active] = "ready"
        /\ \A g \in RowsOf(a) \ {asset[a].active} : derived[g].id < derived[asset[a].active].id
ResultsOK ==
    \A f \in Previews :
        /\ derived[f] = NoRow => result[f] = "none"
        /\ result[f] = "ready" => asset[derived[f].asset].active = f
UnresultedOK ==
    \A a \in Assets, f \in Previews :
        SessionVideo(a) /\ f \in RowsOf(a) /\ result[f] = "none" =>
            RowsOf(a) = {f} /\ ~Making(a)
SeenOK ==
    \A w \in Workers : worker[w].pc \in {"existing", "confirmed"} =>
        worker[w].seen \in RowsOf(worker[w].asset)
ResultsInv == ActiveOK /\ ResultsOK /\ UnresultedOK /\ SeenOK

(***************************************************************************)
(* Uploads. An asset exists exactly when its job does, for a photo exactly *)
(* when its upload is done; nobody works on an asset that does not exist.  *)
(***************************************************************************)
RequestOK(u, faults) ==
    /\ u.pc = "ready" => u = Request("ready", FALSE, FALSE)
    /\ u.pc = "saved" => u = Request("saved", TRUE, FALSE)
    /\ u.pc = "moved" => u = Request("moved", FALSE, TRUE)
    /\ u.pc = "done" => u = Request("done", FALSE, TRUE)
    /\ u.pc = "undo" => faults > 0
    /\ u.pc = "refused" /\ (u.tmp \/ u.original) => faults > 1
UploadsInv ==
    /\ \A p \in Photos :
        /\ RequestOK(upload[p], used.faults)
        /\ asset[p].preview # "absent" <=> upload[p].pc = "done"
    /\ \A a \in Assets : asset[a].preview = "absent" <=> job[a].status = "absent"
    /\ \A w \in Workers : worker[w].asset # None => asset[worker[w].asset].preview # "absent"

(***************************************************************************)
(* What the schema refuses before 008. An asset in LOG is never ready, and *)
(* only session videos are candidates of the backfill; a video in LOG is   *)
(* not encoded, so that what is refused at a commit is a photo.            *)
(***************************************************************************)
RefusalsInv ==
    /\ \A a \in Assets : asset[a].preview = "preview_ready" => ~LogRefused(a)
    /\ \A w \in Workers :
        /\ worker[w].pc \in {"encoding", "encoded"} => ~LutPreview(worker[w].asset)
        /\ worker[w].pc \in {"inspected", "outcome"} => SessionVideo(worker[w].asset)
Refused(a) == a \in Photos /\ LogRefused(a) /\ RowsOf(a) # {}

(***************************************************************************)
(* Jobs, as long as no worker outlived a lease. A job is run by the worker *)
(* that claimed it and by nobody else; a preview has been committed with   *)
(* its job, so that an attempt never finds one; the backfill looks at      *)
(* settled assets only.                                                    *)
(***************************************************************************)
ClaimOK(w) ==
    LET j == job[worker[w].asset] IN
    worker[w].pc \in Processing =>
        /\ j.status = "running" /\ j.by = w
        /\ asset[worker[w].asset].preview = "preview_generating"
        /\ worker[w].pc \notin {"existing", "confirmed", "retryable"}
BackfillOK(w) ==
    /\ worker[w].pc \in {"inspected", "outcome"} => job[worker[w].asset].status = "done"
    /\ worker[w].pc = "outcome" /\ worker[w].outcome = "integrity_failed" =>
        Lost(worker[w].asset)
SettledWith(a) ==
    LET s == job[a].status IN
    /\ asset[a].preview = "absent" => s = "absent"
    /\ asset[a].preview = "preview_generating" => s \in {"queued", "running"}
    /\ asset[a].preview = "preview_ready" => s = "done"
    /\ asset[a].preview = "failed" => s = "failed" \/ (s = "done" /\ (Lost(a) \/ Refused(a)))
JobOK(a) ==
    /\ job[a].expired => job[a].status = "running" /\ job[a].by = None
    /\ RowsOf(a) # {} => job[a].status = "done"
    /\ SettledWith(a)
JobsOK ==
    /\ \A w \in Workers : ClaimOK(w) /\ BackfillOK(w)
    /\ \A a \in Assets : JobOK(a)
JobsInv == used.overdue = 0 => JobsOK

-----------------------------------------------------------------------------
(***************************************************************************)
(* Steps of one worker and of the tables keep the types.                   *)
(***************************************************************************)
WorkerOK(o) == o \in Worker /\ Fits(o)

LEMMA IdleOK == WorkerOK(Idle)
  BY PreviewAssumptions DEF WorkerOK, Fits, Idle, Worker, Processing

LEMMA SetWorker ==
    ASSUME WorkersOK, NEW w \in Workers, NEW o, WorkerOK(o),
           worker' = [worker EXCEPT ![w] = o]
    PROVE  /\ WorkersOK' /\ worker'[w] = o
           /\ \A v \in Workers \ {w} : worker'[v] = worker[v]
  <1>1. \A v \in Workers : worker'[v] = IF v = w THEN o ELSE worker[v]
    BY DEF WorkersOK
  <1>2. worker' \in [Workers -> Worker]
    BY DEF WorkersOK, WorkerOK
  <1>3. \A v \in Workers : Fits(worker'[v])
    BY <1>1 DEF WorkersOK, WorkerOK
  <1>. QED
    BY <1>1, <1>2, <1>3 DEF WorkersOK, Fits

LEMMA LeaveStep ==
    ASSUME WorkersOK, NEW w \in Workers, Leave(w)
    PROVE  /\ WorkersOK' /\ worker'[w] = Idle
           /\ \A v \in Workers \ {w} : worker'[v] = worker[v]
  BY IdleOK, SetWorker DEF Leave

LEMMA GotoStep ==
    ASSUME WorkersOK, NEW w \in Workers, NEW pc, Goto(w, pc),
           WorkerOK([worker[w] EXCEPT !.pc = pc])
    PROVE  /\ WorkersOK' /\ worker'[w] = [worker[w] EXCEPT !.pc = pc]
           /\ \A v \in Workers \ {w} : worker'[v] = worker[v]
  <1>1. worker' = [worker EXCEPT ![w] = [worker[w] EXCEPT !.pc = pc]]
    BY DEF Goto
  <1>. QED
    BY <1>1, SetWorker

\* From one step with an asset to another that holds no more than that.
LEMMA ProcessingPc ==
    ASSUME NEW o \in Worker, Fits(o), o.asset \in Assets, o.file = None,
           NEW pc \in {"encoding", "existing", "confirmed", "retryable", "failing"},
           pc \in {"existing", "confirmed"} => o.seen \in Previews
    PROVE  WorkerOK([o EXCEPT !.pc = pc])
  BY DEF WorkerOK, Fits, Worker, Processing

LEMMA FaultStep ==
    ASSUME UsedOK, Fault
    PROVE  /\ UsedOK' /\ used'.faults = used.faults + 1 /\ used'.overdue = used.overdue
           /\ used'.load = used.load
  <1>1. used \in Used /\ used.load \in Load
    BY PreviewAssumptions DEF UsedOK, Used
  <1>2. used' = [used EXCEPT !.faults = used.faults + 1]
    BY DEF Fault
  <1>3. used.faults + 1 \in Nat /\ used.load.faults \in Nat /\ used.faults + 1 <= used.load.faults
    BY <1>1 DEF Fault, Load, Used
  <1>4. used' \in Used /\ used'.faults = used.faults + 1 /\ used'.load = used.load
        /\ used'.kills = used.kills /\ used'.overdue = used.overdue
    BY <1>1, <1>2, <1>3 DEF Used
  <1>. QED
    BY <1>3, <1>4 DEF UsedOK

LEMMA KillCounted ==
    ASSUME UsedOK, used.kills < used.load.kills, used' = [used EXCEPT !.kills = @ + 1]
    PROVE  /\ UsedOK' /\ used'.faults = used.faults /\ used'.overdue = used.overdue
           /\ used'.load = used.load
  <1>1. used \in Used /\ used.load \in Load
    BY PreviewAssumptions DEF UsedOK, Used
  <1>2. used.kills + 1 \in Nat /\ used.kills + 1 <= used.load.kills
    BY <1>1 DEF Load, Used
  <1>3. used' \in Used /\ used'.kills = used.kills + 1 /\ used'.load = used.load
        /\ used'.faults = used.faults /\ used'.overdue = used.overdue
    BY <1>1, <1>2 DEF Used
  <1>. QED
    BY <1>2, <1>3 DEF UsedOK

LEMMA OverdueCounted ==
    ASSUME UsedOK, used.overdue < used.load.overdue, used' = [used EXCEPT !.overdue = @ + 1]
    PROVE  /\ UsedOK' /\ used'.faults = used.faults /\ used'.overdue > 0
           /\ used'.load = used.load
  <1>1. used \in Used /\ used.load \in Load
    BY PreviewAssumptions DEF UsedOK, Used
  <1>2. used.overdue + 1 \in Nat /\ used.overdue + 1 <= used.load.overdue
    BY <1>1 DEF Load, Used
  <1>3. used' \in Used /\ used'.overdue = used.overdue + 1 /\ used'.load = used.load
        /\ used'.faults = used.faults /\ used'.kills = used.kills
    BY <1>1, <1>2 DEF Used
  <1>. QED
    BY <1>1, <1>2, <1>3 DEF UsedOK, Used

LEMMA SameUsed == ASSUME UsedOK, UNCHANGED used PROVE UsedOK'
  BY DEF UsedOK

LEMMA SettledTyped ==
    ASSUME NEW j \in Job, NEW status \in {"done", "failed"}
    PROVE  /\ Settled(j, status) \in Job /\ Settled(j, status).status = status
           /\ Settled(j, status).by = None /\ ~Settled(j, status).expired
  BY DEF Settled, Job

LEMMA SetJobStep ==
    ASSUME TablesOK, NEW a \in Assets, NEW status \in {"done", "failed"}, SetJob(a, status)
    PROVE  /\ job' \in [Assets -> Job] /\ job'[a] = Settled(job[a], status)
           /\ job'[a].status = status
           /\ \A b \in Assets \ {a} : job'[b] = job[b]
  <1>1. job' = [job EXCEPT ![a] = Settled(job[a], status)]
    BY DEF SetJob
  <1>2. job[a] \in Job
    BY DEF TablesOK
  <1>. QED
    BY <1>1, <1>2, SettledTyped DEF TablesOK

\* What the schema makes of a status; it refuses nothing but "preview_ready".
LEMMA StoredStatus ==
    ASSUME NEW a, NEW status \in {"preview_ready", "failed"}
    PROVE  /\ Stored(a, status) \in {status, "failed"}
           /\ Stored(a, status) = "preview_ready" <=> status = "preview_ready" /\ ~LogRefused(a)
  BY DEF Stored

LEMMA SetPreviewStep ==
    ASSUME TablesOK, NEW a \in Assets, NEW status \in {"preview_ready", "failed"},
           SetPreview(a, status)
    PROVE  /\ asset' \in [Assets -> Asset] /\ asset'[a].preview = Stored(a, status)
           /\ asset'[a].preview \in {status, "failed"}
           /\ asset'[a].active = asset[a].active /\ asset'[a].log = asset[a].log
           /\ \A b \in Assets \ {a} : asset'[b] = asset[b]
  <1> DEFINE new == Stored(a, status)
  <1>0. new \in {status, "failed"}
    BY StoredStatus
  <1>1. asset' = [asset EXCEPT ![a] = [asset[a] EXCEPT !.preview = new]]
    BY DEF SetPreview
  <1> HIDE DEF new
  <1>2. asset[a] \in Asset
    BY DEF TablesOK
  <1>3. [asset[a] EXCEPT !.preview = new] \in Asset
    BY <1>0, <1>2 DEF Asset
  <1>4. /\ asset' \in [Assets -> Asset] /\ asset'[a].preview = new
        /\ asset'[a].active = asset[a].active /\ asset'[a].log = asset[a].log
        /\ \A b \in Assets \ {a} : asset'[b] = asset[b]
    BY <1>1, <1>2, <1>3 DEF TablesOK, Asset
  <1>. QED
    BY <1>0, <1>4 DEF new

LEMMA InsertAssetStep ==
    ASSUME TablesOK, NEW p \in Photos, InsertAsset(p)
    PROVE  /\ asset' \in [Assets -> Asset] /\ asset'[p].preview = "preview_generating"
           /\ asset'[p].active = asset[p].active
           /\ \A b \in Assets \ {p} : asset'[b] = asset[b]
  <1>0. p \in Assets /\ asset[p] \in Asset
    BY DEF Assets, TablesOK
  <1>1. PICK log \in BOOLEAN :
           asset' = [asset EXCEPT ![p].preview = "preview_generating", ![p].log = log]
    BY DEF InsertAsset
  <1> DEFINE new == [asset[p] EXCEPT !.preview = "preview_generating", !.log = log]
  <1>2. new \in Asset /\ new.preview = "preview_generating" /\ new.active = asset[p].active
    BY <1>0 DEF Asset
  <1>3. asset' = [asset EXCEPT ![p] = new]
    BY <1>0, <1>1 DEF TablesOK
  <1> HIDE DEF new
  <1>. QED
    BY <1>0, <1>2, <1>3 DEF TablesOK
-----------------------------------------------------------------------------
\* What get_preview_for_asset and get_phase2a_backfill_candidate return.
LEMMA LatestNewest ==
    ASSUME RowsOK, NEW a \in Assets
    PROVE  /\ RowsOf(a) # {} => Latest(a) \in Previews /\ Newest(a, Latest(a))
           /\ RowsOf(a) = {} => Latest(a) = None
           /\ Latest(a) # None => Latest(a) \in RowsOf(a)
  <1>1. ASSUME RowsOf(a) # {} PROVE Latest(a) \in Previews /\ Newest(a, Latest(a))
    <2>1. \E f \in RowsOf(a) : \A g \in RowsOf(a) : derived[g].id <= derived[f].id
      BY <1>1 DEF RowsOK, Newest
    <2>2. Latest(a) = CHOOSE f \in RowsOf(a) : \A g \in RowsOf(a) : derived[g].id <= derived[f].id
      BY <1>1 DEF Latest
    <2>3. Newest(a, Latest(a))
      BY <2>1, <2>2 DEF Newest
    <2>. QED
      BY <2>3 DEF Newest, RowsOf
  <1>2. RowsOf(a) = {} => Latest(a) = None
    BY DEF Latest
  <1>. QED
    BY <1>1, <1>2 DEF Newest

LEMMA CandidateFound ==
    ASSUME RowsOK, NEW a \in Assets, Candidate(a) # None
    PROVE  /\ Candidate(a) \in RowsOf(a) /\ Candidate(a) \in Previews
           /\ SessionVideo(a) /\ asset[a].preview = "preview_ready"
           /\ result[Candidate(a)] = "none" \/ asset[a].active = Candidate(a)
  <1>1. Candidate(a) = Latest(a)
    BY DEF Candidate
  <1>2. Latest(a) \in RowsOf(a)
    BY <1>1, LatestNewest
  <1>. QED
    BY <1>1, <1>2 DEF Candidate, RowsOf

-----------------------------------------------------------------------------
(***************************************************************************)
(* Types, one action after the other.                                      *)
(***************************************************************************)
LEMMA RequestTyped ==
    ASSUME TablesOK, NEW p \in Photos, NEW u \in Upload, UploadTo(p, u)
    PROVE  /\ upload' \in [Photos -> Upload] /\ upload'[p] = u
           /\ \A q \in Photos \ {p} : upload'[q] = upload[q]
  BY DEF UploadTo, TablesOK

LEMMA SameTables ==
    ASSUME TablesOK, UNCHANGED <<rows, disk, upload>>
    PROVE  TablesOK'
  BY DEF TablesOK, rows

LEMMA SameWorkers == ASSUME WorkersOK, UNCHANGED worker PROVE WorkersOK'
  BY DEF WorkersOK, Fits

LEMMA RequestIn ==
    ASSUME NEW pc \in {"ready", "saved", "moved", "undo", "done", "refused", "killed"},
           NEW tmp \in BOOLEAN, NEW original \in BOOLEAN
    PROVE  Request(pc, tmp, original) \in Upload
  BY DEF Request, Upload

LEMMA SaveUploadTyped == ASSUME Typed, NEW p \in Photos, SaveUpload(p) PROVE Typed'
  <1>1. \E u \in Upload : UploadTo(p, u)
    BY RequestIn DEF SaveUpload
  <1>2. upload' \in [Photos -> Upload]
    BY <1>1, RequestTyped DEF Typed
  <1>3. TablesOK'
    BY <1>2 DEF Typed, TablesOK, SaveUpload, rows
  <1>. QED
    BY <1>3, SameWorkers, SameUsed DEF Typed, SaveUpload

LEMMA MoveOriginalTyped == ASSUME Typed, NEW p \in Photos, MoveOriginal(p) PROVE Typed'
  <1>1. \E u \in Upload : UploadTo(p, u)
    BY RequestIn DEF MoveOriginal
  <1>2. upload' \in [Photos -> Upload]
    BY <1>1, RequestTyped DEF Typed
  <1>3. TablesOK'
    BY <1>2 DEF Typed, TablesOK, MoveOriginal, rows
  <1>. QED
    BY <1>3, SameWorkers, SameUsed, FaultStep DEF Typed, MoveOriginal

LEMMA QueuedTyped == ASSUME NEW id \in Nat PROVE Queued(id) \in Job /\ Queued(id).status = "queued"
  BY DEF Queued, NoJob, Job

LEMMA CommitAssetTyped == ASSUME Typed, NEW p \in Photos, CommitAsset(p) PROVE Typed'
  <1>0. p \in Assets
    BY DEF Assets
  <1>1. \E u \in Upload : UploadTo(p, u)
    BY RequestIn DEF CommitAsset
  <1>2. upload' \in [Photos -> Upload]
    BY <1>1, RequestTyped DEF Typed
  <1>3. asset' \in [Assets -> Asset]
    BY <1>0, InsertAssetStep DEF CommitAsset, Typed, TablesOK
  <1>4. job' \in [Assets -> Job]
    <2>1. CASE UNCHANGED job
      BY <2>1 DEF Typed, TablesOK
    <2>2. CASE job' = [job EXCEPT ![p] =
                Queued(1 + Cardinality({a \in Assets : job[a].status # "absent"}))]
      <3>1. Cardinality({a \in Assets : job[a].status # "absent"}) \in Nat
        BY PreviewAssumptions, FS_Subset, FS_CardinalityType
      <3>. QED
        BY <1>0, <2>2, <3>1, QueuedTyped DEF Typed, TablesOK
    <2>. QED
      BY <2>1, <2>2 DEF CommitAsset
  <1>5. TablesOK'
    BY <1>2, <1>3, <1>4 DEF Typed, TablesOK, CommitAsset
  <1>. QED
    BY <1>5, SameWorkers, SameUsed, FaultStep DEF Typed, CommitAsset

LEMMA UndoUploadTyped == ASSUME Typed, NEW p \in Photos, UndoUpload(p) PROVE Typed'
  <1>1. upload[p] \in Upload
    BY DEF Typed, TablesOK
  <1>2. [upload[p] EXCEPT !.pc = "refused"] \in Upload
    BY <1>1 DEF Upload
  <1>3. \E u \in Upload : UploadTo(p, u)
    BY <1>2, RequestIn DEF UndoUpload
  <1>4. upload' \in [Photos -> Upload]
    BY <1>3, RequestTyped DEF Typed
  <1>5. TablesOK'
    BY <1>4 DEF Typed, TablesOK, UndoUpload, rows
  <1>. QED
    BY <1>5, SameWorkers, SameUsed, FaultStep DEF Typed, UndoUpload

LEMMA ApiKilledTyped == ASSUME Typed, ApiKilled PROVE Typed'
  <1>1. \A p \in Photos : [upload[p] EXCEPT !.pc = "killed"] \in Upload
    BY DEF Typed, TablesOK, Upload
  <1>2. upload' \in [Photos -> Upload]
    BY <1>1 DEF Typed, TablesOK, ApiKilled
  <1>3. TablesOK'
    BY <1>2 DEF Typed, TablesOK, ApiKilled, rows
  <1>. QED
    BY <1>3, SameWorkers, KillCounted DEF Typed, ApiKilled
LEMMA GiveUpStep ==
    ASSUME Typed, NEW w \in Workers, GiveUp(w)
    PROVE  /\ WorkersOK' /\ worker'[w] = Idle
           /\ \A v \in Workers \ {w} : worker'[v] = worker[v]
           /\ job' \in [Assets -> Job]
           /\ \A a \in Assets : /\ job'[a].status = job[a].status
                                /\ job'[a].by = job[a].by \/ (job'[a].by = None /\ job[a].by = w)
                                /\ job'[a].expired = job[a].expired
  <1>1. /\ WorkersOK' /\ worker'[w] = Idle
        /\ \A v \in Workers \ {w} : worker'[v] = worker[v]
    BY LeaveStep DEF GiveUp, Typed
  <1>2. ASSUME NEW a \in Assets
        PROVE  /\ [job[a] EXCEPT !.by = None] \in Job
               /\ [job[a] EXCEPT !.by = None].status = job[a].status
               /\ [job[a] EXCEPT !.by = None].by = None
               /\ [job[a] EXCEPT !.by = None].expired = job[a].expired
    BY DEF Typed, TablesOK, Job
  <1>3. job' \in [Assets -> Job]
    BY <1>2 DEF GiveUp, Typed, TablesOK
  <1>4. \A a \in Assets : job'[a] = IF job[a].status = "running" /\ job[a].by = w
                                    THEN [job[a] EXCEPT !.by = None] ELSE job[a]
    BY DEF GiveUp
  <1>. QED
    BY <1>1, <1>2, <1>3, <1>4

LEMMA RecoverExpiredJobsStep ==
    ASSUME Typed, NEW w \in Workers, RecoverExpiredJobs(w)
    PROVE  /\ job' \in [Assets -> Job]
           /\ \A a \in Assets :
                job'[a] = IF job[a].status = "running" /\ job[a].expired THEN Queued(job[a].id)
                          ELSE job[a]
           /\ WorkersOK' /\ worker'[w] = [worker[w] EXCEPT !.pc = "recovered"]
           /\ \A v \in Workers \ {w} : worker'[v] = worker[v]
  <1>1. \A a \in Assets : Queued(job[a].id) \in Job
    BY QueuedTyped DEF Typed, TablesOK, Job
  <1>2. job' \in [Assets -> Job]
    BY <1>1 DEF RecoverExpiredJobs, Typed, TablesOK
  <1>3. worker[w] \in Worker /\ Fits(worker[w]) /\ worker[w].pc = "idle"
    BY DEF Typed, WorkersOK, RecoverExpiredJobs
  <1>4. WorkerOK([worker[w] EXCEPT !.pc = "recovered"])
    BY <1>3 DEF WorkerOK, Fits, Worker, Processing
  <1>. QED
    BY <1>2, <1>4, GotoStep DEF RecoverExpiredJobs, Typed

LEMMA RecoverExpiredJobsTyped ==
    ASSUME Typed, NEW w \in Workers, RecoverExpiredJobs(w) PROVE Typed'
  <1>1. TablesOK'
    BY RecoverExpiredJobsStep DEF Typed, TablesOK, RecoverExpiredJobs
  <1>. QED
    BY <1>1, RecoverExpiredJobsStep, SameUsed DEF Typed, RecoverExpiredJobs

LEMMA RemoveOrphanTyped == ASSUME Typed, NEW w \in Workers, RemoveOrphan(w) PROVE Typed'
  <1>1. disk' \in [Previews -> File]
    BY DEF RemoveOrphan, Orphans, Typed, TablesOK, File
  <1>2. TablesOK'
    BY <1>1 DEF Typed, TablesOK, RemoveOrphan, rows
  <1>. QED
    BY <1>2, SameWorkers, SameUsed DEF Typed, RemoveOrphan

LEMMA ListCandidatesStep ==
    ASSUME Typed, NEW w \in Workers, ListCandidates(w)
    PROVE  /\ WorkersOK' /\ \A v \in Workers \ {w} : worker'[v] = worker[v]
           /\ worker'[w].pc = "listed" /\ worker'[w].file = worker[w].file
           /\ worker'[w].asset = worker[w].asset
  <1> DEFINE todo == {a \in Assets : Candidate(a) # None}
             o == [worker[w] EXCEPT !.pc = "listed", !.todo = todo]
  <1>1. worker[w] \in Worker /\ Fits(worker[w]) /\ worker[w].pc = "recovered"
    BY DEF Typed, WorkersOK, ListCandidates
  <1>2. worker' = [worker EXCEPT ![w] = o]
    BY DEF ListCandidates, Typed, WorkersOK
  <1>3. todo \in SUBSET Assets
    OBVIOUS
  <1> HIDE DEF todo
  <1>4. WorkerOK(o) /\ o.pc = "listed" /\ o.file = worker[w].file /\ o.asset = worker[w].asset
    BY <1>1, <1>3 DEF WorkerOK, Fits, Worker, Processing
  <1> HIDE DEF o
  <1>. QED
    BY <1>2, <1>4, SetWorker DEF Typed

LEMMA ListCandidatesTyped == ASSUME Typed, NEW w \in Workers, ListCandidates(w) PROVE Typed'
  BY ListCandidatesStep, SameTables, SameUsed DEF Typed, ListCandidates

\* The candidate is inspected or given up, and the worker goes on with the rest.
LEMMA DecideStep ==
    ASSUME Typed, NEW w \in Workers, NEW a \in Assets,
           worker[w].pc \in {"listed", "inspected"},
           NEW outcome \in {"created", "already_active", "integrity_failed", "retryable_failure"},
           Decide(w, a, outcome)
    PROVE  /\ WorkersOK' /\ \A v \in Workers \ {w} : worker'[v] = worker[v]
           /\ worker'[w].pc = "outcome" /\ worker'[w].file = None
           /\ worker'[w].asset = a /\ worker'[w].outcome = outcome
  <1> DEFINE o == [worker[w] EXCEPT !.pc = "outcome", !.asset = a, !.seen = None,
                                    !.outcome = outcome]
  <1>1. worker[w] \in Worker /\ Fits(worker[w])
    BY DEF Typed, WorkersOK
  <1>2. worker' = [worker EXCEPT ![w] = o]
    BY DEF Decide, Typed, WorkersOK
  <1>3. /\ WorkerOK(o) /\ o.pc = "outcome" /\ o.file = None /\ o.asset = a
        /\ o.outcome = outcome
    BY <1>1 DEF WorkerOK, Fits, Worker, Processing
  <1> HIDE DEF o
  <1>. QED
    BY <1>2, <1>3, SetWorker DEF Typed

LEMMA NextCandidate ==
    ASSUME Typed, NEW w \in Workers, NEW todo \in SUBSET Assets,
           worker' = [worker EXCEPT ![w] = [Idle EXCEPT !.pc = "listed", !.todo = todo]]
    PROVE  /\ WorkersOK' /\ \A v \in Workers \ {w} : worker'[v] = worker[v]
           /\ worker'[w].pc = "listed" /\ worker'[w].file = None /\ worker'[w].asset = None
  <1> DEFINE o == [Idle EXCEPT !.pc = "listed", !.todo = todo]
  <1>1. WorkerOK(o) /\ o.pc = "listed" /\ o.file = None /\ o.asset = None
    BY PreviewAssumptions DEF WorkerOK, Fits, Worker, Processing, Idle
  <1>2. worker' = [worker EXCEPT ![w] = o]
    OBVIOUS
  <1> HIDE DEF o
  <1>. QED
    BY <1>1, <1>2, SetWorker DEF Typed

\* What InspectCandidate makes of its worker.
LEMMA InspectCandidateStep ==
    ASSUME Typed, RowsOK, NEW w \in Workers, InspectCandidate(w)
    PROVE  /\ WorkersOK' /\ \A v \in Workers \ {w} : worker'[v] = worker[v]
           /\ worker'[w].pc \in {"listed", "inspected", "outcome"} /\ worker'[w].file = None
           /\ worker'[w].pc = "listed" => worker'[w].asset = worker[w].asset
           /\ worker'[w].pc # "listed" => Candidate(worker'[w].asset) # None
           /\ worker'[w].pc = "outcome" /\ worker'[w].outcome = "integrity_failed" =>
                disk[Candidate(worker'[w].asset)] = "lost"
  <1>1. worker[w] \in Worker /\ Fits(worker[w]) /\ worker[w].pc = "listed"
    BY DEF Typed, WorkersOK, InspectCandidate
  <1>2. PICK a \in worker[w].todo : LET f == Candidate(a) IN
         \/ /\ f = None
            /\ worker' = [worker EXCEPT ![w].todo = @ \ {a}] /\ UNCHANGED used
         \/ /\ f # None /\ disk[f] # "lost"
            /\ worker' = [worker EXCEPT ![w].pc = "inspected", ![w].asset = a, ![w].seen = f]
            /\ UNCHANGED used
         \/ f # None /\ disk[f] = "lost" /\ Decide(w, a, "integrity_failed") /\ UNCHANGED used
         \/ f # None /\ Decide(w, a, "retryable_failure") /\ Fault
    BY DEF InspectCandidate
  <1>3. a \in Assets
    BY <1>1, <1>2 DEF Worker
  <1>4. CASE Candidate(a) = None /\ worker' = [worker EXCEPT ![w].todo = @ \ {a}]
    <2> DEFINE o == [worker[w] EXCEPT !.todo = worker[w].todo \ {a}]
    <2>1. worker' = [worker EXCEPT ![w] = o]
      BY <1>4 DEF Typed, WorkersOK
    <2>2. WorkerOK(o) /\ o.pc = "listed" /\ o.file = None /\ o.asset = worker[w].asset
      BY <1>1 DEF WorkerOK, Fits, Worker, Processing
    <2> HIDE DEF o
    <2>. QED
      BY <2>1, <2>2, SetWorker DEF Typed
  <1>5. CASE /\ Candidate(a) # None
             /\ worker' = [worker EXCEPT ![w].pc = "inspected", ![w].asset = a,
                                         ![w].seen = Candidate(a)]
    <2> DEFINE f == Candidate(a)
               o == [worker[w] EXCEPT !.pc = "inspected", !.asset = a, !.seen = f]
    <2>1. worker' = [worker EXCEPT ![w] = o]
      BY <1>5 DEF Typed, WorkersOK
    <2>2. f \in Previews
      BY <1>3, <1>5, CandidateFound
    <2> HIDE DEF f
    <2>3. WorkerOK(o) /\ o.pc = "inspected" /\ o.file = None /\ o.asset = a
      BY <1>1, <1>3, <2>2 DEF WorkerOK, Fits, Worker, Processing
    <2> HIDE DEF o
    <2>. QED
      BY <1>5, <2>1, <2>3, SetWorker DEF Typed
  <1>6. CASE Candidate(a) # None /\ disk[Candidate(a)] = "lost" /\ Decide(w, a, "integrity_failed")
    BY <1>1, <1>3, <1>6, DecideStep
  <1>7. CASE Candidate(a) # None /\ Decide(w, a, "retryable_failure")
    BY <1>1, <1>3, <1>7, DecideStep
  <1>. QED
    BY <1>2, <1>4, <1>5, <1>6, <1>7

LEMMA InspectCandidateTyped ==
    ASSUME Typed, RowsOK, NEW w \in Workers, InspectCandidate(w) PROVE Typed'
  BY InspectCandidateStep, SameTables, SameUsed, FaultStep DEF Typed, InspectCandidate
\* The four ends of CommitBackfill, and what becomes of the worker.
LEMMA CommitBackfillStep ==
    ASSUME Typed, RowsOK, NEW w \in Workers, CommitBackfill(w)
    PROVE  LET a == worker[w].asset
               f == worker[w].seen
           IN
           /\ worker[w].pc = "inspected" /\ a \in Assets /\ f \in Previews
           /\ WorkersOK' /\ \A v \in Workers \ {w} : worker'[v] = worker[v]
           /\ worker'[w].file = None
           /\ \/ worker'[w].pc = "listed" /\ worker'[w].asset = None
              \/ /\ worker'[w].pc = "outcome" /\ worker'[w].asset = a
                 /\ worker'[w].outcome # "integrity_failed"
           /\ asset' \in [Assets -> Asset]
           /\ result' \in [Previews -> {"none", "ready", "superseded"}]
           /\ \/ UNCHANGED <<asset, result>>
              \/ /\ Candidate(a) = f /\ asset[a].active = None
                 /\ result' = [result EXCEPT ![f] = "ready"]
                 /\ asset' = [asset EXCEPT ![a].active = f]
           /\ UsedOK' /\ used'.overdue = used.overdue /\ used'.faults >= used.faults
  <1> DEFINE a == worker[w].asset
             f == worker[w].seen
             now == Candidate(a)
  <1>1. /\ worker[w] \in Worker /\ Fits(worker[w]) /\ worker[w].pc = "inspected"
        /\ a \in Assets /\ f \in Previews
    BY DEF Typed, WorkersOK, CommitBackfill, Fits
  <1>0. worker[w].pc \in {"listed", "inspected"}
    BY <1>1
  <1>2. asset' \in [Assets -> Asset] /\ result' \in [Previews -> {"none", "ready", "superseded"}]
    <2>1. [asset[a] EXCEPT !.active = f] \in Asset
      BY <1>1 DEF Typed, TablesOK, Asset
    <2>2. \/ UNCHANGED <<asset, result>>
          \/ /\ result' = [result EXCEPT ![f] = "ready"]
             /\ asset' = [asset EXCEPT ![a] = [asset[a] EXCEPT !.active = f]]
      BY DEF CommitBackfill
    <2>. QED
      BY <1>1, <2>1, <2>2 DEF Typed, TablesOK
  <1>3. used.faults \in Nat
    BY DEF Typed, UsedOK, Used
  <1>4. CASE /\ now = None /\ UNCHANGED <<asset, result, used>>
             /\ worker' = [worker EXCEPT ![w] =
                  [Idle EXCEPT !.pc = "listed", !.todo = worker[w].todo \ {a}]]
    <2>1. worker[w].todo \ {a} \in SUBSET Assets
      BY <1>1 DEF Worker
    <2>2. /\ WorkersOK' /\ \A v \in Workers \ {w} : worker'[v] = worker[v]
          /\ worker'[w].pc = "listed" /\ worker'[w].file = None /\ worker'[w].asset = None
      BY <1>4, <2>1, NextCandidate
    <2>. QED
      BY <1>1, <1>2, <1>3, <1>4, <2>2, SameUsed DEF Typed
  <1>5. CASE Decide(w, a, "retryable_failure") /\ UNCHANGED <<asset, result, used>>
    BY <1>0, <1>1, <1>2, <1>3, <1>5, DecideStep, SameUsed DEF Typed
  <1>6. CASE Decide(w, a, "already_active") /\ UNCHANGED <<asset, result, used>>
    BY <1>0, <1>1, <1>2, <1>3, <1>6, DecideStep, SameUsed DEF Typed
  <1>7. CASE /\ now = f /\ asset[a].active = None
             /\ result' = [result EXCEPT ![f] = "ready"]
             /\ asset' = [asset EXCEPT ![a].active = f]
             /\ Decide(w, a, "created") /\ UNCHANGED used
    BY <1>0, <1>1, <1>2, <1>3, <1>7, DecideStep, SameUsed DEF Typed
  <1>8. CASE Decide(w, a, "retryable_failure") /\ Fault /\ UNCHANGED <<asset, result>>
    BY <1>0, <1>1, <1>2, <1>3, <1>8, DecideStep, FaultStep DEF Typed
  <1>. QED
    BY <1>4, <1>5, <1>6, <1>7, <1>8 DEF CommitBackfill

LEMMA CommitBackfillTyped ==
    ASSUME Typed, RowsOK, NEW w \in Workers, CommitBackfill(w) PROVE Typed'
  <1>1. TablesOK'
    BY CommitBackfillStep DEF Typed, TablesOK, CommitBackfill
  <1>. QED
    BY <1>1, CommitBackfillStep DEF Typed

LEMMA PersistOutcomeStep ==
    ASSUME Typed, NEW w \in Workers, PersistOutcome(w)
    PROVE  LET a == worker[w].asset IN
           /\ worker[w].pc = "outcome" /\ a \in Assets
           /\ WorkersOK' /\ \A v \in Workers \ {w} : worker'[v] = worker[v]
           /\ worker'[w].pc = "listed" /\ worker'[w].file = None /\ worker'[w].asset = None
           /\ asset' \in [Assets -> Asset] /\ job' \in [Assets -> Job]
           /\ \A b \in Assets \ {a} : asset'[b] = asset[b] /\ job'[b] = job[b]
           /\ asset'[a].active = asset[a].active /\ asset'[a].log = asset[a].log
           /\ \/ asset'[a].preview = asset[a].preview
              \/ asset'[a].preview = Stored(a, "preview_ready")
              \/ worker[w].outcome = "integrity_failed" /\ asset'[a].preview = "failed"
           /\ job[a].status = "done" => job'[a] = job[a]
           /\ job'[a].status \in {"done", "failed"}
  <1> DEFINE a == worker[w].asset
             good == worker[w].outcome \in {"created", "already_active"}
  <1>1. /\ worker[w] \in Worker /\ Fits(worker[w]) /\ worker[w].pc = "outcome" /\ a \in Assets
        /\ worker[w].outcome \in {"created", "already_active", "integrity_failed",
                                  "retryable_failure"}
    BY DEF Typed, WorkersOK, PersistOutcome, Fits, Worker
  <1>2. worker[w].todo \ {a} \in SUBSET Assets
    BY <1>1 DEF Worker
  <1>3. /\ WorkersOK' /\ \A v \in Workers \ {w} : worker'[v] = worker[v]
        /\ worker'[w].pc = "listed" /\ worker'[w].file = None /\ worker'[w].asset = None
    BY <1>2, NextCandidate DEF PersistOutcome
  <1>4. /\ job' \in [Assets -> Job] /\ \A b \in Assets \ {a} : job'[b] = job[b]
        /\ job[a].status = "done" => job'[a] = job[a]
        /\ job'[a].status \in {"done", "failed"}
    <2> DEFINE j == IF job[a].status = "done" THEN job[a]
                    ELSE Settled(job[a], IF good THEN "done" ELSE "failed")
    <2>1. job' = [job EXCEPT ![a] = j]
      BY DEF PersistOutcome
    <2>2. job[a] \in Job
      BY <1>1 DEF Typed, TablesOK
    <2>3. j \in Job /\ j.status \in {"done", "failed"}
      BY <2>2, SettledTyped
    <2>4. job[a].status = "done" => j = job[a]
      OBVIOUS
    <2> HIDE DEF j
    <2>. QED
      BY <1>1, <2>1, <2>3, <2>4 DEF Typed, TablesOK
  <1>5. /\ asset' \in [Assets -> Asset] /\ \A b \in Assets \ {a} : asset'[b] = asset[b]
        /\ asset'[a].active = asset[a].active /\ asset'[a].log = asset[a].log
        /\ \/ asset'[a].preview = asset[a].preview
           \/ asset'[a].preview = Stored(a, "preview_ready")
           \/ worker[w].outcome = "integrity_failed" /\ asset'[a].preview = "failed"
    <2>1. CASE good
      BY <2>1 DEF PersistOutcome, Typed, TablesOK
    <2>2. CASE ~good
      <3>1. \/ Persisted(worker[w].outcome) = "preview_ready"
            \/ worker[w].outcome = "integrity_failed" /\ Persisted(worker[w].outcome) = "failed"
        BY <1>1, <2>2 DEF Persisted
      <3>2. SetPreview(a, Persisted(worker[w].outcome))
        BY <2>2 DEF PersistOutcome, SetPreview
      <3>. QED
        BY <1>1, <3>1, <3>2, SetPreviewStep DEF Typed
    <2>. QED
      BY <2>1, <2>2
  <1>. QED
    BY <1>1, <1>3, <1>4, <1>5

LEMMA PersistOutcomeTyped == ASSUME Typed, NEW w \in Workers, PersistOutcome(w) PROVE Typed'
  <1>1. TablesOK'
    BY PersistOutcomeStep DEF Typed, TablesOK, PersistOutcome
  <1>. QED
    BY <1>1, PersistOutcomeStep, SameUsed DEF Typed, PersistOutcome
LEMMA ClaimNextJobStep ==
    ASSUME Typed, NEW w \in Workers, ClaimNextJob(w)
    PROVE  /\ worker[w].pc = "listed"
           /\ WorkersOK' /\ \A v \in Workers \ {w} : worker'[v] = worker[v]
           /\ worker'[w].file = None
           /\ job' \in [Assets -> Job]
           /\ \/ worker'[w] = Idle /\ UNCHANGED job
              \/ /\ worker'[w].pc = "claimed" /\ worker'[w].asset \in Assets
                 /\ job[worker'[w].asset].status = "queued"
                 /\ job'[worker'[w].asset].status = "running" /\ job'[worker'[w].asset].by = w
                 /\ job'[worker'[w].asset].expired = job[worker'[w].asset].expired
                 /\ \A b \in Assets \ {worker'[w].asset} : job'[b] = job[b]
  <1>0. worker[w].pc = "listed"
    BY DEF ClaimNextJob
  <1>1. CASE Leave(w) /\ UNCHANGED job
    <2>1. Idle.file = None
      BY DEF Idle
    <2>2. /\ WorkersOK' /\ worker'[w] = Idle
          /\ \A v \in Workers \ {w} : worker'[v] = worker[v]
      BY <1>1, LeaveStep DEF Typed
    <2>3. job' \in [Assets -> Job]
      BY <1>1 DEF Typed, TablesOK
    <2>. QED
      BY <1>0, <1>1, <2>1, <2>2, <2>3
  <1>2. ASSUME NEW a \in Assets, job[a].status = "queued",
               job' = [job EXCEPT ![a].status = "running", ![a].by = w],
               worker' = [worker EXCEPT ![w] = [Idle EXCEPT !.pc = "claimed", !.asset = a]]
        PROVE  /\ WorkersOK' /\ \A v \in Workers \ {w} : worker'[v] = worker[v]
               /\ worker'[w].file = None /\ worker'[w].pc = "claimed" /\ worker'[w].asset = a
               /\ job' \in [Assets -> Job]
               /\ job'[a].status = "running" /\ job'[a].by = w
               /\ job'[a].expired = job[a].expired
               /\ \A b \in Assets \ {a} : job'[b] = job[b]
    <2> DEFINE o == [Idle EXCEPT !.pc = "claimed", !.asset = a]
               j == [job[a] EXCEPT !.status = "running", !.by = w]
    <2>1. WorkerOK(o) /\ o.pc = "claimed" /\ o.file = None /\ o.asset = a
      BY PreviewAssumptions DEF WorkerOK, Fits, Worker, Processing, Idle
    <2>2. worker' = [worker EXCEPT ![w] = o]
      BY <1>2
    <2>3. job' = [job EXCEPT ![a] = j]
      BY <1>2 DEF Typed, TablesOK
    <2>4. j \in Job /\ j.status = "running" /\ j.by = w /\ j.expired = job[a].expired
      BY DEF Typed, TablesOK, Job
    <2> HIDE DEF o, j
    <2>5. /\ WorkersOK' /\ \A v \in Workers \ {w} : worker'[v] = worker[v]
          /\ worker'[w].file = None /\ worker'[w].pc = "claimed" /\ worker'[w].asset = a
      BY <2>1, <2>2, SetWorker DEF Typed
    <2>6. /\ job' \in [Assets -> Job] /\ job'[a] = j
          /\ \A b \in Assets \ {a} : job'[b] = job[b]
      BY <2>3, <2>4 DEF Typed, TablesOK
    <2>. QED
      BY <2>4, <2>5, <2>6
  <1>3. \/ Leave(w) /\ UNCHANGED job
        \/ \E a \in Assets :
             /\ job[a].status = "queued"
             /\ job' = [job EXCEPT ![a].status = "running", ![a].by = w]
             /\ worker' = [worker EXCEPT ![w] = [Idle EXCEPT !.pc = "claimed", !.asset = a]]
    BY DEF ClaimNextJob
  <1>. QED
    BY <1>0, <1>1, <1>2, <1>3

LEMMA ClaimNextJobTyped == ASSUME Typed, NEW w \in Workers, ClaimNextJob(w) PROVE Typed'
  <1>1. TablesOK'
    BY ClaimNextJobStep DEF Typed, TablesOK, ClaimNextJob
  <1>. QED
    BY <1>1, ClaimNextJobStep, SameUsed DEF Typed, ClaimNextJob

LEMMA RoundFailsTyped == ASSUME Typed, NEW w \in Workers, RoundFails(w) PROVE Typed'
  BY LeaveStep, FaultStep, SameTables DEF Typed, RoundFails

-----------------------------------------------------------------------------
\* The steps of process_preview_job.
LEMMA ReadAssetStep ==
    ASSUME Typed, RowsOK, NEW w \in Workers, ReadAsset(w)
    PROVE  LET a == worker[w].asset IN
           /\ worker[w].pc = "claimed" /\ a \in Assets /\ worker[w].file = None
           /\ WorkersOK' /\ \A v \in Workers \ {w} : worker'[v] = worker[v]
           /\ worker'[w].asset = a /\ worker'[w].file = None
           /\ worker'[w].pc \in {"failing", "encoding", "existing"}
           /\ worker'[w].pc = "encoding" => RowsOf(a) = {} /\ ~LutPreview(a)
           /\ worker'[w].pc = "existing" => worker'[w].seen \in RowsOf(a)
           /\ UsedOK' /\ used'.overdue = used.overdue /\ used'.faults >= used.faults
  <1> DEFINE a == worker[w].asset
  <1>1. /\ worker[w] \in Worker /\ Fits(worker[w]) /\ worker[w].pc = "claimed"
        /\ a \in Assets /\ worker[w].file = None
    BY DEF Typed, WorkersOK, ReadAsset, Fits, Processing
  <1>2. used.faults \in Nat
    BY DEF Typed, UsedOK, Used
  <1>3. UsedOK' /\ used'.overdue = used.overdue /\ used'.faults >= used.faults
    <2>1. CASE UNCHANGED used
      BY <1>2, <2>1, SameUsed DEF Typed
    <2>2. CASE Fault
      BY <1>2, <2>2, FaultStep DEF Typed
    <2>. QED
      BY <2>1, <2>2 DEF ReadAsset
  <1>4. CASE Goto(w, "failing")
    <2>1. WorkerOK([worker[w] EXCEPT !.pc = "failing"])
      BY <1>1, ProcessingPc
    <2>2. [worker[w] EXCEPT !.pc = "failing"].asset = a
          /\ [worker[w] EXCEPT !.pc = "failing"].file = None
          /\ [worker[w] EXCEPT !.pc = "failing"].pc = "failing"
      BY <1>1 DEF Worker
    <2>. QED
      BY <1>1, <1>3, <1>4, <2>1, <2>2, GotoStep DEF Typed
  <1>5. CASE Latest(a) = None /\ ~LutPreview(a) /\ Goto(w, "encoding")
    <2>1. WorkerOK([worker[w] EXCEPT !.pc = "encoding"])
      BY <1>1, ProcessingPc
    <2>2. [worker[w] EXCEPT !.pc = "encoding"].asset = a
          /\ [worker[w] EXCEPT !.pc = "encoding"].file = None
          /\ [worker[w] EXCEPT !.pc = "encoding"].pc = "encoding"
      BY <1>1 DEF Worker
    <2>3. RowsOf(a) = {}
      BY <1>1, <1>5, LatestNewest, PreviewAssumptions
    <2>. QED
      BY <1>1, <1>3, <1>5, <2>1, <2>2, <2>3, GotoStep DEF Typed
  <1>6. CASE /\ Latest(a) # None
             /\ worker' = [worker EXCEPT ![w].pc = "existing", ![w].seen = Latest(a)]
    <2> DEFINE f == Latest(a)
               o == [worker[w] EXCEPT !.pc = "existing", !.seen = f]
    <2>1. worker' = [worker EXCEPT ![w] = o]
      BY <1>6 DEF Typed, WorkersOK
    <2>2. f \in RowsOf(a) /\ f \in Previews
      BY <1>1, <1>6, LatestNewest DEF RowsOf
    <2> HIDE DEF f
    <2>3. WorkerOK(o) /\ o.pc = "existing" /\ o.file = None /\ o.asset = a /\ o.seen = f
      BY <1>1, <2>2 DEF WorkerOK, Fits, Worker, Processing
    <2> HIDE DEF o
    <2>4. worker'[w] = o /\ WorkersOK' /\ \A v \in Workers \ {w} : worker'[v] = worker[v]
      BY <2>1, <2>3, SetWorker DEF Typed
    <2>. QED
      BY <1>1, <1>3, <2>2, <2>3, <2>4
  <1>. QED
    BY <1>4, <1>5, <1>6 DEF ReadAsset

LEMMA ReadAssetTyped == ASSUME Typed, RowsOK, NEW w \in Workers, ReadAsset(w) PROVE Typed'
  BY ReadAssetStep, SameTables DEF Typed, ReadAsset
\* A step of a worker to another step on the same asset.
LEMMA GoesOn ==
    ASSUME Typed, NEW w \in Workers, worker[w].pc \in Processing, worker[w].file = None,
           NEW pc \in {"encoding", "existing", "confirmed", "retryable", "failing"},
           pc \in {"existing", "confirmed"} => worker[w].seen \in Previews,
           Goto(w, pc)
    PROVE  /\ WorkersOK' /\ \A v \in Workers \ {w} : worker'[v] = worker[v]
           /\ worker'[w].pc = pc /\ worker'[w].asset = worker[w].asset
           /\ worker'[w].file = None /\ worker'[w].seen = worker[w].seen
  <1>1. worker[w] \in Worker /\ Fits(worker[w]) /\ worker[w].asset \in Assets
    BY DEF Typed, WorkersOK, Fits
  <1>2. WorkerOK([worker[w] EXCEPT !.pc = pc])
    BY <1>1, ProcessingPc
  <1>3. /\ WorkersOK' /\ worker'[w] = [worker[w] EXCEPT !.pc = pc]
        /\ \A v \in Workers \ {w} : worker'[v] = worker[v]
    BY <1>2, GotoStep DEF Typed
  <1>. QED
    BY <1>1, <1>3 DEF Worker

LEMMA EncodeStep ==
    ASSUME Typed, NEW w \in Workers, Encode(w)
    PROVE  /\ worker[w].pc = "encoding" /\ worker[w].file = None
           /\ WorkersOK' /\ \A v \in Workers \ {w} : worker'[v] = worker[v]
           /\ worker'[w].asset = worker[w].asset
           /\ \/ worker'[w].pc = "failing" /\ worker'[w].file = None /\ UNCHANGED disk
              \/ \E f \in Unused :
                    /\ worker'[w].pc = "encoded" /\ worker'[w].file = f
                    /\ disk' = [disk EXCEPT ![f] = "new"]
  <1>1. /\ worker[w] \in Worker /\ Fits(worker[w]) /\ worker[w].pc = "encoding"
        /\ worker[w].asset \in Assets /\ worker[w].file = None
    BY DEF Typed, WorkersOK, Encode, Fits, Processing
  <1>2. CASE Goto(w, "failing") /\ UNCHANGED disk
    BY <1>1, <1>2, GoesOn DEF Processing
  <1>3. ASSUME NEW f \in Unused,
               worker' = [worker EXCEPT ![w].pc = "encoded", ![w].file = f],
               disk' = [disk EXCEPT ![f] = "new"]
        PROVE  /\ WorkersOK' /\ \A v \in Workers \ {w} : worker'[v] = worker[v]
               /\ worker'[w].asset = worker[w].asset
               /\ worker'[w].pc = "encoded" /\ worker'[w].file = f
    <2> DEFINE o == [worker[w] EXCEPT !.pc = "encoded", !.file = f]
    <2>1. worker' = [worker EXCEPT ![w] = o]
      BY <1>3 DEF Typed, WorkersOK
    <2>2. f \in Previews
      BY DEF Unused
    <2>3. WorkerOK(o) /\ o.pc = "encoded" /\ o.file = f /\ o.asset = worker[w].asset
      BY <1>1, <2>2, PreviewAssumptions DEF WorkerOK, Fits, Worker, Processing
    <2> HIDE DEF o
    <2>. QED
      BY <2>1, <2>3, SetWorker DEF Typed
  <1>4. \/ Goto(w, "failing") /\ UNCHANGED disk
        \/ \E f \in Unused :
              /\ worker' = [worker EXCEPT ![w].pc = "encoded", ![w].file = f]
              /\ disk' = [disk EXCEPT ![f] = "new"]
    BY DEF Encode
  <1>. QED
    BY <1>1, <1>2, <1>3, <1>4

LEMMA EncodeTyped == ASSUME Typed, NEW w \in Workers, Encode(w) PROVE Typed'
  <1>1. disk' \in [Previews -> File]
    BY EncodeStep DEF Typed, TablesOK, File
  <1>2. TablesOK'
    BY <1>1 DEF Typed, TablesOK, Encode, rows
  <1>. QED
    BY <1>2, EncodeStep, SameUsed DEF Typed, Encode

LEMMA FinalizeStep ==
    ASSUME Typed, NEW w \in Workers, worker[w].asset \in Assets, NEW f \in Previews,
           Finalize(w, f)
    PROVE  LET a == worker[w].asset IN
           /\ WorkersOK' /\ worker'[w] = Idle
           /\ \A v \in Workers \ {w} : worker'[v] = worker[v]
           /\ job' \in [Assets -> Job] /\ asset' \in [Assets -> Asset]
           /\ result' \in [Previews -> {"none", "ready", "superseded"}]
           /\ job'[a].status = "done"
           /\ asset'[a].preview = Stored(a, "preview_ready") /\ asset'[a].log = asset[a].log
           /\ asset'[a].active = IF SessionVideo(a) THEN f ELSE asset[a].active
           /\ \A b \in Assets \ {a} : asset'[b] = asset[b] /\ job'[b] = job[b]
  <1> DEFINE a == worker[w].asset
  <1>1. /\ WorkersOK' /\ worker'[w] = Idle
        /\ \A v \in Workers \ {w} : worker'[v] = worker[v]
    BY LeaveStep DEF Finalize, Typed
  <1>2. /\ job' \in [Assets -> Job] /\ job'[a].status = "done"
        /\ \A b \in Assets \ {a} : job'[b] = job[b]
    BY SetJobStep DEF Finalize, Typed
  <1>3. /\ Displayed(a, f) \in Asset /\ Displayed(a, f).preview = Stored(a, "preview_ready")
        /\ Displayed(a, f).log = asset[a].log
        /\ Displayed(a, f).active = IF SessionVideo(a) THEN f ELSE asset[a].active
    <2>1. asset[a] \in Asset
      BY DEF Typed, TablesOK
    <2>2. Stored(a, "preview_ready") \in {"preview_ready", "failed"}
      BY StoredStatus
    <2>. QED
      BY <2>1, <2>2 DEF Displayed, Asset
  <1>4. asset' = [asset EXCEPT ![a] = Displayed(a, f)]
    BY DEF Finalize
  <1>5. /\ asset' \in [Assets -> Asset] /\ asset'[a] = Displayed(a, f)
        /\ \A b \in Assets \ {a} : asset'[b] = asset[b]
    BY <1>3, <1>4 DEF Typed, TablesOK
  <1>6. result' \in [Previews -> {"none", "ready", "superseded"}]
    BY DEF Finalize, Superseding, Typed, TablesOK
  <1>. QED
    BY <1>1, <1>2, <1>3, <1>5, <1>6
\* What a step of a worker that may run into a fault does to the bounds.
LEMMA MayFault ==
    ASSUME UsedOK, UNCHANGED used \/ Fault
    PROVE  /\ UsedOK' /\ used'.overdue = used.overdue /\ used'.faults >= used.faults
           /\ used'.load = used.load
  <1>1. used.faults \in Nat
    BY DEF UsedOK, Used
  <1>. QED
    BY <1>1, SameUsed, FaultStep

LEMMA FinalizeNewStep ==
    ASSUME Typed, NEW w \in Workers, FinalizeNew(w)
    PROVE  LET a == worker[w].asset
               f == worker[w].file
           IN
           /\ worker[w].pc = "encoded" /\ a \in Assets /\ f \in Previews
           /\ \A v \in Workers \ {w} : worker'[v] = worker[v]
           /\ \/ /\ Finalize(w, f) /\ worker'[w] = Idle
                 /\ derived' = [derived EXCEPT ![f] = [asset |-> a, id |-> NextRow]]
              \/ /\ UNCHANGED rows
                 /\ worker'[w].pc = "cleanup" /\ worker'[w].asset = a /\ worker'[w].file = f
           /\ UsedOK' /\ used'.overdue = used.overdue /\ used'.faults >= used.faults
           /\ Typed'
  <1> DEFINE a == worker[w].asset
             f == worker[w].file
  <1>1. /\ worker[w] \in Worker /\ Fits(worker[w]) /\ worker[w].pc = "encoded"
        /\ a \in Assets /\ f \in Previews
    BY DEF Typed, WorkersOK, FinalizeNew, Fits, Processing, Worker
  <1>2. UsedOK' /\ used'.overdue = used.overdue /\ used'.faults >= used.faults
    BY MayFault DEF FinalizeNew, Typed
  <1>3. CASE /\ Finalize(w, f)
             /\ derived' = [derived EXCEPT ![f] = [asset |-> a, id |-> NextRow]]
    <2>1. NextRow \in Nat
      BY PreviewAssumptions, FS_Subset, FS_CardinalityType DEF NextRow
    <2>2. derived' \in [Previews -> Derived]
      BY <1>1, <1>3, <2>1 DEF Typed, TablesOK, Derived
    <2>3. /\ WorkersOK' /\ worker'[w] = Idle
          /\ \A v \in Workers \ {w} : worker'[v] = worker[v]
          /\ job' \in [Assets -> Job] /\ asset' \in [Assets -> Asset]
          /\ result' \in [Previews -> {"none", "ready", "superseded"}]
      BY <1>1, <1>3, FinalizeStep
    <2>4. TablesOK'
      BY <2>2, <2>3 DEF Typed, TablesOK, FinalizeNew
    <2>. QED
      BY <1>1, <1>2, <1>3, <2>3, <2>4 DEF Typed
  <1>4. CASE Goto(w, "cleanup") /\ UNCHANGED rows
    <2> DEFINE o == [worker[w] EXCEPT !.pc = "cleanup"]
    <2>1. WorkerOK(o) /\ o.pc = "cleanup" /\ o.file = f /\ o.asset = a
      BY <1>1 DEF WorkerOK, Fits, Worker, Processing
    <2>2. /\ WorkersOK' /\ worker'[w] = o
          /\ \A v \in Workers \ {w} : worker'[v] = worker[v]
      BY <1>4, <2>1, GotoStep DEF Typed
    <2>3. TablesOK'
      BY <1>4, SameTables DEF Typed, FinalizeNew
    <2>. QED
      BY <1>1, <1>2, <1>4, <2>1, <2>2, <2>3 DEF Typed
  <1>. QED
    BY <1>3, <1>4 DEF FinalizeNew

LEMMA CleanUpPreviewStep ==
    ASSUME Typed, NEW w \in Workers, CleanUpPreview(w)
    PROVE  /\ worker[w].pc = "cleanup" /\ worker[w].file \in Previews
           /\ \A v \in Workers \ {w} : worker'[v] = worker[v]
           /\ worker'[w].pc = "failing" /\ worker'[w].asset = worker[w].asset
           /\ worker'[w].file = None
           /\ UNCHANGED disk \/ disk' = [disk EXCEPT ![worker[w].file] = "absent"]
           /\ used'.overdue = used.overdue /\ used'.faults >= used.faults
           /\ Typed'
  <1> DEFINE o == [worker[w] EXCEPT !.pc = "failing", !.file = None]
  <1>1. /\ worker[w] \in Worker /\ Fits(worker[w]) /\ worker[w].pc = "cleanup"
        /\ worker[w].asset \in Assets /\ worker[w].file \in Previews
    BY DEF Typed, WorkersOK, CleanUpPreview, Fits, Processing, Worker
  <1>2. /\ UsedOK' /\ used'.overdue = used.overdue /\ used'.faults >= used.faults
    BY MayFault DEF CleanUpPreview, Typed
  <1>3. worker' = [worker EXCEPT ![w] = o]
    BY DEF CleanUpPreview, Typed, WorkersOK
  <1>4. WorkerOK(o) /\ o.pc = "failing" /\ o.file = None /\ o.asset = worker[w].asset
    BY <1>1 DEF WorkerOK, Fits, Worker, Processing
  <1> HIDE DEF o
  <1>5. /\ WorkersOK' /\ worker'[w] = o /\ \A v \in Workers \ {w} : worker'[v] = worker[v]
    BY <1>3, <1>4, SetWorker DEF Typed
  <1>6. disk' \in [Previews -> File]
    BY DEF CleanUpPreview, Typed, TablesOK, File
  <1>7. TablesOK'
    BY <1>6 DEF CleanUpPreview, Typed, TablesOK, rows
  <1>. QED
    BY <1>1, <1>2, <1>4, <1>5, <1>7 DEF CleanUpPreview, Typed

LEMMA InspectExistingStep ==
    ASSUME Typed, NEW w \in Workers, InspectExisting(w)
    PROVE  /\ worker[w].pc = "existing" /\ worker[w].file = None
           /\ \A v \in Workers \ {w} : worker'[v] = worker[v]
           /\ worker'[w].pc \in {"confirmed", "failing"} /\ worker'[w].asset = worker[w].asset
           /\ worker'[w].seen = worker[w].seen /\ worker'[w].file = None
           /\ used'.overdue = used.overdue /\ used'.faults >= used.faults
           /\ Typed'
  <1>1. /\ Fits(worker[w]) /\ worker[w].pc = "existing" /\ worker[w].pc \in Processing
        /\ worker[w].file = None /\ worker[w].seen \in Previews
    BY DEF Typed, WorkersOK, InspectExisting, Fits, Processing
  <1>2. /\ UsedOK' /\ used'.overdue = used.overdue /\ used'.faults >= used.faults
    BY MayFault DEF InspectExisting, Typed
  <1>3. Goto(w, "confirmed") \/ Goto(w, "failing")
    BY DEF InspectExisting
  <1>4. TablesOK'
    BY SameTables DEF Typed, InspectExisting
  <1>5. CASE Goto(w, "confirmed")
    BY <1>1, <1>2, <1>4, <1>5, GoesOn DEF Typed
  <1>6. CASE Goto(w, "failing")
    BY <1>1, <1>2, <1>4, <1>6, GoesOn DEF Typed
  <1>. QED
    BY <1>3, <1>5, <1>6

LEMMA FinalizeExistingStep ==
    ASSUME Typed, NEW w \in Workers, FinalizeExisting(w)
    PROVE  LET a == worker[w].asset
               f == worker[w].seen
           IN
           /\ worker[w].pc = "confirmed" /\ worker[w].file = None
           /\ a \in Assets /\ f \in Previews
           /\ \A v \in Workers \ {w} : worker'[v] = worker[v]
           /\ \/ Finalize(w, f) /\ worker'[w] = Idle
              \/ /\ UNCHANGED <<asset, job, result>>
                 /\ worker'[w].pc \in {"failing", "retryable"} /\ worker'[w].asset = a
                 /\ worker'[w].file = None
           /\ used'.overdue = used.overdue /\ used'.faults >= used.faults
           /\ Typed'
  <1> DEFINE a == worker[w].asset
             f == worker[w].seen
  <1>1. /\ Fits(worker[w]) /\ worker[w].pc = "confirmed" /\ worker[w].pc \in Processing
        /\ worker[w].file = None /\ a \in Assets /\ f \in Previews
    BY DEF Typed, WorkersOK, FinalizeExisting, Fits, Processing
  <1>2. /\ UsedOK' /\ used'.overdue = used.overdue /\ used'.faults >= used.faults
    BY MayFault DEF FinalizeExisting, Typed
  <1>3. CASE Finalize(w, f)
    <2>1. /\ WorkersOK' /\ worker'[w] = Idle
          /\ \A v \in Workers \ {w} : worker'[v] = worker[v]
          /\ job' \in [Assets -> Job] /\ asset' \in [Assets -> Asset]
          /\ result' \in [Previews -> {"none", "ready", "superseded"}]
      BY <1>1, <1>3, FinalizeStep
    <2>2. TablesOK'
      BY <2>1 DEF Typed, TablesOK, FinalizeExisting
    <2>. QED
      BY <1>1, <1>2, <1>3, <2>1, <2>2 DEF Typed
  <1>4. CASE (Goto(w, "failing") \/ Goto(w, "retryable")) /\ UNCHANGED <<asset, job, result>>
    <2>1. TablesOK'
      BY <1>4 DEF Typed, TablesOK, FinalizeExisting
    <2>2. CASE Goto(w, "failing")
      BY <1>1, <1>2, <1>4, <2>1, <2>2, GoesOn DEF Typed
    <2>3. CASE Goto(w, "retryable")
      BY <1>1, <1>2, <1>4, <2>1, <2>3, GoesOn DEF Typed
    <2>. QED
      BY <1>4, <2>2, <2>3
  <1>5. \/ Finalize(w, f)
        \/ (Goto(w, "failing") \/ Goto(w, "retryable")) /\ UNCHANGED <<asset, job, result>>
    BY DEF FinalizeExisting
  <1>. QED
    BY <1>3, <1>4, <1>5
LEMMA MarkRetryableStep ==
    ASSUME Typed, NEW w \in Workers, MarkRetryable(w)
    PROVE  LET a == worker[w].asset IN
           /\ worker[w].pc = "retryable" /\ worker[w].file = None /\ a \in Assets
           /\ \A v \in Workers \ {w} : worker'[v] = worker[v]
           /\ worker'[w].file = None
           /\ \/ /\ worker'[w] = Idle /\ asset'[a].preview = Stored(a, "preview_ready")
                 /\ job'[a].status = "failed"
              \/ /\ UNCHANGED <<asset, job>>
                 /\ worker'[w].pc = "failing" /\ worker'[w].asset = a
           /\ asset'[a].active = asset[a].active /\ asset'[a].log = asset[a].log
           /\ \A b \in Assets \ {a} : asset'[b] = asset[b] /\ job'[b] = job[b]
           /\ used'.overdue = used.overdue /\ used'.faults >= used.faults
           /\ Typed'
  <1> DEFINE a == worker[w].asset
  <1>1. /\ Fits(worker[w]) /\ worker[w].pc = "retryable" /\ worker[w].pc \in Processing
        /\ worker[w].file = None /\ a \in Assets
    BY DEF Typed, WorkersOK, MarkRetryable, Fits, Processing
  <1>2. /\ UsedOK' /\ used'.overdue = used.overdue /\ used'.faults >= used.faults
    BY MayFault DEF MarkRetryable, Typed
  <1>3. CASE SetPreview(a, "preview_ready") /\ SetJob(a, "failed") /\ Leave(w)
    <2>1. /\ WorkersOK' /\ worker'[w] = Idle /\ \A v \in Workers \ {w} : worker'[v] = worker[v]
      BY <1>3, LeaveStep DEF Typed
    <2>2. /\ job' \in [Assets -> Job] /\ job'[a].status = "failed"
          /\ \A b \in Assets \ {a} : job'[b] = job[b]
      BY <1>1, <1>3, SetJobStep DEF Typed
    <2>3. /\ asset' \in [Assets -> Asset] /\ asset'[a].preview = Stored(a, "preview_ready")
          /\ asset'[a].active = asset[a].active /\ asset'[a].log = asset[a].log
          /\ \A b \in Assets \ {a} : asset'[b] = asset[b]
      BY <1>1, <1>3, SetPreviewStep DEF Typed
    <2>4. TablesOK'
      BY <2>2, <2>3 DEF Typed, TablesOK, MarkRetryable
    <2>5. Idle.file = None
      BY DEF Idle
    <2>. QED
      BY <1>1, <1>2, <2>1, <2>2, <2>3, <2>4, <2>5 DEF Typed
  <1>4. CASE Goto(w, "failing") /\ UNCHANGED <<asset, job>>
    <2>1. TablesOK'
      BY <1>4 DEF Typed, TablesOK, MarkRetryable
    <2>. QED
      BY <1>1, <1>2, <1>4, <2>1, GoesOn DEF Typed
  <1>. QED
    BY <1>3, <1>4 DEF MarkRetryable

LEMMA MarkFailedStep ==
    ASSUME Typed, NEW w \in Workers, MarkFailed(w)
    PROVE  LET a == worker[w].asset IN
           /\ worker[w].pc = "failing" /\ worker[w].file = None /\ a \in Assets
           /\ worker'[w] = Idle /\ \A v \in Workers \ {w} : worker'[v] = worker[v]
           /\ \/ /\ asset'[a].preview = "failed" /\ job'[a].status = "failed"
                 /\ \A b \in Assets \ {a} : job'[b] = job[b]
              \/ GiveUp(w) /\ asset' = asset
           /\ asset'[a].active = asset[a].active /\ asset'[a].log = asset[a].log
           /\ \A b \in Assets \ {a} : asset'[b] = asset[b]
           /\ used'.overdue = used.overdue /\ used'.faults >= used.faults
           /\ Typed'
  <1> DEFINE a == worker[w].asset
  <1>1. /\ Fits(worker[w]) /\ worker[w].pc = "failing"
        /\ worker[w].file = None /\ a \in Assets
    BY DEF Typed, WorkersOK, MarkFailed, Fits, Processing
  <1>2. /\ UsedOK' /\ used'.overdue = used.overdue /\ used'.faults >= used.faults
    BY MayFault DEF MarkFailed, Typed
  <1>3. CASE SetPreview(a, "failed") /\ SetJob(a, "failed") /\ Leave(w)
    <2>1. /\ WorkersOK' /\ worker'[w] = Idle /\ \A v \in Workers \ {w} : worker'[v] = worker[v]
      BY <1>3, LeaveStep DEF Typed
    <2>2. /\ job' \in [Assets -> Job] /\ job'[a].status = "failed"
          /\ \A b \in Assets \ {a} : job'[b] = job[b]
      BY <1>1, <1>3, SetJobStep DEF Typed
    <2>3. /\ asset' \in [Assets -> Asset] /\ asset'[a].preview = "failed"
          /\ asset'[a].active = asset[a].active /\ asset'[a].log = asset[a].log
          /\ \A b \in Assets \ {a} : asset'[b] = asset[b]
      BY <1>1, <1>3, SetPreviewStep DEF Typed
    <2>4. TablesOK'
      BY <2>2, <2>3 DEF Typed, TablesOK, MarkFailed
    <2>. QED
      BY <1>1, <1>2, <2>1, <2>2, <2>3, <2>4 DEF Typed
  <1>4. CASE GiveUp(w) /\ UNCHANGED asset
    <2>1. /\ WorkersOK' /\ worker'[w] = Idle /\ \A v \in Workers \ {w} : worker'[v] = worker[v]
          /\ job' \in [Assets -> Job]
      BY <1>4, GiveUpStep
    <2>2. TablesOK'
      BY <1>4, <2>1 DEF Typed, TablesOK, MarkFailed
    <2>. QED
      BY <1>1, <1>2, <1>4, <2>1, <2>2 DEF Typed
  <1>. QED
    BY <1>3, <1>4 DEF MarkFailed

LEMMA WorkerKilledTyped == ASSUME Typed, NEW w \in Workers, WorkerKilled(w) PROVE Typed'
  <1>1. TablesOK'
    BY GiveUpStep DEF WorkerKilled, Typed, TablesOK
  <1>. QED
    BY <1>1, GiveUpStep, KillCounted DEF WorkerKilled, Typed

LEMMA LeaseEndsStep ==
    ASSUME Typed, NEW a \in Assets, LeaseEnds(a)
    PROVE  /\ job' \in [Assets -> Job] /\ \A b \in Assets \ {a} : job'[b] = job[b]
           /\ job[a].status = "running"
           /\ job'[a].status = "running" /\ job'[a].by = job[a].by
           /\ UsedOK' /\ used'.faults = used.faults
           /\ \/ job[a].by = None /\ used'.overdue = used.overdue
              \/ used'.overdue > 0
  <1> DEFINE j == [job[a] EXCEPT !.expired = TRUE]
  <1>1. job' = [job EXCEPT ![a] = j]
    BY DEF LeaseEnds, Typed, TablesOK
  <1>2. j \in Job /\ j.status = job[a].status /\ j.by = job[a].by
    BY DEF Typed, TablesOK, Job
  <1> HIDE DEF j
  <1>3. job' \in [Assets -> Job] /\ job'[a] = j /\ \A b \in Assets \ {a} : job'[b] = job[b]
    BY <1>1, <1>2 DEF Typed, TablesOK
  <1>4. /\ UsedOK' /\ used'.faults = used.faults
        /\ (job[a].by = None /\ used'.overdue = used.overdue) \/ used'.overdue > 0
    BY SameUsed, OverdueCounted DEF LeaseEnds, Typed
  <1>. QED
    BY <1>2, <1>3, <1>4 DEF LeaseEnds

LEMMA LeaseEndsTyped == ASSUME Typed, NEW a \in Assets, LeaseEnds(a) PROVE Typed'
  <1>1. TablesOK'
    BY LeaseEndsStep DEF LeaseEnds, Typed, TablesOK
  <1>. QED
    BY <1>1, LeaseEndsStep, SameWorkers DEF LeaseEnds, Typed

LEMMA GrowsOldTyped == ASSUME Typed, NEW f \in Previews, GrowsOld(f) PROVE Typed'
  <1>1. TablesOK'
    BY DEF GrowsOld, Typed, TablesOK, rows, File
  <1>. QED
    BY <1>1, SameWorkers, SameUsed DEF GrowsOld, Typed

LEMMA FileLostTyped == ASSUME Typed, NEW f \in Previews, FileLost(f) PROVE Typed'
  <1>1. TablesOK'
    BY DEF FileLost, Typed, TablesOK, rows, File
  <1>. QED
    BY <1>1, SameWorkers, FaultStep DEF FileLost, Typed

\* Every step keeps the types, given that assets with rows have a newest one.
LEMMA TypedStep == ASSUME Typed, RowsOK, [Next]_vars PROVE Typed'
  <1>1. CASE UNCHANGED vars
    BY <1>1 DEF vars, rows, Typed, TablesOK, WorkersOK, Fits, UsedOK
  <1>2. CASE DirectUploadNext \/ ApiKilled
    BY <1>2, SaveUploadTyped, MoveOriginalTyped, CommitAssetTyped, UndoUploadTyped,
       ApiKilledTyped DEF DirectUploadNext
  <1>3. ASSUME NEW w \in Workers, WorkerStep(w) \/ WorkerKilled(w) PROVE Typed'
    <2>1. CASE RecoverAndBackfill(w)
      BY <2>1, RemoveOrphanTyped, ListCandidatesTyped, InspectCandidateTyped,
         CommitBackfillTyped, PersistOutcomeTyped DEF RecoverAndBackfill
    <2>2. CASE ProcessPreview(w)
      BY <2>2, ReadAssetTyped, EncodeTyped, FinalizeNewStep, CleanUpPreviewStep,
         InspectExistingStep, FinalizeExistingStep, MarkRetryableStep, MarkFailedStep
         DEF ProcessPreview
    <2>. QED
      BY <1>3, <2>1, <2>2, RecoverExpiredJobsTyped, ClaimNextJobTyped, RoundFailsTyped,
         WorkerKilledTyped DEF WorkerStep
  <1>. QED
    BY <1>1, <1>2, <1>3, LeaseEndsTyped, GrowsOldTyped, FileLostTyped DEF Next
-----------------------------------------------------------------------------
(***************************************************************************)
(* The initial states: what a behaviour may start from.                    *)
(***************************************************************************)
LEMMA FirstRowOf ==
    /\ FirstRow \in [Videos -> Previews]
    /\ \A v, u \in Videos : FirstRow[v] = FirstRow[u] => v = u
  BY PreviewAssumptions DEF FirstRow

LEMMA InitTables ==
    ASSUME Init
    PROVE  /\ TablesOK /\ UsedOK
           /\ \A w \in Workers : worker[w] = Idle
           /\ worker \in [Workers -> Worker]
           /\ \A a \in Assets :
                /\ asset[a].active = None /\ ~job[a].expired
                /\ asset[a].preview = "preview_ready" => ~asset[a].log
                /\ \/ asset[a].preview = "absent" /\ job[a].status = "absent"
                   \/ a \in Videos /\ asset[a].preview = "preview_generating" /\ job[a].status = "queued"
                   \/ a \in Videos /\ asset[a].preview = "preview_ready" /\ job[a].status = "done"
           /\ \A p \in Photos : upload[p] = Request("ready", FALSE, FALSE)
           /\ \A f \in Previews :
                /\ result[f] = "none"
                /\ disk[f] = IF derived[f] = NoRow THEN "absent" ELSE "new"
                /\ \/ derived[f] = NoRow
                   \/ \E v \in Videos : /\ derived[f] = [asset |-> v, id |-> 1]
                                        /\ FirstRow[v] = f /\ job[v].status = "done"
  <1>1. PICK bound \in Loads, first \in [Videos -> {"queued", "log", "ready"}] :
          LET ready == {v \in Videos \cap bound.assets : first[v] = "ready"} IN
          /\ asset = [a \in Assets |->
               [preview |-> IF a \notin Videos \cap bound.assets THEN "absent"
                            ELSE IF a \in ready THEN "preview_ready" ELSE "preview_generating",
                log |-> a \in Videos \cap bound.assets /\ first[a] = "log", active |-> None]]
          /\ job = [a \in Assets |->
               IF a \notin Videos \cap bound.assets THEN NoJob
               ELSE IF a \in ready THEN [Queued(1) EXCEPT !.status = "done"] ELSE Queued(1)]
          /\ derived = [f \in Previews |->
               IF \E v \in ready : FirstRow[v] = f
               THEN [asset |-> CHOOSE v \in ready : FirstRow[v] = f, id |-> 1] ELSE NoRow]
          /\ disk = [f \in Previews |-> IF derived[f] = NoRow THEN "absent" ELSE "new"]
          /\ result = [f \in Previews |-> "none"]
          /\ upload = [p \in Photos |-> [pc |-> "ready", tmp |-> FALSE, original |-> FALSE]]
          /\ worker = [w \in Workers |-> Idle]
          /\ used = [load |-> bound, faults |-> 0, kills |-> 0, overdue |-> 0]
    BY DEF Init, StateInit
  <1> DEFINE ready == {v \in Videos \cap bound.assets : first[v] = "ready"}
  <1>2. Videos \subseteq Assets
    BY DEF Assets
  <1>3. bound \in Load
    BY PreviewAssumptions
  <1>4. UsedOK
    BY <1>1, <1>3 DEF UsedOK, Used, Load
  <1>5. ASSUME NEW a \in Assets
        PROVE  /\ asset[a] \in Asset /\ job[a] \in Job
               /\ asset[a].active = None /\ ~job[a].expired
               /\ asset[a].preview = "preview_ready" => ~asset[a].log
               /\ \/ asset[a].preview = "absent" /\ job[a].status = "absent"
                  \/ a \in Videos /\ asset[a].preview = "preview_generating" /\ job[a].status = "queued"
                  \/ /\ a \in Videos /\ a \in ready
                     /\ asset[a].preview = "preview_ready" /\ job[a].status = "done"
               /\ a \in ready => job[a].status = "done"
    <2>1. /\ Queued(1) \in Job /\ Queued(1).status = "queued" /\ ~Queued(1).expired
          /\ NoJob \in Job /\ NoJob.status = "absent" /\ ~NoJob.expired
          /\ [Queued(1) EXCEPT !.status = "done"] \in Job
          /\ [Queued(1) EXCEPT !.status = "done"].status = "done"
          /\ ~[Queued(1) EXCEPT !.status = "done"].expired
      BY DEF Queued, NoJob, Job
    <2>2. job[a] = IF a \notin Videos \cap bound.assets THEN NoJob
                   ELSE IF a \in ready THEN [Queued(1) EXCEPT !.status = "done"] ELSE Queued(1)
      BY <1>1
    <2>3. asset[a] = [preview |-> IF a \notin Videos \cap bound.assets THEN "absent"
                            ELSE IF a \in ready THEN "preview_ready" ELSE "preview_generating",
                      log |-> a \in Videos \cap bound.assets /\ first[a] = "log", active |-> None]
      BY <1>1
    <2>4. (a \in Videos \cap bound.assets /\ first[a] = "log") \in BOOLEAN
      OBVIOUS
    <2>5. asset[a] \in Asset
      BY <2>3, <2>4 DEF Asset
    <2>6. ASSUME asset[a].preview = "preview_ready" PROVE ~asset[a].log
      <3>1. a \in ready
        BY <2>3, <2>6
      <3>2. first[a] # "log" /\ asset[a].log = (a \in Videos \cap bound.assets /\ first[a] = "log")
        BY <2>3, <3>1
      <3>. QED
        BY <3>2
    <2>. QED
      BY <2>1, <2>2, <2>3, <2>5, <2>6
  <1>6. ASSUME NEW f \in Previews
        PROVE  /\ derived[f] \in Derived /\ result[f] = "none"
               /\ \/ derived[f] = NoRow
                  \/ \E v \in Videos : /\ derived[f] = [asset |-> v, id |-> 1]
                                       /\ FirstRow[v] = f /\ job[v].status = "done"
    <2>1. CASE \E v \in ready : FirstRow[v] = f
      <3>1. PICK v \in ready : v = CHOOSE u \in ready : FirstRow[u] = f
        BY <2>1
      <3>2. FirstRow[v] = f
        BY <2>1, <3>1
      <3>3. derived[f] = [asset |-> v, id |-> 1]
        BY <1>1, <2>1, <3>1
      <3>4. v \in Videos /\ job[v].status = "done"
        BY <1>2, <1>5
      <3>. QED
        BY <1>1, <1>2, <3>2, <3>3, <3>4 DEF Derived
    <2>2. CASE ~\E v \in ready : FirstRow[v] = f
      BY <1>1, <2>2 DEF NoRow, Derived
    <2>. QED
      BY <2>1, <2>2
  <1>7. \A f \in Previews : disk[f] = IF derived[f] = NoRow THEN "absent" ELSE "new"
    BY <1>1
  <1>8. \A p \in Photos : upload[p] = Request("ready", FALSE, FALSE)
                          /\ upload[p] \in Upload
    BY <1>1 DEF Request, Upload
  <1>9. TablesOK
    <2>1. asset \in [Assets -> Asset] /\ job \in [Assets -> Job]
      BY <1>1, <1>5
    <2>2. derived \in [Previews -> Derived] /\ result \in [Previews -> {"none", "ready", "superseded"}]
      BY <1>1, <1>6
    <2>3. disk \in [Previews -> File]
      BY <1>1 DEF File
    <2>4. upload \in [Photos -> Upload]
      BY <1>1, <1>8
    <2>. QED
      BY <2>1, <2>2, <2>3, <2>4 DEF TablesOK
  <1>10. worker \in [Workers -> Worker] /\ \A w \in Workers : worker[w] = Idle
    BY <1>1, IdleOK DEF WorkerOK
  <1>. QED
    BY ZenonT(60), <1>4, <1>5, <1>6, <1>7, <1>8, <1>9, <1>10

LEMMA TypedInit == ASSUME Init PROVE Typed
  BY InitTables, IdleOK DEF Typed, WorkersOK, WorkerOK

LEMMA RowsFinite ==
    /\ IsFiniteSet(RowSet) /\ Cardinality(RowSet) \in Nat
    /\ RowSet # {} => Cardinality(RowSet) >= 1
  <1>1. IsFiniteSet(RowSet)
    BY PreviewAssumptions, FS_Subset DEF RowSet
  <1>. QED
    BY <1>1, FS_CardinalityType, FS_EmptySet

LEMMA FilesInit == ASSUME Init PROVE FilesInv
  <1>1. ASSUME NEW f \in Previews
        PROVE  /\ derived[f].id = 0 <=> derived[f].asset = None
               /\ derived[f].id <= Cardinality(RowSet)
    <2>1. CASE derived[f] = NoRow
      BY <2>1, RowsFinite DEF NoRow
    <2>2. CASE \E v \in Videos : derived[f] = [asset |-> v, id |-> 1]
      <3>1. derived[f].id = 1 /\ derived[f].asset # None
        BY <2>2, PreviewAssumptions DEF Assets
      <3>2. f \in RowSet
        BY <3>1 DEF RowSet
      <3>. QED
        BY <3>1, <3>2, RowsFinite
    <2>. QED
      BY <2>1, <2>2, InitTables
  <1>2. ASSUME NEW a \in Assets, NEW f \in RowsOf(a)
        PROVE  Newest(a, f)
    <2>1. ASSUME NEW g \in RowsOf(a) PROVE derived[g].id = 1
      <3>1. g \in Previews /\ derived[g].asset # None
        BY PreviewAssumptions DEF RowsOf
      <3>2. derived[g] # NoRow
        BY <3>1 DEF NoRow
      <3>3. \E v \in Videos : derived[g] = [asset |-> v, id |-> 1]
        BY <3>1, <3>2, InitTables
      <3>. QED
        BY <3>3
    <2>. QED
      BY <2>1 DEF Newest
  <1>3. RowsOK
    BY <1>1, <1>2 DEF RowsOK, Newest, RowsOf
  <1>4. HeldFilesOK
    BY InitTables DEF HeldFilesOK, Idle
  <1>5. RowsBacked
    BY InitTables DEF RowsBacked
  <1>. QED
    BY <1>3, <1>4, <1>5, TypedInit DEF FilesInv
-----------------------------------------------------------------------------
(***************************************************************************)
(* Rows and files, one action after the other. Most steps change neither   *)
(* rows nor files, and a worker at most lets go of its file.               *)
(***************************************************************************)
LEMMA SameRows == ASSUME RowsOK, UNCHANGED derived PROVE RowsOK'
  BY DEF RowsOK, RowSet, RowsOf, Newest

LEMMA HeldStep ==
    ASSUME HeldFilesOK, NEW w \in Workers, UNCHANGED <<derived, disk>>,
           \A v \in Workers \ {w} : worker'[v] = worker[v],
           worker'[w].file \in {None, worker[w].file},
           worker'[w].pc = "encoded" => worker[w].pc = "encoded"
    PROVE  HeldFilesOK'
  <1>1. \A v \in Workers : /\ worker'[v].file \in {None, worker[v].file}
                           /\ worker'[v].pc = "encoded" => worker[v].pc = "encoded"
    OBVIOUS
  <1>. QED
    BY <1>1 DEF HeldFilesOK, NoRow

LEMMA SameFiles ==
    ASSUME HeldFilesOK, RowsBacked, UNCHANGED <<derived, disk, worker>>
    PROVE  HeldFilesOK' /\ RowsBacked'
  BY DEF HeldFilesOK, RowsBacked, NoRow

LEMMA SameBacked == ASSUME RowsBacked, UNCHANGED <<derived, disk>> PROVE RowsBacked'
  BY DEF RowsBacked, NoRow

\* A file changes that no worker holds.
LEMMA FileStep ==
    ASSUME HeldFilesOK, UNCHANGED <<derived, worker>>, NEW f \in Previews,
           \A g \in Previews \ {f} : disk'[g] = disk[g],
           \A w \in Workers : worker[w].pc = "encoded" => worker[w].file # f,
           \A w \in Workers : worker[w].file \in Previews \cup {None}
    PROVE  HeldFilesOK'
  BY DEF HeldFilesOK, NoRow

LEMMA GrowsOldFiles == ASSUME FilesInv, NEW f \in Previews, GrowsOld(f) PROVE HeldFilesOK' /\ RowsBacked'
  <1>1. \A w \in Workers : worker[w].file # f /\ worker[w].file \in Previews \cup {None}
    BY DEF GrowsOld, InHands, FilesInv, Typed, WorkersOK, Worker
  <1>2. disk' = [disk EXCEPT ![f] = "old"] /\ disk \in [Previews -> File]
    BY DEF GrowsOld, FilesInv, Typed, TablesOK
  <1>3. HeldFilesOK'
    BY <1>1, <1>2, FileStep DEF GrowsOld, FilesInv, rows
  <1>4. RowsBacked'
    BY <1>2 DEF RowsBacked, FilesInv, GrowsOld, rows, NoRow
  <1>. QED
    BY <1>3, <1>4

LEMMA FileLostFiles == ASSUME FilesInv, NEW f \in Previews, FileLost(f) PROVE HeldFilesOK' /\ RowsBacked'
  <1>1. \A w \in Workers : worker[w].file # f /\ worker[w].file \in Previews \cup {None}
    BY PreviewAssumptions DEF FileLost, FilesInv, HeldFilesOK, Typed, WorkersOK, Worker
  <1>2. disk' = [disk EXCEPT ![f] = "lost"] /\ disk \in [Previews -> File]
    BY DEF FileLost, FilesInv, Typed, TablesOK
  <1>3. HeldFilesOK'
    BY <1>1, <1>2, FileStep DEF FileLost, FilesInv, rows
  <1>4. RowsBacked'
    BY <1>2 DEF RowsBacked, FilesInv, FileLost, rows, NoRow
  <1>. QED
    BY <1>3, <1>4

\* Recovery takes old files only: that of a worker before its commit is new.
LEMMA RemoveOrphanFiles ==
    ASSUME FilesInv, NEW w \in Workers, RemoveOrphan(w) PROVE HeldFilesOK' /\ RowsBacked'
  <1>1. PICK f \in Orphans : disk' = [disk EXCEPT ![f] = "absent"]
    BY DEF RemoveOrphan
  <1>2. f \in Previews /\ disk[f] = "old" /\ derived[f] = NoRow /\ disk \in [Previews -> File]
    BY DEF Orphans, FilesInv, Typed, TablesOK
  <1>3. \A v \in Workers : worker[v].file \in Previews \cup {None}
    BY DEF FilesInv, Typed, WorkersOK, Worker
  <1>4. \A v \in Workers : worker[v].pc = "encoded" => worker[v].file # None
    BY DEF FilesInv, Typed, WorkersOK, Fits
  <1>5. \A v \in Workers : worker[v].pc = "encoded" => worker[v].file # f
    BY <1>2, <1>4 DEF FilesInv, HeldFilesOK
  <1>6. HeldFilesOK'
    BY <1>1, <1>2, <1>3, <1>5, FileStep DEF RemoveOrphan, FilesInv, rows
  <1>7. RowsBacked'
    BY <1>1, <1>2 DEF RowsBacked, FilesInv, RemoveOrphan, rows, NoRow
  <1>. QED
    BY <1>6, <1>7

LEMMA EncodeFiles == ASSUME FilesInv, NEW w \in Workers, Encode(w) PROVE HeldFilesOK' /\ RowsBacked'
  <1>0. Typed
    BY DEF FilesInv
  <1>1. /\ worker[w].file = None /\ \A v \in Workers \ {w} : worker'[v] = worker[v]
        /\ UNCHANGED derived
    BY <1>0, EncodeStep DEF Encode, rows
  <1>2. CASE worker'[w].pc = "failing" /\ worker'[w].file = None /\ UNCHANGED disk
    BY <1>1, <1>2, HeldStep, SameBacked DEF FilesInv
  <1>3. ASSUME NEW f \in Unused, worker'[w].pc = "encoded", worker'[w].file = f,
               disk' = [disk EXCEPT ![f] = "new"]
        PROVE  HeldFilesOK' /\ RowsBacked'
    <2>1. /\ f \in Previews /\ derived[f] = NoRow
          /\ \A v \in Workers : worker[v].file # f
      BY DEF Unused
    <2>2. /\ disk \in [Previews -> File]
          /\ \A v \in Workers : worker[v].file \in Previews \cup {None}
      BY <1>0 DEF Typed, TablesOK, WorkersOK, Worker
    <2>3. \A g \in Previews : disk'[g] = IF g = f THEN "new" ELSE disk[g]
      BY <1>3, <2>2
    <2>4. ASSUME NEW v \in Workers, worker'[v].file # None
          PROVE  /\ derived'[worker'[v].file] = NoRow
                 /\ worker'[v].pc = "encoded" => disk'[worker'[v].file] = "new"
      <3>1. CASE v = w
        BY <1>1, <1>3, <2>1, <2>3, <3>1
      <3>2. CASE v # w
        BY <1>1, <2>1, <2>2, <2>3, <2>4, <3>2 DEF FilesInv, HeldFilesOK
      <3>. QED
        BY <3>1, <3>2
    <2>5. ASSUME NEW v \in Workers, NEW u \in Workers, v # u, worker'[v].file = worker'[u].file
          PROVE  worker'[v].file = None
      BY <1>1, <1>3, <2>1, <2>5 DEF FilesInv, HeldFilesOK
    <2>6. HeldFilesOK'
      BY <2>4, <2>5 DEF HeldFilesOK, NoRow
    <2>7. RowsBacked'
      BY <1>1, <2>3 DEF RowsBacked, FilesInv, NoRow
    <2>. QED
      BY <2>6, <2>7
  <1>. QED
    BY <1>0, <1>2, <1>3, EncodeStep

LEMMA CleanUpPreviewFiles ==
    ASSUME FilesInv, NEW w \in Workers, CleanUpPreview(w) PROVE HeldFilesOK' /\ RowsBacked'
  <1> DEFINE f == worker[w].file
  <1>0. Typed
    BY DEF FilesInv
  <1>1. /\ f \in Previews /\ \A v \in Workers \ {w} : worker'[v] = worker[v]
        /\ worker'[w].file = None /\ worker'[w].pc = "failing" /\ UNCHANGED derived
        /\ UNCHANGED disk \/ disk' = [disk EXCEPT ![f] = "absent"]
    BY <1>0, CleanUpPreviewStep DEF CleanUpPreview, rows
  <1>2. CASE UNCHANGED disk
    BY <1>1, <1>2, HeldStep, SameBacked DEF FilesInv
  <1>3. CASE disk' = [disk EXCEPT ![f] = "absent"]
    <2>1. f # None
      BY <1>1, PreviewAssumptions
    <2>2. derived[f] = NoRow
      BY <2>1 DEF FilesInv, HeldFilesOK
    <2>3. \A v \in Workers \ {w} : worker[v].file # f /\ worker[v].file \in Previews \cup {None}
      BY <1>0, <2>1 DEF FilesInv, HeldFilesOK, Typed, WorkersOK, Worker
    <2>4. \A g \in Previews \ {f} : disk'[g] = disk[g]
      BY <1>0, <1>3 DEF Typed, TablesOK
    <2>5. HeldFilesOK'
      BY <1>1, <2>3, <2>4 DEF FilesInv, HeldFilesOK, NoRow
    <2>6. RowsBacked'
      BY <1>1, <2>2, <2>4 DEF FilesInv, RowsBacked, NoRow
    <2>. QED
      BY <2>5, <2>6
  <1>. QED
    BY <1>1, <1>2, <1>3
\* A new row is the newest of all.
LEMMA NewRow ==
    ASSUME TablesOK, RowsOK, NEW a \in Assets, NEW f \in Previews, derived[f] = NoRow,
           derived' = [derived EXCEPT ![f] = [asset |-> a, id |-> NextRow]]
    PROVE  /\ RowsOK' /\ NextRow \in Nat \ {0}
           /\ \A g \in Previews \ {f} : derived'[g] = derived[g] /\ derived[g].id < NextRow
           /\ derived'[f].id = NextRow /\ derived'[f] # NoRow
           /\ RowsOf(a)' = RowsOf(a) \cup {f}
           /\ \A b \in Assets \ {a} : RowsOf(b)' = RowsOf(b)
           /\ Newest(a, f)'
  <1>1. NextRow = 1 + Cardinality(RowSet) /\ Cardinality(RowSet) \in Nat /\ IsFiniteSet(RowSet)
    BY RowsFinite DEF NextRow, RowSet
  <1>2. /\ derived'[f] = [asset |-> a, id |-> NextRow]
        /\ \A g \in Previews \ {f} : derived'[g] = derived[g]
    BY DEF TablesOK
  <1>3. \A g \in Previews : derived[g].id \in Nat /\ derived[g].id < NextRow
    BY <1>1 DEF TablesOK, RowsOK, Derived
  <1>4. RowSet' = RowSet \cup {f} /\ f \notin RowSet
    <2>1. derived'[f].id # 0 /\ derived[f].id = 0
      BY <1>1, <1>2 DEF NoRow
    <2>2. \A g \in Previews : derived'[g].id # 0 <=> derived[g].id # 0 \/ g = f
      BY <1>2, <2>1
    <2>. QED
      BY <2>1, <2>2 DEF RowSet
  <1>5. Cardinality(RowSet)' = Cardinality(RowSet) + 1
    BY <1>1, <1>4, FS_AddElement
  <1>6. a # None
    BY PreviewAssumptions
  <1>7. \A b \in Assets : RowsOf(b)' = IF b = a THEN RowsOf(a) \cup {f} ELSE RowsOf(b)
    BY <1>2, PreviewAssumptions DEF RowsOf, NoRow
  <1>8. Newest(a, f)'
    <2>1. \A g \in Previews : derived'[g].id <= NextRow /\ derived'[f].id = NextRow
      BY <1>1, <1>2, <1>3
    <2>2. f \in RowsOf(a)' /\ \A g \in RowsOf(a)' : g \in Previews
      BY <1>7 DEF RowsOf
    <2>. QED
      BY <2>1, <2>2 DEF Newest
  <1>9. \A g \in Previews : /\ derived'[g].id = 0 <=> derived'[g].asset = None
                            /\ derived'[g].id <= Cardinality(RowSet)'
    BY <1>1, <1>2, <1>3, <1>5, <1>6 DEF RowsOK
  <1>10. ASSUME NEW b \in Assets, RowsOf(b)' # {} PROVE \E g \in Previews : Newest(b, g)'
    <2>1. CASE b = a
      BY <1>8, <2>1
    <2>2. CASE b # a
      <3>1. RowsOf(b)' = RowsOf(b)
        BY <1>7, <2>2
      <3>2. PICK g \in Previews : Newest(b, g)
        BY <1>10, <3>1 DEF RowsOK
      <3>3. f \notin RowsOf(b)
        BY PreviewAssumptions DEF RowsOf, NoRow
      <3>4. \A h \in RowsOf(b) : derived'[h] = derived[h]
        BY <1>2, <3>3 DEF RowsOf
      <3>. QED
        BY <3>1, <3>2, <3>4 DEF Newest
    <2>. QED
      BY <2>1, <2>2
  <1>11. RowsOK'
    BY <1>9, <1>10 DEF RowsOK
  <1>. QED
    BY <1>1, <1>2, <1>3, <1>6, <1>7, <1>8, <1>11 DEF NoRow

LEMMA FinalizeNewFiles ==
    ASSUME FilesInv, NEW w \in Workers, FinalizeNew(w)
    PROVE  RowsOK' /\ HeldFilesOK' /\ RowsBacked'
  <1> DEFINE a == worker[w].asset
             f == worker[w].file
  <1>0. Typed
    BY DEF FilesInv
  <1>1. /\ worker[w].pc = "encoded" /\ a \in Assets /\ f \in Previews
        /\ \A v \in Workers \ {w} : worker'[v] = worker[v]
        /\ \/ /\ worker'[w] = Idle
              /\ derived' = [derived EXCEPT ![f] = [asset |-> a, id |-> NextRow]]
           \/ UNCHANGED rows /\ worker'[w].pc = "cleanup" /\ worker'[w].file = f
        /\ UNCHANGED disk
    BY <1>0, FinalizeNewStep DEF FinalizeNew
  <1>2. f # None /\ derived[f] = NoRow /\ disk[f] = "new"
    BY <1>1, PreviewAssumptions DEF FilesInv, HeldFilesOK
  <1>3. CASE UNCHANGED rows /\ worker'[w].pc = "cleanup" /\ worker'[w].file = f
    BY <1>1, <1>3, HeldStep, SameBacked, SameRows DEF FilesInv, rows
  <1>4. CASE /\ worker'[w] = Idle
             /\ derived' = [derived EXCEPT ![f] = [asset |-> a, id |-> NextRow]]
    <2>1. RowsOK' /\ \A g \in Previews \ {f} : derived'[g] = derived[g]
      BY <1>0, <1>1, <1>2, <1>4, NewRow DEF FilesInv, Typed
    <2>2. \A v \in Workers \ {w} : worker[v].file # f /\ worker[v].file \in Previews \cup {None}
      BY <1>0, <1>2 DEF FilesInv, HeldFilesOK, Typed, WorkersOK, Worker
    <2>3. worker'[w].file = None
      BY <1>4 DEF Idle
    <2>4. HeldFilesOK'
      BY <1>1, <2>1, <2>2, <2>3 DEF FilesInv, HeldFilesOK, NoRow
    <2>5. RowsBacked'
      BY <1>1, <1>2, <2>1 DEF FilesInv, RowsBacked, NoRow
    <2>. QED
      BY <2>1, <2>4, <2>5
  <1>. QED
    BY <1>1, <1>3, <1>4

\* All the other steps of a worker.
LEMMA LeaveHeld ==
    ASSUME FilesInv, NEW w \in Workers, Leave(w), UNCHANGED <<derived, disk>>
    PROVE  HeldFilesOK' /\ RowsBacked'
  <1>1. worker'[w] = Idle /\ \A v \in Workers \ {w} : worker'[v] = worker[v]
    BY LeaveStep DEF FilesInv, Typed
  <1>2. worker'[w].file = None /\ worker'[w].pc = "idle"
    BY <1>1 DEF Idle
  <1>. QED
    BY <1>1, <1>2, HeldStep, SameBacked DEF FilesInv

LEMMA QuietHeld ==
    ASSUME FilesInv, NEW w \in Workers, UNCHANGED <<derived, disk>>,
           \A v \in Workers \ {w} : worker'[v] = worker[v], worker'[w].file = None
    PROVE  HeldFilesOK' /\ RowsBacked'
  BY SameBacked DEF FilesInv, HeldFilesOK, NoRow

LEMMA RecoverAndBackfillFiles ==
    ASSUME FilesInv, NEW w \in Workers, RecoverAndBackfill(w)
    PROVE  RowsOK' /\ HeldFilesOK' /\ RowsBacked'
  <1>0. Typed /\ RowsOK
    BY DEF FilesInv
  <1>1. CASE RemoveOrphan(w)
    BY <1>0, <1>1, RemoveOrphanFiles, SameRows DEF RemoveOrphan, rows
  <1>2. CASE ListCandidates(w)
    <2>1. worker[w].file = None
      BY <1>0, <1>2 DEF ListCandidates, Typed, WorkersOK, Fits
    <2>. QED
      BY <1>0, <1>2, <2>1, ListCandidatesStep, QuietHeld, SameRows DEF ListCandidates, rows
  <1>3. CASE InspectCandidate(w)
    BY <1>0, <1>3, InspectCandidateStep, QuietHeld, SameRows DEF InspectCandidate, rows
  <1>4. CASE CommitBackfill(w)
    <2>1. worker'[w].file = None /\ \A v \in Workers \ {w} : worker'[v] = worker[v]
      BY <1>0, <1>4, CommitBackfillStep
    <2>. QED
      BY <1>0, <1>4, <2>1, QuietHeld, SameRows DEF CommitBackfill
  <1>5. CASE PersistOutcome(w)
    <2>1. worker'[w].file = None /\ \A v \in Workers \ {w} : worker'[v] = worker[v]
      BY <1>0, <1>5, PersistOutcomeStep
    <2>. QED
      BY <1>0, <1>5, <2>1, QuietHeld, SameRows DEF PersistOutcome
  <1>. QED
    BY <1>1, <1>2, <1>3, <1>4, <1>5 DEF RecoverAndBackfill

LEMMA ProcessPreviewFiles ==
    ASSUME FilesInv, NEW w \in Workers, ProcessPreview(w)
    PROVE  RowsOK' /\ HeldFilesOK' /\ RowsBacked'
  <1>0. Typed /\ RowsOK
    BY DEF FilesInv
  <1>1. CASE ReadAsset(w)
    <2>1. worker'[w].file = None /\ \A v \in Workers \ {w} : worker'[v] = worker[v]
      BY <1>0, <1>1, ReadAssetStep
    <2>. QED
      BY <1>0, <1>1, <2>1, QuietHeld, SameRows DEF ReadAsset, rows
  <1>2. CASE Encode(w)
    BY <1>0, <1>2, EncodeFiles, SameRows DEF Encode, rows
  <1>3. CASE FinalizeNew(w)
    BY <1>3, FinalizeNewFiles
  <1>4. CASE CleanUpPreview(w)
    BY <1>0, <1>4, CleanUpPreviewFiles, SameRows DEF CleanUpPreview, rows
  <1>5. CASE InspectExisting(w)
    BY <1>0, <1>5, InspectExistingStep, QuietHeld, SameRows DEF InspectExisting, rows
  <1>6. CASE FinalizeExisting(w)
    <2>1. worker'[w].file = None /\ \A v \in Workers \ {w} : worker'[v] = worker[v]
      BY <1>0, <1>6, FinalizeExistingStep DEF Idle
    <2>. QED
      BY <1>0, <1>6, <2>1, QuietHeld, SameRows DEF FinalizeExisting
  <1>7. CASE MarkRetryable(w)
    BY <1>0, <1>7, MarkRetryableStep, QuietHeld, SameRows DEF MarkRetryable
  <1>8. CASE MarkFailed(w)
    <2>1. worker'[w].file = None /\ \A v \in Workers \ {w} : worker'[v] = worker[v]
      BY <1>0, <1>8, MarkFailedStep DEF Idle
    <2>. QED
      BY <1>0, <1>8, <2>1, QuietHeld, SameRows DEF MarkFailed
  <1>. QED
    BY <1>1, <1>2, <1>3, <1>4, <1>5, <1>6, <1>7, <1>8 DEF ProcessPreview

LEMMA FilesStep == ASSUME FilesInv, [Next]_vars PROVE FilesInv'
  <1>0. Typed /\ RowsOK /\ HeldFilesOK /\ RowsBacked /\ Typed'
    BY TypedStep DEF FilesInv
  <1>1. CASE UNCHANGED vars
    BY <1>0, <1>1, SameRows, SameFiles DEF vars, rows, FilesInv
  <1>2. CASE DirectUploadNext \/ ApiKilled
    <2>1. UNCHANGED <<derived, disk, worker>>
      BY <1>2 DEF DirectUploadNext, SaveUpload, MoveOriginal, CommitAsset, UndoUpload,
         ApiKilled, rows
    <2>. QED
      BY <1>0, <2>1, SameRows, SameFiles DEF FilesInv
  <1>3. ASSUME NEW w \in Workers, WorkerStep(w) \/ WorkerKilled(w) PROVE FilesInv'
    <2>1. CASE RecoverAndBackfill(w)
      BY <1>0, <2>1, RecoverAndBackfillFiles DEF FilesInv
    <2>2. CASE ProcessPreview(w)
      BY <1>0, <2>2, ProcessPreviewFiles DEF FilesInv
    <2>3. CASE RecoverExpiredJobs(w)
      <3>1. /\ worker'[w] = [worker[w] EXCEPT !.pc = "recovered"] /\ worker[w] \in Worker
            /\ \A v \in Workers \ {w} : worker'[v] = worker[v]
        BY <1>0, <2>3, RecoverExpiredJobsStep DEF Typed, WorkersOK
      <3>2. worker'[w].pc = "recovered" /\ worker'[w].file = worker[w].file
        BY <3>1 DEF Worker
      <3>. QED
        BY <1>0, <2>3, <3>1, <3>2, HeldStep, SameBacked, SameRows
           DEF RecoverExpiredJobs, FilesInv
    <2>4. CASE ClaimNextJob(w)
      BY ZenonT(60), <1>0, <2>4, ClaimNextJobStep, QuietHeld, SameRows DEF ClaimNextJob, FilesInv
    <2>5. CASE RoundFails(w)
      BY <1>0, <2>5, LeaveHeld, SameRows DEF RoundFails, FilesInv, rows
    <2>6. CASE WorkerKilled(w)
      BY <1>0, <2>6, LeaveHeld, SameRows DEF WorkerKilled, GiveUp, FilesInv
    <2>. QED
      BY <1>3, <2>1, <2>2, <2>3, <2>4, <2>5, <2>6 DEF WorkerStep
  <1>4. ASSUME NEW a \in Assets, LeaseEnds(a) PROVE FilesInv'
    BY <1>0, <1>4, SameRows, SameFiles DEF LeaseEnds, FilesInv
  <1>5. ASSUME NEW f \in Previews, GrowsOld(f) PROVE FilesInv'
    BY <1>0, <1>5, SameRows, GrowsOldFiles DEF GrowsOld, FilesInv, rows
  <1>6. ASSUME NEW f \in Previews, FileLost(f) PROVE FilesInv'
    BY <1>0, <1>6, SameRows, FileLostFiles DEF FileLost, FilesInv, rows
  <1>. QED
    BY <1>1, <1>2, <1>3, <1>4, <1>5, <1>6 DEF Next

\* The files of rows, of attempts that may still commit and of orphans, in every state.
THEOREM FilesInvariant == Spec => []FilesInv
  BY FilesInit, FilesStep, PTL DEF Spec

\* The tables, workers and requests have the types the code gives them, and what
\* happened to a behaviour stays within its bounds.
THEOREM TypeInvariant == Spec => []TypeOK
  <1>1. FilesInv => TypeOK
    BY DEF FilesInv, Typed, TablesOK, WorkersOK, UsedOK, Used, TypeOK
  <1>. QED
    BY <1>1, FilesInvariant, PTL

\* A committed preview is taken away by no recovery, cleanup or second attempt.
THEOREM CommittedPreviewsStay == Spec => []RowsBacked
  <1>1. FilesInv => RowsBacked
    BY DEF FilesInv
  <1>. QED
    BY <1>1, FilesInvariant, PTL
-----------------------------------------------------------------------------
(***************************************************************************)
(* Results. Other workers keep what they saw and make nothing new; one     *)
(* worker's step decides.                                                  *)
(***************************************************************************)
LEMMA MakingStep ==
    ASSUME NEW w \in Workers, \A v \in Workers \ {w} : worker'[v] = worker[v],
           worker'[w].pc \in {"encoding", "encoded"} =>
               worker[w].pc \in {"encoding", "encoded"} /\ worker'[w].asset = worker[w].asset
    PROVE  \A a \in Assets : Making(a)' => Making(a)
  BY DEF Making

LEMMA SeenStep ==
    ASSUME SeenOK, NEW w \in Workers, \A v \in Workers \ {w} : worker'[v] = worker[v],
           \A f \in Previews, a \in Assets : f \in RowsOf(a) => f \in RowsOf(a)',
           WorkersOK,
           (worker[w].pc \in {"existing", "confirmed"} =>
               worker[w].seen \in RowsOf(worker[w].asset))'
    PROVE  SeenOK'
  <1>1. ASSUME NEW v \in Workers, worker'[v].pc \in {"existing", "confirmed"}, v # w
        PROVE  (worker[v].seen \in RowsOf(worker[v].asset))'
    <2>1. worker'[v] = worker[v] /\ worker[v].pc \in {"existing", "confirmed"}
      BY <1>1
    <2>2. worker[v].seen \in RowsOf(worker[v].asset) /\ worker[v].seen \in Previews
      BY <2>1 DEF SeenOK, RowsOf
    <2>3. worker[v].asset \in Assets
      BY <2>1 DEF WorkersOK, Fits, Processing
    <2>. QED
      BY <2>1, <2>2, <2>3
  <1>. QED
    BY <1>1 DEF SeenOK

\* Neither rows nor results change, nor what is displayed.
LEMMA QuietResults ==
    ASSUME ResultsInv, WorkersOK, NEW w \in Workers, UNCHANGED <<derived, result>>,
           \A a \in Assets : asset'[a].active = asset[a].active,
           \A a \in Assets : a \in Videos => asset'[a].log = asset[a].log,
           \A v \in Workers \ {w} : worker'[v] = worker[v],
           worker'[w].pc \in {"encoding", "encoded"} =>
               \/ RowsOf(worker'[w].asset) = {}
               \/ worker[w].pc \in {"encoding", "encoded"} /\ worker'[w].asset = worker[w].asset,
           worker'[w].pc \in {"existing", "confirmed"} =>
               worker'[w].seen \in RowsOf(worker'[w].asset),
           \A f \in Previews : derived[f] # NoRow => derived[f].asset \in Assets
    PROVE  ResultsInv'
  <1>1. \A a \in Assets : (SessionVideo(a)' <=> SessionVideo(a))
    BY DEF SessionVideo
  <1>2. \A a : RowsOf(a)' = RowsOf(a)
    BY DEF RowsOf
  <1>3. ActiveOK'
    BY <1>1, <1>2 DEF ResultsInv, ActiveOK
  <1>4. ResultsOK'
    <2>1. ASSUME NEW f \in Previews, result[f] = "ready"
          PROVE  derived[f].asset \in Assets
      <3>1. derived[f] # NoRow
        BY <2>1 DEF ResultsInv, ResultsOK
      <3>. QED
        BY <3>1
    <2>. QED
      BY <2>1 DEF ResultsInv, ResultsOK, NoRow
  <1>5. \A a \in Assets : Making(a)' => Making(a) \/ RowsOf(a) = {}
    BY DEF Making
  <1>6. UnresultedOK'
    BY <1>1, <1>2, <1>5 DEF ResultsInv, UnresultedOK
  <1>7. SeenOK'
    <2>1. (worker[w].pc \in {"existing", "confirmed"} =>
              worker[w].seen \in RowsOf(worker[w].asset))'
      BY DEF RowsOf
    <2>. QED
      BY <1>2, <2>1, SeenStep DEF ResultsInv
  <1>. QED
    BY <1>3, <1>4, <1>6, <1>7 DEF ResultsInv

LEMMA RowsTyped ==
    ASSUME Typed, RowsOK
    PROVE  /\ \A f \in Previews : derived[f] # NoRow => derived[f].asset \in Assets
           /\ \A f \in Previews : derived[f].asset \in Assets => derived[f] # NoRow
  <1>1. ASSUME NEW f \in Previews, derived[f].asset \notin Assets PROVE derived[f] = NoRow
    <2>1. derived[f] \in [asset: Assets \cup {None}, id: Nat] /\ derived[f].asset = None
      BY <1>1 DEF Typed, TablesOK, Derived
    <2>2. derived[f].id = 0
      BY <2>1 DEF RowsOK
    <2>. QED
      BY <2>1, <2>2 DEF NoRow
  <1>. QED
    BY <1>1, PreviewAssumptions DEF NoRow

\* The only row of a session video gets its result, and the video displays it.
LEMMA FirstResult ==
    ASSUME FilesInv, ResultsInv, NEW a \in Assets, NEW f \in RowsOf(a),
           SessionVideo(a), result[f] = "none",
           result' = [result EXCEPT ![f] = "ready"],
           asset'[a].active = f, asset'[a].log = asset[a].log,
           \A b \in Assets \ {a} : asset'[b] = asset[b],
           UNCHANGED derived,
           \A b \in Assets : Making(b)' => Making(b)
    PROVE  ActiveOK' /\ ResultsOK' /\ UnresultedOK'
  <1>0. \A g \in Previews : derived[g] # NoRow => derived[g].asset \in Assets
    BY RowsTyped DEF FilesInv
  <1>1. RowsOf(a) = {f} /\ f \in Previews
    BY DEF ResultsInv, UnresultedOK, RowsOf
  <1>2. \A b : RowsOf(b)' = RowsOf(b)
    BY DEF RowsOf
  <1>3. \A b \in Assets : SessionVideo(b)' <=> SessionVideo(b)
    BY DEF SessionVideo
  <1>4. \A g \in Previews : result'[g] = IF g = f THEN "ready" ELSE result[g]
    BY DEF FilesInv, Typed, TablesOK
  <1>5. \A b \in Assets \ {a} : f \notin RowsOf(b)
    BY <1>1 DEF RowsOf
  <1>6. ActiveOK'
    <2>1. ASSUME NEW b \in Assets, asset'[b].active # None
          PROVE  /\ SessionVideo(b)'
                 /\ asset'[b].active \in RowsOf(b) /\ result'[asset'[b].active] = "ready"
                 /\ \A g \in RowsOf(b) \ {asset'[b].active} :
                       derived[g].id < derived[asset'[b].active].id
      <3>1. CASE b = a
        BY <1>1, <1>3, <1>4, <3>1
      <3>2. CASE b # a
        <4>1. /\ asset'[b].active = asset[b].active /\ SessionVideo(b)
              /\ asset[b].active \in RowsOf(b) /\ result[asset[b].active] = "ready"
              /\ \A g \in RowsOf(b) \ {asset[b].active} :
                       derived[g].id < derived[asset[b].active].id
          BY <2>1, <3>2 DEF ResultsInv, ActiveOK
        <4>2. asset[b].active # f /\ asset[b].active \in Previews
          BY <1>5, <3>2, <4>1 DEF RowsOf
        <4>. QED
          BY <1>3, <1>4, <4>1, <4>2
      <3>. QED
        BY <3>1, <3>2
    <2>. QED
      BY <1>2, <2>1 DEF ActiveOK
  <1>7. ResultsOK'
    <2>1. ASSUME NEW g \in Previews, derived[g] = NoRow PROVE result'[g] = "none"
      <3>1. g # f
        BY <1>1, <2>1, RowsTyped DEF RowsOf, FilesInv
      <3>. QED
        BY <1>4, <2>1, <3>1 DEF ResultsInv, ResultsOK
    <2>2. ASSUME NEW g \in Previews, result'[g] = "ready"
          PROVE  asset'[derived[g].asset].active = g
      <3>1. CASE g = f
        BY <3>1 DEF RowsOf
      <3>2. CASE g # f
        <4>1. result[g] = "ready" /\ asset[derived[g].asset].active = g /\ derived[g] # NoRow
          BY <1>4, <2>2, <3>2 DEF ResultsInv, ResultsOK
        <4>2. derived[g].asset \in Assets /\ derived[g].asset # a
          BY <1>0, <1>1, <3>2, <4>1 DEF RowsOf
        <4>. QED
          BY <4>1, <4>2
      <3>. QED
        BY <3>1, <3>2
    <2>. QED
      BY <2>1, <2>2 DEF ResultsOK, NoRow
  <1>8. UnresultedOK'
    <2>1. ASSUME NEW b \in Assets, NEW g \in Previews, SessionVideo(b)', g \in RowsOf(b),
                 result'[g] = "none"
          PROVE  RowsOf(b) = {g} /\ ~Making(b)'
      BY <1>3, <1>4, <2>1 DEF ResultsInv, UnresultedOK
    <2>. QED
      BY <1>2, <2>1 DEF UnresultedOK
  <1>. QED
    BY <1>6, <1>7, <1>8
\* A result for a preview that was recorded before: by a worker, or by the backfill.
LEMMA FinalizeExistingResults ==
    ASSUME FilesInv, ResultsInv, NEW w \in Workers, FinalizeExisting(w) PROVE ResultsInv'
  <1> DEFINE a == worker[w].asset
             f == worker[w].seen
  <1>0. Typed /\ RowsOK /\ WorkersOK
    BY DEF FilesInv, Typed
  <1>1. /\ worker[w].pc = "confirmed" /\ a \in Assets /\ f \in Previews /\ f \in RowsOf(a)
        /\ \A v \in Workers \ {w} : worker'[v] = worker[v]
        /\ UNCHANGED derived
        /\ \/ Finalize(w, f) /\ worker'[w] = Idle
           \/ UNCHANGED <<asset, job, result>> /\ worker'[w].pc \in {"failing", "retryable"}
    BY <1>0, FinalizeExistingStep DEF FinalizeExisting, ResultsInv, SeenOK
  <1>2. worker'[w].pc \in {"idle", "failing", "retryable"}
    BY <1>1 DEF Idle
  <1>3. \A g \in Previews : derived[g] # NoRow => derived[g].asset \in Assets
    BY <1>0, RowsTyped
  <1>4. \A b \in Assets : Making(b)' => Making(b)
    BY <1>1, <1>2, MakingStep
  <1>5. SeenOK'
    <2>1. \A g \in Previews, b \in Assets : g \in RowsOf(b) => g \in RowsOf(b)'
      BY <1>1 DEF RowsOf
    <2>. QED
      BY <1>0, <1>1, <1>2, <2>1, SeenStep DEF ResultsInv
  <1>6. ASSUME \A b \in Assets : asset'[b].active = asset[b].active /\ asset'[b].log = asset[b].log,
               UNCHANGED result
        PROVE  ResultsInv'
    BY <1>0, <1>1, <1>2, <1>3, <1>6, QuietResults
  <1>7. CASE UNCHANGED <<asset, job, result>>
    BY <1>6, <1>7
  <1>8. CASE Finalize(w, f)
    <2>1. /\ asset'[a].log = asset[a].log
          /\ asset'[a].active = IF SessionVideo(a) THEN f ELSE asset[a].active
          /\ \A b \in Assets \ {a} : asset'[b] = asset[b]
      BY <1>0, <1>1, <1>8, FinalizeStep
    <2>2. ~Conflict(a, f) /\ result' = Superseding(a, f)
      BY <1>8 DEF Finalize
    <2>3. CASE Replaces(a, f)
      <3>1. result[f] = "none" /\ SessionVideo(a) /\ asset[a].active # f
        BY <2>2, <2>3 DEF Conflict, Replaces
      <3>2. RowsOf(a) = {f}
        BY <1>1, <3>1 DEF ResultsInv, UnresultedOK
      <3>3. asset[a].active = None
        BY <1>1, <3>1, <3>2 DEF ResultsInv, ActiveOK
      <3>4. result' = [result EXCEPT ![f] = "ready"]
        BY <1>0, <2>2, <2>3, <3>3, PreviewAssumptions DEF Superseding, Typed, TablesOK
      <3>5. ActiveOK' /\ ResultsOK' /\ UnresultedOK'
        BY <1>1, <1>4, <2>1, <3>1, <3>4, FirstResult
      <3>. QED
        BY <1>5, <3>5 DEF ResultsInv
    <2>4. CASE ~Replaces(a, f)
      <3>1. \A g \in Previews : result'[g] = result[g]
        BY <2>2, <2>4 DEF Superseding
      <3>2. result' = result
        <4>1. result' \in [Previews -> {"none", "ready", "superseded"}]
          BY <1>0, <1>1, <1>8, FinalizeStep
        <4>. QED
          BY <1>0, <3>1, <4>1 DEF Typed, TablesOK
      <3>3. asset'[a].active = asset[a].active
        BY <2>1, <2>4 DEF Replaces
      <3>. QED
        BY <1>6, <2>1, <3>2, <3>3
    <2>. QED
      BY <2>3, <2>4
  <1>. QED
    BY <1>1, <1>7, <1>8

LEMMA CommitBackfillResults ==
    ASSUME FilesInv, ResultsInv, NEW w \in Workers, CommitBackfill(w) PROVE ResultsInv'
  <1> DEFINE a == worker[w].asset
             f == worker[w].seen
  <1>0. Typed /\ RowsOK /\ WorkersOK
    BY DEF FilesInv, Typed
  <1>1. /\ a \in Assets /\ f \in Previews
        /\ \A v \in Workers \ {w} : worker'[v] = worker[v]
        /\ worker'[w].pc \in {"listed", "outcome"} /\ UNCHANGED derived
        /\ \/ UNCHANGED <<asset, result>>
           \/ /\ Candidate(a) = f /\ asset[a].active = None
              /\ result' = [result EXCEPT ![f] = "ready"]
              /\ asset' = [asset EXCEPT ![a].active = f]
    BY <1>0, CommitBackfillStep DEF CommitBackfill
  <1>2. CASE UNCHANGED <<asset, result>>
    BY <1>0, <1>1, <1>2, QuietResults, RowsTyped
  <1>3. CASE /\ Candidate(a) = f /\ asset[a].active = None
             /\ result' = [result EXCEPT ![f] = "ready"]
             /\ asset' = [asset EXCEPT ![a].active = f]
    <2>1. f # None
      BY <1>1, PreviewAssumptions
    <2>2. f \in RowsOf(a) /\ SessionVideo(a) /\ result[f] = "none"
      BY <1>0, <1>1, <1>3, <2>1, CandidateFound
    <2>3. /\ asset'[a].active = f /\ asset'[a].log = asset[a].log
          /\ \A b \in Assets \ {a} : asset'[b] = asset[b]
      BY <1>0, <1>1, <1>3 DEF Typed, TablesOK, Asset
    <2>4. \A b \in Assets : Making(b)' => Making(b)
      BY <1>1, MakingStep
    <2>5. ActiveOK' /\ ResultsOK' /\ UnresultedOK'
      BY <1>1, <1>3, <2>2, <2>3, <2>4, FirstResult
    <2>6. SeenOK'
      <3>1. \A g \in Previews, b \in Assets : g \in RowsOf(b) => g \in RowsOf(b)'
        BY <1>1 DEF RowsOf
      <3>. QED
        BY <1>0, <1>1, <3>1, SeenStep DEF ResultsInv
    <2>. QED
      BY <2>5, <2>6 DEF ResultsInv
  <1>. QED
    BY <1>1, <1>2, <1>3

\* A new preview of a session video takes the place of the active one, if any.
LEMMA NewResult ==
    ASSUME FilesInv, ResultsInv, NEW w \in Workers,
           NEW a \in Assets, a = worker[w].asset, NEW f \in Previews, derived[f] = NoRow,
           worker[w].pc = "encoded", worker'[w] = Idle,
           \A v \in Workers \ {w} : worker'[v] = worker[v],
           derived' = [derived EXCEPT ![f] = [asset |-> a, id |-> NextRow]],
           result' = Superseding(a, f),
           asset'[a].log = asset[a].log,
           asset'[a].active = IF SessionVideo(a) THEN f ELSE asset[a].active,
           \A b \in Assets \ {a} : asset'[b] = asset[b]
    PROVE  ResultsInv'
  <1>0. TablesOK /\ Typed /\ RowsOK /\ WorkersOK
    BY DEF FilesInv, Typed
  <1>1. /\ \A g \in Previews \ {f} : derived'[g] = derived[g] /\ derived[g].id < NextRow
        /\ derived'[f].id = NextRow /\ derived'[f] # NoRow /\ derived'[f].asset = a
        /\ RowsOf(a)' = RowsOf(a) \cup {f}
        /\ \A b \in Assets \ {a} : RowsOf(b)' = RowsOf(b)
    BY <1>0, NewRow DEF TablesOK
  <1>2. \A g \in Previews : derived[g] # NoRow <=> derived[g].asset \in Assets
    BY <1>0, RowsTyped
  <1>3. \A b \in Assets : f \notin RowsOf(b) /\ asset[b].active # f
    BY <1>2, PreviewAssumptions DEF RowsOf, ResultsInv, ActiveOK
  <1>4. \A b \in Assets : SessionVideo(b)' <=> SessionVideo(b)
    BY DEF SessionVideo
  <1>5. Replaces(a, f) <=> SessionVideo(a)
    BY <1>3 DEF Replaces
  <1>6. \A g \in Previews : result'[g] =
            IF ~SessionVideo(a) THEN result[g]
            ELSE IF g = f THEN "ready" ELSE IF g = asset[a].active THEN "superseded" ELSE result[g]
    BY <1>5 DEF Superseding
  <1>7. Making(a) /\ \A b \in Assets : Making(b)' => Making(b)
    BY MakingStep DEF Making, Idle
  <1>8. ActiveOK'
    <2>1. ASSUME NEW b \in Assets, asset'[b].active # None
          PROVE  /\ SessionVideo(b)'
                 /\ asset'[b].active \in RowsOf(b)' /\ result'[asset'[b].active] = "ready"
                 /\ \A g \in RowsOf(b)' \ {asset'[b].active} :
                       derived'[g].id < derived'[asset'[b].active].id
      <3>1. CASE b = a
        <4>1. SessionVideo(a)
          BY <2>1, <3>1 DEF ResultsInv, ActiveOK
        <4>2. asset'[a].active = f /\ result'[f] = "ready"
          BY <1>6, <4>1
        <4>3. \A g \in RowsOf(a) : g \in Previews /\ g # f
          BY <1>3 DEF RowsOf
        <4>. QED
          BY <1>1, <1>4, <3>1, <4>1, <4>2, <4>3
      <3>2. CASE b # a
        <4>1. /\ asset'[b].active = asset[b].active /\ SessionVideo(b)
              /\ asset[b].active \in RowsOf(b) /\ result[asset[b].active] = "ready"
              /\ \A g \in RowsOf(b) \ {asset[b].active} :
                       derived[g].id < derived[asset[b].active].id
          BY <2>1, <3>2 DEF ResultsInv, ActiveOK
        <4>2. /\ asset[b].active # f /\ asset[b].active \in Previews
              /\ asset[b].active # asset[a].active
          BY <1>3, <3>2, <4>1, PreviewAssumptions DEF RowsOf, ResultsInv, ActiveOK
        <4>3. \A g \in RowsOf(b) : g \in Previews /\ derived'[g] = derived[g]
          BY <1>1, <1>3 DEF RowsOf
        <4>4. result'[asset[b].active] = "ready"
          BY <1>6, <4>1, <4>2
        <4>. QED
          BY <1>1, <1>4, <3>2, <4>1, <4>3, <4>4
      <3>. QED
        BY <3>1, <3>2
    <2>. QED
      BY <2>1 DEF ActiveOK
  <1>9. ResultsOK'
    <2>1. ASSUME NEW g \in Previews, derived'[g] = NoRow PROVE result'[g] = "none"
      <3>1. g # f /\ derived[g] = NoRow /\ result[g] = "none"
        BY <1>1, <2>1 DEF ResultsInv, ResultsOK
      <3>2. g # asset[a].active
        BY <3>1, PreviewAssumptions DEF ResultsInv, ActiveOK
      <3>. QED
        BY <1>6, <3>1, <3>2
    <2>2. ASSUME NEW g \in Previews, result'[g] = "ready"
          PROVE  asset'[derived'[g].asset].active = g
      <3>1. CASE g = f
        <4>1. result[f] = "none"
          BY DEF ResultsInv, ResultsOK
        <4>. QED
          BY <1>1, <1>6, <2>2, <3>1, <4>1
      <3>2. CASE g # f
        <4>1. result[g] = "ready" /\ (SessionVideo(a) => g # asset[a].active)
          BY <1>6, <2>2, <3>2
        <4>2. asset[derived[g].asset].active = g /\ derived[g].asset \in Assets
          BY <1>2, <4>1 DEF ResultsInv, ResultsOK
        <4>. QED
          BY <1>1, <3>2, <4>1, <4>2
      <3>. QED
        BY <3>1, <3>2
    <2>. QED
      BY <2>1, <2>2 DEF ResultsOK, NoRow
  <1>10. UnresultedOK'
    <2>1. ASSUME NEW b \in Assets, NEW g \in Previews, SessionVideo(b)', g \in RowsOf(b)',
                 result'[g] = "none"
          PROVE  RowsOf(b)' = {g} /\ ~Making(b)'
      <3>1. SessionVideo(b) /\ (SessionVideo(a) => g # f)
        BY <1>4, <1>6, <2>1
      <3>2. result[g] = "none"
        BY <1>6, <2>1
      <3>3. b # a
        BY <1>1, <1>7, <2>1, <3>1, <3>2 DEF ResultsInv, UnresultedOK
      <3>4. RowsOf(b)' = RowsOf(b)
        BY <1>1, <3>3
      <3>. QED
        BY <1>7, <2>1, <3>1, <3>2, <3>4 DEF ResultsInv, UnresultedOK
    <2>. QED
      BY <2>1 DEF UnresultedOK
  <1>11. SeenOK'
    <2>1. \A g \in Previews, b \in Assets : g \in RowsOf(b) => g \in RowsOf(b)'
      BY <1>1
    <2>2. worker'[w].pc = "idle"
      BY DEF Idle
    <2>. QED
      BY <1>0, <2>1, <2>2, SeenStep DEF ResultsInv
  <1>. QED
    BY <1>8, <1>9, <1>10, <1>11 DEF ResultsInv
LEMMA FinalizeNewResults ==
    ASSUME FilesInv, ResultsInv, NEW w \in Workers, FinalizeNew(w) PROVE ResultsInv'
  <1> DEFINE a == worker[w].asset
             f == worker[w].file
  <1>0. Typed /\ RowsOK /\ WorkersOK
    BY DEF FilesInv, Typed
  <1>1. /\ worker[w].pc = "encoded" /\ a \in Assets /\ f \in Previews
        /\ \A v \in Workers \ {w} : worker'[v] = worker[v]
        /\ \/ /\ Finalize(w, f) /\ worker'[w] = Idle
              /\ derived' = [derived EXCEPT ![f] = [asset |-> a, id |-> NextRow]]
           \/ UNCHANGED rows /\ worker'[w].pc = "cleanup"
    BY <1>0, FinalizeNewStep
  <1>2. CASE UNCHANGED rows /\ worker'[w].pc = "cleanup"
    BY <1>0, <1>1, <1>2, QuietResults, RowsTyped DEF rows
  <1>3. CASE /\ Finalize(w, f) /\ worker'[w] = Idle
             /\ derived' = [derived EXCEPT ![f] = [asset |-> a, id |-> NextRow]]
    <2>1. derived[f] = NoRow
      BY <1>1, PreviewAssumptions DEF FilesInv, HeldFilesOK
    <2>2. /\ asset'[a].log = asset[a].log
          /\ asset'[a].active = IF SessionVideo(a) THEN f ELSE asset[a].active
          /\ \A b \in Assets \ {a} : asset'[b] = asset[b]
      BY <1>0, <1>1, <1>3, FinalizeStep
    <2>3. result' = Superseding(a, f)
      BY <1>3 DEF Finalize
    <2>. QED
      BY <1>1, <1>3, <2>1, <2>2, <2>3, NewResult
  <1>. QED
    BY <1>1, <1>2, <1>3

LEMMA ResultsInit == ASSUME Init PROVE ResultsInv
  <1>0. Typed /\ RowsOK
    BY FilesInit DEF FilesInv
  <1>1. \A a \in Assets : asset[a].active = None
    BY InitTables
  <1>2. \A f \in Previews : result[f] = "none"
    BY InitTables
  <1>3. \A w \in Workers : worker[w].pc = "idle"
    BY InitTables DEF Idle
  <1>4. \A f \in Previews :
            \/ derived[f] = NoRow
            \/ \E v \in Videos : derived[f] = [asset |-> v, id |-> 1] /\ FirstRow[v] = f
    BY InitTables
  <1>5. ASSUME NEW a \in Assets, NEW f \in Previews, NEW g \in Previews,
               f \in RowsOf(a), g \in RowsOf(a)
        PROVE  f = g
    <2>1. derived[f].asset = a /\ derived[g].asset = a
      BY <1>5 DEF RowsOf
    <2>2. derived[f] # NoRow /\ derived[g] # NoRow
      BY <2>1, PreviewAssumptions DEF NoRow
    <2>3. PICK v \in Videos : derived[f] = [asset |-> v, id |-> 1] /\ FirstRow[v] = f
      BY <1>4, <2>2
    <2>4. PICK u \in Videos : derived[g] = [asset |-> u, id |-> 1] /\ FirstRow[u] = g
      BY <1>4, <2>2
    <2>5. v = a /\ u = a
      BY <2>1, <2>3, <2>4
    <2>. QED
      BY <2>3, <2>4, <2>5
  <1>6. ActiveOK
    BY <1>1 DEF ActiveOK
  <1>7. ResultsOK
    BY <1>2 DEF ResultsOK
  <1>8. UnresultedOK
    BY <1>3, <1>5 DEF UnresultedOK, Making, RowsOf
  <1>9. SeenOK
    BY <1>3 DEF SeenOK
  <1>. QED
    BY <1>6, <1>7, <1>8, <1>9 DEF ResultsInv

LEMMA RecoverAndBackfillResults ==
    ASSUME FilesInv, ResultsInv, NEW w \in Workers, RecoverAndBackfill(w) PROVE ResultsInv'
  <1>0. /\ Typed /\ RowsOK /\ WorkersOK
        /\ \A g \in Previews : derived[g] # NoRow => derived[g].asset \in Assets
    BY RowsTyped DEF FilesInv, Typed
  <1>1. CASE RemoveOrphan(w)
    <2>1. worker[w].pc = "recovered" /\ UNCHANGED <<rows, worker>>
      BY <1>1 DEF RemoveOrphan
    <2>. QED
      BY <1>0, <2>1, QuietResults DEF rows
  <1>2. CASE ListCandidates(w)
    BY <1>0, <1>2, ListCandidatesStep, QuietResults DEF ListCandidates, rows
  <1>3. CASE InspectCandidate(w)
    BY <1>0, <1>3, InspectCandidateStep, QuietResults DEF InspectCandidate, rows
  <1>4. CASE CommitBackfill(w)
    BY <1>4, CommitBackfillResults
  <1>5. CASE PersistOutcome(w)
    <2>1. /\ worker'[w].pc = "listed" /\ \A v \in Workers \ {w} : worker'[v] = worker[v]
          /\ \A b \in Assets : asset'[b].active = asset[b].active /\ asset'[b].log = asset[b].log
      BY <1>0, <1>5, PersistOutcomeStep
    <2>. QED
      BY <1>0, <1>5, <2>1, QuietResults DEF PersistOutcome
  <1>. QED
    BY <1>1, <1>2, <1>3, <1>4, <1>5 DEF RecoverAndBackfill

LEMMA ProcessPreviewResults ==
    ASSUME FilesInv, ResultsInv, NEW w \in Workers, ProcessPreview(w) PROVE ResultsInv'
  <1>0. /\ Typed /\ RowsOK /\ WorkersOK
        /\ \A g \in Previews : derived[g] # NoRow => derived[g].asset \in Assets
    BY RowsTyped DEF FilesInv, Typed
  <1>1. CASE ReadAsset(w)
    <2> DEFINE a == worker[w].asset
    <2>1. /\ worker'[w].asset = a /\ \A v \in Workers \ {w} : worker'[v] = worker[v]
          /\ worker'[w].pc \in {"failing", "encoding", "existing"}
          /\ worker'[w].pc = "encoding" => RowsOf(a) = {}
          /\ worker'[w].pc = "existing" => worker'[w].seen \in RowsOf(a)
      BY <1>0, <1>1, ReadAssetStep
    <2>. QED
      BY <1>0, <1>1, <2>1, QuietResults DEF ReadAsset, rows
  <1>2. CASE Encode(w)
    <2>1. /\ worker[w].pc = "encoding" /\ worker'[w].asset = worker[w].asset
          /\ worker'[w].pc \in {"failing", "encoded"}
          /\ \A v \in Workers \ {w} : worker'[v] = worker[v]
      BY <1>0, <1>2, EncodeStep
    <2>. QED
      BY <1>0, <1>2, <2>1, QuietResults DEF Encode, rows
  <1>3. CASE FinalizeNew(w)
    BY <1>3, FinalizeNewResults
  <1>4. CASE CleanUpPreview(w)
    BY <1>0, <1>4, CleanUpPreviewStep, QuietResults DEF CleanUpPreview, rows
  <1>5. CASE InspectExisting(w)
    <2>1. /\ worker[w].pc = "existing" /\ worker'[w].asset = worker[w].asset
          /\ worker'[w].seen = worker[w].seen /\ worker'[w].pc \in {"confirmed", "failing"}
          /\ \A v \in Workers \ {w} : worker'[v] = worker[v]
      BY <1>0, <1>5, InspectExistingStep
    <2>2. worker[w].seen \in RowsOf(worker[w].asset)
      BY <2>1 DEF ResultsInv, SeenOK
    <2>. QED
      BY <1>0, <1>5, <2>1, <2>2, QuietResults DEF InspectExisting, rows
  <1>6. CASE FinalizeExisting(w)
    BY <1>6, FinalizeExistingResults
  <1>7. CASE MarkRetryable(w)
    <2>1. /\ worker'[w].pc \in {"idle", "failing"} /\ \A v \in Workers \ {w} : worker'[v] = worker[v]
          /\ \A b \in Assets : asset'[b].active = asset[b].active /\ asset'[b].log = asset[b].log
      BY <1>0, <1>7, MarkRetryableStep DEF Idle
    <2>. QED
      BY <1>0, <1>7, <2>1, QuietResults DEF MarkRetryable
  <1>8. CASE MarkFailed(w)
    <2>1. /\ worker'[w].pc = "idle" /\ \A v \in Workers \ {w} : worker'[v] = worker[v]
          /\ \A b \in Assets : asset'[b].active = asset[b].active /\ asset'[b].log = asset[b].log
      BY <1>0, <1>8, MarkFailedStep DEF Idle
    <2>. QED
      BY <1>0, <1>8, <2>1, QuietResults DEF MarkFailed
  <1>. QED
    BY <1>1, <1>2, <1>3, <1>4, <1>5, <1>6, <1>7, <1>8 DEF ProcessPreview

\* Steps of nobody's worker.
LEMMA OutsideResults ==
    ASSUME FilesInv, ResultsInv, UNCHANGED <<derived, result, worker>>,
           \A a \in Assets : asset'[a].active = asset[a].active,
           \A a \in Assets : a \in Videos => asset'[a].log = asset[a].log
    PROVE  ResultsInv'
  <1>1. CASE Workers = {}
    <2>1. \A f \in Previews : derived[f] # NoRow => derived[f].asset \in Assets
      BY RowsTyped DEF FilesInv
    <2>2. \A f \in Previews : result[f] = "ready" => derived[f].asset \in Assets
      BY <2>1 DEF ResultsInv, ResultsOK
    <2>. QED
      BY <1>1, <2>2 DEF ResultsInv, ActiveOK, ResultsOK, UnresultedOK, SeenOK, RowsOf, Making,
         SessionVideo, NoRow
  <1>2. ASSUME NEW w \in Workers PROVE ResultsInv'
    <2>1. worker[w].pc \in {"existing", "confirmed"} =>
              worker[w].seen \in RowsOf(worker[w].asset)
      BY DEF ResultsInv, SeenOK
    <2>. QED
      BY <2>1, QuietResults, RowsTyped DEF FilesInv, Typed
  <1>. QED
    BY <1>1, <1>2

LEMMA ResultsStep == ASSUME FilesInv, ResultsInv, [Next]_vars PROVE ResultsInv'
  <1>0. /\ Typed /\ RowsOK /\ WorkersOK
        /\ \A g \in Previews : derived[g] # NoRow => derived[g].asset \in Assets
    BY RowsTyped DEF FilesInv, Typed
  <1>1. CASE UNCHANGED vars
    BY <1>1, OutsideResults DEF vars, rows
  <1>2. CASE DirectUploadNext \/ ApiKilled
    <2>1. ASSUME NEW p \in Photos, CommitAsset(p)
          PROVE  \A a \in Assets : /\ asset'[a].active = asset[a].active
                                   /\ a \in Videos => asset'[a].log = asset[a].log
      <3>1. p \in Assets /\ p \notin Videos
        BY PreviewAssumptions DEF Assets
      <3>2. InsertAsset(p) \/ UNCHANGED asset
        BY <2>1 DEF CommitAsset
      <3>. QED
        BY <1>0, <3>1, <3>2, InsertAssetStep DEF Typed
    <2>2. /\ \A a \in Assets : asset'[a].active = asset[a].active
          /\ \A a \in Assets : a \in Videos => asset'[a].log = asset[a].log
      BY <1>2, <2>1 DEF DirectUploadNext, SaveUpload, MoveOriginal, UndoUpload, ApiKilled, rows
    <2>3. UNCHANGED <<derived, result, worker>>
      BY <1>2 DEF DirectUploadNext, SaveUpload, MoveOriginal, CommitAsset, UndoUpload,
         ApiKilled, rows
    <2>. QED
      BY <2>2, <2>3, OutsideResults
  <1>3. ASSUME NEW w \in Workers, WorkerStep(w) \/ WorkerKilled(w) PROVE ResultsInv'
    <2>1. CASE RecoverAndBackfill(w)
      BY <2>1, RecoverAndBackfillResults
    <2>2. CASE ProcessPreview(w)
      BY <2>2, ProcessPreviewResults
    <2>3. CASE RecoverExpiredJobs(w)
      <3>1. /\ worker'[w] = [worker[w] EXCEPT !.pc = "recovered"] /\ worker[w] \in Worker
            /\ \A v \in Workers \ {w} : worker'[v] = worker[v]
        BY <1>0, <2>3, RecoverExpiredJobsStep DEF WorkersOK
      <3>2. worker'[w].pc = "recovered"
        BY <3>1 DEF Worker
      <3>. QED
        BY <1>0, <2>3, <3>1, <3>2, QuietResults DEF RecoverExpiredJobs
    <2>4. CASE ClaimNextJob(w)
      <3>1. /\ worker'[w].pc \in {"idle", "claimed"} /\ \A v \in Workers \ {w} : worker'[v] = worker[v]
        BY <1>0, <2>4, ClaimNextJobStep DEF Idle
      <3>. QED
        BY <1>0, <2>4, <3>1, QuietResults DEF ClaimNextJob
    <2>5. CASE RoundFails(w) \/ WorkerKilled(w)
      <3>1. Leave(w) /\ UNCHANGED <<asset, derived, result>>
        BY <2>5 DEF RoundFails, WorkerKilled, GiveUp, rows
      <3>2. /\ worker'[w].pc = "idle" /\ \A v \in Workers \ {w} : worker'[v] = worker[v]
        BY <1>0, <3>1, LeaveStep DEF Idle
      <3>. QED
        BY <1>0, <3>1, <3>2, QuietResults
    <2>. QED
      BY <1>3, <2>1, <2>2, <2>3, <2>4, <2>5 DEF WorkerStep
  <1>4. ASSUME NEW a \in Assets, LeaseEnds(a) PROVE ResultsInv'
    BY <1>4, OutsideResults DEF LeaseEnds
  <1>5. ASSUME NEW f \in Previews, GrowsOld(f) \/ FileLost(f) PROVE ResultsInv'
    BY <1>5, OutsideResults DEF GrowsOld, FileLost, rows
  <1>. QED
    BY <1>1, <1>2, <1>3, <1>4, <1>5 DEF Next

\* Per asset the rows, their results and the active one, with what each worker has read of them.
THEOREM ResultsInvariant == Spec => []ResultsInv
  BY FilesInvariant, ResultsInit, ResultsStep, PTL DEF Spec

\* What is displayed is the newest preview, and only its result is not superseded.
THEOREM NewestIsDisplayed == Spec => []ActiveIsLatest
  <1>1. ASSUME FilesInv, ResultsInv, NEW f \in Previews
        PROVE  result[f] = "ready" <=> \E a \in Assets : asset[a].active = f /\ Latest(a) = f
    <2>0. Typed /\ RowsOK
      BY <1>1 DEF FilesInv
    <2>1. ASSUME NEW a \in Assets, asset[a].active = f PROVE result[f] = "ready"
      BY <1>1, <2>1, PreviewAssumptions DEF ResultsInv, ActiveOK
    <2>2. ASSUME result[f] = "ready"
          PROVE  \E a \in Assets : asset[a].active = f /\ Latest(a) = f
      <3> DEFINE a == derived[f].asset
      <3>1. a \in Assets /\ asset[a].active = f
        BY <1>1, <2>0, <2>2, RowsTyped DEF ResultsInv, ResultsOK
      <3>2. f \in RowsOf(a)
        BY DEF RowsOf
      <3>3. \A g \in RowsOf(a) \ {f} : derived[g].id < derived[f].id
        BY <1>1, <3>1, PreviewAssumptions DEF ResultsInv, ActiveOK
      <3>4. /\ Latest(a) \in RowsOf(a) /\ derived[f].id <= derived[Latest(a)].id
            /\ Latest(a) \in Previews
        BY <2>0, <3>1, <3>2, LatestNewest DEF Newest
      <3>5. derived[f].id \in Nat /\ derived[Latest(a)].id \in Nat
        BY <2>0, <3>4 DEF Typed, TablesOK, Derived
      <3>6. Latest(a) = f
        BY <3>3, <3>4, <3>5
      <3>. QED
        BY <3>1, <3>6
    <2>. QED
      BY <2>1, <2>2
  <1>2. FilesInv /\ ResultsInv => ActiveIsLatest
    BY <1>1 DEF ActiveIsLatest
  <1>. QED
    BY <1>2, FilesInvariant, ResultsInvariant, PTL
-----------------------------------------------------------------------------
(***************************************************************************)
(* Uploads. What a request left does not depend on the workers, and they   *)
(* neither make an asset or a job nor take one away.                       *)
(***************************************************************************)
LEMMA UploadsInit == ASSUME Init PROVE UploadsInv
  <1>1. /\ \A p \in Photos : upload[p] = Request("ready", FALSE, FALSE)
        /\ \A a \in Assets : asset[a].preview = "absent" <=> job[a].status = "absent"
        /\ \A p \in Photos : asset[p].preview = "absent"
    BY InitTables, PreviewAssumptions DEF Assets
  <1>2. \A p \in Photos : upload[p].pc = "ready"
    BY <1>1 DEF Request
  <1>3. \A w \in Workers : worker[w].asset = None
    BY InitTables DEF Idle
  <1>. QED
    BY <1>1, <1>2, <1>3 DEF UploadsInv, RequestOK

LEMMA RequestLater ==
    ASSUME NEW u \in Upload, NEW m \in Nat, NEW n \in Nat, m <= n, RequestOK(u, m)
    PROVE  RequestOK(u, n)
  <1>1. (m > 0 => n > 0) /\ (m > 1 => n > 1)
    OBVIOUS
  <1>. QED
    BY <1>1 DEF RequestOK, Upload

LEMMA FaultsNat == ASSUME Typed PROVE used.faults \in Nat /\ used.overdue \in Nat
  BY DEF Typed, UsedOK, Used

\* One worker goes on with an asset that exists.
LEMMA WorkUploads ==
    ASSUME Typed, Typed', UploadsInv, NEW w \in Workers, UNCHANGED upload,
           used'.faults >= used.faults,
           \A a \in Assets : asset[a].preview = "absent" <=> asset'[a].preview = "absent",
           \A a \in Assets : job[a].status = "absent" <=> job'[a].status = "absent",
           \A v \in Workers \ {w} : worker'[v] = worker[v],
           \/ worker'[w].asset \in {None, worker[w].asset}
           \/ asset[worker'[w].asset].preview # "absent"
    PROVE  UploadsInv'
  <1>1. used.faults \in Nat /\ used'.faults \in Nat
    BY FaultsNat DEF Typed, UsedOK, Used
  <1>2. \A p \in Photos : RequestOK(upload'[p], used'.faults)
    BY <1>1, RequestLater DEF UploadsInv, Typed, TablesOK
  <1>3. \A v \in Workers : worker'[v].asset \in Assets \cup {None}
    BY DEF Typed, WorkersOK, Worker
  <1>4. \A v \in Workers : worker'[v].asset # None => asset[worker'[v].asset].preview # "absent"
    BY DEF UploadsInv
  <1>5. \A v \in Workers : worker'[v].asset # None => asset'[worker'[v].asset].preview # "absent"
    BY <1>3, <1>4
  <1>6. \A p \in Photos : p \in Assets
    BY DEF Assets
  <1>. QED
    BY <1>2, <1>5, <1>6 DEF UploadsInv, RequestOK

LEMMA OutsideUploads ==
    ASSUME Typed, Typed', UploadsInv, UNCHANGED <<asset, worker, upload>>,
           used'.faults >= used.faults,
           \A a \in Assets : job[a].status = "absent" <=> job'[a].status = "absent"
    PROVE  UploadsInv'
  <1>1. used.faults \in Nat /\ used'.faults \in Nat
    BY FaultsNat DEF Typed, UsedOK, Used
  <1>2. \A p \in Photos : RequestOK(upload'[p], used'.faults)
    BY <1>1, RequestLater DEF UploadsInv, Typed, TablesOK
  <1>. QED
    BY <1>2 DEF UploadsInv, RequestOK

\* A step of one request to a state that fits the errors there were.
LEMMA RequestUploads ==
    ASSUME Typed, Typed', UploadsInv, NEW p \in Photos, NEW u \in Upload, UploadTo(p, u),
           u.pc # "done", upload[p].pc # "done", UNCHANGED <<asset, job, worker>>,
           used'.faults >= used.faults, RequestOK(u, used'.faults)
    PROVE  UploadsInv'
  <1>1. used.faults \in Nat /\ used'.faults \in Nat
    BY FaultsNat DEF Typed, UsedOK, Used
  <1>2. upload'[p] = u /\ \A q \in Photos \ {p} : upload'[q] = upload[q]
    BY RequestTyped DEF Typed
  <1>3. \A q \in Photos : RequestOK(upload'[q], used'.faults)
    BY <1>1, <1>2, RequestLater DEF UploadsInv, Typed, TablesOK
  <1>4. \A q \in Photos : upload'[q].pc = "done" <=> upload[q].pc = "done"
    BY <1>2
  <1>. QED
    BY <1>3, <1>4 DEF UploadsInv, RequestOK

LEMMA DirectUploads ==
    ASSUME Typed, Typed', UploadsInv, DirectUploadNext \/ ApiKilled PROVE UploadsInv'
  <1>1. used.faults \in Nat /\ UsedOK
    BY FaultsNat DEF Typed
  <1>2. ASSUME NEW p \in Photos, SaveUpload(p) PROVE UploadsInv'
    <2>1. PICK u \in {Request("saved", TRUE, FALSE), Request("refused", FALSE, FALSE)} : UploadTo(p, u)
      BY <1>2 DEF SaveUpload
    <2>2. /\ Request("saved", TRUE, FALSE).pc = "saved"
          /\ Request("refused", FALSE, FALSE).pc = "refused"
          /\ ~Request("refused", FALSE, FALSE).tmp /\ ~Request("refused", FALSE, FALSE).original
      BY DEF Request
    <2>3. u \in Upload /\ u.pc # "done" /\ RequestOK(u, used.faults)
      BY <2>1, <2>2, RequestIn DEF RequestOK
    <2>4. /\ UNCHANGED <<asset, job, worker>> /\ used' = used /\ upload[p].pc # "done"
          /\ used'.faults >= used.faults
      BY <1>1, <1>2 DEF SaveUpload, rows
    <2>. QED
      BY <2>1, <2>3, <2>4, RequestUploads
  <1>3. ASSUME NEW p \in Photos, MoveOriginal(p) PROVE UploadsInv'
    <2>1. CASE UploadTo(p, Request("moved", FALSE, TRUE)) /\ UNCHANGED used
      <3>1. LET u == Request("moved", FALSE, TRUE) IN
            u \in Upload /\ u.pc # "done" /\ RequestOK(u, used.faults)
        BY DEF Request, RequestOK, Upload
      <3>2. /\ UNCHANGED <<asset, job, worker>> /\ used' = used /\ upload[p].pc # "done"
            /\ used'.faults >= used.faults
        BY <1>1, <1>3, <2>1 DEF MoveOriginal, rows
      <3>. QED
        BY <2>1, <3>1, <3>2, RequestUploads
    <2>2. CASE UploadTo(p, Request("undo", TRUE, FALSE)) /\ Fault
      <3>1. used'.faults = used.faults + 1
        BY <1>1, <2>2, FaultStep
      <3>2. LET u == Request("undo", TRUE, FALSE) IN
            u \in Upload /\ u.pc # "done" /\ RequestOK(u, used'.faults)
        BY <1>1, <3>1 DEF Request, RequestOK, Upload
      <3>3. /\ UNCHANGED <<asset, job, worker>> /\ upload[p].pc # "done"
            /\ used'.faults >= used.faults
        BY <1>1, <1>3, <3>1 DEF MoveOriginal, rows
      <3>. QED
        BY <2>2, <3>2, <3>3, RequestUploads
    <2>. QED
      BY <1>3, <2>1, <2>2 DEF MoveOriginal
  <1>4. ASSUME NEW p \in Photos, CommitAsset(p) PROVE UploadsInv'
    <2>1. CASE UploadTo(p, Request("undo", FALSE, TRUE)) /\ Fault /\ UNCHANGED <<asset, job>>
      <3>1. used'.faults = used.faults + 1
        BY <1>1, <2>1, FaultStep
      <3>2. LET u == Request("undo", FALSE, TRUE) IN
            u \in Upload /\ u.pc # "done" /\ RequestOK(u, used'.faults)
        BY <1>1, <3>1 DEF Request, RequestOK, Upload
      <3>3. /\ UNCHANGED <<asset, job, worker>> /\ upload[p].pc # "done"
            /\ used'.faults >= used.faults
        BY <1>1, <1>4, <2>1, <3>1 DEF CommitAsset
      <3>. QED
        BY <2>1, <3>2, <3>3, RequestUploads
    <2>2. CASE /\ InsertAsset(p)
               /\ job' = [job EXCEPT ![p] =
                    Queued(1 + Cardinality({a \in Assets : job[a].status # "absent"}))]
               /\ UploadTo(p, Request("done", FALSE, TRUE))
               /\ UNCHANGED used
      <3> DEFINE u == Request("done", FALSE, TRUE)
      <3>0. p \in Assets
        BY DEF Assets
      <3>1. u \in Upload /\ u.pc = "done" /\ RequestOK(u, used'.faults)
        BY DEF Request, RequestOK, Upload
      <3>2. upload'[p] = u /\ \A q \in Photos \ {p} : upload'[q] = upload[q]
        BY <2>2, <3>1, RequestTyped DEF Typed
      <3>3. /\ asset'[p].preview = "preview_generating"
            /\ \A b \in Assets \ {p} : asset'[b] = asset[b]
        BY <2>2, <3>0, InsertAssetStep DEF Typed
      <3>4. job'[p].status = "queued" /\ \A b \in Assets \ {p} : job'[b] = job[b]
        <4>1. Cardinality({a \in Assets : job[a].status # "absent"}) \in Nat
          BY PreviewAssumptions, FS_Subset, FS_CardinalityType
        <4>. QED
          BY <2>2, <3>0, <4>1, QueuedTyped DEF Typed, TablesOK
      <3>5. \A q \in Photos : q \in Assets
        BY DEF Assets
      <3>6. \A q \in Photos : /\ RequestOK(upload'[q], used'.faults)
                              /\ asset'[q].preview # "absent" <=> upload'[q].pc = "done"
        BY ZenonT(60), <2>2, <3>1, <3>2, <3>3, <3>5 DEF UploadsInv
      <3>7. \A a \in Assets : asset'[a].preview = "absent" <=> job'[a].status = "absent"
        BY <3>3, <3>4 DEF UploadsInv
      <3>8. \A w \in Workers : worker[w].asset \in Assets \cup {None}
        BY DEF Typed, WorkersOK, Worker
      <3>9. \A w \in Workers : worker'[w].asset # None => asset'[worker'[w].asset].preview # "absent"
        BY <1>4, <3>3, <3>8 DEF CommitAsset, UploadsInv
      <3>. QED
        BY <3>6, <3>7, <3>9 DEF UploadsInv, RequestOK
    <2>. QED
      BY <1>4, <2>1, <2>2 DEF CommitAsset
  <1>5. ASSUME NEW p \in Photos, UndoUpload(p) PROVE UploadsInv'
    <2>1. upload[p].pc = "undo" /\ used.faults > 0 /\ upload[p] \in Upload
      BY <1>5 DEF UndoUpload, UploadsInv, RequestOK, Typed, TablesOK
    <2>2. CASE UploadTo(p, Request("refused", FALSE, FALSE)) /\ UNCHANGED used
      <3>1. LET u == Request("refused", FALSE, FALSE) IN
            u \in Upload /\ u.pc # "done" /\ RequestOK(u, used.faults)
        BY DEF Request, RequestOK, Upload
      <3>2. /\ UNCHANGED <<asset, job, worker>> /\ used' = used /\ upload[p].pc # "done"
            /\ used'.faults >= used.faults
        BY <1>1, <1>5, <2>1, <2>2 DEF UndoUpload, rows
      <3>. QED
        BY <2>2, <3>1, <3>2, RequestUploads
    <2>3. CASE UploadTo(p, [upload[p] EXCEPT !.pc = "refused"]) /\ Fault
      <3> DEFINE u == [upload[p] EXCEPT !.pc = "refused"]
      <3>1. used'.faults = used.faults + 1
        BY <1>1, <2>3, FaultStep
      <3>2. u \in Upload /\ u.pc = "refused"
        BY <2>1 DEF Upload
      <3>3. RequestOK(u, used'.faults)
        BY <1>1, <2>1, <3>1, <3>2 DEF RequestOK
      <3>4. /\ UNCHANGED <<asset, job, worker>> /\ upload[p].pc # "done"
            /\ used'.faults >= used.faults
        BY <1>1, <1>5, <2>1, <3>1 DEF UndoUpload, rows
      <3>5. UploadTo(p, u) /\ u.pc # "done"
        BY <2>3, <3>2
      <3> HIDE DEF u
      <3>. QED
        BY <3>2, <3>3, <3>4, <3>5, RequestUploads
    <2>. QED
      BY <1>5, <2>2, <2>3 DEF UndoUpload
  <1>6. CASE ApiKilled
    <2>1. UNCHANGED <<asset, job, worker>> /\ used'.faults = used.faults
      BY <1>1, <1>6, KillCounted DEF ApiKilled, rows
    <2>2. ASSUME NEW p \in Photos
          PROVE  /\ upload'[p] = upload[p] \/ (upload'[p].pc = "killed" /\ upload[p].pc # "done")
                 /\ RequestOK(upload'[p], used'.faults)
      <3>1. upload[p] \in Upload /\ RequestOK(upload[p], used.faults)
        BY DEF Typed, TablesOK, UploadsInv
      <3>2. \/ upload'[p] = upload[p]
            \/ /\ upload'[p] = [upload[p] EXCEPT !.pc = "killed"]
               /\ upload[p].pc \in {"saved", "moved", "undo"}
        BY <1>6 DEF ApiKilled
      <3>3. [upload[p] EXCEPT !.pc = "killed"].pc = "killed"
        BY <3>1 DEF Upload
      <3>. QED
        BY <2>1, <3>1, <3>2, <3>3 DEF RequestOK
    <2>3. \A p \in Photos : upload'[p].pc = "done" <=> upload[p].pc = "done"
      BY <2>2
    <2>. QED
      BY <2>1, <2>2, <2>3 DEF UploadsInv, RequestOK
  <1>. QED
    BY <1>2, <1>3, <1>4, <1>5, <1>6 DEF DirectUploadNext
\* A worker settles the asset and the job it works on, both of which exist.
LEMMA SettlingUploads ==
    ASSUME Typed, Typed', UploadsInv, NEW w \in Workers, worker[w].asset \in Assets,
           UNCHANGED upload, used'.faults >= used.faults,
           asset'[worker[w].asset].preview # "absent", job'[worker[w].asset].status # "absent",
           \A b \in Assets \ {worker[w].asset} : asset'[b] = asset[b] /\ job'[b].status = job[b].status,
           \A v \in Workers \ {w} : worker'[v] = worker[v],
           worker'[w].asset \in {None, worker[w].asset}
    PROVE  UploadsInv'
  <1>1. worker[w].asset # None
    BY PreviewAssumptions
  <1>2. asset[worker[w].asset].preview # "absent" /\ job[worker[w].asset].status # "absent"
    BY <1>1 DEF UploadsInv
  <1>. QED
    BY <1>2, WorkUploads

LEMMA RecoverAndBackfillUploads ==
    ASSUME Typed, Typed', RowsOK, UploadsInv, NEW w \in Workers, RecoverAndBackfill(w)
    PROVE  UploadsInv'
  <1>0. used.faults \in Nat /\ used'.faults \in Nat /\ UsedOK
    BY FaultsNat DEF Typed, UsedOK, Used
  <1>1. CASE RemoveOrphan(w)
    BY <1>0, <1>1, OutsideUploads DEF RemoveOrphan, rows
  <1>2. CASE ListCandidates(w)
    <2>1. \A v \in Workers \ {w} : worker'[v] = worker[v]
      BY <1>2, ListCandidatesStep
    <2>2. worker'[w].asset = worker[w].asset
      BY <1>2, ListCandidatesStep
    <2>3. UNCHANGED <<asset, job, upload, used>>
      BY <1>2 DEF ListCandidates, rows
    <2>. QED
      BY <1>0, <2>1, <2>2, <2>3, WorkUploads
  <1>3. CASE InspectCandidate(w)
    <2>1. /\ \A v \in Workers \ {w} : worker'[v] = worker[v]
          /\ worker'[w].pc = "listed" => worker'[w].asset = worker[w].asset
          /\ worker'[w].pc # "listed" => Candidate(worker'[w].asset) # None
          /\ worker'[w].pc \in {"listed", "inspected", "outcome"}
      BY <1>3, InspectCandidateStep
    <2>2. worker'[w].pc # "listed" => worker'[w].asset \in Assets
      BY <2>1 DEF Typed, WorkersOK, Fits
    <2>3. worker'[w].pc # "listed" => asset[worker'[w].asset].preview # "absent"
      BY <2>1, <2>2, CandidateFound
    <2>4. used'.faults >= used.faults
      BY <1>0, <1>3, FaultStep DEF InspectCandidate
    <2>. QED
      BY <1>3, <2>1, <2>3, <2>4, WorkUploads DEF InspectCandidate, rows
  <1>4. CASE CommitBackfill(w)
    <2> DEFINE a == worker[w].asset
               f == worker[w].seen
    <2>1. /\ a \in Assets /\ \A v \in Workers \ {w} : worker'[v] = worker[v]
          /\ worker'[w].asset \in {None, a} /\ used'.faults >= used.faults
          /\ \/ UNCHANGED <<asset, result>>
             \/ asset' = [asset EXCEPT ![a].active = f]
      BY <1>4, CommitBackfillStep
    <2>2. \A b \in Assets : asset'[b].preview = asset[b].preview
      BY <2>1 DEF Typed, TablesOK, Asset
    <2>. QED
      BY <1>4, <2>1, <2>2, WorkUploads DEF CommitBackfill
  <1>5. CASE PersistOutcome(w)
    <2> DEFINE a == worker[w].asset
    <2>1. /\ a \in Assets /\ \A v \in Workers \ {w} : worker'[v] = worker[v]
          /\ worker'[w].asset = None
          /\ \A b \in Assets \ {a} : asset'[b] = asset[b] /\ job'[b] = job[b]
          /\ \/ asset'[a].preview = asset[a].preview
             \/ asset'[a].preview \in {"preview_ready", "failed"}
          /\ job'[a].status \in {"done", "failed"}
      BY <1>5, PersistOutcomeStep, StoredStatus
    <2>2. asset[a].preview # "absent"
      BY <2>1, PreviewAssumptions DEF UploadsInv
    <2>3. asset'[a].preview # "absent" /\ job'[a].status # "absent"
      BY <2>1, <2>2
    <2>4. UNCHANGED upload /\ used'.faults >= used.faults
      BY <1>0, <1>5 DEF PersistOutcome
    <2>5. \A b \in Assets \ {a} : asset'[b] = asset[b] /\ job'[b].status = job[b].status
      BY <2>1
    <2>. QED
      BY <2>1, <2>3, <2>4, <2>5, SettlingUploads
  <1>. QED
    BY <1>1, <1>2, <1>3, <1>4, <1>5 DEF RecoverAndBackfill

LEMMA FinalizeUploads ==
    ASSUME Typed, Typed', UploadsInv, NEW w \in Workers, worker[w].asset \in Assets,
           NEW f \in Previews, Finalize(w, f), UNCHANGED upload, used'.faults >= used.faults
    PROVE  UploadsInv'
  <1> DEFINE a == worker[w].asset
  <1>1. /\ worker'[w] = Idle /\ \A v \in Workers \ {w} : worker'[v] = worker[v]
        /\ job'[a].status = "done" /\ asset'[a].preview = Stored(a, "preview_ready")
        /\ \A b \in Assets \ {a} : asset'[b] = asset[b] /\ job'[b] = job[b]
    BY FinalizeStep
  <1>2. worker'[w].asset = None
    BY <1>1 DEF Idle
  <1>3. asset'[a].preview # "absent"
    BY <1>1, StoredStatus
  <1>. QED
    BY <1>1, <1>2, <1>3, SettlingUploads

LEMMA GiveUpUploads ==
    ASSUME Typed, Typed', UploadsInv, NEW w \in Workers, GiveUp(w),
           UNCHANGED <<asset, upload>>, used'.faults >= used.faults
    PROVE  UploadsInv'
  <1>1. /\ worker'[w] = Idle /\ \A v \in Workers \ {w} : worker'[v] = worker[v]
        /\ \A a \in Assets : job'[a].status = job[a].status
    BY GiveUpStep
  <1>2. worker'[w].asset = None
    BY <1>1 DEF Idle
  <1>. QED
    BY <1>1, <1>2, WorkUploads

LEMMA ProcessPreviewUploads ==
    ASSUME Typed, Typed', RowsOK, UploadsInv, NEW w \in Workers, ProcessPreview(w)
    PROVE  UploadsInv'
  <1>0. used.faults \in Nat /\ used'.faults \in Nat /\ UsedOK
    BY FaultsNat DEF Typed, UsedOK, Used
  <1>1. CASE ReadAsset(w)
    <2>1. /\ \A v \in Workers \ {w} : worker'[v] = worker[v]
          /\ worker'[w].asset = worker[w].asset /\ used'.faults >= used.faults
      BY <1>1, ReadAssetStep
    <2>. QED
      BY <1>1, <2>1, WorkUploads DEF ReadAsset, rows
  <1>2. CASE Encode(w)
    <2>1. /\ \A v \in Workers \ {w} : worker'[v] = worker[v]
          /\ worker'[w].asset = worker[w].asset
      BY <1>2, EncodeStep
    <2>. QED
      BY <1>0, <1>2, <2>1, WorkUploads DEF Encode, rows
  <1>3. CASE FinalizeNew(w)
    <2>1. /\ worker[w].asset \in Assets /\ worker[w].file \in Previews
          /\ used'.faults >= used.faults /\ \A v \in Workers \ {w} : worker'[v] = worker[v]
          /\ \/ Finalize(w, worker[w].file)
             \/ UNCHANGED rows /\ worker'[w].asset = worker[w].asset
      BY <1>3, FinalizeNewStep
    <2>2. CASE Finalize(w, worker[w].file)
      BY <1>3, <2>1, <2>2, FinalizeUploads DEF FinalizeNew
    <2>3. CASE UNCHANGED rows /\ worker'[w].asset = worker[w].asset
      BY <1>3, <2>1, <2>3, WorkUploads DEF FinalizeNew, rows
    <2>. QED
      BY <2>1, <2>2, <2>3
  <1>4. CASE CleanUpPreview(w)
    BY <1>4, CleanUpPreviewStep, WorkUploads DEF CleanUpPreview, rows
  <1>5. CASE InspectExisting(w)
    BY <1>5, InspectExistingStep, WorkUploads DEF InspectExisting, rows
  <1>6. CASE FinalizeExisting(w)
    <2>1. /\ worker[w].asset \in Assets /\ worker[w].seen \in Previews
          /\ used'.faults >= used.faults /\ \A v \in Workers \ {w} : worker'[v] = worker[v]
          /\ \/ Finalize(w, worker[w].seen)
             \/ UNCHANGED <<asset, job>> /\ worker'[w].asset = worker[w].asset
      BY <1>6, FinalizeExistingStep
    <2>2. CASE Finalize(w, worker[w].seen)
      BY <1>6, <2>1, <2>2, FinalizeUploads DEF FinalizeExisting
    <2>3. CASE UNCHANGED <<asset, job>> /\ worker'[w].asset = worker[w].asset
      BY <1>6, <2>1, <2>3, WorkUploads DEF FinalizeExisting
    <2>. QED
      BY <2>1, <2>2, <2>3
  <1>7. CASE MarkRetryable(w)
    <2> DEFINE a == worker[w].asset
    <2>1. /\ a \in Assets /\ used'.faults >= used.faults
          /\ \A v \in Workers \ {w} : worker'[v] = worker[v]
          /\ \/ /\ worker'[w] = Idle /\ asset'[a].preview \in {"preview_ready", "failed"}
                /\ job'[a].status = "failed"
             \/ UNCHANGED <<asset, job>> /\ worker'[w].asset = a
          /\ \A b \in Assets \ {a} : asset'[b] = asset[b] /\ job'[b] = job[b]
      BY <1>7, MarkRetryableStep, StoredStatus
    <2>2. CASE worker'[w] = Idle /\ asset'[a].preview \in {"preview_ready", "failed"} /\ job'[a].status = "failed"
      BY <1>7, <2>1, <2>2, SettlingUploads DEF MarkRetryable, Idle
    <2>3. CASE UNCHANGED <<asset, job>> /\ worker'[w].asset = a
      BY <1>7, <2>1, <2>3, WorkUploads DEF MarkRetryable
    <2>. QED
      BY <2>1, <2>2, <2>3
  <1>8. CASE MarkFailed(w)
    <2> DEFINE a == worker[w].asset
    <2>1. /\ a \in Assets /\ used'.faults >= used.faults
          /\ worker'[w] = Idle /\ \A v \in Workers \ {w} : worker'[v] = worker[v]
          /\ \/ /\ asset'[a].preview = "failed" /\ job'[a].status = "failed"
                /\ \A b \in Assets \ {a} : job'[b] = job[b]
             \/ GiveUp(w) /\ asset' = asset
          /\ \A b \in Assets \ {a} : asset'[b] = asset[b]
      BY <1>8, MarkFailedStep
    <2>2. CASE /\ asset'[a].preview = "failed" /\ job'[a].status = "failed"
               /\ \A b \in Assets \ {a} : job'[b] = job[b]
      BY <1>8, <2>1, <2>2, SettlingUploads DEF MarkFailed, Idle
    <2>3. CASE GiveUp(w) /\ asset' = asset
      BY <1>8, <2>1, <2>3, GiveUpUploads DEF MarkFailed
    <2>. QED
      BY <2>1, <2>2, <2>3
  <1>. QED
    BY <1>1, <1>2, <1>3, <1>4, <1>5, <1>6, <1>7, <1>8 DEF ProcessPreview

LEMMA UploadsStep == ASSUME FilesInv, UploadsInv, [Next]_vars PROVE UploadsInv'
  <1>0. Typed /\ RowsOK /\ Typed'
    BY TypedStep DEF FilesInv
  <1>1. used.faults \in Nat /\ used'.faults \in Nat /\ UsedOK
    BY <1>0, FaultsNat DEF Typed, UsedOK, Used
  <1>2. CASE UNCHANGED vars
    BY <1>0, <1>1, <1>2, OutsideUploads DEF vars, rows
  <1>3. CASE DirectUploadNext \/ ApiKilled
    BY <1>0, <1>3, DirectUploads
  <1>4. ASSUME NEW w \in Workers, WorkerStep(w) \/ WorkerKilled(w) PROVE UploadsInv'
    <2>1. CASE RecoverAndBackfill(w)
      BY <1>0, <2>1, RecoverAndBackfillUploads
    <2>2. CASE ProcessPreview(w)
      BY <1>0, <2>2, ProcessPreviewUploads
    <2>3. CASE RecoverExpiredJobs(w)
      <3>1. /\ worker'[w] = [worker[w] EXCEPT !.pc = "recovered"] /\ worker[w] \in Worker
            /\ \A v \in Workers \ {w} : worker'[v] = worker[v]
            /\ \A a \in Assets :
                 job'[a] = IF job[a].status = "running" /\ job[a].expired THEN Queued(job[a].id)
                           ELSE job[a]
        BY <1>0, <2>3, RecoverExpiredJobsStep DEF Typed, WorkersOK
      <3>2. worker'[w].asset = worker[w].asset
        BY <3>1 DEF Worker
      <3>3. \A a \in Assets : job[a].status = "absent" <=> job'[a].status = "absent"
        BY <1>0, <3>1, QueuedTyped DEF Typed, TablesOK, Job
      <3>4. used'.faults >= used.faults /\ UNCHANGED <<asset, upload>>
        BY <1>1, <2>3 DEF RecoverExpiredJobs
      <3>. QED
        BY <1>0, <3>1, <3>2, <3>3, <3>4, WorkUploads
    <2>4. CASE ClaimNextJob(w)
      <3>1. /\ \A v \in Workers \ {w} : worker'[v] = worker[v]
            /\ \/ worker'[w] = Idle /\ UNCHANGED job
               \/ /\ worker'[w].asset \in Assets
                  /\ job[worker'[w].asset].status = "queued"
                  /\ job'[worker'[w].asset].status = "running"
                  /\ \A b \in Assets \ {worker'[w].asset} : job'[b] = job[b]
        BY <1>0, <2>4, ClaimNextJobStep
      <3>0. UNCHANGED <<asset, upload, used>>
        BY <2>4 DEF ClaimNextJob
      <3>2. used'.faults >= used.faults /\ UNCHANGED <<asset, upload>>
        BY <1>1, <3>0
      <3>3. CASE worker'[w] = Idle /\ UNCHANGED job
        BY <1>0, <3>1, <3>2, <3>3, WorkUploads DEF Idle
      <3>4. CASE /\ worker'[w].asset \in Assets
                 /\ job[worker'[w].asset].status = "queued"
                 /\ job'[worker'[w].asset].status = "running"
                 /\ \A b \in Assets \ {worker'[w].asset} : job'[b] = job[b]
        <4>1. asset[worker'[w].asset].preview # "absent"
          BY <3>4 DEF UploadsInv
        <4>2. \A a \in Assets : job[a].status = "absent" <=> job'[a].status = "absent"
          BY <3>4
        <4>. QED
          BY <1>0, <3>1, <3>2, <4>1, <4>2, WorkUploads
      <3>. QED
        BY <3>1, <3>3, <3>4
    <2>5. CASE RoundFails(w)
      <3>1. /\ worker'[w] = Idle /\ \A v \in Workers \ {w} : worker'[v] = worker[v]
            /\ used'.faults = used.faults + 1
        BY <1>0, <1>1, <2>5, LeaveStep, FaultStep DEF RoundFails, Typed
      <3>2. worker'[w].asset = None /\ used'.faults >= used.faults
        BY <1>1, <3>1 DEF Idle
      <3>. QED
        BY <1>0, <2>5, <3>1, <3>2, WorkUploads DEF RoundFails, rows
    <2>6. CASE WorkerKilled(w)
      <3>1. used'.faults = used.faults
        BY <1>1, <2>6, KillCounted DEF WorkerKilled
      <3>. QED
        BY <1>0, <1>1, <2>6, <3>1, GiveUpUploads DEF WorkerKilled
    <2>. QED
      BY <1>4, <2>1, <2>2, <2>3, <2>4, <2>5, <2>6 DEF WorkerStep
  <1>5. ASSUME NEW a \in Assets, LeaseEnds(a) PROVE UploadsInv'
    <2>1. /\ \A b \in Assets \ {a} : job'[b] = job[b]
          /\ job[a].status = "running" /\ job'[a].status = "running"
          /\ used'.faults = used.faults
      BY <1>0, <1>5, LeaseEndsStep
    <2>2. \A b \in Assets : job[b].status = "absent" <=> job'[b].status = "absent"
      BY <2>1
    <2>. QED
      BY <1>0, <1>1, <1>5, <2>1, <2>2, OutsideUploads DEF LeaseEnds
  <1>6. ASSUME NEW f \in Previews, GrowsOld(f) \/ FileLost(f) PROVE UploadsInv'
    BY <1>0, <1>1, <1>6, OutsideUploads, FaultStep DEF GrowsOld, FileLost, rows
  <1>. QED
    BY <1>2, <1>3, <1>4, <1>5, <1>6 DEF Next

\* How far each request came, and what lies under its name by then.
THEOREM UploadsInvariant == Spec => []UploadsInv
  BY FilesInvariant, UploadsInit, UploadsStep, PTL DEF Spec

\* The original is there exactly with its asset, unless handling an error failed.
THEOREM UploadsAreWhole == Spec => []UploadWholeOrNothing
  <1>1. ASSUME FilesInv, UploadsInv, NEW p \in Photos
        PROVE  /\ asset[p].preview # "absent" => upload[p].original
               /\ upload[p].pc \in {"done", "refused"} /\ used.faults < 2 =>
                      /\ ~upload[p].tmp
                      /\ upload[p].original => asset[p].preview # "absent"
    <2>1. upload[p] \in Upload /\ used.faults \in Nat
      BY <1>1, FaultsNat DEF FilesInv, Typed, TablesOK
    <2>2. upload[p].pc = "done" => ~upload[p].tmp /\ upload[p].original
      BY <1>1 DEF UploadsInv, RequestOK, Request
    <2>3. upload[p].pc = "refused" /\ (upload[p].tmp \/ upload[p].original) => used.faults > 1
      BY <1>1 DEF UploadsInv, RequestOK
    <2>4. asset[p].preview # "absent" <=> upload[p].pc = "done"
      BY <1>1 DEF UploadsInv
    <2>. QED
      BY <2>1, <2>2, <2>3, <2>4
  <1>2. FilesInv /\ UploadsInv => UploadWholeOrNothing
    BY <1>1 DEF UploadWholeOrNothing
  <1>. QED
    BY <1>2, FilesInvariant, UploadsInvariant, PTL
-----------------------------------------------------------------------------
(***************************************************************************)
(* The flag of an asset stays as its upload set it, and so does the schema; *)
(* a status becomes ready only where the schema allows it.                 *)
(***************************************************************************)
\* Leases that were outlived are counted, and the schema stays.
LEMMA UsedGrows ==
    ASSUME Typed, [Next]_vars
    PROVE  used'.overdue \in Nat /\ used'.overdue >= used.overdue /\ used'.load = used.load
  <1>1. used.overdue \in Nat /\ UsedOK
    BY FaultsNat DEF Typed
  <1>2. CASE UNCHANGED used \/ Fault
    BY <1>1, <1>2, MayFault DEF UsedOK, Used
  <1>3. CASE used.kills < used.load.kills /\ used' = [used EXCEPT !.kills = @ + 1]
    BY <1>1, <1>3, KillCounted DEF UsedOK, Used
  <1>4. CASE used.overdue < used.load.overdue /\ used' = [used EXCEPT !.overdue = @ + 1]
    BY <1>1, <1>4 DEF UsedOK, Used
  <1>5. CASE UNCHANGED vars
    BY <1>2, <1>5 DEF vars
  <1>6. CASE DirectUploadNext \/ ApiKilled
    BY <1>2, <1>3, <1>6 DEF DirectUploadNext, SaveUpload, MoveOriginal, CommitAsset, UndoUpload,
       ApiKilled
  <1>7. ASSUME NEW w \in Workers, WorkerStep(w) \/ WorkerKilled(w)
        PROVE  used'.overdue \in Nat /\ used'.overdue >= used.overdue /\ used'.load = used.load
    <2>1. CASE RecoverAndBackfill(w)
      BY <1>2, <2>1 DEF RecoverAndBackfill, RemoveOrphan, ListCandidates, InspectCandidate,
         CommitBackfill, PersistOutcome
    <2>2. CASE ProcessPreview(w)
      BY <1>2, <2>2 DEF ProcessPreview, ReadAsset, Encode, FinalizeNew, CleanUpPreview,
         InspectExisting, FinalizeExisting, MarkRetryable, MarkFailed
    <2>3. CASE RecoverExpiredJobs(w) \/ ClaimNextJob(w) \/ RoundFails(w) \/ WorkerKilled(w)
      BY <1>2, <1>3, <2>3 DEF RecoverExpiredJobs, ClaimNextJob, RoundFails, WorkerKilled
    <2>. QED
      BY <1>7, <2>1, <2>2, <2>3 DEF WorkerStep
  <1>8. ASSUME NEW a \in Assets, LeaseEnds(a)
        PROVE  used'.overdue \in Nat /\ used'.overdue >= used.overdue /\ used'.load = used.load
    BY <1>2, <1>4, <1>8 DEF LeaseEnds
  <1>9. ASSUME NEW f \in Previews, GrowsOld(f) \/ FileLost(f)
        PROVE  used'.overdue \in Nat /\ used'.overdue >= used.overdue /\ used'.load = used.load
    BY <1>2, <1>9 DEF GrowsOld, FileLost
  <1>. QED
    BY <1>5, <1>6, <1>7, <1>8, <1>9 DEF Next

FlagsKept ==
    /\ used'.load = used.load
    /\ \A a \in Assets :
         a \in Videos \/ asset[a].preview # "absent" => asset'[a].log = asset[a].log

LEMMA SameFlags ==
    ASSUME FlagsKept, NEW a \in Assets
    PROVE  /\ LutPreview(a)' <=> LutPreview(a)
           /\ SessionVideo(a)' <=> SessionVideo(a)
           /\ asset[a].preview # "absent" => (LogRefused(a)' <=> LogRefused(a))
  BY DEF FlagsKept, LutPreview, SessionVideo, LogRefused

MayBecomeReady(a) ==
    asset'[a].preview = "preview_ready" => asset[a].preview = "preview_ready" \/ ~LogRefused(a)

\* A worker changes no flag, and the status of the asset it works on only.
LEMMA BackfillKeeps ==
    ASSUME Typed, RowsOK, NEW w \in Workers, RecoverAndBackfill(w), NEW a \in Assets
    PROVE  /\ asset'[a].log = asset[a].log /\ MayBecomeReady(a)
           /\ asset'[a].preview # asset[a].preview => a = worker[w].asset
  <1>1. CASE UNCHANGED asset
    BY <1>1 DEF MayBecomeReady
  <1>2. CASE CommitBackfill(w)
    <2>1. UNCHANGED asset \/ asset' = [asset EXCEPT ![worker[w].asset].active = worker[w].seen]
      BY <1>2, CommitBackfillStep
    <2>2. asset'[a].preview = asset[a].preview /\ asset'[a].log = asset[a].log
      BY <2>1 DEF Typed, TablesOK, Asset
    <2>. QED
      BY <2>2 DEF MayBecomeReady
  <1>3. CASE PersistOutcome(w)
    <2>1. CASE a # worker[w].asset
      <3>1. asset'[a] = asset[a]
        BY <1>3, <2>1, PersistOutcomeStep
      <3>. QED
        BY <3>1 DEF MayBecomeReady
    <2>2. CASE a = worker[w].asset
      <3>1. /\ asset'[a].log = asset[a].log
            /\ \/ asset'[a].preview = asset[a].preview
               \/ asset'[a].preview = Stored(a, "preview_ready")
               \/ asset'[a].preview = "failed"
        BY <1>3, <2>2, PersistOutcomeStep
      <3>. QED
        BY <2>2, <3>1, StoredStatus DEF MayBecomeReady
    <2>. QED
      BY <2>1, <2>2
  <1>. QED
    BY <1>1, <1>2, <1>3 DEF RecoverAndBackfill, RemoveOrphan, ListCandidates, InspectCandidate,
       rows

LEMMA FinalizeKeeps ==
    ASSUME Typed, NEW w \in Workers, worker[w].asset \in Assets, NEW f \in Previews,
           Finalize(w, f), NEW a \in Assets
    PROVE  /\ asset'[a].log = asset[a].log /\ MayBecomeReady(a)
           /\ asset'[a].preview # asset[a].preview => a = worker[w].asset
  <1>1. CASE a = worker[w].asset
    <2>1. asset'[a].log = asset[a].log /\ asset'[a].preview = Stored(a, "preview_ready")
      BY <1>1, FinalizeStep
    <2>. QED
      BY <1>1, <2>1, StoredStatus DEF MayBecomeReady
  <1>2. CASE a # worker[w].asset
    <2>1. asset'[a] = asset[a]
      BY <1>2, FinalizeStep
    <2>. QED
      BY <2>1 DEF MayBecomeReady
  <1>. QED
    BY <1>1, <1>2

LEMMA ProcessKeeps ==
    ASSUME Typed, NEW w \in Workers, ProcessPreview(w), NEW a \in Assets
    PROVE  /\ asset'[a].log = asset[a].log /\ MayBecomeReady(a)
           /\ asset'[a].preview # asset[a].preview => a = worker[w].asset
  <1>1. CASE UNCHANGED asset
    BY <1>1 DEF MayBecomeReady
  <1>2. CASE FinalizeNew(w)
    <2>1. /\ worker[w].asset \in Assets /\ worker[w].file \in Previews
          /\ Finalize(w, worker[w].file) \/ UNCHANGED asset
      BY <1>2, FinalizeNewStep DEF rows
    <2>. QED
      BY <1>1, <2>1, FinalizeKeeps
  <1>3. CASE FinalizeExisting(w)
    <2>1. /\ worker[w].asset \in Assets /\ worker[w].seen \in Previews
          /\ Finalize(w, worker[w].seen) \/ UNCHANGED asset
      BY <1>3, FinalizeExistingStep
    <2>. QED
      BY <1>1, <2>1, FinalizeKeeps
  <1>4. CASE a # worker[w].asset /\ (MarkRetryable(w) \/ MarkFailed(w))
    <2>1. asset'[a] = asset[a]
      BY <1>4, MarkRetryableStep, MarkFailedStep
    <2>. QED
      BY <2>1 DEF MayBecomeReady
  <1>5. CASE a = worker[w].asset /\ MarkRetryable(w)
    <2>1. /\ asset'[a].log = asset[a].log
          /\ asset'[a].preview = Stored(a, "preview_ready") \/ UNCHANGED asset
      BY <1>5, MarkRetryableStep
    <2>. QED
      BY <1>1, <1>5, <2>1, StoredStatus DEF MayBecomeReady
  <1>6. CASE a = worker[w].asset /\ MarkFailed(w)
    <2>1. /\ asset'[a].log = asset[a].log
          /\ asset'[a].preview = "failed" \/ UNCHANGED asset
      BY <1>6, MarkFailedStep
    <2>. QED
      BY <1>1, <1>6, <2>1 DEF MayBecomeReady
  <1>. QED
    BY <1>1, <1>2, <1>3, <1>4, <1>5, <1>6 DEF ProcessPreview, ReadAsset, Encode, CleanUpPreview,
       InspectExisting, rows

LEMMA AssetKept ==
    ASSUME FilesInv, UploadsInv, [Next]_vars, NEW a \in Assets
    PROVE  /\ a \in Videos \/ asset[a].preview # "absent" => asset'[a].log = asset[a].log
           /\ MayBecomeReady(a)
           /\ asset[a].preview = "absent" => asset'[a].preview # "preview_ready"
  <1>0. Typed /\ RowsOK
    BY DEF FilesInv
  <1>1. CASE UNCHANGED asset
    BY <1>1 DEF MayBecomeReady
  <1>2. ASSUME NEW p \in Photos, CommitAsset(p), ~UNCHANGED asset
        PROVE  /\ a \in Videos \/ asset[a].preview # "absent" => asset'[a].log = asset[a].log
               /\ MayBecomeReady(a)
               /\ asset[a].preview = "absent" => asset'[a].preview # "preview_ready"
    <2>1. p \in Assets /\ p \notin Videos /\ asset[p].preview = "absent"
      BY <1>2, PreviewAssumptions DEF UploadsInv, CommitAsset, Assets
    <2>2. /\ asset'[p].preview = "preview_generating"
          /\ \A b \in Assets \ {p} : asset'[b] = asset[b]
      BY <1>0, <1>2, InsertAssetStep DEF Typed, CommitAsset
    <2>. QED
      BY <2>1, <2>2 DEF MayBecomeReady
  <1>3. ASSUME NEW w \in Workers, WorkerStep(w), ~UNCHANGED asset
        PROVE  /\ a \in Videos \/ asset[a].preview # "absent" => asset'[a].log = asset[a].log
               /\ MayBecomeReady(a)
               /\ asset[a].preview = "absent" => asset'[a].preview # "preview_ready"
    <2>1. RecoverAndBackfill(w) \/ ProcessPreview(w)
      BY <1>3 DEF WorkerStep, RecoverExpiredJobs, ClaimNextJob, RoundFails, rows
    <2>2. /\ asset'[a].log = asset[a].log /\ MayBecomeReady(a)
          /\ asset'[a].preview # asset[a].preview => a = worker[w].asset
      BY <1>0, <2>1, BackfillKeeps, ProcessKeeps
    <2>3. a = worker[w].asset => asset[a].preview # "absent"
      BY PreviewAssumptions DEF UploadsInv
    <2>. QED
      BY <2>2, <2>3
  <1>4. \/ UNCHANGED asset
        \/ \E p \in Photos : CommitAsset(p) /\ ~UNCHANGED asset
        \/ \E w \in Workers : WorkerStep(w) /\ ~UNCHANGED asset
    BY DEF Next, vars, rows, DirectUploadNext, SaveUpload, MoveOriginal, UndoUpload, ApiKilled,
       WorkerKilled, LeaseEnds, GrowsOld, FileLost
  <1>. QED
    BY <1>1, <1>2, <1>3, <1>4

LEMMA FlagsStep == ASSUME FilesInv, UploadsInv, [Next]_vars PROVE FlagsKept
  BY AssetKept, UsedGrows DEF FlagsKept, FilesInv

-----------------------------------------------------------------------------
(***************************************************************************)
(* Refusals: what a worker goes on with, seen with the flags before.       *)
(***************************************************************************)
Suits(v) ==
    /\ worker'[v].pc \in {"encoding", "encoded"} => ~LutPreview(worker'[v].asset)
    /\ worker'[v].pc \in {"inspected", "outcome"} => SessionVideo(worker'[v].asset)

LEMMA BackfillSuits ==
    ASSUME Typed, RowsOK, RefusalsInv, NEW w \in Workers, RecoverAndBackfill(w)
    PROVE  Suits(w) /\ \A v \in Workers \ {w} : worker'[v] = worker[v]
  <1>1. CASE RemoveOrphan(w)
    BY <1>1 DEF RemoveOrphan, RefusalsInv, Suits
  <1>2. CASE ListCandidates(w)
    BY <1>2, ListCandidatesStep DEF Suits
  <1>3. CASE InspectCandidate(w)
    <2>1. /\ \A v \in Workers \ {w} : worker'[v] = worker[v] /\ WorkersOK'
          /\ worker'[w].pc \in {"listed", "inspected", "outcome"}
          /\ worker'[w].pc # "listed" => Candidate(worker'[w].asset) # None
      BY <1>3, InspectCandidateStep
    <2>2. worker'[w].pc # "listed" => worker'[w].asset \in Assets
      BY <1>3, <2>1, InspectCandidateStep DEF WorkersOK, Fits
    <2>3. worker'[w].pc # "listed" => SessionVideo(worker'[w].asset)
      BY <2>1, <2>2, CandidateFound
    <2>. QED
      BY <2>1, <2>3 DEF Suits
  <1>4. CASE CommitBackfill(w)
    <2>1. /\ worker[w].pc = "inspected" /\ \A v \in Workers \ {w} : worker'[v] = worker[v]
          /\ \/ worker'[w].pc = "listed"
             \/ worker'[w].pc = "outcome" /\ worker'[w].asset = worker[w].asset
      BY <1>4, CommitBackfillStep
    <2>. QED
      BY <2>1 DEF RefusalsInv, Suits
  <1>5. CASE PersistOutcome(w)
    BY <1>5, PersistOutcomeStep DEF Suits
  <1>. QED
    BY <1>1, <1>2, <1>3, <1>4, <1>5 DEF RecoverAndBackfill

LEMMA ProcessSuits ==
    ASSUME Typed, RowsOK, RefusalsInv, NEW w \in Workers, ProcessPreview(w)
    PROVE  Suits(w) /\ \A v \in Workers \ {w} : worker'[v] = worker[v]
  <1>1. CASE ReadAsset(w)
    BY <1>1, ReadAssetStep DEF Suits
  <1>2. CASE Encode(w)
    <2>1. /\ worker[w].pc = "encoding" /\ \A v \in Workers \ {w} : worker'[v] = worker[v]
          /\ worker'[w].asset = worker[w].asset /\ worker'[w].pc \in {"encoded", "failing"}
      BY <1>2, EncodeStep
    <2>. QED
      BY <2>1 DEF RefusalsInv, Suits
  <1>3. CASE FinalizeNew(w)
    <2>1. /\ worker'[w].pc = "idle" \/ worker'[w].pc = "cleanup"
          /\ \A v \in Workers \ {w} : worker'[v] = worker[v]
      <3>1. Idle.pc = "idle"
        BY DEF Idle
      <3>2. worker'[w] = Idle \/ worker'[w].pc = "cleanup"
        BY <1>3, FinalizeNewStep
      <3>3. \A v \in Workers \ {w} : worker'[v] = worker[v]
        BY <1>3, FinalizeNewStep
      <3>. QED
        BY <3>1, <3>2, <3>3
    <2>. QED
      BY <2>1 DEF Suits
  <1>4. CASE CleanUpPreview(w)
    BY <1>4, CleanUpPreviewStep DEF Suits
  <1>5. CASE InspectExisting(w)
    BY <1>5, InspectExistingStep DEF Suits
  <1>6. CASE FinalizeExisting(w)
    BY <1>6, FinalizeExistingStep DEF Suits, Idle
  <1>7. CASE MarkRetryable(w)
    BY <1>7, MarkRetryableStep DEF Suits, Idle
  <1>8. CASE MarkFailed(w)
    BY <1>8, MarkFailedStep DEF Suits, Idle
  <1>. QED
    BY <1>1, <1>2, <1>3, <1>4, <1>5, <1>6, <1>7, <1>8 DEF ProcessPreview

LEMMA WorkerSuits ==
    ASSUME Typed, RowsOK, RefusalsInv, NEW w \in Workers, WorkerStep(w) \/ WorkerKilled(w)
    PROVE  Suits(w) /\ \A v \in Workers \ {w} : worker'[v] = worker[v]
  <1>1. CASE RecoverExpiredJobs(w)
    <2>1. worker[w] \in Worker
      BY DEF Typed, WorkersOK
    <2>. QED
      BY <1>1, <2>1, RecoverExpiredJobsStep DEF Suits, Worker
  <1>2. CASE ClaimNextJob(w)
    BY <1>2, ClaimNextJobStep DEF Suits, Idle
  <1>3. CASE RoundFails(w) \/ WorkerKilled(w)
    <2>1. Leave(w)
      BY <1>3 DEF RoundFails, WorkerKilled, GiveUp
    <2>. QED
      BY <2>1, LeaveStep DEF Typed, Suits, Idle
  <1>. QED
    BY <1>1, <1>2, <1>3, BackfillSuits, ProcessSuits DEF WorkerStep

LEMMA RefusalsInit == ASSUME Init PROVE RefusalsInv
  <1>1. \A w \in Workers : worker[w].pc = "idle"
    BY InitTables DEF Idle
  <1>2. \A a \in Assets : asset[a].preview = "preview_ready" => ~asset[a].log
    BY InitTables
  <1>. QED
    BY <1>1, <1>2 DEF RefusalsInv, LogRefused

LEMMA RefusalsStep ==
    ASSUME FilesInv, UploadsInv, RefusalsInv, [Next]_vars PROVE RefusalsInv'
  <1>0. Typed /\ RowsOK /\ Typed' /\ FlagsKept
    BY TypedStep, FlagsStep DEF FilesInv
  <1>1. ASSUME NEW a \in Assets, asset'[a].preview = "preview_ready" PROVE ~LogRefused(a)'
    <2>1. ~LogRefused(a) /\ asset[a].preview # "absent"
      BY <1>1, AssetKept DEF MayBecomeReady, RefusalsInv
    <2>. QED
      BY <1>0, <2>1, SameFlags
  <1>2. ASSUME NEW v \in Workers PROVE Suits(v)
    <2>1. CASE UNCHANGED worker
      BY <2>1 DEF RefusalsInv, Suits
    <2>2. ASSUME NEW w \in Workers, WorkerStep(w) \/ WorkerKilled(w) PROVE Suits(v)
      BY <1>0, <2>2, WorkerSuits DEF RefusalsInv, Suits
    <2>. QED
      BY <2>1, <2>2 DEF Next, vars, DirectUploadNext, SaveUpload, MoveOriginal, CommitAsset,
         UndoUpload, ApiKilled, LeaseEnds, GrowsOld, FileLost
  <1>3. ASSUME NEW v \in Workers
        PROVE  /\ worker'[v].pc \in {"encoding", "encoded"} => ~LutPreview(worker[v].asset)'
               /\ worker'[v].pc \in {"inspected", "outcome"} => SessionVideo(worker[v].asset)'
    <2>1. /\ worker'[v].pc \in {"encoding", "encoded"} => worker'[v].asset \in Assets
          /\ worker'[v].pc \in {"inspected", "outcome"} => worker'[v].asset \in Assets
      BY <1>0 DEF Typed, WorkersOK, Fits, Processing
    <2>2. \A a \in Assets : /\ LutPreview(a)' <=> LutPreview(a)
                            /\ SessionVideo(a)' <=> SessionVideo(a)
      BY <1>0, SameFlags
    <2>. QED
      BY <1>2, <2>1, <2>2 DEF Suits, LutPreview, SessionVideo
  <1>. QED
    BY <1>1, <1>3 DEF RefusalsInv

\* Who is refused by the schema before 008, and that no video comes to it.
THEOREM RefusalsInvariant == Spec => []RefusalsInv
  BY FilesInvariant, UploadsInvariant, RefusalsInit, RefusalsStep, PTL DEF Spec
-----------------------------------------------------------------------------
(***************************************************************************)
(* Jobs, as long as no worker outlived a lease. First what a step that     *)
(* leaves the claims of the other workers alone, and their candidates,     *)
(* means for them; w is None for a step of nobody's worker.                *)
(***************************************************************************)
LeavesOthers(w) ==
    \A b \in Assets :
        /\ job[b].status = "running" /\ job[b].by \in Workers \ {w} =>
               /\ job'[b].status = "running" /\ job'[b].by = job[b].by
               /\ asset'[b].preview = asset[b].preview
        /\ job[b].status = "done" => job'[b].status = "done"
        /\ Lost(b) => Lost(b)'

LEMMA OthersOK ==
    ASSUME Typed, JobsOK, NEW w, \A v \in Workers \ {w} : worker'[v] = worker[v], LeavesOthers(w)
    PROVE  \A v \in Workers \ {w} : ClaimOK(v)' /\ BackfillOK(v)'
  <1>1. SUFFICES ASSUME NEW v \in Workers \ {w} PROVE ClaimOK(v)' /\ BackfillOK(v)'
    OBVIOUS
  <1> DEFINE a == worker[v].asset
  <1>2. worker'[v] = worker[v] /\ ClaimOK(v) /\ BackfillOK(v)
    BY DEF JobsOK
  <1>3. worker[v].pc \in Processing \cup {"inspected", "outcome"} => a \in Assets
    BY DEF Typed, WorkersOK, Fits
  <1>4. ClaimOK(v)'
    BY <1>2, <1>3 DEF ClaimOK, LeavesOthers
  <1>5. worker[v].pc \in {"inspected", "outcome"} => job'[a].status = "done"
    BY <1>2, <1>3 DEF BackfillOK, LeavesOthers
  <1>6. worker[v].pc = "outcome" /\ worker[v].outcome = "integrity_failed" => Lost(a)'
    BY <1>2, <1>3 DEF BackfillOK, LeavesOthers
  <1>7. worker[v].pc = "outcome" /\ worker[v].outcome = "integrity_failed" => Lost(worker[v].asset)'
    BY <1>2, <1>6 DEF Lost, RowsOf
  <1>8. BackfillOK(v)'
    BY <1>2, <1>5, <1>7 DEF BackfillOK
  <1>. QED
    BY <1>4, <1>8

LEMMA SameJob ==
    ASSUME FlagsKept, NEW a \in Assets, JobOK(a), job'[a] = job[a], asset'[a].preview = asset[a].preview,
           RowsOf(a)' = RowsOf(a), Lost(a) => Lost(a)'
    PROVE  JobOK(a)'
  <1>1. asset[a].preview # "absent" /\ Refused(a) => Refused(a)'
    BY SameFlags DEF Refused
  <1>. QED
    BY <1>1 DEF JobOK, SettledWith

\* Rows are only added, and a removed file with a row does not come back.
LEMMA LostStays ==
    ASSUME \A f \in Previews : derived[f] # NoRow => derived'[f] = derived[f] /\ disk'[f] \in {disk[f], "lost"},
           NEW a \in Assets
    PROVE  Lost(a) => Lost(a)'
  BY PreviewAssumptions DEF Lost, RowsOf, NoRow

LEMMA LostSame ==
    ASSUME UNCHANGED <<derived, disk>>, NEW a \in Assets
    PROVE  (Lost(a) => Lost(a)') /\ RowsOf(a)' = RowsOf(a)
  BY DEF Lost, RowsOf

\* A step of worker w that touches no job and no status of an asset.
LEMMA WorkJobs ==
    ASSUME Typed, FlagsKept, JobsOK, NEW w \in Workers, UNCHANGED <<job, derived>>,
           \A a \in Assets : asset'[a].preview = asset[a].preview,
           \A a \in Assets : Lost(a) => Lost(a)',
           \A v \in Workers \ {w} : worker'[v] = worker[v],
           ClaimOK(w)', BackfillOK(w)'
    PROVE  JobsOK'
  <1>1. LeavesOthers(w)
    BY DEF LeavesOthers
  <1>2. \A v \in Workers \ {w} : ClaimOK(v)' /\ BackfillOK(v)'
    BY <1>1, OthersOK
  <1>3. \A a \in Assets : RowsOf(a)' = RowsOf(a)
    BY DEF RowsOf
  <1>4. \A a \in Assets : JobOK(a)'
    BY <1>3, SameJob DEF JobsOK
  <1>. QED
    BY <1>2, <1>4 DEF JobsOK

\* A step of worker w that touches one asset and its job.
LEMMA SettlingJobs ==
    ASSUME Typed, FlagsKept, JobsOK, NEW w \in Workers, NEW a \in Assets,
           \A b \in Assets \ {a} : /\ asset'[b].preview = asset[b].preview /\ job'[b] = job[b]
                                   /\ RowsOf(b)' = RowsOf(b) /\ (Lost(b) => Lost(b)'),
           \/ job[a].status \notin {"running", "done"}
           \/ job[a].status = "running" /\ job[a].by = w
           \/ job[a].status = "done" /\ job'[a].status = "done" /\ (Lost(a) => Lost(a)'),
           \A v \in Workers \ {w} : worker'[v] = worker[v],
           RowsOf(a) # {} => job[a].status = "done",
           ClaimOK(w)', BackfillOK(w)', JobOK(a)'
    PROVE  JobsOK'
  <1>1. job[a].status # "done" => ~Lost(a)
    BY DEF Lost
  <1>2. LeavesOthers(w)
    BY <1>1 DEF LeavesOthers
  <1>3. \A v \in Workers \ {w} : ClaimOK(v)' /\ BackfillOK(v)'
    BY <1>2, OthersOK
  <1>4. \A b \in Assets : JobOK(b)'
    BY SameJob DEF JobsOK
  <1>. QED
    BY <1>3, <1>4 DEF JobsOK

\* A worker that is neither at a claim nor at a candidate.
LEMMA FreeOK ==
    ASSUME NEW w \in Workers, worker'[w].pc \in {"idle", "recovered", "listed"}
    PROVE  ClaimOK(w)' /\ BackfillOK(w)'
  BY DEF ClaimOK, BackfillOK, Processing

\* A worker goes on with its claim.
LEMMA ClaimStays ==
    ASSUME JobsOK, NEW w \in Workers, worker[w].pc \in Processing,
           worker'[w].pc \in {"encoding", "encoded", "cleanup", "failing"},
           worker'[w].asset = worker[w].asset,
           job' = job, asset' = asset
    PROVE  ClaimOK(w)' /\ BackfillOK(w)'
  BY DEF JobsOK, ClaimOK, BackfillOK, Processing
LEMMA RecoverExpiredJobsJobs ==
    ASSUME Typed, FlagsKept, JobsOK, NEW w \in Workers, RecoverExpiredJobs(w) PROVE JobsOK'
  <1>1. /\ worker'[w] = [worker[w] EXCEPT !.pc = "recovered"] /\ worker[w] \in Worker
        /\ \A v \in Workers \ {w} : worker'[v] = worker[v]
        /\ \A a \in Assets :
             job'[a] = IF job[a].status = "running" /\ job[a].expired THEN Queued(job[a].id)
                       ELSE job[a]
        /\ UNCHANGED <<asset, derived, disk>>
    BY RecoverExpiredJobsStep DEF Typed, WorkersOK, RecoverExpiredJobs
  <1>2. worker'[w].pc = "recovered"
    BY <1>1 DEF Worker
  <1>3. \A a \in Assets : Queued(job[a].id).status = "queued" /\ ~Queued(job[a].id).expired
    BY DEF Queued, NoJob
  <1>4. \A a \in Assets : (Lost(a) => Lost(a)') /\ RowsOf(a)' = RowsOf(a)
    BY <1>1, LostSame
  <1>5. ASSUME NEW a \in Assets, job[a].status = "running", job[a].expired
        PROVE  job[a].by = None /\ asset[a].preview = "preview_generating" /\ RowsOf(a) = {}
    <2>1. asset[a].preview \in {"absent", "preview_generating", "preview_ready", "failed"}
      BY DEF Typed, TablesOK, Asset
    <2>. QED
      BY <1>5, <2>1 DEF JobsOK, JobOK, SettledWith
  <1>6. LeavesOthers(w)
    BY <1>1, <1>4, <1>5, PreviewAssumptions DEF LeavesOthers
  <1>7. \A v \in Workers \ {w} : ClaimOK(v)' /\ BackfillOK(v)'
    BY <1>1, <1>6, OthersOK
  <1>8. ASSUME NEW a \in Assets PROVE JobOK(a)'
    <2>1. CASE job[a].status = "running" /\ job[a].expired
      <3>1. job'[a].status = "queued" /\ ~job'[a].expired
        BY <1>1, <1>3, <2>1
      <3>. QED
        BY <1>1, <1>4, <1>5, <2>1, <3>1 DEF JobOK, SettledWith
    <2>2. CASE ~(job[a].status = "running" /\ job[a].expired)
      BY <1>1, <1>4, <2>2, SameJob DEF JobsOK
    <2>. QED
      BY <2>1, <2>2
  <1>. QED
    BY <1>2, <1>7, <1>8, FreeOK DEF JobsOK

LEMMA ClaimNextJobJobs ==
    ASSUME Typed, FlagsKept, JobsOK, NEW w \in Workers, ClaimNextJob(w) PROVE JobsOK'
  <1>0. UNCHANGED <<asset, derived, disk>>
    BY DEF ClaimNextJob
  <1>1. \A a \in Assets : (Lost(a) => Lost(a)') /\ RowsOf(a)' = RowsOf(a)
    BY <1>0, LostSame
  <1>2. CASE worker'[w] = Idle /\ UNCHANGED job /\ \A v \in Workers \ {w} : worker'[v] = worker[v]
    <2>1. ClaimOK(w)' /\ BackfillOK(w)'
      BY <1>2, FreeOK DEF Idle
    <2>. QED
      BY <1>0, <1>1, <1>2, <2>1, WorkJobs
  <1>3. CASE /\ worker'[w].pc = "claimed" /\ worker'[w].asset \in Assets
             /\ job[worker'[w].asset].status = "queued"
             /\ job'[worker'[w].asset].status = "running" /\ job'[worker'[w].asset].by = w
             /\ job'[worker'[w].asset].expired = job[worker'[w].asset].expired
             /\ \A b \in Assets \ {worker'[w].asset} : job'[b] = job[b]
             /\ \A v \in Workers \ {w} : worker'[v] = worker[v]
    <2>1. PICK a \in Assets : a = worker'[w].asset
      BY <1>3
    <2>2. asset[a].preview = "preview_generating" /\ ~job[a].expired /\ RowsOf(a) = {}
      <3>1. asset[a].preview \in {"absent", "preview_generating", "preview_ready", "failed"}
        BY DEF Typed, TablesOK, Asset
      <3>. QED
        BY <1>3, <2>1, <3>1 DEF JobsOK, JobOK, SettledWith
    <2>3. ClaimOK(w)' /\ BackfillOK(w)'
      BY <1>0, <1>3, <2>1, <2>2 DEF ClaimOK, BackfillOK
    <2>4. ~job'[a].expired
      BY <1>3, <2>1, <2>2
    <2>5. JobOK(a)'
      BY <1>0, <1>1, <1>3, <2>1, <2>2, <2>4 DEF JobOK, SettledWith
    <2>. QED
      BY <1>0, <1>1, <1>3, <2>1, <2>2, <2>3, <2>5, SettlingJobs
  <1>. QED
    BY <1>2, <1>3, ClaimNextJobStep

LEMMA GiveUpJobs ==
    ASSUME Typed, FlagsKept, JobsOK, NEW w \in Workers, GiveUp(w), UNCHANGED <<asset, derived, disk>>
    PROVE  JobsOK'
  <1>1. /\ worker'[w] = Idle /\ \A v \in Workers \ {w} : worker'[v] = worker[v]
        /\ \A a \in Assets : /\ job'[a].status = job[a].status
                             /\ job'[a].by = job[a].by \/ (job'[a].by = None /\ job[a].by = w)
                             /\ job'[a].expired = job[a].expired
    BY GiveUpStep
  <1>2. ClaimOK(w)' /\ BackfillOK(w)'
    BY <1>1, FreeOK DEF Idle
  <1>3. \A a \in Assets : (Lost(a) => Lost(a)') /\ RowsOf(a)' = RowsOf(a)
    BY LostSame
  <1>4. LeavesOthers(w)
    BY <1>1, <1>3 DEF LeavesOthers
  <1>5. \A v \in Workers \ {w} : ClaimOK(v)' /\ BackfillOK(v)'
    BY <1>1, <1>4, OthersOK
  <1>6. ASSUME NEW a \in Assets PROVE JobOK(a)'
    <2>1. asset[a].preview # "absent" /\ Refused(a) => Refused(a)'
      BY <1>3, SameFlags DEF Refused
    <2>. QED
      BY <1>1, <1>3, <2>1 DEF JobsOK, JobOK, SettledWith
  <1>. QED
    BY <1>2, <1>5, <1>6 DEF JobsOK

LEMMA RecoverAndBackfillJobs ==
    ASSUME FilesInv, FlagsKept, RefusalsInv, JobsOK, NEW w \in Workers,
           RecoverAndBackfill(w)
    PROVE  JobsOK'
  <1>0. Typed /\ RowsOK
    BY DEF FilesInv
  <1>1. CASE RemoveOrphan(w)
    <2>1. PICK f \in Orphans : disk' = [disk EXCEPT ![f] = "absent"]
      BY <1>1 DEF RemoveOrphan
    <2>2. \A g \in Previews : derived[g] # NoRow => derived'[g] = derived[g] /\ disk'[g] = disk[g]
      BY <1>0, <1>1, <2>1 DEF Orphans, RemoveOrphan, rows, Typed, TablesOK
    <2>3. \A a \in Assets : Lost(a) => Lost(a)'
      BY <2>2, LostStays
    <2>4. worker'[w].pc = "recovered" /\ UNCHANGED <<rows, worker>>
      BY <1>1 DEF RemoveOrphan
    <2>. QED
      BY <1>0, <2>3, <2>4, WorkJobs, FreeOK DEF rows
  <1>2. CASE ListCandidates(w)
    <2>1. UNCHANGED <<rows, disk>>
      BY <1>2 DEF ListCandidates
    <2>2. worker'[w].pc = "listed" /\ \A v \in Workers \ {w} : worker'[v] = worker[v]
      BY <1>0, <1>2, ListCandidatesStep
    <2>. QED
      BY <1>0, <2>1, <2>2, WorkJobs, FreeOK, LostSame DEF rows
  <1>3. CASE InspectCandidate(w)
    <2>1. UNCHANGED <<asset, job, derived, result, disk>>
      BY <1>3 DEF InspectCandidate, rows
    <2>2. /\ \A v \in Workers \ {w} : worker'[v] = worker[v]
          /\ worker'[w].pc \in {"listed", "inspected", "outcome"}
          /\ worker'[w].pc # "listed" => Candidate(worker'[w].asset) # None
          /\ worker'[w].pc = "outcome" /\ worker'[w].outcome = "integrity_failed" =>
                disk[Candidate(worker'[w].asset)] = "lost"
          /\ WorkersOK'
      BY <1>0, <1>3, InspectCandidateStep
    <2>3. ASSUME worker'[w].pc # "listed" PROVE BackfillOK(w)'
      <3>1. PICK a \in Assets : a = worker'[w].asset
        BY <2>2, <2>3 DEF WorkersOK, Fits
      <3>2. Candidate(a) \in RowsOf(a) /\ asset[a].preview = "preview_ready"
        BY <1>0, <2>2, <2>3, <3>1, CandidateFound
      <3>3. job'[a].status = "done"
        BY <2>1, <3>2 DEF JobsOK, JobOK, SettledWith
      <3>4. worker'[w].pc = "outcome" /\ worker'[w].outcome = "integrity_failed" => Lost(a)
        BY <2>2, <3>1, <3>2 DEF Lost
      <3>5. Lost(a) => Lost(worker[w].asset)'
        BY <2>1, <3>1 DEF Lost, RowsOf
      <3>. QED
        BY <3>1, <3>3, <3>4, <3>5 DEF BackfillOK
    <2>4. ClaimOK(w)'
      BY <2>2 DEF ClaimOK, Processing
    <2>5. BackfillOK(w)'
      BY <2>3, FreeOK
    <2>. QED
      BY <1>0, <2>1, <2>2, <2>4, <2>5, WorkJobs, LostSame
  <1>4. CASE CommitBackfill(w)
    <2> DEFINE a == worker[w].asset
               f == worker[w].seen
    <2>1. /\ a \in Assets /\ worker[w].pc = "inspected"
          /\ \A v \in Workers \ {w} : worker'[v] = worker[v]
          /\ \/ worker'[w].pc = "listed"
             \/ /\ worker'[w].pc = "outcome" /\ worker'[w].asset = a
                /\ worker'[w].outcome # "integrity_failed"
          /\ UNCHANGED asset \/ asset' = [asset EXCEPT ![a].active = f]
      BY <1>0, <1>4, CommitBackfillStep
    <2>2. UNCHANGED <<job, derived, disk>>
      BY <1>4 DEF CommitBackfill
    <2>3. \A b \in Assets : asset'[b].preview = asset[b].preview
      BY <1>0, <2>1 DEF Typed, TablesOK, Asset
    <2>4. job[a].status = "done"
      BY <2>1 DEF JobsOK, BackfillOK
    <2>5. ClaimOK(w)' /\ BackfillOK(w)'
      BY <2>1, <2>2, <2>4 DEF ClaimOK, BackfillOK, Processing
    <2>. QED
      BY <1>0, <2>1, <2>2, <2>3, <2>5, WorkJobs, LostSame
  <1>5. CASE PersistOutcome(w)
    <2>0. PICK a \in Assets : a = worker[w].asset
      BY <1>0, <1>5, PersistOutcomeStep
    <2>1. /\ worker[w].pc = "outcome"
          /\ \A v \in Workers \ {w} : worker'[v] = worker[v]
          /\ worker'[w].pc = "listed"
          /\ \A b \in Assets \ {a} : asset'[b] = asset[b] /\ job'[b] = job[b]
          /\ \/ asset'[a].preview = asset[a].preview
             \/ asset'[a].preview = Stored(a, "preview_ready")
             \/ worker[w].outcome = "integrity_failed" /\ asset'[a].preview = "failed"
          /\ job[a].status = "done" => job'[a] = job[a]
      BY <1>0, <1>5, <2>0, PersistOutcomeStep
    <2>2. UNCHANGED <<derived, disk>>
      BY <1>5 DEF PersistOutcome
    <2>3. \A b \in Assets : (Lost(b) => Lost(b)') /\ RowsOf(b)' = RowsOf(b)
      BY <2>2, LostSame
    <2>4. /\ job[a].status = "done" /\ job'[a] = job[a]
          /\ worker[w].outcome = "integrity_failed" => Lost(a)
      BY <2>0, <2>1 DEF JobsOK, BackfillOK
    <2>5. JobOK(a)'
      <3>1. JobOK(a) /\ (Lost(a) => Lost(a)') /\ RowsOf(a)' = RowsOf(a)
        BY <2>1, <2>3 DEF JobsOK
      <3>2. CASE asset'[a].preview = asset[a].preview
        BY <2>1, <2>4, <3>1, <3>2, SameJob
      <3>3. CASE asset'[a].preview = Stored(a, "preview_ready")
        <4>1. SessionVideo(a)
          BY <2>0, <2>1 DEF RefusalsInv
        <4>2. asset'[a].preview = "preview_ready"
          BY <3>3, <4>1, StoredStatus DEF SessionVideo, LogRefused
        <4>. QED
          BY <2>4, <3>1, <4>2 DEF JobOK, SettledWith
      <3>4. CASE worker[w].outcome = "integrity_failed" /\ asset'[a].preview = "failed"
        BY <2>4, <3>1, <3>4 DEF JobOK, SettledWith
      <3>. QED
        BY <2>1, <3>2, <3>3, <3>4
    <2>6. ClaimOK(w)' /\ BackfillOK(w)'
      BY <2>1, FreeOK
    <2>7. \A b \in Assets \ {a} : asset'[b].preview = asset[b].preview /\ job'[b] = job[b]
      BY <2>1
    <2>8. \A v \in Workers \ {w} : worker'[v] = worker[v]
      BY <2>1
    <2>9. job'[a].status = "done" /\ (Lost(a) => Lost(a)')
      BY <2>3, <2>4
    <2>. QED
      BY <1>0, <2>3, <2>4, <2>5, <2>6, <2>7, <2>8, <2>9, SettlingJobs
  <1>. QED
    BY <1>1, <1>2, <1>3, <1>4, <1>5 DEF RecoverAndBackfill
\* What a claim means: the job is this worker's, and its asset has no preview yet.
LEMMA ClaimMeans ==
    ASSUME Typed, JobsOK, NEW w \in Workers, worker[w].pc \in Processing
    PROVE  /\ worker[w].asset \in Assets
           /\ job[worker[w].asset].status = "running" /\ job[worker[w].asset].by = w
           /\ asset[worker[w].asset].preview = "preview_generating"
           /\ RowsOf(worker[w].asset) = {}
           /\ worker[w].pc \notin {"existing", "confirmed", "retryable"}
  BY DEF Typed, WorkersOK, Fits, JobsOK, ClaimOK, JobOK

\* Errors on the way of a claim, and what ends it.
LEMMA ClaimGoesOn ==
    ASSUME Typed, FlagsKept, JobsOK, NEW w \in Workers, worker[w].pc \in Processing, UNCHANGED rows,
           worker'[w].pc \in {"encoding", "encoded", "cleanup", "failing"},
           worker'[w].asset = worker[w].asset,
           \A v \in Workers \ {w} : worker'[v] = worker[v],
           \A f \in Previews : derived[f] # NoRow => disk'[f] = disk[f]
    PROVE  JobsOK'
  <1>1. ClaimOK(w)' /\ BackfillOK(w)'
    BY ClaimStays DEF rows
  <1>2. \A a \in Assets : Lost(a) => Lost(a)'
    BY LostStays DEF rows
  <1>. QED
    BY <1>1, <1>2, WorkJobs DEF rows

LEMMA ClaimSettles ==
    ASSUME Typed, FlagsKept, JobsOK, NEW w \in Workers, worker[w].pc \in Processing, worker'[w] = Idle,
           \A v \in Workers \ {w} : worker'[v] = worker[v],
           NEW a \in Assets, a = worker[w].asset, ~job'[a].expired,
           \A b \in Assets \ {a} : asset'[b] = asset[b] /\ job'[b] = job[b] /\ RowsOf(b)' = RowsOf(b),
           UNCHANGED disk,
           \/ asset'[a].preview = "preview_ready" /\ job'[a].status = "done"
           \/ asset'[a].preview = "failed" /\ job'[a].status = "done" /\ Refused(a)'
           \/ /\ asset'[a].preview = "failed" /\ job'[a].status = "failed"
              /\ RowsOf(a)' = RowsOf(a)
    PROVE  JobsOK'
  <1>1. /\ job[a].status = "running" /\ job[a].by = w /\ RowsOf(a) = {}
    BY ClaimMeans
  <1>2. ClaimOK(w)' /\ BackfillOK(w)'
    BY FreeOK DEF Idle
  <1>3. JobOK(a)'
    BY <1>1 DEF JobOK, SettledWith
  <1>4. \A b \in Assets \ {a} : Lost(b) => Lost(b)'
    BY DEF Lost
  <1>. QED
    BY <1>1, <1>2, <1>3, <1>4, SettlingJobs

LEMMA ProcessPreviewJobs ==
    ASSUME FilesInv, FlagsKept, RefusalsInv, JobsOK, NEW w \in Workers,
           ProcessPreview(w)
    PROVE  JobsOK'
  <1>0. Typed /\ RowsOK
    BY DEF FilesInv
  <1>1. CASE ReadAsset(w)
    <2>1. /\ worker[w].pc = "claimed" /\ UNCHANGED <<rows, disk>>
      BY <1>1 DEF ReadAsset
    <2>2. worker[w].pc \in Processing
      BY <2>1 DEF Processing
    <2>3. RowsOf(worker[w].asset) = {}
      BY <1>0, <2>2, ClaimMeans
    <2>4. /\ \A v \in Workers \ {w} : worker'[v] = worker[v]
          /\ worker'[w].asset = worker[w].asset
          /\ worker'[w].pc \in {"encoding", "failing"}
      BY <1>0, <1>1, <2>3, ReadAssetStep
    <2>. QED
      BY <1>0, <2>1, <2>2, <2>4, ClaimGoesOn
  <1>2. CASE Encode(w)
    <2>1. /\ worker[w].pc \in Processing /\ UNCHANGED rows
          /\ \A v \in Workers \ {w} : worker'[v] = worker[v]
          /\ worker'[w].asset = worker[w].asset /\ worker'[w].pc \in {"encoded", "failing"}
          /\ \/ UNCHANGED disk
             \/ \E f \in Unused : disk' = [disk EXCEPT ![f] = "new"]
      BY <1>0, <1>2, EncodeStep DEF Processing, Encode
    <2>2. \A f \in Previews : derived[f] # NoRow => disk'[f] = disk[f]
      BY <1>0, <2>1 DEF Unused, Typed, TablesOK
    <2>. QED
      BY <1>0, <2>1, <2>2, ClaimGoesOn
  <1>3. CASE FinalizeNew(w)
    <2>1. /\ worker[w].pc = "encoded" /\ worker[w].asset \in Assets /\ worker[w].file \in Previews
          /\ \A v \in Workers \ {w} : worker'[v] = worker[v]
          /\ \/ /\ Finalize(w, worker[w].file) /\ worker'[w] = Idle
                /\ derived' = [derived EXCEPT ![worker[w].file] =
                      [asset |-> worker[w].asset, id |-> NextRow]]
             \/ /\ UNCHANGED rows
                /\ worker'[w].pc = "cleanup" /\ worker'[w].asset = worker[w].asset
          /\ UNCHANGED disk
      BY <1>0, <1>3, FinalizeNewStep DEF FinalizeNew
    <2>2. worker[w].pc \in Processing
      BY <2>1 DEF Processing
    <2>3. CASE UNCHANGED rows /\ worker'[w].pc = "cleanup" /\ worker'[w].asset = worker[w].asset
      BY <1>0, <2>1, <2>2, <2>3, ClaimGoesOn
    <2>4. CASE /\ Finalize(w, worker[w].file) /\ worker'[w] = Idle
               /\ derived' = [derived EXCEPT ![worker[w].file] =
                     [asset |-> worker[w].asset, id |-> NextRow]]
      <3>1. PICK a \in Assets, f \in Previews : a = worker[w].asset /\ f = worker[w].file
        BY <2>1
      <3>2. derived[f] = NoRow
        BY <3>1, PreviewAssumptions DEF FilesInv, HeldFilesOK
      <3>3. derived' = [derived EXCEPT ![f] = [asset |-> a, id |-> NextRow]]
        BY <2>4, <3>1
      <3>4. \A b \in Assets \ {a} : RowsOf(b)' = RowsOf(b)
        BY <1>0, <3>2, <3>3, NewRow DEF Typed
      <3>5. /\ job'[a].status = "done" /\ asset'[a].preview = Stored(a, "preview_ready")
            /\ \A b \in Assets \ {a} : asset'[b] = asset[b] /\ job'[b] = job[b]
        BY <1>0, <2>1, <2>4, <3>1, FinalizeStep
      <3>6. ~job'[a].expired
        BY <1>0, <2>4, <3>1, SetJobStep, SettledTyped DEF Finalize, Typed, TablesOK
      <3>7. CASE ~LogRefused(a)
        <4>1. asset'[a].preview = "preview_ready"
          BY <3>5, <3>7, StoredStatus
        <4>. QED
          BY <1>0, <2>1, <2>2, <2>4, <3>1, <3>4, <3>5, <3>6, <4>1, ClaimSettles
      <3>8. CASE LogRefused(a)
        <4>1. asset'[a].preview = "failed"
          BY <3>5, <3>8 DEF Stored
        <4>2. a \in Photos
          BY <2>1, <3>1, <3>8 DEF RefusalsInv, LutPreview, LogRefused, Assets
        <4>3. LogRefused(a)'
          BY <1>0, <2>2, <3>1, <3>8, ClaimMeans, SameFlags
        <4>4. f \in RowsOf(a)'
          BY <1>0, <3>3 DEF Typed, TablesOK, RowsOf
        <4>5. Refused(a)'
          BY <4>2, <4>3, <4>4 DEF Refused
        <4>. QED
          BY <1>0, <2>1, <2>2, <2>4, <3>1, <3>4, <3>5, <3>6, <4>1, <4>5, ClaimSettles
      <3>. QED
        BY <3>7, <3>8
    <2>. QED
      BY <2>1, <2>3, <2>4
  <1>4. CASE CleanUpPreview(w)
    <2>1. /\ worker[w].pc = "cleanup" /\ worker[w].file \in Previews
          /\ \A v \in Workers \ {w} : worker'[v] = worker[v]
          /\ worker'[w].pc = "failing" /\ worker'[w].asset = worker[w].asset
          /\ UNCHANGED disk \/ disk' = [disk EXCEPT ![worker[w].file] = "absent"]
          /\ UNCHANGED rows
      BY <1>0, <1>4, CleanUpPreviewStep DEF CleanUpPreview
    <2>2. derived[worker[w].file] = NoRow
      BY <2>1, PreviewAssumptions DEF FilesInv, HeldFilesOK
    <2>3. \A f \in Previews : derived[f] # NoRow => disk'[f] = disk[f]
      BY <1>0, <2>1, <2>2 DEF Typed, TablesOK
    <2>. QED
      BY <1>0, <2>1, <2>3, ClaimGoesOn DEF Processing
  <1>5. CASE InspectExisting(w) \/ FinalizeExisting(w) \/ MarkRetryable(w)
    <2>1. worker[w].pc \in {"existing", "confirmed", "retryable"}
      BY <1>5 DEF InspectExisting, FinalizeExisting, MarkRetryable
    <2>. QED
      BY <1>0, <2>1, ClaimMeans DEF Processing
  <1>6. CASE MarkFailed(w)
    <2>1. /\ worker[w].pc = "failing" /\ worker[w].asset \in Assets
          /\ worker'[w] = Idle /\ \A v \in Workers \ {w} : worker'[v] = worker[v]
          /\ \A b \in Assets \ {worker[w].asset} : asset'[b] = asset[b]
          /\ UNCHANGED <<derived, disk>>
      BY <1>0, <1>6, MarkFailedStep DEF MarkFailed
    <2>2. CASE GiveUp(w) /\ UNCHANGED asset
      BY <1>0, <2>1, <2>2, GiveUpJobs
    <2>3. CASE SetPreview(worker[w].asset, "failed") /\ SetJob(worker[w].asset, "failed")
      <3>1. PICK a \in Assets : a = worker[w].asset
        BY <2>1
      <3>2. /\ asset'[a].preview = "failed"
        BY <1>0, <2>3, <3>1, SetPreviewStep DEF Typed
      <3>3. /\ job'[a].status = "failed" /\ job'[a] = Settled(job[a], "failed")
            /\ \A b \in Assets \ {a} : job'[b] = job[b]
        BY <1>0, <2>3, <3>1, SetJobStep DEF Typed
      <3>4. ~job'[a].expired
        BY <1>0, <3>3, SettledTyped DEF Typed, TablesOK
      <3>5. \A b \in Assets : RowsOf(b)' = RowsOf(b)
        BY <2>1, LostSame
      <3>6. worker[w].pc \in Processing
        BY <2>1 DEF Processing
      <3>. QED
        BY <1>0, <2>1, <3>1, <3>2, <3>3, <3>4, <3>5, <3>6, ClaimSettles
    <2>. QED
      BY <1>6, <2>2, <2>3 DEF MarkFailed
  <1>. QED
    BY <1>1, <1>2, <1>3, <1>4, <1>5, <1>6 DEF ProcessPreview

\* A step of nobody's worker that touches no job and no status.
LEMMA OutsideJobs ==
    ASSUME Typed, FlagsKept, JobsOK, UNCHANGED <<asset, job, derived, worker>>,
           \A a \in Assets : Lost(a) => Lost(a)'
    PROVE  JobsOK'
  <1>1. LeavesOthers(None)
    BY DEF LeavesOthers
  <1>2. \A w \in Workers : ClaimOK(w)' /\ BackfillOK(w)'
    BY <1>1, OthersOK, PreviewAssumptions
  <1>3. \A a \in Assets : RowsOf(a)' = RowsOf(a)
    BY DEF RowsOf
  <1>4. \A a \in Assets : JobOK(a)'
    BY <1>3, SameJob DEF JobsOK
  <1>. QED
    BY <1>2, <1>4 DEF JobsOK

LEMMA CommitAssetJobs ==
    ASSUME Typed, UploadsInv, FlagsKept, JobsOK, NEW p \in Photos, CommitAsset(p) PROVE JobsOK'
  <1>0. p \in Assets /\ upload[p].pc = "moved" /\ UNCHANGED <<derived, disk, worker>>
    BY DEF CommitAsset, Assets
  <1>1. \A a \in Assets : (Lost(a) => Lost(a)') /\ RowsOf(a)' = RowsOf(a)
    BY <1>0, LostSame
  <1>2. CASE UNCHANGED <<asset, job>>
    BY <1>0, <1>1, <1>2, OutsideJobs
  <1>3. CASE /\ InsertAsset(p)
             /\ job' = [job EXCEPT ![p] =
                    Queued(1 + Cardinality({a \in Assets : job[a].status # "absent"}))]
    <2>1. job[p].status = "absent"
      BY <1>0 DEF UploadsInv
    <2>2. RowsOf(p) = {}
      BY <1>0, <2>1 DEF JobsOK, JobOK
    <2>3. /\ asset'[p].preview = "preview_generating"
          /\ \A b \in Assets \ {p} : asset'[b] = asset[b]
      BY <1>0, <1>3, InsertAssetStep DEF Typed
    <2>4. /\ job'[p].status = "queued" /\ ~job'[p].expired
          /\ \A b \in Assets \ {p} : job'[b] = job[b]
      BY <1>0, <1>3 DEF Typed, TablesOK, Queued, NoJob
    <2>5. LeavesOthers(None)
      BY <1>1, <2>1, <2>3, <2>4 DEF LeavesOthers
    <2>6. \A w \in Workers : ClaimOK(w)' /\ BackfillOK(w)'
      BY <1>0, <2>5, OthersOK, PreviewAssumptions
    <2>7. JobOK(p)'
      BY <1>0, <1>1, <2>2, <2>3, <2>4 DEF JobOK, SettledWith
    <2>8. \A a \in Assets \ {p} : JobOK(a)'
      BY <1>1, <2>3, <2>4, SameJob DEF JobsOK
    <2>. QED
      BY <2>6, <2>7, <2>8 DEF JobsOK
  <1>. QED
    BY <1>2, <1>3 DEF CommitAsset
LEMMA LeaseEndsJobs ==
    ASSUME Typed, FlagsKept, JobsOK, NEW a \in Assets, LeaseEnds(a), used'.overdue = 0 PROVE JobsOK'
  <1>1. /\ job[a].status = "running" /\ UNCHANGED <<asset, derived, disk, worker>>
        /\ job' = [job EXCEPT ![a].expired = TRUE]
    BY DEF LeaseEnds
  <1>2. job[a].by = None
    BY LeaseEndsStep
  <1>3. /\ job'[a].status = "running" /\ job'[a].by = None
        /\ \A b \in Assets \ {a} : job'[b] = job[b]
    BY <1>1, <1>2 DEF Typed, TablesOK, Job
  <1>4. \A b \in Assets : (Lost(b) => Lost(b)') /\ RowsOf(b)' = RowsOf(b)
    BY <1>1, LostSame
  <1>5. LeavesOthers(None)
    BY <1>1, <1>2, <1>3, <1>4, PreviewAssumptions DEF LeavesOthers
  <1>6. \A w \in Workers : ClaimOK(w)' /\ BackfillOK(w)'
    BY <1>1, <1>5, OthersOK, PreviewAssumptions
  <1>7. JobOK(a)'
    BY <1>1, <1>3, <1>4 DEF JobsOK, JobOK, SettledWith
  <1>8. \A b \in Assets \ {a} : JobOK(b)'
    BY <1>1, <1>3, <1>4, SameJob DEF JobsOK
  <1>. QED
    BY <1>6, <1>7, <1>8 DEF JobsOK

LEMMA JobsInit == ASSUME Init PROVE JobsInv
  <1>0. Typed
    BY TypedInit
  <1>1. \A w \in Workers : worker[w].pc = "idle"
    BY InitTables DEF Idle
  <1>2. \A w \in Workers : ClaimOK(w) /\ BackfillOK(w)
    BY <1>1 DEF ClaimOK, BackfillOK, Processing
  <1>3. ASSUME NEW a \in Assets PROVE JobOK(a)
    <2>1. /\ ~job[a].expired
          /\ \/ asset[a].preview = "absent" /\ job[a].status = "absent"
             \/ asset[a].preview = "preview_generating" /\ job[a].status = "queued"
             \/ asset[a].preview = "preview_ready" /\ job[a].status = "done"
      BY InitTables
    <2>2. ASSUME NEW f \in RowsOf(a) PROVE job[a].status = "done"
      <3>1. f \in Previews /\ derived[f].asset = a /\ derived[f] # NoRow
        BY PreviewAssumptions DEF RowsOf, NoRow
      <3>2. \E v \in Videos : derived[f] = [asset |-> v, id |-> 1] /\ job[v].status = "done"
        BY <3>1, InitTables
      <3>. QED
        BY <3>1, <3>2
    <2>. QED
      BY <2>1, <2>2 DEF JobOK, SettledWith
  <1>. QED
    BY <1>2, <1>3 DEF JobsInv, JobsOK

LEMMA JobsStep ==
    ASSUME FilesInv, UploadsInv, RefusalsInv, JobsInv, [Next]_vars PROVE JobsInv'
  <1> SUFFICES ASSUME used'.overdue = 0 PROVE JobsOK'
    BY DEF JobsInv
  <1>0. Typed /\ JobsOK /\ FlagsKept
    BY UsedGrows, FaultsNat, FlagsStep DEF FilesInv, JobsInv
  <1>1. CASE UNCHANGED vars
    BY <1>0, <1>1, OutsideJobs, LostSame DEF vars, rows
  <1>2. CASE DirectUploadNext \/ ApiKilled
    <2>1. ASSUME NEW p \in Photos, SaveUpload(p) \/ MoveOriginal(p) \/ UndoUpload(p) PROVE JobsOK'
      BY <1>0, <2>1, OutsideJobs, LostSame DEF SaveUpload, MoveOriginal, UndoUpload, rows
    <2>2. CASE ApiKilled
      BY <1>0, <2>2, OutsideJobs, LostSame DEF ApiKilled, rows
    <2>. QED
      BY <1>0, <1>2, <2>1, <2>2, CommitAssetJobs DEF DirectUploadNext
  <1>3. ASSUME NEW w \in Workers, WorkerStep(w) \/ WorkerKilled(w) PROVE JobsOK'
    <2>1. CASE RoundFails(w)
      <3>1. /\ worker'[w] = Idle /\ \A v \in Workers \ {w} : worker'[v] = worker[v]
            /\ UNCHANGED <<rows, disk>>
        BY <1>0, <2>1, LeaveStep DEF RoundFails, Typed
      <3>2. ClaimOK(w)' /\ BackfillOK(w)'
        BY <3>1, FreeOK DEF Idle
      <3>. QED
        BY <1>0, <3>1, <3>2, WorkJobs, LostSame DEF rows
    <2>2. CASE WorkerKilled(w)
      BY <1>0, <2>2, GiveUpJobs DEF WorkerKilled
    <2>. QED
      BY <1>0, <1>3, <2>1, <2>2, RecoverExpiredJobsJobs, RecoverAndBackfillJobs, ClaimNextJobJobs,
         ProcessPreviewJobs DEF WorkerStep
  <1>4. ASSUME NEW a \in Assets, LeaseEnds(a) PROVE JobsOK'
    BY <1>0, <1>4, LeaseEndsJobs
  <1>5. ASSUME NEW f \in Previews, GrowsOld(f) PROVE JobsOK'
    <2>1. derived[f] = NoRow /\ disk' = [disk EXCEPT ![f] = "old"] /\ UNCHANGED <<rows, worker>>
      BY <1>5 DEF GrowsOld
    <2>2. \A g \in Previews : derived[g] # NoRow => derived'[g] = derived[g] /\ disk'[g] = disk[g]
      BY <1>0, <2>1 DEF rows, Typed, TablesOK
    <2>. QED
      BY <1>0, <2>1, <2>2, LostStays, OutsideJobs DEF rows
  <1>6. ASSUME NEW f \in Previews, FileLost(f) PROVE JobsOK'
    <2>1. disk' = [disk EXCEPT ![f] = "lost"] /\ UNCHANGED <<rows, worker>>
      BY <1>6 DEF FileLost
    <2>2. \A g \in Previews : derived'[g] = derived[g] /\ disk'[g] \in {disk[g], "lost"}
      BY <1>0, <2>1 DEF rows, Typed, TablesOK
    <2>. QED
      BY <1>0, <2>1, <2>2, LostStays, OutsideJobs DEF rows
  <1>. QED
    BY <1>1, <1>2, <1>3, <1>4, <1>5, <1>6 DEF Next

\* Asset, job and the worker that holds the claim, as long as no lease was outlived.
THEOREM JobsInvariant == Spec => []JobsInv
  BY FilesInvariant, UploadsInvariant, RefusalsInvariant, JobsInit, JobsStep, PTL DEF Spec

\* Asset and job settle together as long as no worker outlives a lease; only a photo in
\* LOG before 008 fails with its job done.
THEOREM AssetAndJobSettleTogether == Spec => []SettledTogether
  <1>1. ASSUME FilesInv, RefusalsInv, JobsInv, used.overdue = 0, NEW a \in Assets
        PROVE  LET s == job[a].status IN
               CASE asset[a].preview = "absent" -> s = "absent"
                 [] asset[a].preview = "preview_generating" -> s \in {"queued", "running"}
                 [] asset[a].preview = "preview_ready" -> s = "done" /\ ~LogRefused(a)
                 [] asset[a].preview = "failed" ->
                       \/ s = "failed" \/ Lost(a)
                       \/ s = "done" /\ a \in Photos /\ LogRefused(a) /\ RowsOf(a) # {}
    <2>1. asset[a].preview \in {"absent", "preview_generating", "preview_ready", "failed"}
      BY <1>1 DEF FilesInv, Typed, TablesOK, Asset
    <2>2. SettledWith(a)
      BY <1>1 DEF JobsInv, JobsOK, JobOK
    <2>. QED
      BY <1>1, <2>1, <2>2 DEF SettledWith, Refused, RefusalsInv
  <1>2. FilesInv /\ RefusalsInv /\ JobsInv => SettledTogether
    BY <1>1 DEF SettledTogether
  <1>. QED
    BY <1>2, FilesInvariant, RefusalsInvariant, JobsInvariant, PTL
-----------------------------------------------------------------------------
(***************************************************************************)
(* Only two steps make an asset fail: that of a worker whose attempt has   *)
(* failed, and the backfill's persisting an outcome.                       *)
(***************************************************************************)
Spoils(a) == asset[a].preview = "preview_ready" /\ asset'[a].preview = "failed"

LEMMA PreviewOutcomes ==
    ASSUME FilesInv, RefusalsInv, NEW w \in Workers, ProcessPreview(w), NEW a \in Assets,
           Spoils(a)
    PROVE  worker[w].pc = "failing" /\ a = worker[w].asset
  <1>0. /\ Typed /\ RowsOK /\ asset[a] # asset'[a] /\ ~LogRefused(a)
        /\ Stored(a, "preview_ready") = "preview_ready"
    BY StoredStatus DEF FilesInv, RefusalsInv, Spoils
  <1>1. CASE ReadAsset(w) \/ Encode(w) \/ CleanUpPreview(w) \/ InspectExisting(w)
    BY <1>0, <1>1 DEF ReadAsset, Encode, CleanUpPreview, InspectExisting, rows
  <1>2. CASE FinalizeNew(w)
    <2>1. /\ worker[w].asset \in Assets /\ worker[w].file \in Previews
          /\ Finalize(w, worker[w].file) \/ UNCHANGED rows
      BY <1>0, <1>2, FinalizeNewStep
    <2>2. CASE Finalize(w, worker[w].file)
      <3>1. /\ asset'[worker[w].asset].preview = Stored(worker[w].asset, "preview_ready")
            /\ \A b \in Assets \ {worker[w].asset} : asset'[b] = asset[b]
        BY <1>0, <2>1, <2>2, FinalizeStep
      <3>. QED
        BY <1>0, <3>1 DEF Spoils
    <2>. QED
      BY <1>0, <2>1, <2>2 DEF rows
  <1>3. CASE FinalizeExisting(w)
    <2>1. /\ worker[w].asset \in Assets /\ worker[w].seen \in Previews
          /\ Finalize(w, worker[w].seen) \/ UNCHANGED asset
      BY <1>0, <1>3, FinalizeExistingStep
    <2>2. CASE Finalize(w, worker[w].seen)
      <3>1. /\ asset'[worker[w].asset].preview = Stored(worker[w].asset, "preview_ready")
            /\ \A b \in Assets \ {worker[w].asset} : asset'[b] = asset[b]
        BY <1>0, <2>1, <2>2, FinalizeStep
      <3>. QED
        BY <1>0, <3>1 DEF Spoils
    <2>. QED
      BY <1>0, <2>1, <2>2
  <1>4. CASE MarkRetryable(w)
    <2>1. /\ UNCHANGED asset \/ asset'[worker[w].asset].preview = Stored(worker[w].asset, "preview_ready")
          /\ \A b \in Assets \ {worker[w].asset} : asset'[b] = asset[b]
      BY <1>0, <1>4, MarkRetryableStep
    <2>. QED
      BY <1>0, <2>1 DEF Spoils
  <1>5. CASE MarkFailed(w)
    <2>1. /\ worker[w].pc = "failing"
          /\ \A b \in Assets \ {worker[w].asset} : asset'[b] = asset[b]
      BY <1>0, <1>5, MarkFailedStep
    <2>. QED
      BY <1>0, <2>1
  <1>. QED
    BY <1>1, <1>2, <1>3, <1>4, <1>5 DEF ProcessPreview

LEMMA BackfillOutcomes ==
    ASSUME FilesInv, RefusalsInv, NEW w \in Workers, RecoverAndBackfill(w), NEW a \in Assets,
           Spoils(a)
    PROVE  worker[w].pc = "outcome" /\ worker[w].outcome = "integrity_failed" /\ a = worker[w].asset
  <1>0. /\ Typed /\ RowsOK /\ asset[a] # asset'[a] /\ ~LogRefused(a)
        /\ Stored(a, "preview_ready") = "preview_ready"
    BY StoredStatus DEF FilesInv, RefusalsInv, Spoils
  <1>1. CASE RemoveOrphan(w) \/ ListCandidates(w) \/ InspectCandidate(w)
    BY <1>0, <1>1 DEF RemoveOrphan, ListCandidates, InspectCandidate, rows
  <1>2. CASE CommitBackfill(w)
    <2>1. UNCHANGED asset \/ asset' = [asset EXCEPT ![worker[w].asset].active = worker[w].seen]
      BY <1>0, <1>2, CommitBackfillStep
    <2>2. asset'[a].preview = asset[a].preview
      BY <1>0, <2>1 DEF Typed, TablesOK, Asset
    <2>. QED
      BY <2>2 DEF Spoils
  <1>3. CASE PersistOutcome(w)
    <2>1. /\ worker[w].pc = "outcome"
          /\ \A b \in Assets \ {worker[w].asset} : asset'[b] = asset[b]
          /\ \/ asset'[worker[w].asset].preview = asset[worker[w].asset].preview
             \/ asset'[worker[w].asset].preview = Stored(worker[w].asset, "preview_ready")
             \/ worker[w].outcome = "integrity_failed"
      BY <1>0, <1>3, PersistOutcomeStep
    <2>2. a = worker[w].asset
      BY <1>0, <2>1
    <2>3. asset'[a].preview # asset[a].preview /\ asset'[a].preview # "preview_ready"
      BY DEF Spoils
    <2>. QED
      BY <1>0, <2>1, <2>2, <2>3
  <1>. QED
    BY <1>1, <1>2, <1>3 DEF RecoverAndBackfill

LEMMA SpoilsForCause ==
    ASSUME FilesInv, RefusalsInv, JobsInv, [Next]_vars, NEW a \in Assets, Spoils(a)
    PROVE  Lost(a) \/ used.overdue > 0
  <1>0. Typed /\ used.overdue \in Nat /\ asset[a] # asset'[a]
    BY FaultsNat DEF FilesInv, Spoils
  <1>1. SUFFICES ASSUME JobsOK PROVE Lost(a)
    BY <1>0 DEF JobsInv
  <1>2. PICK w \in Workers : WorkerStep(w)
    <2>1. ~UNCHANGED asset
      BY <1>0
    <2>2. ASSUME NEW p \in Photos, CommitAsset(p) PROVE FALSE
      <3>1. p \in Assets /\ (InsertAsset(p) \/ UNCHANGED asset)
        BY <2>2 DEF CommitAsset, Assets
      <3>2. /\ asset'[p].preview = "preview_generating"
            /\ \A b \in Assets \ {p} : asset'[b] = asset[b]
        BY <1>0, <2>1, <3>1, InsertAssetStep DEF Typed
      <3>. QED
        BY <1>0, <3>2 DEF Spoils
    <2>. QED
      BY <2>1, <2>2 DEF Next, vars, rows, DirectUploadNext, SaveUpload, MoveOriginal, UndoUpload,
         ApiKilled, WorkerKilled, LeaseEnds, GrowsOld, FileLost
  <1>3. CASE ProcessPreview(w)
    <2>1. worker[w].pc = "failing" /\ a = worker[w].asset
      BY <1>3, PreviewOutcomes
    <2>2. asset[a].preview = "preview_generating"
      BY <1>0, <1>1, <2>1, ClaimMeans DEF Processing
    <2>. QED
      BY <2>2 DEF Spoils
  <1>4. CASE RecoverAndBackfill(w)
    <2>1. worker[w].pc = "outcome" /\ worker[w].outcome = "integrity_failed" /\ a = worker[w].asset
      BY <1>4, BackfillOutcomes
    <2>. QED
      BY <1>1, <2>1 DEF JobsOK, BackfillOK
  <1>. QED
    BY <1>0, <1>2, <1>3, <1>4 DEF WorkerStep, RecoverExpiredJobs, ClaimNextJob, RoundFails, rows

\* A preview that was ready fails only when its file is gone, or overtaken by a lease.
THEOREM ReadyPreviewFailsForCause == Spec => ReadyFailsForCause
  <1>1. FilesInv /\ RefusalsInv /\ JobsInv /\ [Next]_vars =>
            [\A a \in Assets :
                asset[a].preview = "preview_ready" /\ asset'[a].preview = "failed" =>
                    Lost(a) \/ used.overdue > 0]_vars
    BY SpoilsForCause DEF Spoils
  <1>. QED
    BY <1>1, FilesInvariant, RefusalsInvariant, JobsInvariant, PTL DEF Spec, ReadyFailsForCause
=============================================================================

# Media Vault: a TLA+ verification development

Media Vault copies photographs and videos from an iPhone to a NAS. A FastAPI
process and one worker process share a SQLite database (WAL) and a media
directory; a React Native client uploads, previews, saves processed results and
finally deletes originals from the phone. This directory holds TLA+ models of
its stateful parts, TLC configurations that check them on small instances, and
proofs checked by TLAPS.

Every module is a translation of the code under `src/`, not of the documents
under `src/docs/`; where the two disagree, the disagreement is a finding with a
run of its own, or an observation in the section of the part.

## 1. Inventory

| Component | State | Operations | Hard behaviour | What makes it correct |
|---|---|---|---|---|
| Upload sessions API (`api/`, `services/`, `repositories/upload_sessions.py`) | `upload_sessions`, `upload_chunks`, chunk and staging files | create, get, put chunk, finalize, cancel | requests run in a thread pool; time is captured before the write lock; files are removed after the transaction | a verified row has its bytes; a closed session stays closed; the limit of open sessions |
| Upload finalize worker (`services/upload_finalize.py`) | assembly file, original, `assets`, the preview job | claim, assemble, promote, commit, fail | kill between any two steps, expired lease, loss of power | an asset row has the right original, once; every finalization is answered |
| Job queue (`repositories/jobs.py`, `workers/worker.py`) | `jobs`: status, lease, deduplication key | insert, claim, recover, requeue, done, failed | a stale worker; unguarded failure updates | session/asset/attempt rows agree with their job |
| One-shot upload (`services/upload.py`) | `tmp` file, original, `assets` | upload | a failure between rename and commit | no asset without a file |
| Legacy preview worker (`services/preview.py`, `processed_result_*.py`) | `derived_files`, `processed_results`, preview files | render, finalize, recover, backfill | recovery removes unreferenced files while a slow worker publishes | the active result's file exists |
| Formal preview worker (`services/formal_preview_*.py`) | `formal_preview_attempts`, candidate and published files | claim, probe, resolve, render, publish | cleanup by path of a stale worker | a ready attempt has its file |
| Managed renditions (`services/rendition_*.py`) | `renditions`, selection generation, candidate and published files | create, process, publish, supersede | a newer selection during rendering; recovery from `finalizing` | the newest selection wins |
| Result delivery (`processed_result_authority/delivery/stream.py`, `media_range.py`) | none (reads) | authorise, range, stream | the result is superseded between check and open | bytes match the identity that was checked |
| Safe-delete candidate (`safe_delete_*.py`, `asset_read.py`, `db/phase2c`) | reconciliation state, write barrier | reconcile, read candidate | a write between reconciliation and read | a candidate is offered only for a verified asset |
| Migrations and rollout (`db/migrations.py`, `phase2*_migration.py`, `phase2_rollout.py`, `operator_release_*.py`) | schema version, phase records, release journal | migrate, roll out, restore | a crash between steps; a drain that is not empty | phases go forward in order |
| Detector (`apple_log_detector.py`, `iso_bmff_log_parser.py`, `bounded_subprocess.py`) | none | parse, classify | bounds on malformed media | no false classification |
| Presets and LUTs (`preset_registry.py`, `lut_snapshot.py`) | manifest, LUT snapshot files | load, snapshot | snapshot replaced while read | the digest used is the digest recorded |
| Client uploads (`useResumableVideoUpload.js`, `useAssetUpload.js` and stores) | stored session record, unknown-result record | start, resume, retry, cancel | the answer is lost; the app is killed | a lost answer is never taken for a failure |
| Client saving and deletion (`useProcessedResultSave.js`, `useOriginalDeletion.js` and stores) | stored save and deletion records | download, verify, save, delete | killed between save and record | an original is deleted only after confirmation |
| Settings, health, capabilities | none | read | - | - |

Components meet in the database (the API and the worker never call each other),
in files whose names derive from row identifiers, and over HTTP (client and
API).

## 2. Plan

Done:

1. **Resumable upload** (section 3): `UploadState`, `UploadSessions`,
   `UploadFinalize`, composed in `ResumableUpload`; abstract specification
   `UploadContract`; proofs in `ResumableUploadProofs` and `UploadStorageProofs`.
2. **Processed results** (section 4): formal preview, managed renditions and
   delivery in one database: `ResultState`, `FormalPreview`, `Renditions`,
   `ResultDelivery`, composed in `ProcessedResults`; abstract specification
   `ResultContract`; proofs in `ProcessedResultsProofs`.
3. **Safe delete** (section 5): confirmation and reconciliation on the backend,
   the screen and the deletion of an original in the app: `DeletionState`,
   `DeleteCandidate`, `OriginalDeletion`, composed in `SafeDelete`; abstract
   specification `DeletionContract`; proofs in `SafeDeleteProofs`.

4. **Release of a schema** (section 6): the operation that migrates a volume, the
   programs it starts, and the drill that restores the backup: `ReleaseState`,
   `Migrators`, `OperatorRelease`, `RestoreDrill`, composed in `Release`; proofs in
   `ReleaseProofs`.
5. **The client** (section 7): uploads of videos and photos and saves of results
   behind screens that come and go: `ClientState`, `VideoUpload`,
   `PhotoUpload`, `ResultSave`, composed in `Client`; proofs in `ClientProofs`
   and `ClientRecordProofs`.
6. **Legacy previews** (section 8): uploads in one request, previews without a
   generation, the recovery of orphans and the backfill of results:
   `PreviewState`, `DirectUpload`, `LegacyPreview`, `ResultBackfill`, composed in
   `LegacyPreviews`; proofs in `LegacyPreviewsProofs`.

Next, in this order:

7. **Pure algorithms**: byte ranges, chunk arithmetic and the box walk of
   `iso_bmff_log_parser.py` against references.

The project keeps about a dozen runs, each with a question of its own: a part
has one run for what holds, another only where it needs other bounds, and a run
of an expected violation where the code contradicts a promise that matters most.
Type correctness is proved in every part that has proofs of it; `release` and
`previews` also check it, since it is cheap there and a step of their proofs.

## 3. Resumable upload

### 3.1 Modules

* `UploadState`: tables as functions of the session (`session`, `rows`, `job`,
  `assets`, `previews`), files (`files`, `assembly`, `final`), processes
  (`handler`, `worker`), the write lock (`writer`) and the clock. A chunk's bytes
  are `good` (the file the session was created for), `bad` (other bytes, sent
  with their own digest) or `torn` (after a loss of power).
* `UploadSessions`: one action per step of a request. A request is accepted,
  captures `now`, runs its transaction (one action, or two for a chunk, because
  the file is renamed inside the open transaction) and may clean up afterwards.
  The two actions of a chunk hold `writer`; everything that writes the database
  waits for it, as `BEGIN IMMEDIATE` does. `RequestLost` ends a request at any
  step.
* `UploadFinalize`: one action per read or write of the worker: recovery of
  expired leases, claim, session check, lookup of chunks, opening, copying chunk
  by chunk, rename, commit, cleanup, failure. An open file is a descriptor that
  follows a rename and outlives an unlink (`fd`), because two workers may share
  the path.
* `ResumableUpload`: `Next`, time, loss of power, fairness and the properties.
* `UploadContract`: what the client is promised, without requests, jobs, chunks
  or clocks. `ResumableUpload` maps to it through `StageOf`.
* `MCUpload`: symmetry for TLC.
* `ResumableUploadProofs`, `UploadStorageProofs`: the proofs.

Abstractions: one file per session, all sessions with the same number of chunks;
digests are the bytes they determine; the payload checks of a request (range,
length, malformed digests), which refuse it before any state is read, are left
out; jobs of other kinds are left out, and claims take any queued job.

### 3.2 Runs

| Run | Bounds | Question |
|---|---|---|
| `upload_concurrent` | 1 session, 2 chunks, 2 requests, 1 worker, 1 kill, 1 tick to expiry and lease | Are stored bytes the right ones, is the contract implemented, and does nothing but a late request endanger verified chunks, under every interleaving? |
| `upload_serial` | 2 sessions, 1 chunk, 1 request at a time, limit 1 | Limit, liveness |
| `upload_two_workers` | 2 workers, 1 chunk, 1 kill, 1 loss of power, 2 ticks | A worker past its lease next to its successor |
| `upload_stale_now` | 2 requests, expiry and time 2 | expected violation: finding 1 |

Why these bounds suffice: sessions share nothing but the limit, so two sessions
appear only in the run about the limit; two chunks are the least that makes a
session pass through `uploading` with a chunk missing and the worker copy in
two steps; two requests and one worker interleave at every step, and a third
request adds no shared state; with `Expiry = Lease = 1` a single tick puts
a session past its expiry and a job past its lease; kills and losses of power
need at least one of each, at any step. `WorkerCrash` and `PowerLoss`
are left out in the last lease of the bounded time, so that the lease of a killed
worker can still run out before the clock stops.

Fairness (`FairSpec`): the worker loop runs for ever and every command it calls
ends (`run_forever`), so `ProcessJob` is weakly fair; an open transaction ends
(`CommitChunk`); time passes up to its bound. Requests are not assumed to be
made, nor to be answered.

### 3.3 Finding

1. `upload_stale_now`. `finalize_upload_session`, like every other request,
   captures `now` before it obtains the write lock. If another request, whose
   clock is later, finds the session expired first, its error rolls the expiry
   back but still deletes the session's files; the waiting request then sees a
   live session, queues the finalization and extends the expiry. The job fails
   `verified_chunk_missing`, retryable, and stays so for good: a new PUT of a
   chunk whose row is verified is answered without storing the file. This step,
a request that captured its time before the expiry and writes a new one after
it, is `Revived`, the one exemption of `ChunksStaySafe`: `upload_concurrent`
and a theorem show that no other step leaves a session that can complete without
a verified chunk, or within reach of a request that removes one.

Observations. A mismatched original (torn by a loss of power, say) fails the
session for good, with the failure code `final_original_hash_mismatch`; the
design document says that it is removed and rebuilt. Sessions expired by the sweep of another
request's creation keep their temporary files; with two workers a descriptor
can follow the assembly into the original, so `AssetBacked` holds only for the
single worker that is deployed; nothing flushes originals to disk before the
commit, so it does not hold under loss of power either.

### 3.4 Proofs

`ResumableUploadProofs` proves, from `UploadAssumptions` alone (any sets, any
number of chunks, any limits and bounds, kills and losses of power included):

* `TypeCorrect`: `TypeOK`. Not inductive alone: `CopyChunk` writes through a
  descriptor, and the file behind it must exist. `DescriptorsOpen` adds that a
  worker has a descriptor only while copying, and that its file is there.
* `SessionAndJobAgree`: `SessionJobCoherent`. Strengthened by `AllMatched` (an
  open session has no job, so `insert_or_return_job` never returns a stale one)
  and `LockHeld` (the request between the rename and its commit holds the lock,
  and its session is still uploadable).
* `CompletionIsFinal`: `CompletedStaysCompleted`, from the same invariant and
  `DoneStaysDone`.

`UploadStorageProofs` proves what takes more than that of the deployment. Its
theorems name what they assume: `OneWorker` (docker-compose.yml starts one) and
`PowerStays` (nothing is flushed, so a loss of power may tear a file). The rest
stays free: sessions, chunks, overlapping requests, limits, expiry, leases, kills.

* `ChunkFilesMatchRows` (`PowerStays`): `ChunkFileMatchesRow`. The file is
  replaced before its row is committed; `Promoted` says that meanwhile it holds
  the bytes the request is about to commit, or is gone, and `LockHeld` that
  nobody else replaces it.
* `AssetsAreBacked` (`OneWorker`, `PowerStays`): `AssetBacked`. `Holding` says that
  a worker in the middle of a job holds it (its row is running, so by
  `AllMatched` the session assembles): with a second worker, or a recovery by
  another, that is false. `Copying` says that what it has written so far is what the
  rows say, unless a cleanup removed the file, and then there is nothing to
  promote; and that the original is whole before it is committed.
* `LimitIsKept` (`OneWorker`): `ActiveLimitKept`. Each step keeps every stage
  (`StageOf`), moves one session between stages that count or out of them, or opens
  one after counting (`HandlerStages`, `WorkerStages`). Two workers may break the
  limit: the one past its lease fails, with a code that can be retried, a session
  that had stopped counting (failed for good, or cancelled), which then counts again.
* `UploadImplementsContract` (`OneWorker`, `PowerStays`): `ImplementsContract`, by
  the same classification of steps; the closed sessions of the contract's `Open`
  are those the creation sweeps. `AssetBacked` before and after the step says
  what the original is at each stage.
* `ChunksOfLiveSessions` (`OneWorker`): `ChunksStaySafe`, for any number of
  requests at once, losses of power included. `RequestsOK` says that a request
  captured a time that is not after now, that its session was not due then if it
  has promoted a chunk, and that a cleanup is of a session that exists;
  `CleanOK` that the worker cleans only after its session completed; `Unstarted`
  that a session yet to be created has no rows. Lemma `StillCompletes`: a session
  that can complete after a request's step could before it, unless the step
  creates it or is `Revived`. A second worker could fail or clean up the
  session of its successor.

Model-checked only: liveness.

## 4. Processed results

### 4.1 Modules

One video asset, because assets share nothing here but the queue. A result has
an *owner*: `Formal`, or the `client_request_id` of a rendition.

* `ResultState`: the rows of the asset (`asset`, `attempt`, `rendition`, `job`,
  `result`), its files (`candidate`, `published`, and whether the two are one
  file, `linked`), the processes, and the questions asked of the rows by several
  parts: `Authority` (`classify_active_processed_result`), `Deliverable`
  (`resolve_deliverable_result_by_id` with `verify_processed_result`). `Init` is
  a new asset or one that the Phase 2B migration took over with a managed
  rendition on display.
* `FormalPreview`: the worker on the formal preview, one action per transaction
  or file operation of `process_formal_preview_job` and
  `finalize_formal_preview_output`: prepare, verify the original, detect,
  resolve the preset, discard, render (FFmpeg opens and truncates, and ends
  later), inspect, advance, link, check, commit, and the undo and failure path.
  A descriptor (`fd`) survives the unlink of its file, since two workers may
  share the fixed paths.
* `Renditions`: creation by the API in two steps (the preflight outside, the
  insertion inside a transaction) and the worker of a rendition, down to the
  two statements of `transition_rendition`.
* `ResultDelivery`: a download resolves and hashes, then asks again while it
  opens the file.
* `ProcessedResults`: the worker loop, kills, fairness, properties.
* `ResultContract`: the preview settles once; selections are numbered as they
  are accepted; only the newest one ever comes on display.
* `MCResults`: symmetry. `ProcessedResultsProofs`: the proofs.

Abstractions. There is no clock: the lease of a running job may have run out
whenever a worker looks, also while another worker is busy with it. The code
assigns only `preview_generation` 1, so superseded attempts do not occur. The
schema's triggers are not guards of the model: that the code never runs into the
one on the active pointer is a property (`PointerTriggerSatisfied`). A file is
nothing, what FFmpeg has written so far, or a whole video. Detection, presets
and LUTs are a value that is persisted once, or a failure. A rendition's
candidate has a fresh name and is not tracked; its published file is. `unlink`
succeeds. Recovery and backfill of legacy results, which run before every claim,
do nothing for an asset in the Phase 2B schema. Byte ranges, `HEAD`, and the
stream of the preview player are left out.

### 4.2 Runs

| Run | Bounds | Question |
|---|---|---|
| `results_single` | 1 fair worker, 2 selections, 1 creation and 1 download at a time, 2 interruptions | Is what the asset points at on disk, are downloads authoritative, is every job settled again and again? |
| `results_two_workers` | 2 workers, 2 selections, 2 creations at a time, leases out at any time | Do the tables keep the contract when two workers have the same job? |

An interruption is a kill of a worker at any step, or a failure whose own
transaction fails. Two are the least that show a recovery that is itself
interrupted. `Creators` and `Downloaders` (`MCResults`) say which requests may be
under way at once: a download meets a creation in the first run, two creations
meet in the second, where downloads, which change no table, are left out; two
downloads share nothing but files that neither writes. Two selections, with the migrated one or
the formal preview beneath them, are the least in which one overtakes the
other; on a migrated asset one of the two identifiers is the migrated
rendition's. With two workers no kills are needed: a worker past its lease
leaves its job to the other at any step and then goes on, which is worse. The
run with two workers is checked under symmetry; the one with a liveness property
has none.

`PointersBacked`, `RenditionJobAgree`, `FailedRenditionLeavesNoFile`,
`FormalRefusedOnlyForSelection` and `ServedIsAuthoritative` are promises of the
one worker that `docker-compose.yml` starts: with two, TLC violates each of them.

Fairness (`Fairness`): `run_forever` never ends, leases run out
(`RecoverExpiredJob`), a queued job is claimed, and the commands of a job end
(`ProcessJob`). Nothing is assumed of requests or of kills; kills are
bounded, since a worker killed for ever settles nothing.

### 4.3 Observations

In the Phase 2B schema a rendition that completes after a newer selection was
made fails with `rendition_asset_not_eligible`, and its job fails with it. The
branch that would record it as superseded is not reached, although the documents
promise that.

The published file of a killed finalization is removed only by an attempt that
finds the rendition in `finalizing`, but that attempt first commits
`validating`. If it is killed before the removal, the third finds the name taken,
fails the rendition for good, and leaves the file. This is why
`FailedRenditionLeavesNoFile` is stated up to the second interruption.

Moreover, a selection made while the formal preview of a
migrated asset renders makes the managed result ambiguous until that selection
is settled; the preview is then refused and, as a failed attempt is terminal,
stays failed. With two workers `PointersBacked` does not hold: candidate and
published file have fixed names, and a worker past its lease removes or
truncates what its successor committed. A worker killed between its commit and
the removal of the candidate leaves the candidate for ever.

### 4.4 Proofs

`ProcessedResultsProofs` proves, first from `ResultAssumptions` alone (any number of
workers, requests, selections and interruptions):

* `ContractImplemented`: `Spec` implements `ResultContract`.
* `AttemptAndJobAgree`, `SupersededOnlyIfReplaced`, `PointerTriggerNeverFires`,
  `DetectionNeverRemade`, and `ResultsTypeCorrect`.

None is inductive alone. `RInv` adds to the types that an open creation names a
request, that a selection's number is at most the asset's counter
(`SelectionsNumbered`), that what is on display is a ready rendition or the
formal preview (`DisplayedIsReady`), that only ready renditions have results
(`ResultsAreReady`) and that an attempt without a detection is still probing
(`AttemptLive`). The argument runs over `TableStep`: every one of the thirty
actions either does bookkeeping or is one of six changes to the tables, and each
fact is proved over those. The files play no part in it: the guards inside the
transactions are enough, which is why these facts survive a second worker and
those about files do not.

Then, for one worker (`OneWorker`), and still any number of requests, selections
and interruptions:

* `PointersAreBacked`: `PointersBacked`. `FormalHeld` says, for each program counter,
  which phase the attempt is in, and from `advance` on that the file inspected is
  whole; `FormalFiles` that from `finalizing` on no half-written candidate exists,
  and that only then there is a published file, a whole one. So a worker that
  takes over in `finalizing` finds what its predecessor linked, and nothing
  writes through the link. `DisplayBacked` says the same of the managed result.
* `RenditionAndJobAgree`: `RenditionJobAgree`. A worker that holds a rendition holds
  its running job and a state in progress (`RenditionHeld`), so the failure that marks
  the job without looking never meets a rendition that is settled.
* `FailedLeaveNoFile`: `FailedRenditionLeavesNoFile`. `FileInv` says whose a file
  without a ready rendition is: of a rendition in `finalizing`, or of the attempt about
  to remove it, which has seen an interruption already.
* `RefusedForASelection`: `FormalRefusedOnlyForSelection`. What blocked the
  publication (`Blocked`) still does when the refusal is recorded, two file removals
  later; `ReadyIsOlder` (the display shows the newest selection that became
  ready) is why it is a selection in progress.
* `ServedOnlyIfAuthoritative`: `ServedIsAuthoritative`; the files come from
  `PointersAreBacked`, the rest from the second look of `open_processed_result_stream`.

Their invariant is `LoneInv`, with `RInv` as one of its parts; TLC checked its
parts on `results_single`'s bounds, and with three interruptions, before they were
proved. `FormalLeaves`, `RenditionLeaves`, `QueueLeaves` and `RequestLeaves` say what
each kind of step leaves alone, so that each part is proved over the actions that
disturb it.

Model-checked only: liveness (`JobsSettle`).

## 5. Safe delete

### 5.1 Modules

* `DeletionState`: the assets of each backend, the app's settings, photo library
  and stored records (`mappings`, `outcomes`), one Asset Detail screen (`view`,
  the React state of `useAssetDetail`, `useDeletionCapability` and
  `useOriginalDeletion`), the replies it waits for, and the taps on the delete
  button with what their closures captured. `Deletable` is what
  `isOriginalDeletionEligible` asks of the asset.
* `DeleteCandidate`: confirmation of a preview with its promotion, the operator's
  reconciliation, publication of a preview.
* `OriginalDeletion`: navigation, settings and uploads, replies in any order, and
  the deletion from the tap to its record, one action per `await`: two
  refreshes, the check, the dialog, the native call, the report, the write.
* `SafeDelete`: `Next` and the properties. `DeletionContract`: an original leaves
  the phone only while a backend keeps a confirmed copy of it, and such a copy
  stays one. `MCDeletion`: symmetry and the ids backends give out. `SafeDeleteProofs`:
  the proofs.

A screen that is closed keeps nothing, but a tap on it goes on: `mounted` and
`refs` hold the values the two refs had at that moment. A screen whose route
changes (the answer of an upload opens another asset) keeps its state until the
new asset arrives.

Abstractions. An asset is its kind, the original it was made of and the three
facts deletion asks about; that the bytes behind it are those of the original is
`AssetBacked` of `ResumableUpload` for sessions, and is taken over for direct
assets. An asset has one preview, which once ready stays so: for a session the
triggers of migration 009 freeze it, with a detail that fails when the file is
not deliverable; a direct asset whose preview fails again is left to the legacy
preview part. The capability may be anything at any time. The confirmation's
preflight is merged with its transaction, which checks the snapshot again.
Status "failed" is kept as "idle" and an outcome `failed` as none, since the
button treats them alike. Each save of a mapping is one step; the read of the
outcome records and their write are two. An upload's answer opens the detail on
the backend of that moment. The `apple_log` hint of a direct asset plays no part.

### 5.2 Runs

| Run | Bounds | Question |
|---|---|---|
| `deletion` | a backend with 1 direct and 1 session asset, a second one with another id, 2 uploads, 2 originals, 1 tap | Is an original deleted only when its confirmed copy is kept? |
| `deletion_other_backend` | 2 backends that both count from 1, 1 asset each, 2 originals, 1 tap | expected violation: finding 2 |

Two assets and two originals are the least in which the screen can show one
while a tap, a reply or a mapping is about the other, and the same original may
be uploaded twice; on the first backend one is direct and one is a session, so
both branches of the eligibility are there. `MaxUploads` bounds the assets to
two, on one backend or on both. One tap passes through every step with everything
else interleaved; the theorems below hold for any number of taps. Kills, lost
replies and lost writes are not bounded. There is no fairness: the properties
are about safety, and the user may stop anywhere.

`Assigned` says which ids a backend gives to uploads. `IdsApart`, that no id is
given by two backends, is what `TargetKept`, `RecordedIsGone` and
`ImplementsContract` need; it holds for an app that only ever knows one backend,
which the app is meant for, and for backends that count on from each other, as in
`deletion`. Nothing in the code ensures it: two new backends both count
from 1, which is finding 2.

### 5.3 Finding

2. `deletion_other_backend`. A mapping is stored under the asset's id alone and
   survives a change of the backend URL. On the second backend the asset with
   that id opens with the mapping of the first one if the screen reads it before
   its own is saved (or that save fails); confirmed there, it passes every check
   before the dialog and before the native call, and the original it deletes is
   that of the first backend's asset, whose copy nobody confirmed.

Not a finding but worth knowing: `status` changes only when the native deletion
begins, so a second tap before that runs with a closure in which nothing is
deleted. Its native call fails and the record `deleted` becomes `failed`,
although `functional-design.md` calls `deleted` irreversible. The original is
gone by then and its copy is kept, so nothing is lost but the record.

### 5.4 Proofs

`SafeDeleteProofs` proves, from the assumptions on the constants
(`AssignedAssumption`, `DistinctConstants`), for any number of backends, assets,
originals and taps: `DeletionTypeCorrect`, `CandidatesStay`, `OfferStaysKept`,
and with `IdsApart` as a hypothesis `TargetStaysKept`, `RecordStaysTrue` and
`DeletionContractImplemented`.

The checks before the native call are made on copies: of the asset as it was
read, of the mapping as it was stored. They are sound because assets only grow
(`AllGrown`: kind and content are written once, ready, confirmed and candidate
are never taken back), so whatever was read of an asset stays below what the
asset is. The inductive invariant `SInv` says that of every copy there is: what a
detail allows its asset still does (`Seen`), a mapping, stored or captured, names
the original some asset of that id was made of (`Backed`), a tap past its checks
has a kept asset (`TapsOK`), and a tap whose screen is still there asks the
backend of that screen (`SameBackend`). `Typed` adds to the types that what is
ready or read from the stores is an asset's (`ShownNamed`), that a closed screen
is blank and no tap is mounted on it (`ClosedIsBlank`) and that a tap asks a
backend for an asset (`RequestsRouted`). `IdsApart` is not needed for any of
this; it is used once, where the asset a tap is bound to and the asset its mapping
was saved for have to be the same (`OneAsset`). That is exactly the step finding 2
breaks. Everything this part checks is also proved, `GoneIsKept`, which
fails, excepted.

## 6. Release of a schema

### 6.1 Modules

A release brings the SQLite database of a *disposable volume* (a copy, marked as
such) from migration 001 or 007 to 009, one program after the other, each in a
container of its own that the orchestrator on the host creates, starts, waits
for and removes. A backup is taken before; after a failed operation
the restore drill puts it back and removes the files the operation has made.

* `ReleaseState`: the database as its last migration and, for each session video,
  how far its preview is; what the file holds by itself (`main`) and with its
  `-wal` file (`wal`); the marker and the claims beside it; the media files; the
  containers; the orchestrator (`op`) and what it reported.
* `Migrators`: the programs, one action per transaction or what lies between two:
  the marker, the offline startup migrations (002 to 007), the Phase 2B migration
  (008) with its backfill, the drain worker, the Phase 2C migration as dry run and
  for good (009), the preflight of 010, the reader of the identity, and the api
  and worker services. The last connection that is closed moves the `-wal` file
  into the database; a killed container leaves it.
* `OperatorRelease`: `run_operator_release_orchestration`, one action per docker
  command with the decision on its result, down to the except branches: cleanup,
  confirmation of the stop, reading of what was committed last. A command may
  fail, time out, or take effect and be reported as failed.
* `RestoreDrill`: inventory, backup and attestation before the operation; the
  drill's steps, between any two of which it may be killed, and its repetition.
* `Release`: `Next`, fairness, properties. `MCRelease`: for TLC.

Abstractions. The validation of a schema and of its data is the version number:
a phase's schema is there as a whole or refused, which its single transaction
makes true. The identity of artifacts (image digests, manifests,
`operator_release_manifest`) is not modelled: a manifest is good for one
operation (`Begin`). No asset is confirmed while an operation runs, so the
backfill of 009 promotes nothing. 010 is only looked at (its preflight), as in
the code. Files are one original, one legacy and one formal preview per video.
What the operator names as the operation's files may be anything that is on disk
and derived, right or wrong.

### 6.2 Run

| Run | Bounds | Question |
|---|---|---|
| `release` | 1 video, 2 operations, 1 fault | Are reports true, is no volume migrated by two operations, can what a failed operation did be undone, does it end? |

One video passes through every state a row can be in (it starts absent,
uploading, queued with or without a file left by a killed worker, or ready), and
rows share nothing. Two operations are what a second one on the volume of the
first needs. A fault is a docker command that fails with or without its effect, a
query that is not answered, the death of a container, of the orchestrator or of
the drill, or the start of the api meanwhile; with one, every step of the
operation is the one that goes wrong, and what follows is the code's own
handling. Faults of the handling itself (two faults) are left out: there the
code promises only "unsafe". The system may stop: after the
drill, or after the last operation.

Fairness (`FairSpec`): the orchestrator's process runs on (weak fairness of its
steps) and the clock it compares with a deadline does too (strong fairness of
`Deadline`, since between two looks at the clock it is not waiting). Nothing is
assumed of docker, of the programs or of the operator.

`FormalEra` is the reason why 008 looks at the queue a second time under its
lock. `OneOperationMigrates` is what the claim files are for. `ReportsTrue`
relates the four fields of a report to the volume: above all, the last
committed version it names is that of the database with its `-wal` file,
although the reader refuses to look into one. `FailsForCause` says that a drill
fails only through its operator (a second call, an inventory that overlaps or is
incomplete) or through a file that was an orphan before the operation.

### 6.3 Observations

* A one-shot that exits between its inspection and the query of the volume makes
  the operation fail with `unsafe_stop_unconfirmed`, although everything is
  stopped and reported so, and although the migration may have succeeded. The
  design (`docs/ideas/20260819_1-operator-db-migration-orchestration.md`) reserves
  that code for a stop that could not be confirmed.
* A program killed after its claim leaves a volume in which it never runs again;
  the way back is the drill, not a retry.
* `failure-forensic.json` is created with `O_EXCL`: a killed drill cannot be
  repeated in the same root. The identity it calls valid is that of the
  database file without its `-wal` file, whose digest is recorded beside it.
* The drain check counts preview jobs only. An upload the drain worker finishes
  after it leaves a queued preview, and 009 then refuses the database.
* The api and the worker both apply startup migrations when they start
  together. The loser's transaction fails; the worker tries again, the api does
  not.

### 6.4 Proofs

`ReleaseProofs` proves all that the run checks but the end of an operation, for any
set of session videos and any bounds, from `NoneAssumption` (no null among videos
and versions) and `BoundAssumption` (the bounds are numbers) alone. The inductive invariant `Inv`
has one part per thing that could go wrong:

* `TypeInv` and in it `DatabasesOK`: the file, the -wal file and the backup are each
  beyond 008 only with formal previews, since each may become the current one:
  `FormalEra`.
* `Alone`: there is at most one one-shot, that of the phase, and none between two. It
  is what the queries of the volume are for: a command that failed with its effect
  leaves a container that stops the next phase.
* `ClaimsOK`: all claims follow startup's, and who has come past startup has it:
  `OneOperationMigrates`, also for an operation that reuses a container of one
  that was killed.
* `AttemptOK`: before the first mutation is attempted there are no containers and
  no claims of this operation, so a report without `restore` is right.
* `Passed` and `Seen`: what the preflight and the reader of the identity found stays
  so until the report, unless the api was started, and then the query before the
  report finds it. With `AttemptOK` this is `ReportsTrue`.
* `DrillInv`: nothing runs beside the drill; the backup is attested, all it names is
  in the inventory taken before it, and a drill that comes to its end has no
  orphans left: `RestoredWhole` and `FailsForCause`.

The four kinds of steps (`Moves`) are summarised first, one lemma per action, and
each part is then proved from the summaries. `OperationSettles` is liveness and
stays with TLC.

## 7. The client

### 7.1 Modules

An *operation* is one press of Upload, Cancel or Save, running as an async
function. It outlives the screen that started it: when the screen is mounted
again its in-flight references are empty and a second operation may start
beside the first. That, kills of the app, and requests and stores that fail
with or without effect are what this part is about.

* `ClientState`: the mounted screen with the state of its hooks, the operations
  (`op`, with the step each has come to), AsyncStorage (`store`), what is on the
  phone, the sessions on the backend in the stages of `UploadContract`
  (section 3), and a history (`seen`) of what properties and conditions need.
* `VideoUpload`: `useResumableVideoUpload` with the one record of
  `resumableUploadStore`: read, keep, create, note the id, get, put, note the
  progress, finalize, poll, save the mapping, drop the record; cancel. A store
  operation reads in one step and writes in another.
* `PhotoUpload`: `useAssetUpload` and the marker of an upload whose result is
  unknown, with the list that has to be refreshed and acknowledged.
* `ResultSave`: `useProcessedResultSave` with download, verification, the record
  written ahead, the copy into the photo library, and the cleanup at startup.
* `Client`: `Next` and the properties. `MCClient`: for TLC.

Abstractions. One chunk stands for all the missing ones, since chunk requests are
repeated until the session is complete. The mapping store is one step (section 5
has its own model of it). A file's content is its version, and a digest is its
content. Permissions, progress and texts are left out; a picked file that cannot
be read ends a press before anything is stored.

### 7.2 Runs

| Run | Bounds | Question |
|---|---|---|
| `client` | 2 operations at once, 3 presses (2 once operations overlap), 1 kill, 1 edit; 2 videos, or 1 edited video, 2 photos, 2 photos of which one has no identifier, a video and a photo, or 2 results | Is what was stored, sent or saved remembered? |
| `client_resend` | 2 photos, 1 operation, 3 presses, no kills | expected violation: finding 3 |

`Mixes` are the sets of things a behaviour works with: videos, photos and results
have records of their own, so a pair of each and one mixed pair show every
interference there is. Three presses are a first try, another thing in between,
and a return to the first. Two operations at once, as each screen allows one
and a second one needs only a screen that was left. Uploads and cancels,
requests without an answer and failing stores are not bounded. Operations are
interchangeable (symmetry). There is no fairness: `requestJson` clears its timer
when the headers arrive, so a body may never end, and the user need not come
back.

What the properties say, and up to where:

* `StoredIsKnown`: a video the backend has is mapped, or its mapping was
  reported missing, or the record leads back to it, unless the user replaced
  the record. Until operations overlap.
* `UnknownNotResent`: a photo whose upload timed out is not sent again before an
  acknowledgement. Until its marker is replaced, cleared by the acknowledgement
  of an older list or not stored, or operations overlap.
* `SavedIsTrue`: what is shown as saved is in the library. Unconditionally.
* `CopyIsRecorded`: a copy in the library was verified, and it is never offered as
  not saved, unless the user saved it again. Until saves overlap.
* `TempIsFindable`: a temporary file left behind is found by the next start. Until
  saves overlap.

### 7.3 Finding

3. `client_resend`. There is one marker for all photos. Only a marker without
   an identifier blocks other photos; if the upload of another one times out
   too, its marker replaces the first, which may then be sent again without any
   acknowledgement. `docs/functional-design.md` promises that there is no resend
   before the list was checked.

### 7.4 Observations

* An operation left behind by its screen that finds its session cancelled or
  expired removes whatever resume record there is, also that of a newer upload,
  which then ends in an error without a record. The design document calls the
  record session-specific. Cancel does the same with the record of another
  video.
* Two uploads that complete at once lose a mapping: its store is read and
  written back in two steps. Two saves that overlap lose each other's records in
  the same way, and the second download of a result rewrites the temporary file
  under the first.
* No record is scoped by the backend's URL; section 5 shows a consequence.
* A session the backend does not know is an error that keeps the record: every
  later press of that video ends in it, until another video replaces the record.

### 7.5 Proofs

`ClientProofs` proves, from `ClientAssumptions` alone (any sets of videos, photos
and results, any number of operations at once, presses, kills and edits):

* `SavedIsInLibrary`: `SavedIsTrue`. A write puts back every record the operation
  has read, so `Honest` adds that the records an operation holds are true, and that
  one about to commit has a copy. Copies are only added, so a record read long ago
  stays true. `Quiet` is the shape of most steps: operations go on without a result
  saved, read or written; what is left is the read of the records, the four writes
  and the import.
* `ClientTypeCorrect`: `TypeOK`. `Fits` says of every step what the operation works on
  and from where on it has a client_upload_id; `EditsCounted` bounds versions.

`ClientRecordProofs` proves the four properties that hold until operations overlap.
Its invariant `Remembered` starts from what "until" means: `Single`, that only one
operation runs, and `Shown`, that one whose screen has gone meets a screen that
shows no session. Every step of an operation is then summarised once (`Moves`), and
with what it leaves to the other kinds of work (`UploadLeft`, `SavesLeft`,
`PhotosLeft`), so that each part is proved from its own steps:

* `StoredVideoIsKnown`: `StoredIsKnown`. A session is `Dead` while it cannot be
  stored, or once the phone need not remember it. `UploadsOK` says that every session
  is dead or the record leads to it, and that a step about to drop, replace or
  forget the record holds one of a dead session. Only putting a chunk brings a
  session to life, and then the record has the session's id and the screen shows no
  other session, so a cancellation cannot drop the record of a living one.
* `UnknownPhotoNotResent`: `UnknownNotResent`. The marker blocks every photo whose
  upload has timed out, and none of them is between the check and the request.
* `CopyHasItsRecord` and `TempHasItsRecord`: `CopyIsRecorded`, `TempIsFindable`. An
  operation about to write back the records holds those that are stored; a record
  exists from before the download; only a whole file is asked about and imported,
  and the record says `unknown` before the library is asked to.

`ClientAssumptions` say that null is no video, photo, result, record or marker
string, that an anonymous photo is a photo, and that the bounds are numbers.

## 8. Legacy previews

### 8.1 Modules

A preview without a generation: of a session video before migration 008 (with
its processed result), and of a photo uploaded in one request, before and after.

* `PreviewState`: per asset its row and its one preview job; per preview file its
  row in `derived_files`, its `processed_results` row and the file itself; the
  request of each photo; the workers. `Candidate` is
  `get_phase2a_backfill_candidate`. `StateInit`: a video whose preview is queued,
  one in Log with a `lut_preview` job, or one ready before there were results;
  photos yet to be uploaded.
* `DirectUpload`: `create_upload_asset`: temporary file, move, transaction, undo.
* `LegacyPreview`: `process_preview_job`: reading, FFmpeg with the move into
  place, `finalize_ready_processed_result` for a new or a recorded preview,
  cleanup, and the three ways to record a failure.
* `ResultBackfill`: what every round does before it claims: the removal of old
  files without a row, and the backfill, whose candidates are listed, read,
  inspected, committed and persisted in separate steps.
* `LegacyPreviews`: the loop of `run_once`, kills, leases, the age of files,
  fairness, properties. `MCPreviews`: the bounds.

Abstractions. The temporary output of FFmpeg is not modelled (a kill leaves it
under `tmp/`, where nothing looks). A file is there or not, new or older than a
lease and the grace. `InHands` assumes that a publication, from the move to
the commit, takes less than a lease and the grace, as the code's
constant intends. Videos' jobs are older than photos'. Videos are refused by
`POST /assets/upload`.

LOG. The flag of a photo is any value its request gives; its job is a `preview`
either way. Until 008 the trigger `prevent_identity_log_preview_ready` turns
`preview_ready` into `failed` on an asset in LOG, in the same transaction
(`LogRefused`, `Stored`), so every write of that status goes through `Stored`. A
load says whether it runs before 008, which drops the trigger, or after it; session
videos have legacy previews only before. What the trigger does to `review_status` is left out.

### 8.2 Run

| Run | Bounds | Question |
|---|---|---|
| `previews` | six loads: a video and a photo in 2 workers with 1 error, 1 kill, 1 outlived lease; a video in 3 workers, 2 of them past their lease, 1 error; a video in 2 workers, 2 errors, 1 outlived lease; a photo in 1 worker, 3 errors, 1 kill, before 008 and after; a video in 1 worker, 3 errors, 2 kills | Do rows keep their files, is the newest preview displayed, do jobs, orphans and missing results settle? |

A behaviour picks one *load* at the start (`Loads`), so that each kind of fault
meets the others where they can interfere and the space stays small. An
error is a transaction, an unlink, an inspection or a move that fails, or a
file that somebody removes. Three workers are the least in which the result of an
older row cannot be made active again (`Conflict`); two errors the least in
which the handling of an error fails.

Fairness (`FairSpec`): workers go on (`run_forever`; the container is
restarted), the lease of a claim nobody works on ends, and files grow old. Nothing
is assumed of requests. Kills, errors and outlived leases are bounded by the
load: without a bound nothing settles.

`SettledTogether` and `ReadyFailsForCause` hold up to the first outlived lease,
see below; all others hold with late workers too.

### 8.3 Observations

* `_mark_failed` looks at neither claim nor status. FFmpeg's timeout (300 s) is
  as long as the lease, so a worker that runs into it fails its job just when
  another may have finished it; the asset is then `failed` for good, as only
  ready ones are candidates of the backfill. The same way the outcome of a backfill
  that was overtaken can leave a failed asset with a job that is done. With the
  one worker of `docker-compose.yml` neither happens.
* A photo uploaded in LOG before 008 ends `failed` although its job is `done`:
  the transaction that commits its preview is the one the trigger rewrites. The
  preview stays in the tables and on disk, and nothing displays it.
  `SettledTogether` states this case; without overdue leases it is, with a ready
  video whose file is lost, the only one in which the two disagree.
* A recorded preview that cannot be read for a moment counts as one that is gone
  in `_handle_existing_preview`, but not in the backfill.
* Every round hashes every ready session video again, as the candidates include
  those that have their result.
* An api killed between the move of an original and its commit leaves a file in
  `originals/` that nothing looks for.

### 8.4 Proofs

`LegacyPreviewsProofs` proves the five invariants of the run and the action
property, for any finite sets of assets and previews, any workers and any
loads, from `PreviewAssumptions` alone: the sets
of assets and of names are finite, a video is no photo, no null is an asset, and
there are names enough for the previews of the initial states. `Encode` publishes
only while an unused name is left (`Unused`); in the code names never run out.
Five inductive invariants build on each other:

* `FilesInv` (with `TypeOK`): the file a worker holds is nobody else's and in no
  row, and new while the worker may still commit (`HeldFilesOK`). The recovery of
  orphans removes old files only, so it meets none of them: `RowsBacked`.
* `ResultsInv`: the active result is ready and its preview newer than every other
  of the asset (`ActiveOK`), a ready result is active (`ResultsOK`), and a
  preview from before there were results is alone (`UnresultedOK`), or the
  backfill would put an old preview in front of a new one: `ActiveIsLatest`.
* `RefusalsInv`: no asset is ready against the trigger, a worker publishes only
  what is no `lut_preview`, and a backfill is of a session video; so the trigger
  meets photos only. `FlagsKept`: no step changes a LOG flag or the schema.
* `UploadsInv`: what lies under a request's names at each point of it, counted in
  errors: `UploadWholeOrNothing`.
* `JobsInv`, up to the first outlived lease: a job that runs without a worker has
  expired, what a worker has read of its asset is still so, and a preview was
  committed with the end of its job, displayed unless the trigger refused it:
  `SettledTogether`. `ReadyFailsForCause`
  follows: only the backfill of a settled asset whose file is gone fails it.

`JobsSettle` is liveness and stays with TLC.

## 9. Not modelled

* **Apple Log detector** (`apple_log_detector.py`, `iso_bmff_log_parser.py`,
  `bounded_subprocess.py`, `detector_manifest.py`, `detector_certification.py`):
  byte formats and calls of tools, without state. The parser's bounds are planned
  as a pure algorithm.
* **Presets and LUTs** (`preset_registry.py`, `lut_snapshot.py`,
  `preset_manifest.py`): validation of static files at startup. Sections 4 and 6
  take their outcome as a success or a failure.
* **010 and the detector rollout** (`detector_v2_migration.py` but for its
  preflight, `phase2_rollout.py`, `operator_release_manifest.py`): the rows 010
  adds are read by the detector only, the rollout decision is a pure function of
  the schema, the settings and the detector's manifest, and the identity of
  artifacts is digests of files.
* **Byte ranges and the legacy preview stream** (`media_range.py`,
  `preview_stream.py`): pure, planned.
* FFmpeg, HTTP framing, configuration parsing, and the React rendering of
  screens.

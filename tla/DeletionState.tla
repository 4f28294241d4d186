--------------------------- MODULE DeletionState ---------------------------
(***************************************************************************)
(* What the deletion of an original from the phone depends on: the assets  *)
(* of the NAS backends the app may be set to, and the app, with its photo  *)
(* library, its stored records, one Asset Detail screen and the taps on    *)
(* its delete button that are still being worked off.                      *)
(***************************************************************************)
EXTENDS Integers, FiniteSets

CONSTANTS
    Backends,   \* servers the settings may name
    Ids,        \* assets.id
    Assigned,   \* those each backend gives to uploads; it counts for itself
    Direct,     \* those that are Phase 1 direct assets; others: session videos
    Photos,     \* localIdentifier of originals in the photo library
    Taps,       \* taps on "Delete iPhone original" in progress at once
    MaxUploads, \* bound
    None        \* null

ASSUME AssignedAssumption ==
    Ids \subseteq Int /\ Assigned \in [Backends -> SUBSET Ids]
ASSUME DistinctConstants ==
    None \notin Photos \cup Ids /\ None \notin Taps

VARIABLES
    assets,     \* assets of each backend
    backend,    \* settings.backendUrl
    library,    \* originals in the photo library
    mappings,   \* mediavault.localAssetMappings
    outcomes,   \* ids recorded as deleted (mediavault.originalDeletionOutcomes.v1)
    saving,     \* uploads that opened Asset Detail and still save their mapping
    view,       \* the Asset Detail screen and its hooks
    loads,      \* GET /assets/{id} of the screen without an answer
    tap         \* requestDeletion and performDeletion in progress

phone == <<library, mappings, outcomes>>
app == <<backend, saving, view, loads, tap>>
vars == <<assets, phone, app>>

(***************************************************************************)
(* An asset. preview and confirmed abstract preview_status and             *)
(* review_status; content is the original whose bytes the backend stored.  *)
(***************************************************************************)
Row ==
    [kind: {"absent", "direct", "session"}, content: Photos \cup {None},
     ready: BOOLEAN, confirmed: BOOLEAN, candidate: BOOLEAN]
NoRow ==
    [kind |-> "absent", content |-> None,
     ready |-> FALSE, confirmed |-> FALSE, candidate |-> FALSE]

(***************************************************************************)
(* The answer of GET /assets/{id} as the screen keeps it. A session video  *)
(* is only reported with preview_ready when its formal preview is ready.   *)
(***************************************************************************)
Detail ==
    [id: Ids \cup {None}, kind: {"absent", "direct", "session"},
     ready: BOOLEAN, confirmed: BOOLEAN, candidate: BOOLEAN]
NoDetail ==
    [id |-> None, kind |-> "absent", ready |-> FALSE, confirmed |-> FALSE, candidate |-> FALSE]
DetailOf(row, i) ==
    [id |-> i, kind |-> row.kind,
     ready |-> row.ready, confirmed |-> row.confirmed, candidate |-> row.candidate]

\* A mapping record names the asset it was saved for.
Mapping == [id: Ids \cup {None}, photo: Photos \cup {None}]
NoMapping == [id |-> None, photo |-> None]

(***************************************************************************)
(* The screen. shown, mapping, deleted and status are React state: the     *)
(* asset, mappingState, whether outcome is `deleted', and status. A failed *)
(* deletion leaves the button and what is on record as before: its status  *)
(* is kept as "idle", its outcome as none.                                 *)
(* refresher is the tap whose capability refresh is the latest in flight;  *)
(* reading: the stored mapping and outcome of the asset are being read.    *)
(***************************************************************************)
View ==
    [route: Ids \cup {None}, shown: Detail, capable: BOOLEAN, refresher: Taps \cup {None},
     reading: BOOLEAN, mapping: Mapping, deleted: BOOLEAN,
     status: {"idle", "loading", "deleting", "deleted"}]
Closed ==
    [route |-> None, shown |-> NoDetail, capable |-> FALSE, refresher |-> None,
     reading |-> FALSE, mapping |-> NoMapping, deleted |-> FALSE, status |-> "idle"]

(***************************************************************************)
(* A tap keeps what its closure captured (backend, route, id, mapping),    *)
(* what its refreshes found since (asset: what the asset allows, and the   *)
(* capability), whether iOS has deleted the original (gone) and the        *)
(* outcomes it read. refs are currentAssetIdRef and currentMappingStateRef *)
(* of its screen once that screen is gone. What is not used any more is    *)
(* not kept.                                                               *)
(***************************************************************************)
Refs == [id: Ids \cup {None}, mapping: Mapping]
Tap ==
    [step: {"idle", "refreshing", "dialog", "native", "answered", "writing"},
     backend: Backends \cup {None}, route: Ids \cup {None}, id: Ids \cup {None}, mapping: Mapping,
     asset: {"pending", "refused", "deletable", "candidate"}, capability: {"pending", "on", "off"},
     gone: BOOLEAN, records: SUBSET Ids, mounted: BOOLEAN, refs: Refs]
NoTap ==
    [step |-> "idle", backend |-> None, route |-> None, id |-> None, mapping |-> NoMapping,
     asset |-> "pending", capability |-> "pending",
     gone |-> FALSE, records |-> {}, mounted |-> TRUE, refs |-> [id |-> None, mapping |-> NoMapping]]

\* The refs a tap compares with: those of the screen while it is mounted.
RefsOf(t) ==
    IF tap[t].mounted THEN [id |-> view.shown.id, mapping |-> view.mapping] ELSE tap[t].refs

\* isOriginalDeletionEligible, what it asks of the asset.
\* Mutants: the confirmation, or the candidate status, is not asked for.
DeletableUnconfirmed(detail, capable) ==
    /\ detail.ready
    /\ \/ detail.kind = "direct"
       \/ detail.kind = "session" /\ capable /\ detail.candidate
DeletableOnCapability(detail, capable) ==
    /\ detail.ready /\ detail.confirmed
    /\ detail.kind = "direct" \/ (detail.kind = "session" /\ capable)
Deletable(detail, capable) ==
    /\ detail.ready /\ detail.confirmed
    /\ \/ detail.kind = "direct"
       \/ detail.kind = "session" /\ capable /\ detail.candidate

Init ==
    /\ assets = [b \in Backends |-> [i \in Ids |-> NoRow]]
    /\ backend \in Backends
    /\ library = Photos
    /\ mappings = [i \in Ids |-> NoMapping] /\ outcomes = {}
    /\ saving = {} /\ view = Closed /\ loads = {} /\ tap = [t \in Taps |-> NoTap]
=============================================================================

-------------------------- MODULE OriginalDeletion --------------------------
(***************************************************************************)
(* The app's part: uploads that leave a mapping and open Asset Detail, the *)
(* screen with its asset, capability and local state, and the deletion of  *)
(* an original from the tap to the record of its outcome. A tap is guarded *)
(* by what the screen shows; its closure keeps that until it is done.      *)
(***************************************************************************)
EXTENDS DeletionState

\* The rendered screen after asset d arrives: another identity than before
\* starts to load the local state of that asset.
Showing(v, d) ==
    IF d.id = v.shown.id THEN [v EXCEPT !.shown = d]
    ELSE [v EXCEPT !.shown = d, !.status = "loading", !.reading = TRUE]

\* What GET /assets/{id} may answer: nothing when it fails, and it does for a
\* preview that is recorded as ready but is not deliverable.
Answers(b, i) ==
    {NoDetail} \cup IF assets[b][i].kind = "absent" THEN {} ELSE {DetailOf(assets[b][i], i)}

\* The dialog is modal: nothing else can be tapped.
NoDialog == \A t \in Taps : tap[t].step # "dialog"

(***************************************************************************)
(* Navigation and uploads.                                                 *)
(***************************************************************************)
\* The route of Asset Detail. A mounted screen is kept, with what it shows.
Routed(i) ==
    IF view.route = None THEN [Closed EXCEPT !.route = i]
    ELSE [view EXCEPT !.route = i]
OpenDetail(i) ==
    /\ view.route = None /\ NoDialog /\ assets[backend][i].kind # "absent"
    /\ view' = Routed(i) /\ loads' = {i}
    /\ UNCHANGED <<assets, phone, backend, saving, tap>>

\* The screen is unmounted: its replies set no state any more, the taps on it
\* go on with the refs as they are.
CloseDetail ==
    /\ view.route # None /\ NoDialog
    /\ view' = Closed /\ loads' = {}
    /\ tap' = [t \in Taps |->
        IF tap[t].step = "idle" THEN tap[t]
        ELSE IF tap[t].step = "refreshing"
        THEN [tap[t] EXCEPT !.mounted = FALSE, !.refs = RefsOf(t)]
        ELSE [tap[t] EXCEPT !.mounted = FALSE]]
    /\ UNCHANGED <<assets, phone, backend, saving>>

\* Settings: another backend URL. Nothing that is stored is tied to it.
SetBackend(b) ==
    /\ view.route = None /\ NoDialog /\ b # backend
    /\ backend' = b
    /\ UNCHANGED <<assets, phone, saving, view, loads, tap>>

\* An upload stores the asset, the answer opens its detail from wherever the
\* app is, and then the mapping is saved. The answer may be lost. The original
\* was picked when the upload began; it may be gone by now.
Upload(b, i, photo) ==
    /\ b = backend /\ i \in Assigned[b] /\ assets[b][i].kind = "absent"
    /\ \A j \in Assigned[b] : j < i => assets[b][j].kind # "absent"
    /\ Cardinality({a \in Backends \X Ids : assets[a[1]][a[2]].kind # "absent"}) < MaxUploads
    /\ assets' = [assets EXCEPT ![b][i] = [NoRow EXCEPT
        !.kind = IF i \in Direct THEN "direct" ELSE "session", !.content = photo]]
    /\ \/ /\ saving' = saving \cup {[id |-> i, photo |-> photo]}
          /\ view' = Routed(i) /\ loads' = loads \cup {i}
       \/ UNCHANGED <<saving, view, loads>>
    /\ UNCHANGED <<phone, backend, tap>>

SaveLocalAssetMapping(m) ==
    /\ m \in saving
    /\ saving' = saving \ {m}
    /\ \/ mappings' = [mappings EXCEPT ![m.id] = m]
       \/ UNCHANGED mappings
    /\ UNCHANGED <<assets, library, outcomes, backend, view, loads, tap>>

(***************************************************************************)
(* What the screen loads.                                                  *)
(***************************************************************************)
\* Polling, the Refresh button, or a route that changed.
Refresh ==
    /\ view.route # None /\ NoDialog
    /\ loads' = loads \cup {view.route}
    /\ UNCHANGED <<assets, phone, backend, saving, view, tap>>

\* loadAsset has no guard against an answer for an earlier route.
LoadAsset(i) ==
    /\ i \in loads
    /\ loads' = loads \ {i}
    /\ \E d \in Answers(backend, i) :
        view' = IF d = NoDetail THEN view ELSE Showing(view, d)
    /\ UNCHANGED <<assets, phone, backend, saving, tap>>

\* refreshCapabilities of the screen, which overtakes that of a tap. The
\* capability comes and goes with the certified detector of the backend, and a
\* failure clears what was known.
LoadCapability ==
    /\ view.route # None
    /\ \E capable \in BOOLEAN :
        view' = [view EXCEPT !.capable = capable, !.refresher = None]
    /\ UNCHANGED <<assets, phone, backend, saving, loads, tap>>

\* The effect of useOriginalDeletion on a new asset id.
ReadLocalState ==
    LET i == view.shown.id IN
    /\ view.reading
    /\ \/ view' = [view EXCEPT
            !.reading = FALSE, !.mapping = mappings[i], !.deleted = i \in outcomes,
            !.status = IF i \in outcomes THEN "deleted" ELSE "idle"]
       \/ view' = [view EXCEPT
            !.reading = FALSE, !.mapping = NoMapping, !.deleted = FALSE, !.status = "idle"]
    /\ UNCHANGED <<assets, phone, backend, saving, loads, tap>>

(***************************************************************************)
(* requestDeletion.                                                        *)
(***************************************************************************)
\* canDelete: the button is shown.
CanDelete ==
    /\ Deletable(view.shown, view.capable)
    /\ view.mapping # NoMapping /\ ~view.deleted
    /\ view.status \notin {"loading", "deleting"}

RequestDeletion(t) ==
    /\ tap[t].step = "idle" /\ CanDelete /\ NoDialog
    /\ tap' = [tap EXCEPT ![t] = [NoTap EXCEPT
        !.step = "refreshing", !.backend = backend, !.route = view.route,
        !.id = view.shown.id, !.mapping = view.mapping]]
    /\ view' = [view EXCEPT !.refresher = t]
    /\ UNCHANGED <<assets, phone, backend, saving, loads>>

\* refreshAsset: the loadAsset of the route at the time of the tap. Another
\* asset than the one tapped on is refused, and so is one not ready any more;
\* a candidate can be deleted if the capability allows.
Verdict(t, d) ==
    IF d.id # tap[t].id \/ ~Deletable(d, TRUE) THEN "refused"
    ELSE IF d.kind = "direct" THEN "deletable" ELSE "candidate"
RefreshAsset(t) ==
    /\ tap[t].step = "refreshing" /\ tap[t].asset = "pending"
    /\ \E d \in Answers(tap[t].backend, tap[t].route) :
        /\ tap' = [tap EXCEPT ![t].asset = Verdict(t, d), ![t].route = None]
        /\ view' = IF d = NoDetail \/ ~tap[t].mounted THEN view ELSE Showing(view, d)
    /\ UNCHANGED <<assets, phone, backend, saving, loads>>

\* refreshCapabilities gives nothing to a tap whose refresh was overtaken by
\* another one, or whose screen is gone.
RefreshCapability(t) ==
    LET current == tap[t].mounted /\ view.refresher = t IN
    /\ tap[t].step = "refreshing" /\ tap[t].capability = "pending"
    /\ \E capable \in BOOLEAN :
        /\ tap' = [tap EXCEPT ![t].capability = IF current /\ capable THEN "on" ELSE "off"]
        /\ view' = IF current THEN [view EXCEPT !.capable = capable, !.refresher = None] ELSE view
    /\ UNCHANGED <<assets, phone, backend, saving, loads>>

\* The dialog is shown for the refreshed asset, or the tap is refused. outcome
\* and status are those of the tap's closure: they passed already.
\* Mutant: the mapping is taken to be that of the asset.
EligibleWithAnyMapping(t) ==
    tap[t].asset = "deletable" \/ (tap[t].asset = "candidate" /\ tap[t].capability = "on")
StillEligible(t) ==
    /\ tap[t].mapping.id = tap[t].id
    /\ tap[t].asset = "deletable" \/ (tap[t].asset = "candidate" /\ tap[t].capability = "on")
\* The replies are not used any more.
Asking(r) ==
    [NoTap EXCEPT !.step = "dialog", !.backend = r.backend, !.id = r.id, !.mapping = r.mapping,
        !.mounted = r.mounted, !.refs = r.refs]
AnswerRequest(t) ==
    /\ tap[t].step = "refreshing" /\ tap[t].asset # "pending" /\ tap[t].capability # "pending"
    /\ tap' = [tap EXCEPT ![t] = IF StillEligible(t) THEN Asking(tap[t]) ELSE NoTap]
    /\ UNCHANGED <<assets, phone, backend, saving, view, loads>>

CancelDialog(t) ==
    /\ tap[t].step = "dialog"
    /\ tap' = [tap EXCEPT ![t] = NoTap]
    /\ UNCHANGED <<assets, phone, backend, saving, view, loads>>

(***************************************************************************)
(* performDeletion. setStatus and setOutcome reach whatever the mounted    *)
(* screen shows by then.                                                   *)
(***************************************************************************)
SameTarget(t) ==
    /\ RefsOf(t).id = tap[t].id
    /\ RefsOf(t).mapping.photo = tap[t].mapping.photo
    /\ RefsOf(t).mapping.id = tap[t].id
PerformDeletion(t) ==
    /\ tap[t].step = "dialog"
    /\ IF SameTarget(t)
       THEN /\ tap' = [tap EXCEPT ![t].step = "native"]
            /\ view' = IF tap[t].mounted THEN [view EXCEPT !.status = "deleting"] ELSE view
       ELSE tap' = [tap EXCEPT ![t] = NoTap] /\ UNCHANGED view
    /\ UNCHANGED <<assets, phone, backend, saving, loads>>

\* deleteAssetsAsync, after the permission and the prompt of iOS. For an
\* original that is already gone either answer is possible.
\* Mutant: the answer of iOS is not looked at.
Answered(r, gone) ==
    [NoTap EXCEPT !.step = "answered", !.id = r.id, !.gone = gone, !.mounted = r.mounted]
DeleteAssetsUnanswered(t) ==
    /\ tap[t].step = "native"
    /\ library' \in {library, library \ {tap[t].mapping.photo}}
    /\ tap' = [tap EXCEPT ![t] = Answered(@, TRUE)]
    /\ UNCHANGED <<assets, mappings, outcomes, backend, saving, view, loads>>
DeleteAssets(t) ==
    /\ tap[t].step = "native"
    /\ \/ /\ library' = library \ {tap[t].mapping.photo}
          /\ tap' = [tap EXCEPT ![t] = Answered(@, TRUE)]
       \/ /\ tap' = [tap EXCEPT ![t] = Answered(@, FALSE)]
          /\ UNCHANGED library
    /\ UNCHANGED <<assets, mappings, outcomes, backend, saving, view, loads>>

\* A success is in memory before it is stored; a failure is shown.
ReportResult(t) ==
    /\ tap[t].step = "answered"
    /\ tap' = [tap EXCEPT ![t].step = "writing", ![t].records = outcomes]
    /\ view' =
        IF ~tap[t].mounted THEN view
        ELSE IF tap[t].gone THEN [view EXCEPT !.status = "deleted", !.deleted = TRUE]
        ELSE [view EXCEPT !.status = "idle"]
    /\ UNCHANGED <<assets, phone, backend, saving, loads>>

\* writeOriginalDeletionOutcome writes all records back as it read them, but
\* for its own; or the store fails.
WriteOutcome(t) ==
    LET own == {tap[t].id} IN
    /\ tap[t].step = "writing"
    /\ \/ /\ outcomes' = IF tap[t].gone THEN tap[t].records \cup own ELSE tap[t].records \ own
          /\ view' = IF tap[t].mounted THEN [view EXCEPT !.deleted = tap[t].gone] ELSE view
       \/ UNCHANGED <<outcomes, view>>
    /\ tap' = [tap EXCEPT ![t] = NoTap]
    /\ UNCHANGED <<assets, library, mappings, backend, saving, loads>>

\* The app is killed: what it had in memory is gone.
AppKilled ==
    /\ saving' = {} /\ view' = Closed /\ loads' = {}
    /\ tap' = [t \in Taps |-> NoTap]
    /\ UNCHANGED <<assets, phone, backend>>
=============================================================================

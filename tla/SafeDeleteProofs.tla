-------------------------- MODULE SafeDeleteProofs --------------------------
(***************************************************************************)
(* Proofs about SafeDelete for every value of its constants: types, that   *)
(* candidates stay, and, for an app whose backends give out different ids, *)
(* that deletion keeps its contract.                                       *)
(***************************************************************************)
EXTENDS SafeDelete, TLAPS

(***************************************************************************)
(* Type correctness.                                                       *)
(***************************************************************************)
LEMMA DefaultsTyped ==
    /\ NoRow \in Row /\ NoDetail \in Detail /\ NoMapping \in Mapping
    /\ Closed \in View /\ NoTap \in Tap
<1>1. NoRow \in Row /\ NoDetail \in Detail /\ NoMapping \in Mapping
  BY DEF NoRow, Row, NoDetail, Detail, NoMapping, Mapping
<1>2. Closed \in View
  BY <1>1 DEF Closed, View
<1>4. [id |-> None, mapping |-> NoMapping] \in Refs
  BY <1>1 DEF Refs
<1>5. NoTap \in Tap
  BY <1>1, <1>4 DEF NoTap, Tap
<1>6. QED
  BY <1>1, <1>2, <1>5

\* What is ready, or read from the stores, is an asset's; nothing is shown or
\* awaited without a route, and what a tap asks for is named.
ShownNamed == view.reading \/ view.shown.ready => view.shown.id \in Ids
ClosedIsBlank ==
    view.route = None =>
        /\ ~view.shown.ready /\ loads = {}
        /\ \A t \in Taps : tap[t].step = "idle" \/ ~tap[t].mounted
RequestsRouted ==
    \A t \in Taps :
        /\ tap[t].step # "idle" => tap[t].id \in Ids
        /\ tap[t].step = "refreshing" =>
            tap[t].backend \in Backends /\ (tap[t].asset = "pending" => tap[t].route \in Ids)
Typed == TypeOK /\ ShownNamed /\ ClosedIsBlank /\ RequestsRouted

LEMMA AnswersTyped ==
    ASSUME TypeOK, NEW b \in Backends, NEW i \in Ids, NEW d \in Answers(b, i)
    PROVE  d \in Detail /\ (d # NoDetail => d.id = i)
BY DefaultsTyped DEF TypeOK, Answers, DetailOf, Detail, Row

LEMMA ShowingTyped ==
    ASSUME NEW v \in View, NEW d \in Detail, v.reading => v.shown.id \in Ids
    PROVE  /\ Showing(v, d) \in View
           /\ d.id \in Ids => Showing(v, d).shown.id \in Ids
           /\ Showing(v, d).route = v.route /\ Showing(v, d).shown = d
           /\ Showing(v, d).mapping = v.mapping
BY DEF Showing, View

LEMMA RefsTyped ==
    ASSUME TypeOK, NEW t \in Taps
    PROVE  RefsOf(t) \in Refs
<1>1. tap[t] \in Tap /\ view \in View
  BY DEF TypeOK
<1>2. view.shown.id \in Ids \cup {None} /\ view.mapping \in Mapping
  BY <1>1 DEF View, Detail
<1>3. tap[t].refs \in Refs
  BY <1>1 DEF Tap
<1>4. QED
  BY <1>2, <1>3 DEF RefsOf, Refs

\* What a tap is given by its own actions has the type of a tap.
LEMMA TapTyped ==
    ASSUME TypeOK, NEW t \in Taps, NEW p \in Tap
    PROVE  [tap EXCEPT ![t] = p] \in [Taps -> Tap]
BY DEF TypeOK

LEMMA InitTyped == Init => Typed
<1> SUFFICES ASSUME Init PROVE Typed
  OBVIOUS
<1>1. TypeOK
  BY DefaultsTyped DEF Init, TypeOK
<1>2. ShownNamed /\ ClosedIsBlank /\ RequestsRouted
  BY DEF Init, Closed, NoTap, NoDetail, ShownNamed, ClosedIsBlank, RequestsRouted
<1>3. QED
  BY <1>1, <1>2 DEF Typed

LEMMA BackendTyped ==
    ASSUME Typed, NEW b \in Backends
    PROVE  /\ \A i \in Ids, promote \in BOOLEAN : Confirm(b, i, promote) => Typed'
           /\ \A promote \in BOOLEAN : Reconcile(b, promote) => Typed'
           /\ \A i \in Ids : PublishPreview(b, i) => Typed'
<1> USE DEF Typed, TypeOK, ShownNamed, ClosedIsBlank, RequestsRouted, phone, app
<1>1. \A row \in Row, promote \in BOOLEAN : Projected(row, promote) \in Row
  BY DEF Projected, Eligible, HasFormalPreview, HasFormalPreview, Row
<1>2. \A row \in Row : [row EXCEPT !.confirmed = TRUE] \in Row /\ [row EXCEPT !.ready = TRUE] \in Row
  BY DEF Row
<1>3. ASSUME NEW i \in Ids, NEW promote \in BOOLEAN, Confirm(b, i, promote) PROVE Typed'
  <2> DEFINE confirmed == [assets[b][i] EXCEPT !.confirmed = TRUE]
             row == IF assets[b][i].kind = "session" THEN Projected(confirmed, promote) ELSE confirmed
  <2>1. row \in Row
    BY <1>1, <1>2
  <2>2. assets' = [assets EXCEPT ![b] = [assets[b] EXCEPT ![i] = row]]
    BY <1>3 DEF Confirm
  <2>3. assets' \in [Backends -> [Ids -> Row]]
    BY <2>1, <2>2
  <2>4. QED
    BY <1>3, <2>3 DEF Confirm
<1>4. \A promote \in BOOLEAN : Reconcile(b, promote) => Typed'
  BY <1>1 DEF Reconcile
<1>5. ASSUME NEW i \in Ids, PublishPreview(b, i) PROVE Typed'
  <2>1. assets' = [assets EXCEPT ![b] = [assets[b] EXCEPT ![i] = [assets[b][i] EXCEPT !.ready = TRUE]]]
    BY <1>5 DEF PublishPreview
  <2>2. assets' \in [Backends -> [Ids -> Row]]
    BY <1>2, <2>1
  <2>3. QED
    BY <1>5, <2>2 DEF PublishPreview
<1>6. QED
  BY <1>3, <1>4, <1>5

\* Of a tap whose screen is gone.
Left(p, r) ==
    /\ r \in Tap /\ r.step = p.step /\ r.backend = p.backend /\ r.route = p.route
    /\ r.id = p.id /\ r.mapping = p.mapping /\ r.asset = p.asset
    /\ r.capability = p.capability /\ r.gone = p.gone /\ r.records = p.records
    /\ r.step = "idle" \/ ~r.mounted
LEMMA TapClosed ==
    ASSUME Typed, CloseDetail, NEW t \in Taps
    PROVE  Left(tap[t], tap'[t])
<1>1. tap[t] \in Tap /\ RefsOf(t) \in Refs
  BY RefsTyped DEF Typed, TypeOK
<1>2. tap'[t] \in {tap[t], [tap[t] EXCEPT !.mounted = FALSE, !.refs = RefsOf(t)],
                  [tap[t] EXCEPT !.mounted = FALSE]}
      /\ (tap[t].step # "idle" => tap'[t] # tap[t] \/ ~tap[t].mounted)
  BY <1>1 DEF CloseDetail, Tap
<1>3. CASE tap'[t] = [tap[t] EXCEPT !.mounted = FALSE, !.refs = RefsOf(t)]
  BY <1>1, <1>3 DEF Left, Tap
<1>4. CASE tap'[t] = [tap[t] EXCEPT !.mounted = FALSE]
  BY <1>1, <1>4 DEF Left, Tap
<1>5. CASE tap'[t] = tap[t]
  BY <1>1, <1>2, <1>5 DEF Left
<1>6. QED
  BY <1>2, <1>3, <1>4, <1>5

LEMMA NavigationTyped ==
    ASSUME Typed
    PROVE  /\ \A i \in Ids : OpenDetail(i) => Typed'
           /\ CloseDetail => Typed'
           /\ \A b \in Backends : SetBackend(b) => Typed'
           /\ \A b \in Backends, i \in Ids, photo \in Photos : Upload(b, i, photo) => Typed'
           /\ AppKilled => Typed'
<1> USE DEF Typed, TypeOK, ShownNamed, ClosedIsBlank, RequestsRouted, phone, app
<1>0. None \notin Ids
  BY DistinctConstants
<1>1. \A i \in Ids :
        /\ Routed(i) \in View /\ Routed(i).route # None
        /\ Routed(i).reading \/ Routed(i).shown.ready => Routed(i).shown.id \in Ids
  BY <1>0, DefaultsTyped DEF Routed, View, Closed, NoDetail
<1>2. \A i \in Ids : OpenDetail(i) => Typed'
  BY <1>1 DEF OpenDetail
<1>3. ASSUME CloseDetail PROVE Typed'
  <2>1. \A t \in Taps : Left(tap[t], tap'[t])
    BY <1>3, TapClosed
  <2>2. tap' \in [Taps -> Tap]
    <3>1. tap' = [t \in Taps |-> tap'[t]]
      BY <1>3 DEF CloseDetail
    <3>2. QED
      BY <2>1, <3>1 DEF Left
  <2>3. \A t \in Taps :
          /\ tap'[t].step = "idle" \/ ~tap'[t].mounted
          /\ tap'[t].step = tap[t].step /\ tap'[t].backend = tap[t].backend
          /\ tap'[t].asset = tap[t].asset /\ tap'[t].route = tap[t].route
          /\ tap'[t].id = tap[t].id
    BY <2>1 DEF Left
  <2>4. ClosedIsBlank' /\ ShownNamed'
    BY <1>3, <2>3 DEF CloseDetail, Closed, NoDetail
  <2>5. RequestsRouted'
    BY <1>3, <2>3
  <2>6. TypeOK'
    BY <1>3, <2>2, DefaultsTyped DEF CloseDetail
  <2>7. QED
    BY <2>4, <2>5, <2>6
<1>4. \A b \in Backends : SetBackend(b) => Typed'
  BY DEF SetBackend
<1>5. ASSUME NEW b \in Backends, NEW i \in Ids, NEW photo \in Photos, Upload(b, i, photo)
      PROVE  Typed'
  <2> DEFINE row == [NoRow EXCEPT !.kind = IF i \in Direct THEN "direct" ELSE "session",
                                  !.content = photo]
  <2>1. row \in Row
    BY DEF NoRow, Row
  <2>2. assets' = [assets EXCEPT ![b] = [assets[b] EXCEPT ![i] = row]]
    BY <1>5 DEF Upload
  <2>3. assets' \in [Backends -> [Ids -> Row]]
    BY <2>1, <2>2
  <2>4. [id |-> i, photo |-> photo] \in Mapping
    BY DEF Mapping
  <2>5. QED
    BY <1>1, <1>5, <2>3, <2>4 DEF Upload
<1>6. AppKilled => Typed'
  BY DefaultsTyped DEF AppKilled, Closed, NoTap, NoDetail
<1>7. QED
  BY <1>2, <1>3, <1>4, <1>5, <1>6

\* The screen is the same but for capability, status and outcome.
SameScreen ==
    view'.route = view.route /\ view'.shown = view.shown
    /\ view'.mapping = view.mapping /\ view'.reading = view.reading

LEMMA ScreenTyped ==
    ASSUME Typed
    PROVE  /\ \A m \in saving : SaveLocalAssetMapping(m) => Typed'
           /\ Refresh => Typed'
           /\ \A i \in Ids : LoadAsset(i) => Typed'
           /\ LoadCapability => Typed'
           /\ ReadLocalState => Typed'
<1> USE DEF Typed, TypeOK, ShownNamed, ClosedIsBlank, RequestsRouted, phone, app
<1>1. \A m \in saving : SaveLocalAssetMapping(m) => Typed'
  BY DEF SaveLocalAssetMapping
<1>2. Refresh => Typed'
  BY DEF Refresh, View
<1>3. ASSUME NEW i \in Ids, LoadAsset(i) PROVE Typed'
  <2>1. view' \in View /\ (view'.reading \/ view'.shown.ready => view'.shown.id \in Ids) /\ view'.route = view.route
    <3>1. PICK d \in Answers(backend, i) : view' = IF d = NoDetail THEN view ELSE Showing(view, d)
      BY <1>3 DEF LoadAsset
    <3>2. d \in Detail /\ (d # NoDetail => d.id \in Ids)
      BY AnswersTyped
    <3>3. Showing(view, d) \in View /\ Showing(view, d).route = view.route
      BY <3>2, ShowingTyped
    <3>4. QED
      BY <3>1, <3>2, <3>3, ShowingTyped
  <2>2. QED
    BY <1>3, <2>1 DEF LoadAsset
<1>4. ASSUME LoadCapability PROVE Typed'
  <2>1. view' \in View /\ SameScreen
    BY <1>4 DEF LoadCapability, View, SameScreen
  <2>2. QED
    BY <1>4, <2>1 DEF LoadCapability, SameScreen
<1>5. ASSUME ReadLocalState PROVE Typed'
  <2>1. view' \in View
    <3>1. NoMapping \in Mapping
      BY DefaultsTyped
    <3>2. mappings[view.shown.id] \in Mapping
      BY <1>5 DEF ReadLocalState
    <3>3. (view.shown.id \in outcomes) \in BOOLEAN
      OBVIOUS
    <3>4. QED
      BY ZenonT(60), <1>5, <3>1, <3>2, <3>3 DEF ReadLocalState, View
  <2>2. ~view'.reading /\ view'.route = view.route /\ view'.shown = view.shown
    BY <1>5 DEF ReadLocalState, View
  <2>3. QED
    BY <1>5, <2>1, <2>2 DEF ReadLocalState
<1>6. QED
  BY <1>1, <1>2, <1>3, <1>4, <1>5

\* A step of tap t, to p, and of the screen.
LEMMA TapStepTyped ==
    ASSUME Typed, NEW t \in Taps, NEW p \in Tap, tap' = [tap EXCEPT ![t] = p],
           p.step = "refreshing" =>
               p.backend \in Backends /\ (p.asset = "pending" => p.route \in Ids),
           p.step # "idle" => p.id \in Ids,
           p.step # "idle" /\ p.mounted =>
               view.route # None \/ (tap[t].step # "idle" /\ tap[t].mounted),
           view' \in View, view'.route = view.route,
           view.route = None => view'.shown = view.shown,
           view'.reading \/ view'.shown.ready => view'.shown.id \in Ids,
           UNCHANGED <<assets, mappings, backend, saving, loads>>,
           library' \subseteq Photos, outcomes' \subseteq Ids
    PROVE  Typed'
<1> USE DEF Typed
<1>1. TypeOK'
  BY TapTyped DEF TypeOK
<1>2. tap'[t] = p /\ \A u \in Taps : u # t => tap'[u] = tap[u]
  BY DEF TypeOK
<1>3. ShownNamed' /\ RequestsRouted'
  BY <1>2 DEF ShownNamed, RequestsRouted
<1>4. ClosedIsBlank'
  BY <1>2 DEF ClosedIsBlank
<1>5. QED
  BY <1>1, <1>3, <1>4

\* What a tap asked for, in each of its steps.
SameRequest(p, q) ==
    q \in Tap /\ q.backend = p.backend /\ q.id = p.id /\ q.mapping = p.mapping
    /\ q.mounted = p.mounted

LEMMA TapAsked ==
    ASSUME NEW p \in Tap
    PROVE  SameRequest(p, Asking(p)) /\ Asking(p).step = "dialog"
<1>1. NoTap \in Tap
  BY DefaultsTyped
<1>2. QED
  BY <1>1 DEF Tap, Asking, SameRequest

LEMMA TapRefreshed ==
    ASSUME NEW p \in Tap, NEW verdict \in {"refused", "deletable", "candidate"}
    PROVE  LET q == [p EXCEPT !.asset = verdict, !.route = None] IN
           SameRequest(p, q) /\ q.step = p.step /\ q.asset = verdict
BY DEF Tap, SameRequest

LEMMA TapAllowed ==
    ASSUME NEW p \in Tap, NEW capability \in {"on", "off"}
    PROVE  LET q == [p EXCEPT !.capability = capability] IN
           SameRequest(p, q) /\ q.step = p.step /\ q.asset = p.asset /\ q.route = p.route
BY DEF Tap, SameRequest

LEMMA TapPerformed ==
    ASSUME NEW p \in Tap
    PROVE  LET q == [p EXCEPT !.step = "native"] IN
           SameRequest(p, q) /\ q.step = "native"
BY DEF Tap, SameRequest

LEMMA TapAnswered ==
    ASSUME NEW p \in Tap, NEW gone \in BOOLEAN
    PROVE  LET q == Answered(p, gone) IN
           q \in Tap /\ q.step = "answered" /\ q.id = p.id /\ q.mounted = p.mounted
           /\ q.gone = gone /\ q.mapping = NoMapping
<1>1. NoTap \in Tap /\ NoTap.mapping = NoMapping
  BY DefaultsTyped DEF NoTap
<1>2. QED
  BY <1>1 DEF Tap, Answered

LEMMA TapReported ==
    ASSUME NEW p \in Tap, NEW records \in SUBSET Ids
    PROVE  LET q == [p EXCEPT !.step = "writing", !.records = records] IN
           SameRequest(p, q) /\ q.step = "writing" /\ q.gone = p.gone /\ q.records = records
BY DEF Tap, SameRequest

LEMMA TapStarted ==
    ASSUME Typed, NEW t \in Taps, RequestDeletion(t)
    PROVE  /\ tap'[t] \in Tap /\ tap'[t].step = "refreshing" /\ tap'[t].asset = "pending"
           /\ tap'[t].backend = backend /\ tap'[t].route = view.route
           /\ tap'[t].id = view.shown.id /\ tap'[t].mapping = view.mapping
           /\ tap' = [tap EXCEPT ![t] = tap'[t]]
           /\ view.shown.ready /\ view.route \in Ids /\ view.shown.id \in Ids
<1> DEFINE p == [NoTap EXCEPT !.step = "refreshing", !.backend = backend, !.route = view.route,
                              !.id = view.shown.id, !.mapping = view.mapping]
<1>0. NoTap \in Tap /\ view \in View /\ backend \in Backends /\ NoTap.asset = "pending"
  BY DefaultsTyped DEF Typed, TypeOK, NoTap
<1>1. /\ view.shown \in Detail /\ view.mapping \in Mapping /\ view.route \in Ids \cup {None}
      /\ view.shown.id \in Ids \cup {None}
  BY <1>0 DEF View, Detail
<1>2. /\ p \in Tap /\ p.step = "refreshing" /\ p.asset = "pending" /\ p.backend = backend
      /\ p.route = view.route /\ p.id = view.shown.id /\ p.mapping = view.mapping
  BY <1>0, <1>1 DEF Tap
<1>3. tap' = [tap EXCEPT ![t] = p] /\ tap'[t] = p
  BY DEF RequestDeletion, Typed, TypeOK
<1>4. view.shown.ready /\ view.route # None /\ view.shown.id \in Ids
  BY DEF RequestDeletion, CanDelete, Deletable, Typed, ClosedIsBlank, ShownNamed
<1>5. QED
  BY <1>1, <1>2, <1>3, <1>4

LEMMA RequestTyped ==
    ASSUME Typed, NEW t \in Taps
    PROVE  /\ RequestDeletion(t) => Typed'
           /\ RefreshAsset(t) => Typed'
           /\ RefreshCapability(t) => Typed'
           /\ AnswerRequest(t) => Typed'
           /\ CancelDialog(t) => Typed'
<1>0. /\ NoTap \in Tap /\ NoTap.step = "idle" /\ tap[t] \in Tap /\ view \in View
      /\ library \subseteq Photos /\ outcomes \subseteq Ids /\ backend \in Backends
      /\ tap[t].step # "idle" => tap[t].id \in Ids
      /\ view.reading \/ view.shown.ready => view.shown.id \in Ids
      /\ tap[t].step = "refreshing" => tap[t].backend \in Backends
      /\ tap[t].step = "refreshing" /\ tap[t].asset = "pending" => tap[t].route \in Ids
  BY DefaultsTyped DEF Typed, TypeOK, NoTap, ShownNamed, RequestsRouted
<1>1. ASSUME RequestDeletion(t) PROVE Typed'
  <2>1. view' \in View /\ SameScreen
    BY <1>0, <1>1 DEF RequestDeletion, View, SameScreen
  <2>2. None \notin Ids
    BY DistinctConstants
  <2>3. UNCHANGED <<assets, library, mappings, outcomes, backend, saving, loads>>
    BY <1>1 DEF RequestDeletion, phone
  <2>4. QED
    BY <1>0, <1>1, <2>1, <2>2, <2>3, TapStarted, TapStepTyped DEF SameScreen
<1>2. ASSUME RefreshAsset(t) PROVE Typed'
  <2>1. PICK d \in Answers(tap[t].backend, tap[t].route) :
          /\ tap' = [tap EXCEPT ![t].asset = Verdict(t, d), ![t].route = None]
          /\ view' = IF d = NoDetail \/ ~tap[t].mounted THEN view ELSE Showing(view, d)
    BY <1>2 DEF RefreshAsset
  <2> DEFINE p == [tap[t] EXCEPT !.asset = Verdict(t, d), !.route = None]
  <2>2. /\ tap[t].backend \in Backends /\ tap[t].route \in Ids
        /\ tap[t].step = "refreshing" /\ tap[t].asset = "pending"
    BY <1>0, <1>2 DEF RefreshAsset
  <2>3. SameRequest(tap[t], p) /\ p.step = "refreshing" /\ p.asset # "pending"
    BY ZenonT(60), <1>0, <2>2, TapRefreshed DEF Verdict
  <2>4. tap' = [tap EXCEPT ![t] = p]
    BY <1>0, <2>1 DEF Typed, TypeOK
  <2>5. d \in Detail /\ (d # NoDetail => d.id \in Ids)
    BY <2>2, AnswersTyped DEF Typed
  <2>6. /\ view' \in View /\ view'.route = view.route
        /\ view'.reading \/ view'.shown.ready => view'.shown.id \in Ids
        /\ view' = view \/ tap[t].mounted
    BY <1>0, <2>1, <2>5, ShowingTyped
  <2>7. UNCHANGED <<assets, library, mappings, outcomes, backend, saving, loads>>
    BY <1>2 DEF RefreshAsset, phone
  <2>8. tap[t].mounted => view.route # None
    BY <2>2 DEF Typed, ClosedIsBlank
  <2>9. QED
    BY <1>0, <2>2, <2>3, <2>4, <2>6, <2>7, <2>8, TapStepTyped DEF SameRequest
<1>3. ASSUME RefreshCapability(t) PROVE Typed'
  <2>1. PICK capability \in {"on", "off"} : tap' = [tap EXCEPT ![t].capability = capability]
    BY <1>3 DEF RefreshCapability
  <2> DEFINE p == [tap[t] EXCEPT !.capability = capability]
  <2>2. SameRequest(tap[t], p) /\ p.step = tap[t].step /\ p.asset = tap[t].asset
        /\ p.route = tap[t].route
    BY <1>0, TapAllowed
  <2>3. tap' = [tap EXCEPT ![t] = p]
    BY <2>1
  <2>4. view' \in View /\ SameScreen
    BY <1>0, <1>3 DEF RefreshCapability, View, SameScreen
  <2>5. UNCHANGED <<assets, library, mappings, outcomes, backend, saving, loads>>
    BY <1>3 DEF RefreshCapability, phone
  <2>6. QED
    BY <1>0, <1>3, <2>2, <2>3, <2>4, <2>5, TapStepTyped
       DEF SameRequest, SameScreen, RefreshCapability
<1>4. ASSUME AnswerRequest(t) PROVE Typed'
  <2>1. SameRequest(tap[t], Asking(tap[t])) /\ Asking(tap[t]).step = "dialog"
    BY <1>0, TapAsked
  <2>2. \E p \in {NoTap, Asking(tap[t])} : tap' = [tap EXCEPT ![t] = p]
    BY <1>4 DEF AnswerRequest
  <2>3. UNCHANGED <<assets, library, mappings, outcomes, backend, saving, loads, view>>
    BY <1>4 DEF AnswerRequest, phone
  <2>4. tap[t].step # "idle"
    BY <1>4 DEF AnswerRequest
  <2>5. QED
    BY <1>0, <2>1, <2>2, <2>3, <2>4, TapStepTyped DEF SameRequest
<1>5. ASSUME CancelDialog(t) PROVE Typed'
  <2>1. UNCHANGED <<assets, library, mappings, outcomes, backend, saving, loads, view>>
    BY <1>5 DEF CancelDialog, phone
  <2>2. QED
    BY <1>0, <1>5, <2>1, TapStepTyped DEF CancelDialog
<1>6. QED
  BY <1>1, <1>2, <1>3, <1>4, <1>5

LEMMA DeletionTyped ==
    ASSUME Typed, NEW t \in Taps
    PROVE  /\ PerformDeletion(t) => Typed'
           /\ DeleteAssets(t) => Typed'
           /\ ReportResult(t) => Typed'
           /\ WriteOutcome(t) => Typed'
<1>0. /\ NoTap \in Tap /\ NoTap.step = "idle" /\ tap[t] \in Tap /\ view \in View
      /\ library \subseteq Photos /\ outcomes \subseteq Ids /\ backend \in Backends
      /\ tap[t].step # "idle" => tap[t].id \in Ids
      /\ view.reading \/ view.shown.ready => view.shown.id \in Ids
  BY DefaultsTyped DEF Typed, TypeOK, NoTap, ShownNamed, RequestsRouted
<1>1. ASSUME PerformDeletion(t) PROVE Typed'
  <2> DEFINE p == [tap[t] EXCEPT !.step = "native"]
  <2>1. SameRequest(tap[t], p) /\ p.step = "native"
    BY <1>0, TapPerformed
  <2>2. \E q \in {p, NoTap} : tap' = [tap EXCEPT ![t] = q]
    BY <1>1 DEF PerformDeletion
  <2>3. view' \in View /\ SameScreen
    BY <1>0, <1>1 DEF PerformDeletion, View, SameScreen
  <2>4. UNCHANGED <<assets, library, mappings, outcomes, backend, saving, loads>>
    BY <1>1 DEF PerformDeletion, phone
  <2>5. tap[t].step # "idle"
    BY <1>1 DEF PerformDeletion
  <2>6. PICK q \in {p, NoTap} : tap' = [tap EXCEPT ![t] = q]
    BY <2>2
  <2>7. q \in Tap /\ q.step # "refreshing"
        /\ (q.step # "idle" => q.id \in Ids /\ q.mounted = tap[t].mounted)
    BY <1>0, <2>1, <2>5 DEF SameRequest
  <2>8. QED
    BY <1>0, <2>3, <2>4, <2>5, <2>6, <2>7, TapStepTyped DEF SameScreen
<1>2. ASSUME DeleteAssets(t) PROVE Typed'
  <2>1. PICK gone \in BOOLEAN : tap' = [tap EXCEPT ![t] = Answered(tap[t], gone)]
    BY <1>2 DEF DeleteAssets
  <2>2. /\ Answered(tap[t], gone) \in Tap /\ Answered(tap[t], gone).step = "answered"
        /\ Answered(tap[t], gone).mounted = tap[t].mounted
        /\ Answered(tap[t], gone).id = tap[t].id
    BY <1>0, TapAnswered
  <2>3. UNCHANGED <<assets, mappings, outcomes, backend, saving, loads, view>>
        /\ library' \subseteq Photos /\ tap[t].step # "idle"
    BY <1>0, <1>2 DEF DeleteAssets
  <2>4. QED
    BY <1>0, <2>1, <2>2, <2>3, TapStepTyped
<1>3. ASSUME ReportResult(t) PROVE Typed'
  <2> DEFINE p == [tap[t] EXCEPT !.step = "writing", !.records = outcomes]
  <2>1. SameRequest(tap[t], p) /\ p.step = "writing"
    BY <1>0, TapReported
  <2>2. tap' = [tap EXCEPT ![t] = p]
    BY <1>0, <1>3 DEF ReportResult, Typed, TypeOK
  <2>3. view' \in View /\ SameScreen
    BY <1>0, <1>3 DEF ReportResult, View, SameScreen
  <2>4. UNCHANGED <<assets, library, mappings, outcomes, backend, saving, loads>>
        /\ tap[t].step # "idle"
    BY <1>3 DEF ReportResult, phone
  <2>5. QED
    BY <1>0, <2>1, <2>2, <2>3, <2>4, TapStepTyped DEF SameRequest, SameScreen
<1>4. ASSUME WriteOutcome(t) PROVE Typed'
  <2>1. tap[t].records \subseteq Ids /\ tap[t].id \in Ids /\ tap[t].gone \in BOOLEAN
    BY <1>0, <1>4 DEF Tap, WriteOutcome
  <2>2. outcomes' \subseteq Ids
    <3>1. tap[t].records \cup {tap[t].id} \subseteq Ids /\ tap[t].records \ {tap[t].id} \subseteq Ids
      BY <2>1
    <3>2. outcomes' \in {outcomes, tap[t].records \cup {tap[t].id}, tap[t].records \ {tap[t].id}}
      BY <1>4 DEF WriteOutcome
    <3>3. QED
      BY <1>0, <3>1, <3>2
  <2>3. view' \in View /\ SameScreen
    <3>1. view' = view \/ view' = [view EXCEPT !.deleted = tap[t].gone]
      BY <1>4 DEF WriteOutcome
    <3>2. QED
      BY <1>0, <2>1, <3>1 DEF View, SameScreen
  <2>4. UNCHANGED <<assets, library, mappings, backend, saving, loads>>
        /\ tap' = [tap EXCEPT ![t] = NoTap]
    BY <1>4 DEF WriteOutcome
  <2>5. QED
    BY <1>0, <2>2, <2>3, <2>4, TapStepTyped DEF SameScreen
<1>5. QED
  BY <1>1, <1>2, <1>3, <1>4

LEMMA NextTyped == Typed /\ [Next]_vars => Typed'
<1> SUFFICES ASSUME Typed, [Next]_vars PROVE Typed'
  OBVIOUS
<1>1. CASE UNCHANGED vars
  BY <1>1 DEF Typed, TypeOK, ShownNamed, ClosedIsBlank, RequestsRouted, vars, phone, app
<1>2. CASE Next
  BY <1>2, BackendTyped, NavigationTyped, ScreenTyped, RequestTyped, DeletionTyped DEF Next
<1>3. QED
  BY <1>1, <1>2

\* The backends, the phone and the app always have the types of their
\* variables.
THEOREM DeletionTypeCorrect == Spec => []TypeOK
<1>1. Spec => []Typed
  BY InitTyped, NextTyped, PTL DEF Spec
<1>2. Typed => TypeOK
  BY DEF Typed
<1>3. QED
  BY <1>1, <1>2, PTL

(***************************************************************************)
(* The assets only ever grow: what an app has read of one stays true.      *)
(***************************************************************************)
RowOK(row) ==
    /\ row.kind # "absent" => row.content \in Photos
    /\ row.ready => row.kind # "absent"
    /\ row.confirmed => row.ready
    /\ row.candidate => Eligible(row)
RowsOK ==
    \A b \in Backends, i \in Ids :
        RowOK(assets[b][i]) /\ (assets[b][i].kind # "absent" => i \in Assigned[b])

Grown(old, new) ==
    /\ old.kind # "absent" => new.kind = old.kind /\ new.content = old.content
    /\ (old.ready => new.ready) /\ (old.confirmed => new.confirmed)
    /\ (old.candidate => new.candidate)
AllGrown == \A b \in Backends, i \in Ids : Grown(assets[b][i], assets'[b][i])

\* A step that sets one row.
LEMMA OneRowSet ==
    ASSUME Typed, RowsOK, NEW b \in Backends, NEW i \in Ids, NEW row \in Row,
           RowOK(row), Grown(assets[b][i], row),
           row.kind # "absent" => assets[b][i].kind # "absent" \/ i \in Assigned[b],
           assets' = [assets EXCEPT ![b] = [assets[b] EXCEPT ![i] = row]]
    PROVE  RowsOK' /\ AllGrown
<1>1. assets \in [Backends -> [Ids -> Row]]
  BY DEF Typed, TypeOK
<1>2. \A c \in Backends, j \in Ids :
        assets'[c][j] = IF c = b /\ j = i THEN row ELSE assets[c][j]
  BY <1>1
<1>3. \A c \in Backends, j \in Ids : Grown(assets[c][j], assets[c][j])
  BY DEF Grown
<1>4. RowsOK'
  BY <1>2 DEF RowsOK
<1>5. QED
  BY <1>2, <1>3, <1>4 DEF AllGrown

LEMMA ProjectedGrows ==
    ASSUME NEW row \in Row, RowOK(row), NEW promote \in BOOLEAN
    PROVE  /\ Projected(row, promote) \in Row /\ RowOK(Projected(row, promote))
           /\ Grown(row, Projected(row, promote)) /\ Projected(row, promote).kind = row.kind
BY DEF Row, RowOK, Projected, Eligible, HasFormalPreview, Grown

LEMMA ConfirmedGrows ==
    ASSUME NEW row \in Row, RowOK(row), row.ready
    PROVE  LET confirmed == [row EXCEPT !.confirmed = TRUE] IN
           /\ confirmed \in Row /\ RowOK(confirmed) /\ Grown(row, confirmed)
           /\ confirmed.kind = row.kind
BY DEF Row, RowOK, Eligible, HasFormalPreview, Grown

LEMMA AssetsGrow ==
    ASSUME Typed, RowsOK, [Next]_vars
    PROVE  RowsOK' /\ AllGrown
<1>0. assets \in [Backends -> [Ids -> Row]]
  BY DEF Typed, TypeOK
<1>1. CASE UNCHANGED assets
  BY <1>1 DEF RowsOK, AllGrown, Grown
<1>2. ASSUME NEW b \in Backends, NEW i \in Ids, NEW promote \in BOOLEAN, Confirm(b, i, promote)
      PROVE  RowsOK' /\ AllGrown
  <2> DEFINE confirmed == [assets[b][i] EXCEPT !.confirmed = TRUE]
             row == IF assets[b][i].kind = "session" THEN Projected(confirmed, promote) ELSE confirmed
  <2>1. assets[b][i] \in Row /\ RowOK(assets[b][i]) /\ assets[b][i].ready
    BY <1>0, <1>2 DEF RowsOK, Confirm
  <2>2. /\ confirmed \in Row /\ RowOK(confirmed) /\ Grown(assets[b][i], confirmed)
        /\ confirmed.kind = assets[b][i].kind
    BY <2>1, ConfirmedGrows
  <2>3. /\ Projected(confirmed, promote) \in Row /\ RowOK(Projected(confirmed, promote))
        /\ Grown(confirmed, Projected(confirmed, promote))
        /\ Projected(confirmed, promote).kind = confirmed.kind
    BY <2>2, ProjectedGrows
  <2>4. row \in Row /\ RowOK(row) /\ Grown(assets[b][i], row) /\ row.kind = assets[b][i].kind
    BY <2>2, <2>3 DEF Grown
  <2>5. assets' = [assets EXCEPT ![b] = [assets[b] EXCEPT ![i] = row]]
    BY <1>0, <1>2 DEF Confirm
  <2>6. QED
    BY <2>1, <2>4, <2>5, OneRowSet
<1>3. ASSUME NEW b \in Backends, NEW promote \in BOOLEAN, Reconcile(b, promote)
      PROVE  RowsOK' /\ AllGrown
  <2>1. \A c \in Backends, i \in Ids :
          assets'[c][i] \in {assets[c][i], Projected(assets[c][i], promote)}
    BY <1>0, <1>3 DEF Reconcile
  <2>2. \A c \in Backends, i \in Ids :
          /\ RowOK(assets'[c][i]) /\ Grown(assets[c][i], assets'[c][i])
          /\ assets'[c][i].kind = assets[c][i].kind
    <3> SUFFICES ASSUME NEW c \in Backends, NEW i \in Ids
                 PROVE  /\ RowOK(assets'[c][i]) /\ Grown(assets[c][i], assets'[c][i])
                        /\ assets'[c][i].kind = assets[c][i].kind
      OBVIOUS
    <3>1. assets[c][i] \in Row /\ RowOK(assets[c][i]) /\ Grown(assets[c][i], assets[c][i])
      BY <1>0 DEF RowsOK, Grown
    <3>2. QED
      BY <2>1, <3>1, ProjectedGrows
  <2>3. QED
    BY <2>2 DEF RowsOK, AllGrown
<1>4. ASSUME NEW b \in Backends, NEW i \in Ids, PublishPreview(b, i)
      PROVE  RowsOK' /\ AllGrown
  <2> DEFINE row == [assets[b][i] EXCEPT !.ready = TRUE]
  <2>1. assets[b][i] \in Row /\ RowOK(assets[b][i]) /\ assets[b][i].kind # "absent"
    BY <1>0, <1>4 DEF RowsOK, PublishPreview
  <2>2. row \in Row /\ RowOK(row) /\ Grown(assets[b][i], row) /\ row.kind = assets[b][i].kind
    BY <2>1 DEF Row, RowOK, Eligible, HasFormalPreview, Grown
  <2>3. assets' = [assets EXCEPT ![b] = [assets[b] EXCEPT ![i] = row]]
    BY <1>0, <1>4 DEF PublishPreview
  <2>4. QED
    BY <2>1, <2>2, <2>3, OneRowSet
<1>5. ASSUME NEW b \in Backends, NEW i \in Ids, NEW photo \in Photos, Upload(b, i, photo)
      PROVE  RowsOK' /\ AllGrown
  <2> DEFINE row == [NoRow EXCEPT !.kind = IF i \in Direct THEN "direct" ELSE "session",
                                  !.content = photo]
  <2>1. assets[b][i] \in Row /\ RowOK(assets[b][i]) /\ assets[b][i].kind = "absent"
    BY <1>0, <1>5 DEF RowsOK, Upload
  <2>2. row \in Row /\ RowOK(row) /\ Grown(assets[b][i], row)
    BY <2>1 DEF Row, RowOK, Eligible, HasFormalPreview, Grown, NoRow
  <2>3. assets' = [assets EXCEPT ![b] = [assets[b] EXCEPT ![i] = row]]
    BY <1>5 DEF Upload
  <2>4. QED
    BY <1>5, <2>2, <2>3, OneRowSet DEF Upload
<1>6. QED
  BY <1>1, <1>2, <1>3, <1>4, <1>5 DEF Next, vars, OpenDetail, LoadAsset, SaveLocalAssetMapping,
     SetBackend, CloseDetail, Refresh, LoadCapability, ReadLocalState, AppKilled, RequestDeletion,
     RefreshAsset, RefreshCapability, AnswerRequest, CancelDialog, PerformDeletion, DeleteAssets,
     ReportResult, WriteOutcome

LEMMA AlwaysGrowing == Spec => [](Typed /\ RowsOK)
<1>1. Init => RowsOK
  BY DEF Init, RowsOK, RowOK, NoRow, Eligible, HasFormalPreview
<1>2. QED
  BY <1>1, InitTyped, NextTyped, AssetsGrow, PTL DEF Spec

\* No confirmation, reconciliation, publication or upload, with or without the
\* capability, ever takes a candidate back.
THEOREM CandidatesStay == Spec => CandidateKept
<1>1. Typed /\ RowsOK /\ [Next]_vars =>
        [\A b \in Backends, i \in Ids :
            assets[b][i].candidate => assets'[b][i].candidate /\ Eligible(assets'[b][i])]_vars
  BY AssetsGrow DEF AllGrown, Grown, RowsOK, RowOK
<1>2. QED
  BY <1>1, AlwaysGrowing, PTL DEF Spec, CandidateKept

(***************************************************************************)
(* What the app has stored, shows and works off is about assets as they    *)
(* are. An id stands for the asset of some backend; which one matters only *)
(* where two facts about an id are joined, and there ids must be apart.    *)
(***************************************************************************)
\* A mapping names an asset and the original whose bytes that asset holds.
Backed(m) ==
    m # NoMapping =>
        /\ m.id \in Ids /\ m.photo \in Photos
        /\ \E b \in Backends : assets[b][m.id].kind # "absent" /\ assets[b][m.id].content = m.photo
\* What a detail of backend b allows, its asset still does.
Seen(b, d) ==
    d.ready =>
        LET row == assets[b][d.id] IN
        /\ d.id \in Ids /\ row.ready /\ row.kind = d.kind
        /\ (d.confirmed => row.confirmed) /\ (d.candidate => row.candidate)
KeptAt(b, i) == b \in Backends /\ i \in Ids /\ Kept(assets[b][i])
\* Records of deletions done are of assets whose original is gone.
Gone(records) ==
    \A i \in records :
        /\ i \in Ids
        /\ \E b \in Backends : assets[b][i].kind # "absent" /\ assets[b][i].content \notin library

TapOK(p) ==
    /\ Backed(p.mapping)
    /\ p.step \in {"refreshing", "dialog", "native"} => KeptAt(p.backend, p.id)
    /\ p.step \in {"dialog", "native"} => p.mapping.id = p.id
    /\ p.step \in {"answered", "writing"} /\ p.gone => Gone({p.id})
    /\ p.step = "writing" => Gone(p.records)

StoreOK ==
    /\ \A m \in saving : Backed(m)
    /\ \A i \in Ids : Backed(mappings[i]) /\ (mappings[i] # NoMapping => mappings[i].id = i)
    /\ Gone(outcomes)
ScreenOK == Seen(backend, view.shown) /\ Backed(view.mapping)
TapsOK == \A t \in Taps : TapOK(tap[t])
\* A tap whose screen is still there is about the backend of that screen.
SameBackend ==
    \A t \in Taps : tap[t].step = "refreshing" /\ tap[t].mounted => tap[t].backend = backend
SInv == Typed /\ RowsOK /\ StoreOK /\ ScreenOK /\ TapsOK /\ SameBackend

\* Facts about the assets outlive every step.
LEMMA FactsLast ==
    ASSUME Typed, RowsOK, AllGrown, library' \subseteq library
    PROVE  /\ \A m : Backed(m) => Backed(m)'
           /\ \A b \in Backends : \A d : Seen(b, d) => Seen(b, d)'
           /\ \A b, i : KeptAt(b, i) => KeptAt(b, i)'
           /\ \A r : Gone(r) => Gone(r)'
           /\ \A p \in Tap : TapOK(p) => TapOK(p)'
<1>0. \A b \in Backends, i \in Ids : Grown(assets[b][i], assets'[b][i]) /\ RowOK(assets[b][i])
  BY DEF AllGrown, RowsOK
<1>1. \A m : Backed(m) => Backed(m)'
  BY <1>0 DEF Backed, Grown
<1>2. \A b \in Backends : \A d : Seen(b, d) => Seen(b, d)'
  BY <1>0 DEF Seen, Grown, RowOK
<1>3. \A b, i : KeptAt(b, i) => KeptAt(b, i)'
  BY <1>0 DEF KeptAt, Kept, Grown, RowOK
<1>4. \A r : Gone(r) => Gone(r)'
  BY <1>0 DEF Gone, Grown
<1>5. \A p \in Tap : TapOK(p) => TapOK(p)'
  BY <1>1, <1>3, <1>4 DEF TapOK
<1>6. QED
  BY <1>1, <1>2, <1>3, <1>4, <1>5

\* The library only shrinks.
LEMMA LibraryShrinks == ASSUME [Next]_vars PROVE library' \subseteq library
BY ZenonT(60) DEF Next, vars, phone, Confirm, Reconcile, PublishPreview, Upload, OpenDetail, LoadAsset,
   SaveLocalAssetMapping, SetBackend, CloseDetail, Refresh, LoadCapability, ReadLocalState,
   AppKilled, RequestDeletion, RefreshAsset, RefreshCapability, AnswerRequest, CancelDialog,
   PerformDeletion, DeleteAssets, ReportResult, WriteOutcome

\* An answer is about an asset as it is.
LEMMA AnswerSeen ==
    ASSUME NEW b \in Backends, NEW i \in Ids, NEW d \in Answers(b, i)
    PROVE  Seen(b, d)
<1>1. CASE d = NoDetail
  BY <1>1 DEF Seen, NoDetail
<1>2. CASE d = DetailOf(assets[b][i], i)
  BY <1>2 DEF Seen, DetailOf
<1>3. QED
  BY <1>1, <1>2 DEF Answers

\* What can be deleted is kept.
LEMMA OfferKept ==
    ASSUME Typed, RowsOK, ScreenOK, CanDelete
    PROVE  KeptAt(backend, view.shown.id) /\ Backed(view.mapping)
<1>1. view.shown \in Detail /\ backend \in Backends
  BY DEF Typed, TypeOK, View
<1>2. QED
  BY <1>1 DEF ScreenOK, CanDelete, Deletable, Seen, KeptAt, Kept

LEMMA StepStays ==
    ASSUME SInv, [Next]_vars
    PROVE  /\ Typed' /\ RowsOK' /\ AllGrown /\ library' \subseteq library
           /\ \A m : Backed(m) => Backed(m)'
           /\ \A b \in Backends : \A d : Seen(b, d) => Seen(b, d)'
           /\ \A b, i : KeptAt(b, i) => KeptAt(b, i)'
           /\ \A r : Gone(r) => Gone(r)'
           /\ \A p \in Tap : TapOK(p) => TapOK(p)'
BY NextTyped, AssetsGrow, LibraryShrinks, FactsLast DEF SInv

LEMMA NoTapOK == TapOK(NoTap) /\ TapOK(NoTap)'
BY DEF TapOK, NoTap, Backed

\* A tap that moves on with the same request.
LEMMA TapMoves ==
    ASSUME NEW t \in Taps, NEW p, TapsOK, tap \in [Taps -> Tap], tap' = [tap EXCEPT ![t] = p],
           \A q \in Tap : TapOK(q) => TapOK(q)', TapOK(p)'
    PROVE  TapsOK'
<1>1. \A u \in Taps : tap'[u] = IF u = t THEN p ELSE tap[u]
  OBVIOUS
<1>2. QED
  BY <1>1 DEF TapsOK

\* What is stored: by uploads, and by the taps.
LEMMA StoreStays ==
    ASSUME SInv, Next
    PROVE  StoreOK'
<1>0. /\ \A m : Backed(m) => Backed(m)'
      /\ \A r : Gone(r) => Gone(r)'
  BY StepStays
<1>i. /\ \A m \in saving : Backed(m)
      /\ \A i \in Ids : Backed(mappings[i]) /\ (mappings[i] # NoMapping => mappings[i].id = i)
      /\ Gone(outcomes) /\ mappings \in [Ids -> Mapping]
  BY DEF SInv, StoreOK, Typed, TypeOK
<1>1. ASSUME UNCHANGED <<mappings, outcomes>>, saving' \subseteq saving PROVE StoreOK'
  BY <1>0, <1>1, <1>i DEF StoreOK
<1>2. ASSUME NEW b \in Backends, NEW i \in Ids, NEW photo \in Photos, Upload(b, i, photo)
      PROVE  StoreOK'
  <2> DEFINE m == [id |-> i, photo |-> photo]
  <2>1. assets' = [assets EXCEPT ![b][i] = [NoRow EXCEPT
            !.kind = IF i \in Direct THEN "direct" ELSE "session", !.content = photo]]
        /\ assets \in [Backends -> [Ids -> Row]]
    BY <1>2 DEF Upload, SInv, Typed, TypeOK
  <2>2. assets'[b][i].kind # "absent" /\ assets'[b][i].content = photo
    BY <2>1 DEF NoRow
  <2>3. Backed(m)'
    BY <2>2 DEF Backed
  <2>4. \A n \in saving' : Backed(n)'
    BY <1>0, <1>2, <1>i, <2>3 DEF Upload
  <2>5. UNCHANGED <<mappings, outcomes>>
    BY <1>2 DEF Upload, phone
  <2>6. QED
    BY <1>0, <1>i, <2>4, <2>5 DEF StoreOK
<1>3. ASSUME NEW m \in saving, SaveLocalAssetMapping(m) PROVE StoreOK'
  <2>1. \A i \in Ids : mappings'[i] = mappings[i] \/ (i = m.id /\ mappings'[i] = m)
    BY <1>3, <1>i DEF SaveLocalAssetMapping
  <2>2. UNCHANGED outcomes /\ saving' \subseteq saving
    BY <1>3 DEF SaveLocalAssetMapping
  <2>3. QED
    BY <1>0, <1>i, <2>1, <2>2 DEF StoreOK
<1>4. ASSUME NEW t \in Taps, WriteOutcome(t) PROVE StoreOK'
  <2>1. tap[t] \in Tap /\ TapOK(tap[t]) /\ tap[t].step = "writing"
    BY <1>4 DEF SInv, Typed, TypeOK, TapsOK, WriteOutcome
  <2>2. Gone(tap[t].records) /\ (tap[t].gone => Gone({tap[t].id})) /\ tap[t].gone \in BOOLEAN
    BY <2>1 DEF TapOK, Tap
  <2>4. Gone(IF tap[t].gone THEN tap[t].records \cup {tap[t].id} ELSE tap[t].records \ {tap[t].id})
    BY <2>2 DEF Gone
  <2>5. Gone(outcomes')
    BY <1>4, <1>i, <2>4 DEF WriteOutcome
  <2>6. UNCHANGED <<assets, library, mappings, saving>>
    BY <1>4 DEF WriteOutcome
  <2>7. Gone(outcomes)'
    BY <2>5, <2>6 DEF Gone
  <2>8. QED
    BY <1>0, <1>i, <2>6, <2>7 DEF StoreOK
<1>5. ASSUME NEW b \in Backends, NEW i \in Ids, NEW promote \in BOOLEAN,
             Confirm(b, i, promote) \/ PublishPreview(b, i)
      PROVE  StoreOK'
  BY <1>1, <1>5 DEF Confirm, PublishPreview, app, phone
<1>6. ASSUME NEW b \in Backends, NEW promote \in BOOLEAN, SetBackend(b) \/ Reconcile(b, promote)
      PROVE  StoreOK'
  BY <1>1, <1>6 DEF SetBackend, Reconcile, app, phone
<1>7. ASSUME NEW i \in Ids, OpenDetail(i) \/ LoadAsset(i) PROVE StoreOK'
  BY <1>1, <1>7 DEF OpenDetail, LoadAsset, phone
<1>8. ASSUME Refresh \/ CloseDetail \/ AppKilled \/ LoadCapability \/ ReadLocalState PROVE StoreOK'
  BY <1>1, <1>8 DEF Refresh, CloseDetail, AppKilled, LoadCapability, ReadLocalState, phone
<1>9. ASSUME NEW t \in Taps,
             \/ RequestDeletion(t) \/ RefreshAsset(t) \/ RefreshCapability(t) \/ AnswerRequest(t)
             \/ CancelDialog(t) \/ PerformDeletion(t) \/ DeleteAssets(t) \/ ReportResult(t)
      PROVE  StoreOK'
  BY <1>1, <1>9 DEF RequestDeletion, RefreshAsset, RefreshCapability, AnswerRequest,
     CancelDialog, PerformDeletion, DeleteAssets, ReportResult, phone
<1>10. QED
  BY <1>2, <1>3, <1>4, <1>5, <1>6, <1>7, <1>8, <1>9 DEF Next

LEMMA ScreenStays ==
    ASSUME SInv, Next
    PROVE  ScreenOK'
<1>0. /\ \A m : Backed(m) => Backed(m)'
      /\ \A b \in Backends : \A d : Seen(b, d) => Seen(b, d)'
  BY StepStays
<1>i. /\ Seen(backend, view.shown) /\ Backed(view.mapping) /\ view \in View /\ Typed /\ RowsOK
      /\ backend \in Backends
      /\ \A i \in Ids : Backed(mappings[i])
  BY DEF SInv, ScreenOK, StoreOK, Typed, TypeOK
<1>1. ASSUME UNCHANGED <<backend, view.shown, view.mapping>> PROVE ScreenOK'
  BY <1>0, <1>1, <1>i DEF ScreenOK
<1>2. ASSUME view' = Closed PROVE ScreenOK'
  BY <1>2 DEF ScreenOK, Closed, NoDetail, Seen, Backed
<1>3. ASSUME NEW i \in Ids, view' = Routed(i), UNCHANGED backend PROVE ScreenOK'
  <2>1. CASE view.route = None
    BY <1>3, <2>1 DEF Routed, ScreenOK, Closed, NoDetail, Seen, Backed
  <2>2. CASE view.route # None
    BY <1>1, <1>3, <1>i, <2>2 DEF Routed, View
  <2>3. QED
    BY <2>1, <2>2
<1>4. ASSUME NEW i \in Ids, NEW d \in Answers(backend, i), view' = Showing(view, d),
             UNCHANGED backend
      PROVE  ScreenOK'
  <2>1. d \in Detail /\ Seen(backend, d)
    BY <1>i, AnswersTyped, AnswerSeen DEF Typed
  <2>2. view'.shown = d /\ view'.mapping = view.mapping
    BY <1>4, <1>i, <2>1, ShowingTyped DEF Typed, ShownNamed
  <2>3. QED
    BY <1>0, <1>4, <1>i, <2>1, <2>2 DEF ScreenOK
<1>5. ASSUME ReadLocalState PROVE ScreenOK'
  <2>1. view.shown.id \in Ids /\ UNCHANGED <<backend, view.shown>>
        /\ view'.mapping \in {mappings[view.shown.id], NoMapping}
    BY <1>5, <1>i DEF ReadLocalState, View, Typed, ShownNamed
  <2>2. Backed(NoMapping)
    BY DEF Backed
  <2>3. QED
    BY <1>0, <1>i, <2>1, <2>2 DEF ScreenOK
<1>6. ASSUME NEW t \in Taps, RefreshAsset(t) PROVE ScreenOK'
  <2>1. tap[t].route \in Ids /\ (tap[t].mounted => tap[t].backend = backend) /\ UNCHANGED backend
    BY <1>6, <1>i DEF RefreshAsset, Typed, RequestsRouted, SInv, SameBackend
  <2>2. PICK d \in Answers(tap[t].backend, tap[t].route) :
          view' = IF d = NoDetail \/ ~tap[t].mounted THEN view ELSE Showing(view, d)
    BY <1>6 DEF RefreshAsset
  <2>3. QED
    BY <1>1, <1>4, <2>1, <2>2
<1>7. ASSUME NEW i \in Ids, LoadAsset(i) PROVE ScreenOK'
  BY <1>1, <1>4, <1>7, <1>i DEF LoadAsset
<1>8. ASSUME NEW t \in Taps,
             LoadCapability \/ RequestDeletion(t) \/ RefreshCapability(t) \/ PerformDeletion(t)
                \/ ReportResult(t) \/ WriteOutcome(t)
      PROVE  ScreenOK'
  <2>1. UNCHANGED <<backend, view.shown, view.mapping>>
    BY <1>8, <1>i DEF View, LoadCapability, RequestDeletion, RefreshCapability, PerformDeletion,
       ReportResult, WriteOutcome
  <2>2. QED
    BY <1>1, <2>1
<1>9. ASSUME LoadCapability PROVE ScreenOK'
  BY <1>1, <1>9, <1>i DEF LoadCapability, View
<1>10. ASSUME UNCHANGED <<backend, view>> PROVE ScreenOK'
  BY <1>1, <1>10
<1>11. ASSUME NEW b \in Backends, NEW i \in Ids, NEW photo \in Photos, Upload(b, i, photo)
       PROVE  ScreenOK'
  BY <1>3, <1>10, <1>11 DEF Upload
<1>12. ASSUME NEW t \in Taps, AnswerRequest(t) \/ CancelDialog(t) \/ DeleteAssets(t) PROVE ScreenOK'
  BY <1>10, <1>12 DEF AnswerRequest, CancelDialog, DeleteAssets
<1>13. ASSUME NEW b \in Backends, NEW i \in Ids, NEW promote \in BOOLEAN,
              Confirm(b, i, promote) \/ PublishPreview(b, i)
       PROVE  ScreenOK'
  BY <1>10, <1>13 DEF Confirm, PublishPreview, app
<1>14. ASSUME NEW b \in Backends, NEW promote \in BOOLEAN, Reconcile(b, promote) PROVE ScreenOK'
  BY <1>10, <1>14 DEF Reconcile, app
<1>19. ASSUME NEW b \in Backends, SetBackend(b) PROVE ScreenOK'
  <2>1. ~view'.shown.ready /\ UNCHANGED view.mapping
    BY <1>19, <1>i DEF SetBackend, Typed, ClosedIsBlank
  <2>2. QED
    BY <1>0, <1>i, <2>1 DEF ScreenOK, Seen
<1>15. ASSUME NEW m \in saving, SaveLocalAssetMapping(m) PROVE ScreenOK'
  BY <1>10, <1>15 DEF SaveLocalAssetMapping
<1>16. ASSUME Refresh \/ CloseDetail \/ AppKilled PROVE ScreenOK'
  BY <1>2, <1>10, <1>16 DEF Refresh, CloseDetail, AppKilled
<1>17. ASSUME NEW i \in Ids, OpenDetail(i) PROVE ScreenOK'
  BY <1>3, <1>17 DEF OpenDetail
<1>18. QED
  BY <1>5, <1>6, <1>7, <1>8, <1>9, <1>11, <1>12, <1>13, <1>14, <1>15, <1>16, <1>17,
     <1>19 DEF Next

LEMMA TapsStay ==
    ASSUME SInv, Next
    PROVE  TapsOK'
<1>0. /\ \A p \in Tap : TapOK(p) => TapOK(p)'
      /\ tap \in [Taps -> Tap] /\ TapsOK /\ Typed /\ RowsOK /\ StoreOK /\ ScreenOK
  BY StepStays DEF SInv, Typed, TypeOK
<1>1. ASSUME UNCHANGED tap PROVE TapsOK'
  BY <1>0, <1>1 DEF TapsOK
<1>2. ASSUME NEW t \in Taps, NEW p \in Tap, tap' = [tap EXCEPT ![t] = p], TapOK(p) \/ TapOK(p)'
      PROVE  TapsOK'
  BY <1>0, <1>2, TapMoves
<1>3. ASSUME NEW t \in Taps, tap' = [tap EXCEPT ![t] = NoTap] PROVE TapsOK'
  BY <1>2, <1>3, NoTapOK, DefaultsTyped
<1>4. ASSUME AppKilled PROVE TapsOK'
  BY <1>4, NoTapOK DEF AppKilled, TapsOK
<1>5. ASSUME CloseDetail PROVE TapsOK'
  <2>1. \A t \in Taps : TapOK(tap[t]) /\ Left(tap[t], tap'[t])
    BY <1>0, <1>5, TapClosed DEF TapsOK
  <2>2. \A t \in Taps : tap'[t] \in Tap /\ TapOK(tap'[t])
    BY <2>1 DEF TapOK, Left
  <2>3. QED
    BY <1>0, <2>2 DEF TapsOK
<1>6. ASSUME NEW t \in Taps, RequestDeletion(t) PROVE TapsOK'
  <2>1. /\ tap'[t].step = "refreshing" /\ tap'[t].backend = backend
        /\ tap'[t].id = view.shown.id /\ tap'[t].mapping = view.mapping
        /\ tap' = [tap EXCEPT ![t] = tap'[t]] /\ backend \in Backends
    BY <1>0, <1>6, TapStarted DEF Typed, TypeOK
  <2>2. KeptAt(backend, view.shown.id) /\ Backed(view.mapping)
    BY <1>0, <1>6, OfferKept DEF RequestDeletion
  <2>3. TapOK(tap'[t]) /\ tap'[t] \in Tap
    BY <1>0, <1>6, <2>1, <2>2, TapStarted DEF TapOK
  <2>4. QED
    BY <1>2, <2>1, <2>3
<1>7. ASSUME NEW t \in Taps, RefreshAsset(t) PROVE TapsOK'
  <2>1. PICK verdict \in {"refused", "deletable", "candidate"} :
          tap' = [tap EXCEPT ![t].asset = verdict, ![t].route = None]
    BY <1>7 DEF RefreshAsset, Verdict
  <2> DEFINE p == [tap[t] EXCEPT !.asset = verdict, !.route = None]
  <2>2. tap[t] \in Tap /\ TapOK(tap[t]) /\ tap[t].step = "refreshing"
    BY <1>0, <1>7 DEF TapsOK, RefreshAsset
  <2>3. SameRequest(tap[t], p) /\ p.step = tap[t].step
    BY <2>2, TapRefreshed
  <2>4. TapOK(p) /\ p \in Tap
    BY <2>2, <2>3 DEF TapOK, SameRequest
  <2>5. tap' = [tap EXCEPT ![t] = p]
    BY <1>0, <2>1
  <2>6. QED
    BY <1>2, <2>4, <2>5
<1>8. ASSUME NEW t \in Taps, RefreshCapability(t) PROVE TapsOK'
  <2>1. PICK capability \in {"on", "off"} : tap' = [tap EXCEPT ![t].capability = capability]
    BY <1>8 DEF RefreshCapability
  <2> DEFINE p == [tap[t] EXCEPT !.capability = capability]
  <2>2. tap[t] \in Tap /\ TapOK(tap[t]) /\ tap[t].step = "refreshing"
    BY <1>0, <1>8 DEF TapsOK, RefreshCapability
  <2>3. SameRequest(tap[t], p) /\ p.step = tap[t].step
    BY <2>2, TapAllowed
  <2>4. TapOK(p) /\ p \in Tap
    BY <2>2, <2>3 DEF TapOK, SameRequest
  <2>5. QED
    BY <1>2, <2>1, <2>4
<1>9. ASSUME NEW t \in Taps, AnswerRequest(t) PROVE TapsOK'
  <2>1. tap[t] \in Tap /\ TapOK(tap[t]) /\ tap[t].step = "refreshing"
    BY <1>0, <1>9 DEF TapsOK, AnswerRequest
  <2>2. CASE StillEligible(t)
    <3>1. SameRequest(tap[t], Asking(tap[t])) /\ Asking(tap[t]).step = "dialog"
      BY <2>1, TapAsked
    <3>2. tap[t].mapping.id = tap[t].id
      BY <2>2 DEF StillEligible
    <3>3. TapOK(Asking(tap[t])) /\ Asking(tap[t]) \in Tap
      BY <2>1, <3>1, <3>2 DEF TapOK, SameRequest
    <3>4. QED
      BY <1>2, <1>9, <2>2, <3>3 DEF AnswerRequest
  <2>3. CASE ~StillEligible(t)
    BY <1>3, <1>9, <2>3 DEF AnswerRequest
  <2>4. QED
    BY <2>2, <2>3
<1>10. ASSUME NEW t \in Taps, PerformDeletion(t) PROVE TapsOK'
  <2> DEFINE p == [tap[t] EXCEPT !.step = "native"]
  <2>1. tap[t] \in Tap /\ TapOK(tap[t]) /\ tap[t].step = "dialog"
    BY <1>0, <1>10 DEF TapsOK, PerformDeletion
  <2>2. SameRequest(tap[t], p) /\ p.step = "native"
    BY <2>1, TapPerformed
  <2>3. TapOK(p) /\ p \in Tap
    BY <2>1, <2>2 DEF TapOK, SameRequest
  <2>4. QED
    BY <1>2, <1>3, <1>10, <2>3 DEF PerformDeletion
<1>11. ASSUME NEW t \in Taps, DeleteAssets(t) PROVE TapsOK'
  <2>1. PICK gone \in BOOLEAN :
          /\ tap' = [tap EXCEPT ![t] = Answered(tap[t], gone)]
          /\ gone => library' = library \ {tap[t].mapping.photo}
    BY <1>11 DEF DeleteAssets
  <2>2. PICK old, p : old = tap[t] /\ p = Answered(old, gone)
    OBVIOUS
  <2>3. old \in Tap /\ TapOK(old) /\ old.step = "native"
    BY <1>0, <1>11, <2>2 DEF TapsOK, DeleteAssets
  <2>4. /\ p \in Tap /\ p.step = "answered" /\ p.id = old.id /\ p.gone = gone
        /\ p.mapping = NoMapping
    BY <2>2, <2>3, TapAnswered
  <2>5. /\ old.mapping # NoMapping /\ Backed(old.mapping) /\ old.mapping.id = old.id
        /\ old.id \in Ids
    BY <2>3, DistinctConstants DEF TapOK, KeptAt, NoMapping
  <2>6. gone => Gone({old.id})'
    <3>1. UNCHANGED assets /\ (gone => old.mapping.photo \notin library')
      BY <1>11, <2>1, <2>2 DEF DeleteAssets
    <3>2. QED
      BY <2>5, <3>1 DEF Backed, Gone
  <2>7. TapOK(p)'
    BY <2>4, <2>6 DEF TapOK, Backed
  <2>8. QED
    BY <1>2, <2>1, <2>2, <2>4, <2>7
<1>12. ASSUME NEW t \in Taps, ReportResult(t) PROVE TapsOK'
  <2> DEFINE p == [tap[t] EXCEPT !.step = "writing", !.records = outcomes]
  <2>1. /\ tap[t] \in Tap /\ TapOK(tap[t]) /\ tap[t].step = "answered"
        /\ outcomes \in SUBSET Ids /\ Gone(outcomes)
    BY <1>0, <1>12 DEF TapsOK, ReportResult, StoreOK, Typed, TypeOK
  <2>2. /\ SameRequest(tap[t], p) /\ p.step = "writing"
        /\ p.gone = tap[t].gone /\ p.records = outcomes
    BY <2>1, TapReported
  <2>3. TapOK(p) /\ p \in Tap
    BY <2>1, <2>2 DEF TapOK, SameRequest
  <2>4. tap' = [tap EXCEPT ![t] = p]
    BY <1>0, <1>12 DEF ReportResult
  <2>5. QED
    BY <1>2, <2>3, <2>4
<1>13. ASSUME NEW t \in Taps, CancelDialog(t) \/ WriteOutcome(t) PROVE TapsOK'
  BY <1>3, <1>13 DEF CancelDialog, WriteOutcome
<1>14. ASSUME NEW b \in Backends, NEW i \in Ids, NEW promote \in BOOLEAN,
              Confirm(b, i, promote) \/ PublishPreview(b, i) \/ \E photo \in Photos : Upload(b, i, photo)
       PROVE  TapsOK'
  BY <1>1, <1>14 DEF Confirm, PublishPreview, Upload, app
<1>15. ASSUME NEW b \in Backends, NEW promote \in BOOLEAN, SetBackend(b) \/ Reconcile(b, promote)
       PROVE  TapsOK'
  BY <1>1, <1>15 DEF SetBackend, Reconcile, app
<1>16. ASSUME NEW m \in saving, SaveLocalAssetMapping(m) PROVE TapsOK'
  BY <1>1, <1>16 DEF SaveLocalAssetMapping
<1>17. ASSUME NEW i \in Ids, OpenDetail(i) \/ LoadAsset(i) PROVE TapsOK'
  BY <1>1, <1>17 DEF OpenDetail, LoadAsset
<1>18. ASSUME Refresh \/ LoadCapability \/ ReadLocalState PROVE TapsOK'
  BY <1>1, <1>18 DEF Refresh, LoadCapability, ReadLocalState
<1>19. QED
  BY <1>4, <1>5, <1>6, <1>7, <1>8, <1>9, <1>10, <1>11, <1>12, <1>13, <1>14, <1>15, <1>16, <1>17,
     <1>18 DEF Next

LEMMA BackendStays ==
    ASSUME SInv, Next
    PROVE  SameBackend'
<1>0. Typed /\ SameBackend /\ tap \in [Taps -> Tap] /\ NoTap.step = "idle"
  BY DEF SInv, Typed, TypeOK, NoTap
<1>1. ASSUME UNCHANGED <<tap, backend>> PROVE SameBackend'
  BY <1>0, <1>1 DEF SameBackend
<1>2. ASSUME NEW t \in Taps, NEW p, tap' = [tap EXCEPT ![t] = p], UNCHANGED backend,
             p.step = "refreshing" /\ p.mounted => p.backend = backend
      PROVE  SameBackend'
  BY <1>0, <1>2 DEF SameBackend
<1>3. ASSUME NEW b \in Backends, SetBackend(b) PROVE SameBackend'
  BY <1>0, <1>3 DEF SetBackend, SameBackend, Typed, ClosedIsBlank
<1>4. ASSUME CloseDetail \/ AppKilled PROVE SameBackend'
  <2>1. CASE CloseDetail
    BY <1>0, <2>1, TapClosed DEF Left, SameBackend
  <2>2. CASE AppKilled
    BY <1>0, <2>2 DEF AppKilled, SameBackend
  <2>3. QED
    BY <1>4, <2>1, <2>2
<1>5. ASSUME NEW t \in Taps, RequestDeletion(t) PROVE SameBackend'
  BY <1>0, <1>2, <1>5, TapStarted DEF RequestDeletion
<1>6. ASSUME NEW t \in Taps, NEW p, tap' = [tap EXCEPT ![t] = p], UNCHANGED backend,
             SameRequest(tap[t], p), p.step # "refreshing" \/ tap[t].step = "refreshing"
      PROVE  SameBackend'
  BY <1>0, <1>2, <1>6 DEF SameRequest, SameBackend
<1>7. ASSUME NEW t \in Taps, RefreshAsset(t) PROVE SameBackend'
  <2>1. PICK verdict \in {"refused", "deletable", "candidate"} :
          tap' = [tap EXCEPT ![t].asset = verdict, ![t].route = None]
    BY <1>7 DEF RefreshAsset, Verdict
  <2> DEFINE p == [tap[t] EXCEPT !.asset = verdict, !.route = None]
  <2>2. SameRequest(tap[t], p) /\ p.step = tap[t].step
    BY ZenonT(60), <1>0, TapRefreshed
  <2>3. tap' = [tap EXCEPT ![t] = p] /\ UNCHANGED backend /\ tap[t].step = "refreshing"
    BY <1>0, <1>7, <2>1 DEF RefreshAsset
  <2>4. QED
    BY <1>6, <2>2, <2>3
<1>8. ASSUME NEW t \in Taps, RefreshCapability(t) PROVE SameBackend'
  <2>1. PICK capability \in {"on", "off"} : tap' = [tap EXCEPT ![t].capability = capability]
    BY <1>8 DEF RefreshCapability
  <2> DEFINE p == [tap[t] EXCEPT !.capability = capability]
  <2>2. SameRequest(tap[t], p) /\ p.step = tap[t].step
    BY <1>0, TapAllowed
  <2>3. tap' = [tap EXCEPT ![t] = p] /\ UNCHANGED backend /\ tap[t].step = "refreshing"
    BY <1>8, <2>1 DEF RefreshCapability
  <2>4. QED
    BY <1>6, <2>2, <2>3
<1>9. ASSUME NEW t \in Taps,
             \/ AnswerRequest(t) \/ CancelDialog(t) \/ PerformDeletion(t) \/ DeleteAssets(t)
             \/ ReportResult(t) \/ WriteOutcome(t)
      PROVE  SameBackend'
  <2>1. tap[t] \in Tap /\ UNCHANGED backend
    BY <1>0, <1>9 DEF AnswerRequest, CancelDialog, PerformDeletion, DeleteAssets, ReportResult,
       WriteOutcome
  <2>2. /\ NoTap.step # "refreshing" /\ Asking(tap[t]).step # "refreshing"
        /\ \A gone \in BOOLEAN : Answered(tap[t], gone).step # "refreshing"
        /\ [tap[t] EXCEPT !.step = "native"].step # "refreshing"
        /\ [tap[t] EXCEPT !.step = "writing", !.records = outcomes].step # "refreshing"
    BY <1>0, <2>1, TapAsked, TapAnswered DEF Tap
  <2>3. \E p : tap' = [tap EXCEPT ![t] = p] /\ p.step # "refreshing"
    BY <1>0, <1>9, <2>2 DEF AnswerRequest, CancelDialog, PerformDeletion, DeleteAssets,
       ReportResult, WriteOutcome
  <2>4. QED
    BY <1>2, <2>1, <2>3
<1>10. QED
  BY <1>1, <1>3, <1>4, <1>5, <1>7, <1>8, <1>9 DEF Next, Confirm, Reconcile, PublishPreview, Upload,
     OpenDetail, LoadAsset, SaveLocalAssetMapping, Refresh, LoadCapability, ReadLocalState, app

LEMMA InvInit == Init => SInv
<1> SUFFICES ASSUME Init PROVE SInv
  OBVIOUS
<1>1. Typed /\ RowsOK
  BY InitTyped DEF Init, RowsOK, RowOK, NoRow, Eligible, HasFormalPreview
<1>2. StoreOK
  BY DEF Init, StoreOK, Backed, Gone
<1>3. ScreenOK
  BY DEF Init, ScreenOK, Closed, NoDetail, Seen, Backed
<1>4. TapsOK /\ SameBackend
  BY NoTapOK DEF Init, TapsOK, SameBackend, NoTap
<1>5. QED
  BY <1>1, <1>2, <1>3, <1>4 DEF SInv

LEMMA InvNext == ASSUME SInv, [Next]_vars PROVE SInv'
<1>1. Typed' /\ RowsOK'
  BY StepStays
<1>2. CASE UNCHANGED vars
  BY SMTT(30), <1>1, <1>2 DEF SInv, StoreOK, ScreenOK, TapsOK, TapOK, Backed, Seen, Gone, KeptAt, Kept,
     SameBackend, vars, phone, app
<1>3. CASE Next
  BY <1>1, <1>3, StoreStays, ScreenStays, TapsStay, BackendStays DEF SInv
<1>4. QED
  BY <1>2, <1>3

LEMMA AlwaysInv == Spec => []SInv
<1>1. SInv /\ [Next]_vars => SInv'
  BY InvNext
<1>2. QED
  BY <1>1, InvInit, PTL DEF Spec

\* With ids apart, an id names one asset.
LEMMA OneAsset ==
    ASSUME RowsOK, IdsApart, NEW b \in Backends, NEW c \in Backends, NEW i \in Ids,
           assets[b][i].kind # "absent", assets[c][i].kind # "absent"
    PROVE  b = c
BY DEF RowsOK, IdsApart

\* What a tap is bound to: a confirmed asset that holds the original.
LEMMA TapBound ==
    ASSUME SInv, IdsApart, NEW t \in Taps, tap[t].step \in {"dialog", "native"}
    PROVE  /\ tap[t].backend \in Backends /\ tap[t].id \in Ids /\ tap[t].mapping.photo \in Photos
           /\ LET row == assets[tap[t].backend][tap[t].id] IN
              Kept(row) /\ row.content = tap[t].mapping.photo
<1>1. TapOK(tap[t]) /\ RowsOK
  BY DEF SInv, TapsOK
<1>2. KeptAt(tap[t].backend, tap[t].id) /\ tap[t].mapping.id = tap[t].id
  BY <1>1 DEF TapOK
<1>3. tap[t].mapping # NoMapping
  BY <1>2, DistinctConstants DEF NoMapping, KeptAt
<1>4. /\ tap[t].mapping.photo \in Photos
      /\ \E b \in Backends : /\ assets[b][tap[t].id].kind # "absent"
                            /\ assets[b][tap[t].id].content = tap[t].mapping.photo
  BY <1>1, <1>2, <1>3 DEF TapOK, Backed
<1>5. assets[tap[t].backend][tap[t].id].kind # "absent"
  BY <1>1, <1>2 DEF KeptAt, Kept, RowsOK, RowOK
<1>6. QED
  BY <1>1, <1>2, <1>4, <1>5, OneAsset DEF KeptAt

\* With ids apart, the dialog and the native call are always for an original
\* whose bytes the confirmed asset holds, whatever the screen shows by then.
THEOREM TargetStaysKept == IdsApart => (Spec => []TargetKept)
<1> SUFFICES ASSUME IdsApart PROVE Spec => []TargetKept
  OBVIOUS
<1>1. SInv => TargetKept
  BY TapBound DEF TargetKept
<1>2. QED
  BY <1>1, AlwaysInv, PTL

\* The button is offered for confirmed assets only, although asset, capability
\* and mapping were read at other times, on any backends.
THEOREM OfferStaysKept == Spec => []OfferedIsKept
<1>1. SInv => OfferedIsKept
  BY OfferKept DEF OfferedIsKept, SInv, KeptAt
<1>2. QED
  BY <1>1, AlwaysInv, PTL

\* With ids apart, a deletion on record was done, through lost writes, kills and
\* any number of taps that write all records back.
THEOREM RecordStaysTrue == IdsApart => (Spec => []RecordedIsGone)
<1> SUFFICES ASSUME IdsApart PROVE Spec => []RecordedIsGone
  OBVIOUS
<1>1. ASSUME SInv PROVE RecordedIsGone
  <2> SUFFICES ASSUME NEW i \in outcomes
               PROVE  mappings[i].photo \notin library
    BY DEF RecordedIsGone
  <2>1. /\ Gone(outcomes) /\ i \in Ids /\ Backed(mappings[i])
        /\ (mappings[i] # NoMapping => mappings[i].id = i)
        /\ RowsOK /\ library \subseteq Photos
    BY <1>1 DEF SInv, StoreOK, Typed, TypeOK
  <2>2. CASE mappings[i] = NoMapping
    BY <2>1, <2>2, DistinctConstants DEF NoMapping
  <2>3. CASE mappings[i] # NoMapping
    <3>1. PICK b \in Backends : assets[b][i].kind # "absent" /\ assets[b][i].content \notin library
      BY <2>1 DEF Gone
    <3>2. PICK c \in Backends : /\ assets[c][i].kind # "absent"
                               /\ assets[c][i].content = mappings[i].photo
      BY <2>1, <2>3 DEF Backed
    <3>3. QED
      BY <2>1, <3>1, <3>2, OneAsset
  <2>4. QED
    BY <2>2, <2>3
<1>2. QED
  BY <1>1, AlwaysInv, PTL

KeptPhotos ==
    {p \in Photos : \E b \in Backends, i \in Ids :
        assets[b][i].content = p /\ Kept(assets[b][i])}

LEMMA DeletionMaps ==
    ASSUME SInv, IdsApart, [Next]_vars
    PROVE  [Contract!Next]_<<library, KeptPhotos>>
<1>1. KeptPhotos \subseteq KeptPhotos' /\ KeptPhotos' \subseteq Photos
  BY StepStays DEF KeptPhotos, AllGrown, Grown, Kept, SInv, RowsOK, RowOK
<1>2. CASE UNCHANGED library
  <2>1. Contract!KeepMore
    BY <1>1, <1>2 DEF Contract!KeepMore, KeptPhotos
  <2>2. QED
    BY <2>1 DEF Contract!Next
<1>3. ASSUME NEW t \in Taps, DeleteAssets(t) PROVE [Contract!Next]_<<library, KeptPhotos>>
  <2>1. CASE library' = library \ {tap[t].mapping.photo}
    <3>1. tap[t].mapping.photo \in KeptPhotos
      BY <1>3, TapBound DEF DeleteAssets, KeptPhotos
    <3>2. KeptPhotos' = KeptPhotos
      BY <1>3 DEF DeleteAssets, KeptPhotos
    <3>3. Contract!Delete
      BY <2>1, <3>1, <3>2 DEF Contract!Delete, KeptPhotos
    <3>4. QED
      BY <3>3 DEF Contract!Next
  <2>2. QED
    BY <1>2, <1>3, <2>1 DEF DeleteAssets
<1>4. (\E t \in Taps : DeleteAssets(t)) \/ UNCHANGED library
  BY ZenonT(60) DEF Next, vars, phone, Confirm, Reconcile, PublishPreview, Upload, OpenDetail, LoadAsset,
     SaveLocalAssetMapping, SetBackend, CloseDetail, Refresh, LoadCapability, ReadLocalState,
     AppKilled, RequestDeletion, RefreshAsset, RefreshCapability, AnswerRequest, CancelDialog,
     PerformDeletion, ReportResult, WriteOutcome
<1>5. QED
  BY <1>2, <1>3, <1>4

\* With ids apart, originals leave the phone only while a confirmed copy is
\* kept, and such copies stay, for any number of assets, originals and taps.
THEOREM DeletionContractImplemented == IdsApart => (Spec => ImplementsContract)
<1> SUFFICES ASSUME IdsApart PROVE Spec => ImplementsContract
  OBVIOUS
<1>1. Init => Contract!Init
  BY DEF Init, Contract!Init, Kept, NoRow
<1>2. SInv /\ [Next]_vars => [Contract!Next]_<<library, KeptPhotos>>
  BY DeletionMaps
<1>3. QED
  BY <1>1, <1>2, AlwaysInv, PTL DEF Spec, ImplementsContract, Contract!Spec, KeptPhotos
=============================================================================

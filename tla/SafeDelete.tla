----------------------------- MODULE SafeDelete -----------------------------
(***************************************************************************)
(* The app and its backends: the deletion of originals with everything     *)
(* that may change between what a screen showed, the tap, the confirmed    *)
(* dialog and the native call.                                             *)
(***************************************************************************)
EXTENDS DeleteCandidate, OriginalDeletion

Next ==
    \/ \E b \in Backends :
        \/ SetBackend(b) \/ \E promote \in BOOLEAN : Reconcile(b, promote)
        \/ \E i \in Ids :
            \/ PublishPreview(b, i) \/ \E promote \in BOOLEAN : Confirm(b, i, promote)
            \/ \E photo \in Photos : Upload(b, i, photo)
    \/ \E i \in Ids : OpenDetail(i) \/ LoadAsset(i)
    \/ \E m \in saving : SaveLocalAssetMapping(m)
    \/ CloseDetail \/ Refresh \/ LoadCapability \/ ReadLocalState \/ AppKilled
    \/ \E t \in Taps :
        \/ RequestDeletion(t) \/ RefreshAsset(t) \/ RefreshCapability(t) \/ AnswerRequest(t)
        \/ CancelDialog(t) \/ PerformDeletion(t)
        \/ DeleteAssets(t) \/ ReportResult(t) \/ WriteOutcome(t)

Spec == Init /\ [][Next]_vars

(***************************************************************************)
(* Properties.                                                             *)
(***************************************************************************)
\* A copy that stands in for its original: its preview is confirmed and, for a
\* session video, the backend made it a candidate.
Kept(row) == row.ready /\ row.confirmed /\ (row.kind = "direct" \/ row.candidate)

\* The backends the app was set to give out different ids. Some properties need it.
IdsApart == \A b, c \in Backends : b # c => Assigned[b] \cap Assigned[c] = {}

\* Types of the variables.
TypeOK ==
    /\ assets \in [Backends -> [Ids -> Row]]
    /\ backend \in Backends /\ library \subseteq Photos
    /\ mappings \in [Ids -> Mapping] /\ outcomes \subseteq Ids
    /\ saving \subseteq Mapping /\ view \in View /\ loads \subseteq Ids
    /\ tap \in [Taps -> Tap]

\* The original a tap is about to delete is the one whose bytes its asset holds,
\* and that asset is confirmed, although screen, dialog and native call are
\* steps apart and the screen may show another asset by then. (IdsApart.)
TargetKept ==
    \A t \in Taps :
        tap[t].step \in {"dialog", "native"} =>
            LET row == assets[tap[t].backend][tap[t].id] IN
            Kept(row) /\ row.content = tap[t].mapping.photo

\* A record `deleted' is never of an original that is still there. (IdsApart.)
RecordedIsGone ==
    \A i \in outcomes : mappings[i].photo \notin library

\* The delete button is offered only for a copy that is kept.
OfferedIsKept ==
    CanDelete => Kept(assets[backend][view.shown.id])

\* The code implements the contract of deletion. (IdsApart.)
Contract ==
    INSTANCE DeletionContract WITH
        kept <- {p \in Photos : \E b \in Backends, i \in Ids :
                    assets[b][i].content = p /\ Kept(assets[b][i])}
ImplementsContract == Contract!Spec

\* A candidate is taken back by no confirmation, reconciliation, loss of the
\* capability, so what an app has read of it stays true.
CandidateKept ==
    [][\A b \in Backends, i \in Ids :
        assets[b][i].candidate => assets'[b][i].candidate /\ Eligible(assets'[b][i])]_vars

\* An original that is gone from the phone has a confirmed copy on a backend,
\* whatever backends the app was set to.
GoneIsKept ==
    \A p \in Photos \ library :
        \E b \in Backends, i \in Ids : assets[b][i].content = p /\ Kept(assets[b][i])
=============================================================================

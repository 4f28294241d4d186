-------------------------- MODULE DeleteCandidate --------------------------
(***************************************************************************)
(* The backend's part: confirmation of a preview by its user and the       *)
(* reconciliation run by an operator, the two that write review_status and *)
(* delete_candidate_status. What previews go through is in FormalPreview.  *)
(***************************************************************************)
EXTENDS DeletionState

\* That the asset, its formal result, file, provenance and attempt agree with each
\* other: PublishPreview commits them together.
HasFormalPreview(row) == row.ready

\* evaluate_safe_delete_candidate. That the session is completed, its chunks
\* are all verified and the file has the digest of the phone holds of every
\* session asset (ResumableUpload, AssetBacked); the rows it rests on are frozen
\* by triggers.
Eligible(row) == row.kind = "session" /\ HasFormalPreview(row) /\ row.confirmed

\* project_candidate_status: demotes always, promotes when allowed.
\* Mutant: without the capability it demotes.
ProjectedAsAllowed(row, promote) ==
    [row EXCEPT !.candidate = Eligible(row) /\ promote]
Projected(row, promote) ==
    [row EXCEPT !.candidate = Eligible(row) /\ (promote \/ row.candidate)]

\* POST /assets/{id}/preview-confirmation. Whether to promote is the
\* capability as it was when the request arrived; what the preflight found is
\* checked again by the transaction, which may refuse.
Confirm(b, i, promote) ==
    /\ assets[b][i].ready
    /\ assets' = [assets EXCEPT ![b][i] =
        LET confirmed == [@ EXCEPT !.confirmed = TRUE] IN
        IF @.kind = "session" THEN Projected(confirmed, promote) ELSE confirmed]
    /\ UNCHANGED <<phone, app>>

\* reconcile_safe_delete_candidates: every confirmed or promoted asset in one
\* transaction, with the capability read before it. A dry run changes nothing.
Reconcile(b, promote) ==
    /\ assets' = [assets EXCEPT ![b] = [i \in Ids |->
        IF @[i].confirmed \/ @[i].candidate THEN Projected(@[i], promote) ELSE @[i]]]
    /\ UNCHANGED <<phone, app>>

\* A preview is published: by FormalPreview, or the preview worker of a direct
\* asset.
PublishPreview(b, i) ==
    /\ assets[b][i].kind # "absent" /\ ~assets[b][i].ready
    /\ assets' = [assets EXCEPT ![b][i].ready = TRUE]
    /\ UNCHANGED <<phone, app>>
=============================================================================

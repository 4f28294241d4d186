------------------------------- MODULE Client ------------------------------
(***************************************************************************)
(* The app: uploads of videos and photos and saves of processed results,   *)
(* behind screens that come and go, with the app killed at any step.       *)
(***************************************************************************)
EXTENDS VideoUpload, PhotoUpload, ResultSave

Next ==
    \/ Navigate \/ Kill
    \/ ReadMarker \/ Refresh \/ Acknowledge
    \/ \E x \in phone.items \ Results : Pick(x)
    \/ \E f \in Slots : VideoStep(f) \/ PhotoStep(f) \/ SaveStep(f)
    \/ \E k \in Keys : Settle(k)
    \/ \E v \in Videos : Edit(v)
    \/ ShowSaved \/ ListTemps \/ \E r \in Results : SweepTemp(r)
Spec == Init /\ [][Next]_vars

\* Every part of the state has its type.
TypeOK ==
    /\ screen \in Screen /\ op \in [Slots -> Operation] /\ store \in Store
    /\ phone \in Phone /\ session \in [Keys -> Session] /\ seen \in Seen
    /\ used \in [taps: 0..MaxTaps, kills: 0..MaxKills, edits: 0..MaxEdits, keys: 0..MaxTaps]

OnIt(k) == \E f \in Running : op[f].key = k

(***************************************************************************)
(* A video stored on the backend is known to the phone: its mapping is     *)
(* saved or was reported missing, or the resume record still leads to it,  *)
(* or the user has replaced the record by uploading another video or       *)
(* another content (useResumableVideoUpload.js:60-83, 109-126). It holds   *)
(* until an operation starts while one left behind by its screen runs.     *)
(***************************************************************************)
StoredIsKnown ==
    \A k \in Keys : session[k].stage = "stored" =>
        \/ k \in store.mapped \cup seen.unmapped \cup seen.replaced
        \/ store.resume # None /\ store.resume.key = k
        \/ OnIt(k)
        \/ seen.overlapped

(***************************************************************************)
(* A photo whose upload timed out is not sent again until the user has     *)
(* acknowledged a list refreshed since (useAssetUpload.js:104-113,         *)
(* AssetListScreen.jsx:30-66), unless its marker could not be stored or    *)
(* the upload of another photo has replaced it, or uploads overlapped.     *)
(***************************************************************************)
UnknownNotResent == seen.resent = {} \/ seen.markerLost # {} \/ seen.overlapped

(***************************************************************************)
(* What is shown as saved is in the photo library                          *)
(* (useProcessedResultSave.js:172-178), even when saves overlap.           *)
(***************************************************************************)
SavedIsTrue == \A r \in Results : store.saves[r] = "saved" => phone.copies[r] > 0

(***************************************************************************)
(* A copy in the library is recorded as saved or as possibly saved, so     *)
(* that no later start offers it as never saved, unless the user saved it  *)
(* again; and it is of a file that passed verification; both until saves   *)
(* overlap (useProcessedResultSave.js:126-193).                            *)
(***************************************************************************)
CopyIsRecorded ==
    \A r \in Results : phone.copies[r] > 0 =>
        \/ seen.overlapped
        \/ /\ store.saves[r] \in {"unknown", "saved"} \/ r \in seen.retried
           /\ r \notin phone.damaged

(***************************************************************************)
(* A temporary file no operation works on has a record, by which the next  *)
(* start finds and removes it (useProcessedResultSave.js:22-39, 143-152).  *)
(***************************************************************************)
TempIsFindable ==
    \A r \in Results : phone.temp[r] # "none" =>
        \/ store.saves[r] # "none"
        \/ \E f \in Running : op[f].of = r
        \/ seen.overlapped

(***************************************************************************)
(* docs/functional-design.md:324: after a timeout there is no resend until *)
(* the list has been acknowledged; here, as long as markers can be stored. *)
(***************************************************************************)
NeverResent == seen.resent = {} \/ "unwritten" \in seen.markerLost
=============================================================================

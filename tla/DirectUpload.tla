---------------------------- MODULE DirectUpload ---------------------------
(***************************************************************************)
(* POST /assets/upload for a photo (create_upload_asset): the file is      *)
(* saved under tmp/, moved to originals/, and recorded with its preview    *)
(* job in one transaction; an error takes back what was on disk.           *)
(***************************************************************************)
EXTENDS PreviewState

UploadTo(p, state) == upload' = [upload EXCEPT ![p] = state]
Request(pc, tmp, original) == [pc |-> pc, tmp |-> tmp, original |-> original]

\* save_upload_to_tmp: a file that is too large or cannot be written is removed.
SaveUpload(p) ==
    /\ p \in used.load.assets /\ upload[p].pc = "ready"
    /\ \/ UploadTo(p, Request("saved", TRUE, FALSE))
       \/ UploadTo(p, Request("refused", FALSE, FALSE))
    /\ UNCHANGED <<rows, disk, worker, used>>

MoveOriginal(p) ==
    /\ upload[p].pc = "saved"
    /\ \/ UploadTo(p, Request("moved", FALSE, TRUE)) /\ UNCHANGED used
       \/ UploadTo(p, Request("undo", TRUE, FALSE)) /\ Fault
    /\ UNCHANGED <<rows, disk, worker>>

\* insert_asset: the preview is the first thing to be made. The request says
\* whether the asset is in LOG, of a photo too, whose job is a preview all the same.
InsertAsset(p) ==
    \E log \in BOOLEAN :
        asset' = [asset EXCEPT ![p].preview = "preview_generating", ![p].log = log]

\* insert_asset and insert_job, and what fails before their commit.
CommitAsset(p) ==
    /\ upload[p].pc = "moved"
    /\ \/ /\ InsertAsset(p)
          /\ job' = [job EXCEPT ![p] =
                 Queued(1 + Cardinality({a \in Assets : job[a].status # "absent"}))]
          /\ UploadTo(p, Request("done", FALSE, TRUE))
          /\ UNCHANGED used
       \/ UploadTo(p, Request("undo", FALSE, TRUE)) /\ Fault /\ UNCHANGED <<asset, job>>
    /\ UNCHANGED <<derived, result, disk, worker>>

\* Mutant: after an error only the temporary file is looked for.
UndoTmpOnly(p) ==
    /\ upload[p].pc = "undo"
    /\ UploadTo(p, [upload[p] EXCEPT !.pc = "refused", !.tmp = FALSE])
    /\ UNCHANGED <<rows, disk, worker, used>>

\* The except branch. An unlink that fails leaves the file.
UndoUpload(p) ==
    /\ upload[p].pc = "undo"
    /\ \/ UploadTo(p, Request("refused", FALSE, FALSE)) /\ UNCHANGED used
       \/ UploadTo(p, [upload[p] EXCEPT !.pc = "refused"]) /\ Fault
    /\ UNCHANGED <<rows, disk, worker>>

DirectUploadNext ==
    \E p \in Photos : SaveUpload(p) \/ MoveOriginal(p) \/ CommitAsset(p) \/ UndoUpload(p)

ApiKilled ==
    LET running == {p \in Photos : upload[p].pc \in {"saved", "moved", "undo"}} IN
    /\ running # {} /\ used.kills < used.load.kills
    /\ upload' = [p \in Photos |->
           IF p \in running THEN [upload[p] EXCEPT !.pc = "killed"] ELSE upload[p]]
    /\ used' = [used EXCEPT !.kills = @ + 1]
    /\ UNCHANGED <<rows, disk, worker>>
=============================================================================

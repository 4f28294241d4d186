---------------------------- MODULE ResultSave -----------------------------
(***************************************************************************)
(* Saving a processed result in the photo library: useProcessedResultSave, *)
(* processedResultDownloadService and processedResultSaveStore. Each write *)
(* of a record reads the whole store first and writes it back in a later   *)
(* step. The temporary file of a result has one name, whoever downloads.   *)
(***************************************************************************)
EXTENDS ClientState

Same == UNCHANGED <<screen, session, used>>
SetTemp(f, temp) == phone' = [phone EXCEPT !.temp[op[f].of] = temp]
Discard(f, then) == op' = [op EXCEPT ![f].pc = "discard", ![f].then = then]

\* isAllowedTransition
Allowed(from, to) ==
    CASE from = "saved" -> to \in {"saved", "downloading"}
      [] from = "unknown" -> TRUE
      [] OTHER -> to # "saved"

\* The hook shows a record that is saved and disables the button.
ShowSaved ==
    /\ screen.route = "detail" /\ screen.picked \in Results /\ ~InFlight
    /\ store.saves[screen.picked] = "saved"
    /\ screen' = [screen EXCEPT !.saved = TRUE]
    /\ UNCHANGED <<op, store, phone, session, seen, used>>

StartSave(f) ==
    /\ screen.route = "detail" /\ screen.picked \in Results /\ ~screen.saved
    /\ Press(f, [Idle EXCEPT !.pc = "begin", !.of = screen.picked])
    /\ seen' = [seen EXCEPT !.overlapped = @ \/ Running # {},
                    !.retried = IF phone.copies[screen.picked] > 0
                                THEN @ \cup {screen.picked} ELSE @]
    /\ UNCHANGED <<screen, store, phone, session>>

(***************************************************************************)
(* writeProcessedResultSave in two steps: read all the records and check   *)
(* the transition; write all of them back with the new one. Either fails   *)
(* into the step that the caller's catch takes.                            *)
(***************************************************************************)
Writing == [begin |-> "beginWrite", ahead |-> "aheadWrite", commit |-> "commitWrite",
            fail |-> "failWrite"]
Status == [begin |-> "downloading", ahead |-> "unknown", commit |-> "saved",
           fail |-> "failed"]
ReadSaves(f) ==
    /\ op[f].pc \in DOMAIN Writing
    /\ LET pc == op[f].pc IN
        IF Allowed(store.saves[op[f].of], Status[pc])
        THEN op' = [op EXCEPT ![f].pc = Writing[pc], ![f].saves = store.saves]
        ELSE IF pc = "fail" THEN End(f)
        ELSE Discard(f, IF pc = "commit" THEN "idle" ELSE "fail")
    /\ Same /\ UNCHANGED <<store, phone, seen>>
SavesWith(f, status) ==
    store' = [store EXCEPT !.saves = [op[f].saves EXCEPT ![op[f].of] = status]]

\* Mutant: a record that cannot be written does not stop the download.
BeginBestEffort(f) ==
    /\ op[f].pc = "beginWrite"
    /\ SavesWith(f, "downloading") \/ UNCHANGED store
    /\ Goto(f, "clean")
    /\ Same /\ UNCHANGED <<phone, seen>>
BeginWrite(f) ==
    /\ op[f].pc = "beginWrite"
    /\ \/ SavesWith(f, "downloading") /\ Goto(f, "clean")
       \/ Goto(f, "fail") /\ UNCHANGED store
    /\ Same /\ UNCHANGED <<phone, seen>>
AheadWrite(f) ==
    /\ op[f].pc = "aheadWrite"
    /\ \/ SavesWith(f, "unknown") /\ Goto(f, "import")
       \/ Discard(f, "fail") /\ UNCHANGED store
    /\ Same /\ UNCHANGED <<phone, seen>>
CommitWrite(f) ==
    /\ op[f].pc = "commitWrite"
    /\ SavesWith(f, "saved") \/ UNCHANGED store
    /\ Discard(f, "idle")
    /\ Same /\ UNCHANGED <<phone, seen>>
FailWrite(f) ==
    /\ op[f].pc = "failWrite"
    /\ SavesWith(f, "failed") \/ UNCHANGED store
    /\ End(f)
    /\ Same /\ UNCHANGED <<phone, seen>>

\* downloadProcessedResult, to a file removed before and, on any error, after.
Clean(f) ==
    /\ op[f].pc = "clean"
    /\ SetTemp(f, "none")
    /\ Goto(f, "fetch")
    /\ Same /\ UNCHANGED <<store, seen>>
Fetch(f) ==
    /\ op[f].pc = "fetch"
    /\ SetTemp(f, "partial")
    /\ Goto(f, "arriving")
    /\ Same /\ UNCHANGED <<store, seen>>
\* Arrived; or refused, cancelled or timed out; a superseded result keeps its record.
Arrive(f) ==
    /\ op[f].pc = "arriving"
    /\ \/ (\E temp \in {"whole", "bad"} : SetTemp(f, temp)) /\ Goto(f, "verify")
       \/ (\E then \in {"idle", "fail"} : Discard(f, then)) /\ UNCHANGED phone
    /\ Same /\ UNCHANGED <<store, seen>>
\* Size and SHA-256 of the file as it is now.
Verify(f) ==
    /\ op[f].pc = "verify"
    /\ IF phone.temp[op[f].of] = "whole" THEN Goto(f, "ask") ELSE Discard(f, "fail")
    /\ Same /\ UNCHANGED <<store, phone, seen>>
\* Mutant: the save is recorded only after it has been done.
AskThenImport(f) ==
    /\ op[f].pc = "ask"
    /\ Goto(f, "import") \/ Discard(f, "fail")
    /\ Same /\ UNCHANGED <<store, phone, seen>>
Ask(f) ==
    /\ op[f].pc = "ask"
    /\ Goto(f, "ahead") \/ Discard(f, "fail")
    /\ Same /\ UNCHANGED <<store, phone, seen>>

\* Mutant: an error of the library does not stop the save.
ImportAnyway(f) ==
    /\ op[f].pc = "import"
    /\ LET r == op[f].of IN
        \/ phone.temp[r] # "none" /\ phone' = [phone EXCEPT !.copies[r] = @ + 1]
        \/ UNCHANGED phone
    /\ Goto(f, "commit")
    /\ Same /\ UNCHANGED <<store, seen>>
\* createAssetAsync takes whatever the temporary file holds, or fails.
Import(f) ==
    /\ op[f].pc = "import"
    /\ LET r == op[f].of IN
        \/ /\ phone.temp[r] # "none"
           /\ phone' = [phone EXCEPT !.copies[r] = @ + 1,
                !.damaged = IF phone.temp[r] = "whole" THEN @ ELSE @ \cup {r}]
           /\ Goto(f, "commit")
        \/ Discard(f, "fail") /\ UNCHANGED phone
    /\ Same /\ UNCHANGED <<store, seen>>
DiscardTemp(f) ==
    /\ op[f].pc = "discard"
    /\ SetTemp(f, "none")
    /\ op' = [op EXCEPT ![f] = IF @.then = "idle" THEN Idle ELSE [@ EXCEPT !.pc = "fail"]]
    /\ Same /\ UNCHANGED <<store, seen>>

\* useProcessedResultStartupCleanup, once per start of the app.
ListTemps ==
    /\ phone.listing
    /\ phone' = [phone EXCEPT !.listing = FALSE,
                    !.sweep = {r \in Results : store.saves[r] # "none"}]
    /\ UNCHANGED <<screen, op, store, session, seen, used>>
SweepTemp(r) ==
    /\ r \in phone.sweep
    /\ phone' = [phone EXCEPT !.sweep = @ \ {r}, !.temp[r] = "none"]
    /\ UNCHANGED <<screen, op, store, session, seen, used>>

SaveStep(f) ==
    \/ StartSave(f) \/ ReadSaves(f) \/ BeginWrite(f) \/ AheadWrite(f) \/ CommitWrite(f)
    \/ FailWrite(f) \/ Clean(f) \/ Fetch(f) \/ Arrive(f) \/ Verify(f) \/ Ask(f)
    \/ Import(f) \/ DiscardTemp(f)
=============================================================================

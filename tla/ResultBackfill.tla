--------------------------- MODULE ResultBackfill --------------------------
(***************************************************************************)
(* What the worker does in every round before it claims a job: it removes  *)
(* old previews that no row names, and gives a result to session videos    *)
(* that were ready before there were results. Candidates are listed, read, *)
(* inspected, committed and their outcome persisted in separate steps.     *)
(***************************************************************************)
EXTENDS LegacyPreview

\* Mutant: the age is not looked at.
OrphansOfAnyAge == {f \in Previews : disk[f] \in {"new", "old"} /\ derived[f] = NoRow}

\* _is_expired_generated_preview, and no row of that path.
Orphans == {f \in Previews : disk[f] = "old" /\ derived[f] = NoRow}

\* recover_unreferenced_generated_previews: row and file under one write lock.
RemoveOrphan(w) ==
    /\ worker[w].pc = "recovered"
    /\ \E f \in Orphans : disk' = [disk EXCEPT ![f] = "absent"]
    /\ UNCHANGED <<rows, upload, worker, used>>

ListCandidates(w) ==
    /\ worker[w].pc = "recovered" /\ Orphans = {}
    /\ worker' = [worker EXCEPT ![w].pc = "listed",
                                ![w].todo = {a \in Assets : Candidate(a) # None}]
    /\ UNCHANGED <<rows, disk, upload, used>>

-----------------------------------------------------------------------------
Decide(w, a, outcome) ==
    worker' = [worker EXCEPT ![w].pc = "outcome", ![w].asset = a, ![w].seen = None,
                             ![w].outcome = outcome]

\* Mutant: a file that cannot be read counts as one that is gone.
InspectStrictly(w) ==
    /\ worker[w].pc = "listed"
    /\ \E a \in worker[w].todo :
           Candidate(a) # None /\ Decide(w, a, "integrity_failed") /\ Fault
    /\ UNCHANGED <<rows, disk, upload>>

\* The asset is read again and the file hashed, outside a transaction.
InspectCandidate(w) ==
    /\ worker[w].pc = "listed"
    /\ \E a \in worker[w].todo :
         LET f == Candidate(a) IN
         \/ /\ f = None
            /\ worker' = [worker EXCEPT ![w].todo = @ \ {a}] /\ UNCHANGED used
         \/ /\ f # None /\ disk[f] # "lost"
            /\ worker' = [worker EXCEPT ![w].pc = "inspected", ![w].asset = a, ![w].seen = f]
            /\ UNCHANGED used
         \/ f # None /\ disk[f] = "lost" /\ Decide(w, a, "integrity_failed") /\ UNCHANGED used
         \/ f # None /\ Decide(w, a, "retryable_failure") /\ Fault
    /\ UNCHANGED <<rows, disk, upload>>

\* The candidate is read a third time, under the write lock.
CommitBackfill(w) ==
    LET a == worker[w].asset
        f == worker[w].seen
        now == Candidate(a)
        Same == UNCHANGED <<asset, result, used>>
    IN
    /\ worker[w].pc = "inspected"
    /\ \/ /\ now = None /\ Same
          /\ worker' = [worker EXCEPT ![w] =
                 [Idle EXCEPT !.pc = "listed", !.todo = worker[w].todo \ {a}]]
       \/ now \notin {None, f} /\ Decide(w, a, "retryable_failure") /\ Same
       \/ now = f /\ asset[a].active # None /\ Decide(w, a, "already_active") /\ Same
       \/ /\ now = f /\ asset[a].active = None
          /\ result' = [result EXCEPT ![f] = "ready"]
          /\ asset' = [asset EXCEPT ![a].active = f]
          /\ Decide(w, a, "created") /\ UNCHANGED used
       \/ Decide(w, a, "retryable_failure") /\ Fault /\ UNCHANGED <<asset, result>>
    /\ UNCHANGED <<job, derived, disk, upload>>

\* Mutant: the outcome is stored as the status.
PersistedAsIs(outcome) == outcome

\* persist_backfill_outcome, in a transaction of its own: it looks at nothing again.
Persisted(outcome) ==
    CASE outcome = "integrity_failed" -> "failed"
      [] outcome = "retryable_failure" -> "preview_ready"
PersistOutcome(w) ==
    LET a == worker[w].asset
        good == worker[w].outcome \in {"created", "already_active"}
    IN
    /\ worker[w].pc = "outcome"
    /\ IF good THEN UNCHANGED asset ELSE SetPreview(a, Persisted(worker[w].outcome))
    /\ job' = [job EXCEPT ![a] =
           IF @.status = "done" THEN @ ELSE Settled(@, IF good THEN "done" ELSE "failed")]
    /\ worker' = [worker EXCEPT ![w] =
           [Idle EXCEPT !.pc = "listed", !.todo = worker[w].todo \ {a}]]
    /\ UNCHANGED <<derived, result, disk, upload, used>>

RecoverAndBackfill(w) ==
    \/ RemoveOrphan(w) \/ ListCandidates(w)
    \/ InspectCandidate(w) \/ CommitBackfill(w) \/ PersistOutcome(w)
=============================================================================

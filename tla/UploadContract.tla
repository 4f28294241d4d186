--------------------------- MODULE UploadContract ---------------------------
(***************************************************************************)
(* What a resumable upload promises its client, without requests, jobs,    *)
(* chunks or clocks. A session moves only forward, except that a failed    *)
(* finalization may be submitted again; an original appears only when a    *)
(* submitted session is stored, and is then the file the phone hashed;     *)
(* a session that is stored, rejected or closed stays so.                  *)
(***************************************************************************)
EXTENDS Integers, FiniteSets

CONSTANTS Sessions, Limit, Nothing, Source
VARIABLES stage, original

Stage == {"absent", "open", "submitted", "retryable", "rejected", "stored", "closed"}
Unfinished == {"open", "submitted", "retryable"}
Closable == {"open", "retryable"}

Init ==
    /\ stage = [s \in Sessions |-> "absent"]
    /\ original = [s \in Sessions |-> Nothing]

Move(s, from, to) ==
    /\ stage[s] \in from
    /\ \E t \in to : stage' = [stage EXCEPT ![s] = t]
    /\ UNCHANGED original

\* Opening may first close sessions that ran out, and counts what is left.
Open(s) ==
    /\ stage[s] = "absent"
    /\ \E gone \in SUBSET {t \in Sessions : stage[t] \in Closable} :
        stage' = [t \in Sessions |->
            IF t = s THEN "open" ELSE IF t \in gone THEN "closed" ELSE stage[t]]
    /\ Cardinality({t \in Sessions : stage'[t] \in Unfinished}) <= Limit
    /\ UNCHANGED original

Submit(s) == Move(s, Closable, {"submitted"})
Fail(s) == Move(s, {"submitted"}, {"retryable", "rejected"})
Close(s) == Move(s, Closable, {"closed"})
Store(s) ==
    /\ stage[s] = "submitted"
    /\ stage' = [stage EXCEPT ![s] = "stored"]
    /\ original' = [original EXCEPT ![s] = Source]

Next == \E s \in Sessions : Open(s) \/ Submit(s) \/ Fail(s) \/ Close(s) \/ Store(s)
Spec == Init /\ [][Next]_<<stage, original>>
=============================================================================

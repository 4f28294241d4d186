---------------------------- MODULE VideoUpload ----------------------------
(***************************************************************************)
(* The upload of a video in a session: useResumableVideoUpload with the    *)
(* one resume record of resumableUploadStore, in which an interrupted      *)
(* upload finds its session again. Each store operation reads the record   *)
(* and writes it in a later step. One chunk stands for all the missing     *)
(* ones. Answer says what the backend does; any request may also fail or   *)
(* time out, done or not done.                                             *)
(***************************************************************************)
EXTENDS ClientState

Own(f) == store.resume # None /\ store.resume.key = op[f].key
Record(f, sid) ==
    [video |-> op[f].of, version |-> op[f].version, key |-> op[f].key, sid |-> sid]
Stored(f, record, pc) ==
    /\ store' = [store EXCEPT !.resume = record]
    /\ Goto(f, pc)
    /\ UNCHANGED <<screen, phone, session>>

\* startUpload: the file is resolved and hashed, its content is `version`.
StartVideo(f) ==
    /\ screen.route = "picker" /\ screen.marker # "loading"
    /\ \E v \in Videos :
        /\ screen.picked = v
        /\ Press(f, [Idle EXCEPT !.pc = "read", !.of = v, !.version = phone.version[v]])
    /\ screen' = [screen EXCEPT !.over = FALSE]
    /\ seen' = [seen EXCEPT !.overlapped = @ \/ Running # {}]
    /\ UNCHANGED <<store, phone, session>>

(***************************************************************************)
(* The record of the same file is resumed. Of the same video with another  *)
(* content it is dropped, and the press ends in an error. Any other record *)
(* is replaced.                                                            *)
(***************************************************************************)
SameVideo(f) == store.resume # None /\ store.resume.video = op[f].of
ReadRecord(f) ==
    /\ op[f].pc = "read"
    /\ op' = [op EXCEPT ![f] =
        IF SameVideo(f) /\ store.resume.version = op[f].version
        THEN [@ EXCEPT !.key = store.resume.key,
                       !.pc = IF store.resume.sid THEN "get" ELSE "create"]
        ELSE IF SameVideo(f) THEN [@ EXCEPT !.key = store.resume.key, !.pc = "drop"]
        ELSE [@ EXCEPT !.pc = "keep"]]
    /\ seen' = [seen EXCEPT !.replaced =
        IF SameVideo(f) /\ store.resume.version # op[f].version
        THEN @ \cup {store.resume.key} ELSE @]
    /\ UNCHANGED <<screen, store, phone, session, used>>

\* saveResumableUploadRecord under a new client_upload_id.
KeepRecord(f) ==
    /\ op[f].pc = "keep"
    /\ LET k == used.keys + 1 IN
        /\ k \in Keys
        /\ used' = [used EXCEPT !.keys = k]
        /\ op' = [op EXCEPT ![f].key = k, ![f].pc = "create"]
        /\ store' = [store EXCEPT !.resume = [Record(f, FALSE) EXCEPT !.key = k]]
    /\ seen' = [seen EXCEPT !.replaced =
        IF store.resume = None THEN @ ELSE @ \cup {store.resume.key}]
    /\ UNCHANGED <<screen, phone, session>>

\* Mutant: a request without an answer is taken for the end of its session.
AnswerOrForget(f, k, s, pc) ==
    /\ \/ session' = [session EXCEPT ![k] = s] /\ (Goto(f, pc) \/ Goto(f, "drop"))
       \/ UNCHANGED session /\ Goto(f, "drop")
    /\ UNCHANGED <<store, phone, seen, used>>
(***************************************************************************)
(* A request about session k that moves it to s, if it does, and what the  *)
(* operation does next: pc is the step after the answer; without an answer *)
(* handleUploadError shows an error and keeps the record.                  *)
(***************************************************************************)
Answer(f, k, s, pc) ==
    /\ \/ session' = [session EXCEPT ![k] = s] /\ (Goto(f, pc) \/ End(f))
       \/ UNCHANGED session /\ End(f)
    /\ UNCHANGED <<store, phone, seen, used>>

(***************************************************************************)
(* createUploadSession is idempotent in the client_upload_id; another      *)
(* filename or LOG switch for the same identifier is a metadata conflict,  *)
(* which drops the record; an expired session is answered as such.         *)
(***************************************************************************)
Create(f) ==
    /\ op[f].pc = "create"
    /\ LET k == op[f].key s == session[k] IN
        \/ /\ s.stage = "absent"
           /\ Answer(f, k, [stage |-> "open", chunk |-> FALSE], "id")
        \/ s.stage # "absent" /\ \E pc \in {"id", "drop"} : Answer(f, k, s, pc)
        \/ s.stage = "closed" /\ Answer(f, k, s, "dropAny")
    /\ UNCHANGED screen

\* The record, if it is still the operation's own, is written back in a second step.
ReadOwn(f, pc) ==
    /\ IF Own(f) THEN Goto(f, pc) ELSE End(f)
    /\ UNCHANGED <<screen, store, phone, session, seen, used>>
NoteId(f) == op[f].pc = "id" /\ ReadOwn(f, "idWrite")
NoteProgress(f) == op[f].pc = "progress" /\ ReadOwn(f, "progressWrite")
WriteId(f) ==
    op[f].pc = "idWrite" /\ Stored(f, Record(f, TRUE), "get") /\ UNCHANGED <<seen, used>>
WriteProgress(f) ==
    /\ op[f].pc = "progressWrite"
    /\ Stored(f, Record(f, TRUE), "finalize")
    /\ UNCHANGED <<seen, used>>

\* An expired session is an error of getUploadSession; a cancelled one drops its record first.
After(s) ==
    CASE s.stage = "stored" -> {"done"}
      [] s.stage = "closed" -> {"drop", "dropAny"}
      [] s.stage = "rejected" -> {"drop"}
      [] OTHER -> {IF s.chunk THEN "finalize" ELSE "put"}
Get(f) ==
    /\ op[f].pc = "get"
    /\ LET k == op[f].key s == session[k] IN
        \/ /\ \E pc \in After(s) :
                op' = [op EXCEPT ![f].pc = pc,
                    ![f].then = IF s.stage = "closed" THEN "dropAny" ELSE "idle"]
           /\ screen' = [screen EXCEPT !.shown = IF op[f].live THEN k ELSE @]
        \/ End(f) /\ UNCHANGED screen
    /\ UNCHANGED <<store, phone, session, seen, used>>

Put(f) ==
    /\ op[f].pc = "put"
    /\ LET k == op[f].key s == session[k] IN
        IF s.stage \in {"open", "retryable"}
        THEN Answer(f, k, [s EXCEPT !.chunk = TRUE], "progress")
        ELSE Answer(f, k, s, IF s.stage = "closed" THEN "dropAny" ELSE "idle")
    /\ UNCHANGED screen

Finalize(f) ==
    /\ op[f].pc = "finalize"
    /\ LET k == op[f].key s == session[k] IN
        IF s.stage \in {"open", "retryable"} /\ s.chunk
        THEN Answer(f, k, [s EXCEPT !.stage = "submitted"], "poll")
        ELSE Answer(f, k, s,
            CASE s.stage \in {"submitted", "stored"} -> "poll"
              [] s.stage = "rejected" -> "drop"
              [] s.stage = "closed" -> "dropAny"
              [] OTHER -> "idle")
    /\ UNCHANGED screen

\* At most MAX_FINALIZATION_POLLS times: "finalizing" is shown and the press is over.
Poll(f) ==
    /\ op[f].pc = "poll"
    /\ LET s == session[op[f].key] IN
        \/ s.stage = "stored" /\ Goto(f, "done")
        \/ s.stage = "rejected" /\ Goto(f, "drop")
        \/ s.stage = "closed" /\ Goto(f, "dropAny")
        \/ End(f)
    /\ UNCHANGED <<screen, store, phone, session, seen, used>>

\* onUploaded opens the asset's screen, whatever screen is shown.
Uploaded(f) ==
    /\ op[f].pc = "done"
    /\ op' = [Unmounted(op) EXCEPT ![f].pc = "map"]
    /\ screen' = Mounted("detail", None)
    /\ UNCHANGED <<store, phone, session, seen, used>>

\* saveLocalAssetMapping; its failure is reported (onMappingUnavailable).
SaveMapping(f) ==
    /\ op[f].pc = "map"
    /\ Goto(f, "drop")
    /\ \/ store' = [store EXCEPT !.mapped = @ \cup {op[f].key}] /\ UNCHANGED seen
       \/ seen' = [seen EXCEPT !.unmapped = @ \cup {op[f].key}] /\ UNCHANGED store
    /\ UNCHANGED <<screen, phone, session, used>>

(***************************************************************************)
(* removeResumableUploadRecord(clientUploadId) and, after a session that   *)
(* was cancelled or has expired, removeResumableUploadRecord() of any.     *)
(***************************************************************************)
Drop(f) ==
    /\ op[f].pc = "drop"
    /\ IF Own(f) THEN Goto(f, "dropWrite")
       ELSE IF op[f].then = "idle" THEN End(f) ELSE Goto(f, op[f].then)
    /\ UNCHANGED <<screen, store, phone, session, seen, used>>
DropAny(f) ==
    /\ op[f].pc = "dropAny"
    /\ IF store.resume = None THEN End(f) ELSE Goto(f, "dropAnyWrite")
    /\ screen' = [screen EXCEPT !.over = @ \/ op[f].live]
    /\ UNCHANGED <<store, phone, session, seen, used>>
RemoveRecord(f) ==
    /\ op[f].pc \in {"dropWrite", "dropAnyWrite"}
    /\ store' = [store EXCEPT !.resume = None]
    /\ op' = [op EXCEPT ![f] =
        IF @.pc = "dropWrite" /\ @.then = "dropAny" THEN [@ EXCEPT !.pc = "dropAny"] ELSE Idle]
    /\ UNCHANGED <<screen, phone, session, seen, used>>

\* cancelUpload deletes the session the hook shows, which need not be the record's.
CanCancel == screen.shown # None /\ ~screen.over
CancelVideo(f) ==
    /\ screen.route = "picker" /\ CanCancel
    /\ Press(f, [Idle EXCEPT !.pc = "delete", !.key = screen.shown])
    /\ seen' = [seen EXCEPT !.overlapped = @ \/ Running # {}]
    /\ UNCHANGED <<screen, store, phone, session>>
Delete(f) ==
    /\ op[f].pc = "delete"
    /\ LET k == op[f].key s == session[k] IN
        IF s.stage \in {"open", "retryable", "closed"}
        THEN Answer(f, k, [s EXCEPT !.stage = "closed"], "dropAny")
        ELSE Answer(f, k, s, "idle")
    /\ UNCHANGED screen

(***************************************************************************)
(* The backend's own steps (UploadContract) and the user's edits.          *)
(***************************************************************************)
Settle(k) ==
    /\ \/ /\ session[k].stage = "submitted"
          /\ \E s \in {"stored", "retryable", "rejected"} :
                session' = [session EXCEPT ![k].stage = s]
       \/ /\ session[k].stage \in {"open", "retryable"}
          /\ session' = [session EXCEPT ![k].stage = "closed"]
    /\ UNCHANGED <<screen, op, store, phone, seen, used>>
Edit(v) ==
    /\ v \in Editable \cap phone.items /\ used.edits < MaxEdits
    /\ used' = [used EXCEPT !.edits = @ + 1]
    /\ phone' = [phone EXCEPT !.version[v] = @ + 1]
    /\ UNCHANGED <<screen, op, store, session, seen>>

VideoStep(f) ==
    \/ StartVideo(f) \/ ReadRecord(f) \/ KeepRecord(f) \/ Create(f)
    \/ NoteId(f) \/ WriteId(f) \/ Get(f) \/ Put(f) \/ NoteProgress(f) \/ WriteProgress(f)
    \/ Finalize(f) \/ Poll(f) \/ Uploaded(f) \/ SaveMapping(f)
    \/ Drop(f) \/ DropAny(f) \/ RemoveRecord(f) \/ CancelVideo(f) \/ Delete(f)
=============================================================================

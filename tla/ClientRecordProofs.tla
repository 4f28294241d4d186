------------------------- MODULE ClientRecordProofs -------------------------
(***************************************************************************)
(* Proofs about what the client remembers as long as no two operations     *)
(* overlap: resume records, markers, records of saves.                     *)
(***************************************************************************)
EXTENDS ClientProofs

-----------------------------------------------------------------------------
(***************************************************************************)
(* Steps. A step of an operation moves no other but for its screen, and    *)
(* one whose screen has gone meets a screen that shows no session.         *)
(***************************************************************************)
Carried(o, new) ==
    /\ new.of = o.of /\ new.key = o.key /\ new.live = o.live
    /\ new.saves = o.saves /\ new.then = o.then /\ new.version = o.version
Visible(f) ==
    \/ op'[f].pc = "idle" \/ op'[f].live
    \/ screen'.shown = None
    \/ op[f].pc # "idle" /\ ~op[f].live /\ screen'.shown = screen.shown
Moves(f) ==
    /\ op[f].pc # "idle" \/ Running = {} \/ seen'.overlapped
    /\ seen.overlapped => seen'.overlapped
    /\ \A g \in Slots \ {f} : op'[g].pc = op[g].pc
    /\ Visible(f)

Single == seen.overlapped \/ \A f, g \in Running : f = g
Shown == seen.overlapped \/ \A f \in Running : op[f].live \/ screen.shown = None

LEMMA IdlePc == Idle.pc = "idle"
  BY DEF Idle

LEMMA SetIs ==
    ASSUME Typed, NEW f \in Slots, NEW o, op' = [op EXCEPT ![f] = o]
    PROVE  op'[f] = o /\ \A g \in Slots \ {f} : op'[g] = op[g]
  BY DEF Typed, OpsOK

LEMMA EndIs ==
    ASSUME Typed, NEW f \in Slots, End(f)
    PROVE  op'[f].pc = "idle" /\ \A g \in Slots \ {f} : op'[g] = op[g]
  BY SetIs, IdlePc DEF End

LEMMA GotoIs ==
    ASSUME Typed, NEW f \in Slots, NEW pc, Goto(f, pc)
    PROVE  /\ op'[f].pc = pc /\ (pc # "idle" => Carried(op[f], op'[f]))
           /\ \A g \in Slots \ {f} : op'[g] = op[g]
  <1>1. CASE pc = "idle"
    BY <1>1, EndIs DEF Goto
  <1>2. CASE pc # "idle"
    <2>1. op' = [op EXCEPT ![f] = [op[f] EXCEPT !.pc = pc]]
      BY <1>2 DEF Goto
    <2>2. op[f] \in Operation
      BY OpTyped
    <2>3. op'[f] = [op[f] EXCEPT !.pc = pc] /\ \A g \in Slots \ {f} : op'[g] = op[g]
      BY <2>1, SetIs
    <2>. QED
      BY <1>2, <2>2, <2>3 DEF Operation, Carried
  <1>. QED
    BY <1>1, <1>2

LEMMA DiscardIs ==
    ASSUME Typed, NEW f \in Slots, NEW then, Discard(f, then)
    PROVE  /\ op'[f].pc = "discard" /\ op'[f].then = then
           /\ op'[f].of = op[f].of /\ op'[f].live = op[f].live
           /\ \A g \in Slots \ {f} : op'[g] = op[g]
  <1>1. op' = [op EXCEPT ![f] = [op[f] EXCEPT !.pc = "discard", !.then = then]]
    BY DEF Discard, Typed, OpsOK
  <1>2. op[f] \in Operation
    BY OpTyped
  <1>3. /\ op'[f] = [op[f] EXCEPT !.pc = "discard", !.then = then]
        /\ \A g \in Slots \ {f} : op'[g] = op[g]
    BY <1>1, SetIs
  <1>. QED
    BY <1>2, <1>3 DEF Operation

LEMMA PressIs ==
    ASSUME Typed, NEW f \in Slots, NEW new \in Operation, Press(f, new)
    PROVE  /\ op'[f].pc = new.pc /\ op'[f].of = new.of /\ op'[f].key = new.key
           /\ op'[f].live /\ op[f].pc = "idle" /\ used'.keys = used.keys
           /\ \A g \in Slots \ {f} : op'[g] = op[g]
  <1>1. op' = [op EXCEPT ![f] = [new EXCEPT !.live = TRUE]]
    BY DEF Press
  <1>2. /\ [new EXCEPT !.live = TRUE].pc = new.pc /\ [new EXCEPT !.live = TRUE].of = new.of
        /\ [new EXCEPT !.live = TRUE].key = new.key /\ [new EXCEPT !.live = TRUE].live
    BY DEF Operation
  <1>3. used'.keys = used.keys
    BY DEF Press, Typed, RestOK, Used
  <1>. QED
    BY <1>1, <1>2, <1>3, SetIs, IdlePc DEF Press

LEMMA UnmountIs ==
    ASSUME NEW ops \in [Slots -> Operation], op' = Unmounted(ops), NEW g \in Slots
    PROVE  /\ op'[g].pc = ops[g].pc /\ op'[g].of = ops[g].of /\ op'[g].key = ops[g].key
           /\ op'[g].saves = ops[g].saves /\ op'[g].then = ops[g].then
  <1>1. op'[g] = [ops[g] EXCEPT !.live = FALSE] /\ ops[g] \in Operation
    BY DEF Unmounted
  <1>. QED
    BY <1>1 DEF Operation

LEMMA GoesOnMoves ==
    ASSUME Typed, NEW f \in Slots, op[f].pc # "idle",
           screen'.shown = screen.shown, seen'.overlapped = seen.overlapped,
           \A g \in Slots \ {f} : op'[g] = op[g],
           op'[f].pc = "idle" \/ op'[f].live = op[f].live
    PROVE  Moves(f)
  BY DEF Moves, Visible

LEMMA PressMoves ==
    ASSUME Typed, NEW f \in Slots, NEW new \in Operation, Press(f, new),
           seen'.overlapped = (seen.overlapped \/ Running # {})
    PROVE  Moves(f)
  BY PressIs DEF Moves, Visible

\* Until operations overlap the one that moves is the only one.
LEMMA Lone ==
    ASSUME Single, NEW f \in Slots, Moves(f), ~seen'.overlapped
    PROVE  /\ ~seen.overlapped
           /\ \A g \in Slots : op'[g].pc # "idle" => g = f
           /\ \A g \in Slots : op[g].pc # "idle" => g = f
  BY DEF Single, Moves, Running

LEMMA SingleMoves == ASSUME Single, NEW f \in Slots, Moves(f) PROVE Single'
  BY Lone DEF Single, Running

LEMMA ShownMoves == ASSUME Single, Shown, NEW f \in Slots, Moves(f) PROVE Shown'
  <1>. SUFFICES ASSUME ~seen'.overlapped, NEW g \in Slots, op'[g].pc # "idle"
                PROVE  op'[g].live \/ screen'.shown = None
    BY DEF Shown, Running
  <1>1. g = f /\ ~seen.overlapped
    BY Lone
  <1>. QED
    BY <1>1 DEF Moves, Visible, Shown, Running
-----------------------------------------------------------------------------
(***************************************************************************)
(* What the steps of one kind leave to the other kinds.                    *)
(***************************************************************************)
UploadLeft ==
    /\ session' = session
    /\ store'.resume = store.resume /\ store'.mapped = store.mapped
    /\ seen'.replaced = seen.replaced /\ seen'.unmapped = seen.unmapped
    /\ used'.keys = used.keys
    /\ screen'.shown \in {screen.shown, None}
SavesLeft ==
    /\ phone' = phone /\ store'.saves = store.saves /\ seen'.retried = seen.retried
PhotosLeft ==
    /\ store'.marker = store.marker
    /\ seen'.unknown = seen.unknown /\ seen'.resent = seen.resent
    /\ seen'.markerLost = seen.markerLost

LEMMA Records ==
    ASSUME Typed
    PROVE  /\ store = [resume |-> store.resume, mapped |-> store.mapped,
                       marker |-> store.marker, saves |-> store.saves]
           /\ seen = [replaced |-> seen.replaced, unmapped |-> seen.unmapped,
                      unknown |-> seen.unknown, resent |-> seen.resent,
                      markerLost |-> seen.markerLost, retried |-> seen.retried,
                      overlapped |-> seen.overlapped]
           /\ DOMAIN screen = {"route", "picked", "shown", "over", "marker", "canAck",
                               "reviewed", "saved"}
           /\ screen \in Screen
  BY DEF Typed, RestOK, Store, Seen, Screen

LEMMA VideoSteps ==
    ASSUME Typed, NEW f \in Slots, VideoStep(f)
    PROVE  Moves(f) /\ op'[f].pc \in VideoPc \cup {"idle"}
  <1>1. CASE StartVideo(f)
    <2>1. PICK v \in Videos :
              Press(f, [Idle EXCEPT !.pc = "read", !.of = v, !.version = phone.version[v]])
      BY <1>1 DEF StartVideo
    <2> DEFINE new == [Idle EXCEPT !.pc = "read", !.of = v, !.version = phone.version[v]]
    <2>2. new \in Operation /\ new.pc = "read"
      BY IdleOK DEF OpOK, Idle, Operation, VideoPc, Typed, RestOK, Phone
    <2>3. seen'.overlapped = (seen.overlapped \/ Running # {})
      BY <1>1, Records DEF StartVideo
    <2>4. Press(f, new)
      BY <2>1
    <2>. HIDE DEF new
    <2>. QED
      BY <2>2, <2>3, <2>4, PressMoves, PressIs DEF VideoPc
  <1>2. CASE ReadRecord(f)
    <2> DEFINE o ==
          IF SameVideo(f) /\ store.resume.version = op[f].version
          THEN [op[f] EXCEPT !.key = store.resume.key,
                             !.pc = IF store.resume.sid THEN "get" ELSE "create"]
          ELSE IF SameVideo(f) THEN [op[f] EXCEPT !.key = store.resume.key, !.pc = "drop"]
          ELSE [op[f] EXCEPT !.pc = "keep"]
    <2>1. op' = [op EXCEPT ![f] = o]
      BY <1>2 DEF ReadRecord
    <2>2. o.live = op[f].live /\ o.pc \in {"get", "create", "drop", "keep"}
      BY OpTyped DEF Operation
    <2>. HIDE DEF o
    <2>3. op'[f] = o /\ \A g \in Slots \ {f} : op'[g] = op[g]
      BY <2>1, SetIs
    <2>4. screen' = screen /\ seen'.overlapped = seen.overlapped /\ op[f].pc = "read"
      BY <1>2, Records DEF ReadRecord
    <2>. QED
      BY <2>2, <2>3, <2>4, GoesOnMoves DEF VideoPc
  <1>3. CASE KeepRecord(f)
    <2> DEFINE o == [op[f] EXCEPT !.key = used.keys + 1, !.pc = "create"]
    <2>1. op' = [op EXCEPT ![f] = o]
      BY <1>3 DEF KeepRecord, Typed, OpsOK
    <2>2. o.live = op[f].live /\ o.pc = "create"
      BY OpTyped DEF Operation
    <2>. HIDE DEF o
    <2>3. op'[f] = o /\ \A g \in Slots \ {f} : op'[g] = op[g]
      BY <2>1, SetIs
    <2>4. screen' = screen /\ seen'.overlapped = seen.overlapped /\ op[f].pc = "keep"
      BY <1>3, Records DEF KeepRecord
    <2>. QED
      BY <2>2, <2>3, <2>4, GoesOnMoves DEF VideoPc
  \* A step that ends the operation or goes on to pc.
  <1>4. ASSUME NEW pc \in VideoPc \cup {"idle"}, End(f) \/ Goto(f, pc), op[f].pc # "idle",
               screen'.shown = screen.shown, seen'.overlapped = seen.overlapped
        PROVE  Moves(f) /\ op'[f].pc \in VideoPc \cup {"idle"}
    BY <1>4, EndIs, GotoIs, GoesOnMoves DEF Carried
  <1>5. CASE Create(f) \/ Put(f) \/ Finalize(f) \/ Delete(f)
    <2>1. op[f].pc # "idle" /\ screen' = screen
      BY <1>5 DEF Create, Put, Finalize, Delete
    <2>2. ASSUME NEW k, NEW s, NEW pc \in VideoPc \cup {"idle"}, Answer(f, k, s, pc)
          PROVE  (End(f) \/ Goto(f, pc)) /\ seen' = seen
      BY <2>2 DEF Answer
    <2>3. \E k : \E s : \E pc \in VideoPc \cup {"idle"} : Answer(f, k, s, pc)
      BY <1>5 DEF Create, Put, Finalize, Delete, VideoPc
    <2>. QED
      BY <1>4, <2>1, <2>2, <2>3
  <1>6. CASE NoteId(f) \/ NoteProgress(f) \/ Poll(f)
    <2>1. op[f].pc # "idle" /\ screen' = screen /\ seen' = seen
      BY <1>6 DEF NoteId, NoteProgress, ReadOwn, Poll
    <2>2. \E pc \in VideoPc : End(f) \/ Goto(f, pc)
      BY <1>6 DEF NoteId, NoteProgress, ReadOwn, Poll, VideoPc
    <2>. QED
      BY <1>4, <2>1, <2>2
  <1>7. CASE WriteId(f) \/ WriteProgress(f) \/ SaveMapping(f)
    <2>1. op[f].pc # "idle" /\ screen' = screen /\ seen'.overlapped = seen.overlapped
      BY <1>7, Records DEF WriteId, WriteProgress, Stored, SaveMapping
    <2>2. \E pc \in VideoPc : Goto(f, pc)
      BY <1>7 DEF WriteId, WriteProgress, Stored, SaveMapping, VideoPc
    <2>. QED
      BY <1>4, <2>1, <2>2
  <1>8. CASE Get(f)
    <2>0. op[f].pc = "get" /\ seen' = seen
      BY <1>8 DEF Get
    <2>1. CASE End(f)
      BY <1>8, <2>0, <2>1, EndIs DEF Moves, Visible
    <2>2. CASE ~End(f)
      <3> DEFINE then == IF session[op[f].key].stage = "closed" THEN "dropAny" ELSE "idle"
                 o(pc) == [op[f] EXCEPT !.pc = pc, !.then = then]
      <3>1. After(session[op[f].key]) \subseteq {"done", "drop", "dropAny", "finalize", "put"}
        BY DEF After
      <3>2. PICK pc \in After(session[op[f].key]) :
                op' = [op EXCEPT ![f].pc = pc, ![f].then = then]
        BY <1>8, <2>2 DEF Get
      <3>3. op' = [op EXCEPT ![f] = o(pc)]
        BY <3>2 DEF Typed, OpsOK
      <3>4. op'[f] = o(pc) /\ \A g \in Slots \ {f} : op'[g] = op[g]
        BY <3>3 DEF Typed, OpsOK
      <3>5. op'[f].pc = pc /\ op'[f].live = op[f].live
        BY <3>4, OpTyped DEF Operation
      <3>6. op[f].live \/ screen'.shown = screen.shown
        BY <1>8, <2>2, Records DEF Get
      <3>. QED
        BY <2>0, <3>1, <3>2, <3>4, <3>5, <3>6 DEF Moves, Visible, VideoPc
    <2>. QED
      BY <2>1, <2>2
  <1>9. CASE Uploaded(f)
    <2>1. op' = [Unmounted(op) EXCEPT ![f].pc = "map"]
      BY <1>9 DEF Uploaded
    <2>2. \A g \in Slots \ {f} : op'[g] = [op[g] EXCEPT !.live = FALSE]
      BY <2>1 DEF Unmounted
    <2>3. op'[f].pc = "map"
      BY <2>1 DEF Unmounted, Typed, OpsOK, Operation
    <2>4. \A g \in Slots \ {f} : op'[g].pc = op[g].pc
      BY <2>2, OpTyped DEF Operation
    <2>5. screen'.shown = None /\ seen' = seen /\ op[f].pc = "done"
      BY <1>9 DEF Uploaded, Mounted
    <2>. QED
      BY <2>3, <2>4, <2>5 DEF Moves, Visible, VideoPc
  <1>10. CASE Drop(f) \/ DropAny(f)
    <2>1. op[f].then \in {"idle", "dropAny"}
      BY <1>10, OpTyped DEF Operation, Fits, VideoPc, Drop, DropAny
    <2>2. op[f].pc # "idle" /\ screen'.shown = screen.shown /\ seen' = seen
      BY <1>10, Records DEF Drop, DropAny
    <2>3. \E pc \in VideoPc \cup {"idle"} : End(f) \/ Goto(f, pc)
      BY <1>10, <2>1 DEF Drop, DropAny, VideoPc
    <2>. QED
      BY <1>4, <2>2, <2>3
  <1>11. CASE RemoveRecord(f)
    <2>1. op' = [op EXCEPT ![f] = Idle] \/ op' = [op EXCEPT ![f] = [op[f] EXCEPT !.pc = "dropAny"]]
      BY <1>11 DEF RemoveRecord
    <2>2. End(f) \/ Goto(f, "dropAny")
      BY <2>1 DEF End, Goto
    <2>3. op[f].pc # "idle" /\ screen' = screen /\ seen' = seen
      BY <1>11 DEF RemoveRecord
    <2>. QED
      BY <1>4, <2>2, <2>3 DEF VideoPc
  <1>12. CASE CancelVideo(f)
    <2> DEFINE new == [Idle EXCEPT !.pc = "delete", !.key = screen.shown]
    <2>1. screen.shown \in Keys
      BY <1>12, Records DEF CancelVideo, CanCancel, Screen
    <2>2. new \in Operation /\ new.pc = "delete"
      BY <2>1, IdleOK DEF OpOK, Idle, Operation, VideoPc
    <2>3. seen'.overlapped = (seen.overlapped \/ Running # {})
      BY <1>12, Records DEF CancelVideo
    <2>4. Press(f, new)
      BY <1>12 DEF CancelVideo
    <2>. HIDE DEF new
    <2>. QED
      BY <2>2, <2>3, <2>4, PressMoves, PressIs DEF VideoPc
  <1>. QED
    BY <1>1, <1>2, <1>3, <1>5, <1>6, <1>7, <1>8, <1>9, <1>10, <1>11, <1>12 DEF VideoStep

LEMMA VideoFrame == ASSUME Typed, NEW f \in Slots, VideoStep(f) PROVE SavesLeft /\ PhotosLeft
  <1>1. CASE StartVideo(f) \/ ReadRecord(f) \/ KeepRecord(f) \/ CancelVideo(f)
    BY <1>1, Records DEF StartVideo, ReadRecord, KeepRecord, CancelVideo, SavesLeft, PhotosLeft
  <1>2. CASE Create(f) \/ Put(f) \/ Finalize(f) \/ Delete(f)
    BY <1>2 DEF Create, Put, Finalize, Delete, Answer, SavesLeft, PhotosLeft
  <1>3. CASE NoteId(f) \/ NoteProgress(f) \/ Poll(f) \/ Get(f) \/ Uploaded(f) \/ Drop(f) \/ DropAny(f)
    BY <1>3 DEF NoteId, NoteProgress, ReadOwn, Poll, Get, Uploaded, Drop, DropAny, SavesLeft,
       PhotosLeft
  <1>4. CASE WriteId(f) \/ WriteProgress(f) \/ SaveMapping(f) \/ RemoveRecord(f)
    BY <1>4, Records DEF WriteId, WriteProgress, Stored, SaveMapping, RemoveRecord, SavesLeft,
       PhotosLeft
  <1>. QED
    BY <1>1, <1>2, <1>3, <1>4 DEF VideoStep
LEMMA PhotoSteps ==
    ASSUME Typed, NEW f \in Slots, PhotoStep(f)
    PROVE  Moves(f) /\ op'[f].pc \in PhotoPc \cup {"idle"}
  <1>1. CASE StartPhoto(f)
    <2>1. PICK p \in Photos : Press(f, [Idle EXCEPT !.pc = "check", !.of = p])
      BY <1>1 DEF StartPhoto
    <2> DEFINE new == [Idle EXCEPT !.pc = "check", !.of = p]
    <2>2. new \in Operation /\ new.pc = "check"
      BY IdleOK DEF OpOK, Idle, Operation, PhotoPc
    <2>3. seen'.overlapped = (seen.overlapped \/ Running # {})
      BY <1>1, Records DEF StartPhoto
    <2>4. Press(f, new)
      BY <2>1
    <2>. HIDE DEF new
    <2>. QED
      BY <2>2, <2>3, <2>4, PressMoves, PressIs DEF PhotoPc
  <1>2. CASE Check(f) \/ Send(f) \/ TimedOut(f) \/ Mark(f)
    <2>1. op[f].pc # "idle" /\ screen'.shown = screen.shown /\ seen'.overlapped = seen.overlapped
      BY <1>2, Records DEF Check, Send, TimedOut, Mark
    <2>2. \E pc \in PhotoPc : End(f) \/ Goto(f, pc)
      BY <1>2 DEF Check, Send, TimedOut, Mark, PhotoPc
    <2>. QED
      BY <2>1, <2>2, EndIs, GotoIs, GoesOnMoves DEF Carried
  <1>3. CASE Answered(f)
    <2>0. seen' = seen /\ op[f].pc = "sent"
      BY <1>3 DEF Answered
    <2>1. CASE End(f)
      <3>1. screen'.shown \in {screen.shown, None}
        BY <1>3 DEF Answered, Mounted
      <3>. QED
        BY <2>0, <2>1, <3>1, EndIs DEF Moves, Visible
    <2>2. CASE ~End(f)
      <3> DEFINE ops == [op EXCEPT ![f] = Idle]
      <3>1. op' = Unmounted(ops) /\ screen'.shown = None
        BY <1>3, <2>2 DEF Answered, Mounted
      <3>2. /\ ops \in [Slots -> Operation] /\ ops[f].pc = "idle"
            /\ \A g \in Slots \ {f} : ops[g] = op[g]
        BY IdleOK DEF Typed, OpsOK, OpOK, Idle
      <3>. HIDE DEF ops
      <3>. QED
        BY <2>0, <3>1, <3>2, UnmountIs DEF Moves, Visible
    <2>. QED
      BY <2>1, <2>2
  <1>. QED
    BY <1>1, <1>2, <1>3 DEF PhotoStep

LEMMA PhotoFrame == ASSUME Typed, NEW f \in Slots, PhotoStep(f) PROVE UploadLeft /\ SavesLeft
  <1>1. CASE StartPhoto(f)
    <2>1. used'.keys = used.keys
      BY <1>1 DEF StartPhoto, Press, Typed, RestOK, Used
    <2>. QED
      BY <1>1, <2>1, Records DEF StartPhoto, UploadLeft, SavesLeft
  <1>2. CASE Check(f) \/ Send(f) \/ TimedOut(f) \/ Answered(f)
    BY <1>2, Records DEF Check, Send, TimedOut, Answered, Mounted, UploadLeft, SavesLeft
  <1>3. CASE Mark(f)
    BY <1>3, Records DEF Mark, UploadLeft, SavesLeft
  <1>. QED
    BY <1>1, <1>2, <1>3 DEF PhotoStep

LEMMA SaveSteps ==
    ASSUME Typed, NEW f \in Slots, SaveStep(f)
    PROVE  Moves(f) /\ op'[f].pc \in SavePc \cup {"idle"}
  <1>1. CASE StartSave(f)
    <2> DEFINE new == [Idle EXCEPT !.pc = "begin", !.of = screen.picked]
    <2>1. Press(f, new)
      BY <1>1 DEF StartSave
    <2>2. new \in Operation /\ new.pc = "begin"
      BY <1>1, IdleOK DEF StartSave, OpOK, Idle, Operation, SavePc
    <2>3. seen'.overlapped = (seen.overlapped \/ Running # {})
      BY <1>1, Records DEF StartSave
    <2>. HIDE DEF new
    <2>. QED
      BY <2>1, <2>2, <2>3, PressMoves, PressIs DEF SavePc
  <1>2. ASSUME NEW pc \in SavePc, NEW then,
               End(f) \/ Goto(f, pc) \/ Discard(f, then),
               op[f].pc # "idle", screen' = screen, seen'.overlapped = seen.overlapped
        PROVE  Moves(f) /\ op'[f].pc \in SavePc \cup {"idle"}
    BY <1>2, EndIs, GotoIs, DiscardIs, GoesOnMoves DEF Carried, SavePc
  <1>3. CASE ReadSaves(f)
    <2> DEFINE o == [op[f] EXCEPT !.pc = Writing[op[f].pc], !.saves = store.saves]
    <2>1. screen' = screen /\ seen' = seen /\ op[f].pc \in {"begin", "ahead", "commit", "fail"}
      BY <1>3 DEF ReadSaves, Same, Writing
    <2>2. CASE op' = [op EXCEPT ![f] = o]
      <3>1. o.live = op[f].live /\ o.pc = Writing[op[f].pc]
        BY OpTyped DEF Operation
      <3>2. o.pc \in SavePc
        BY <2>1, <3>1 DEF Writing, SavePc
      <3>3. op'[f] = o /\ \A g \in Slots \ {f} : op'[g] = op[g]
        BY <2>2, SetIs
      <3>. QED
        BY <2>1, <3>1, <3>2, <3>3, GoesOnMoves
    <2>3. CASE op' # [op EXCEPT ![f] = o]
      <3>1. End(f) \/ Discard(f, "idle") \/ Discard(f, "fail")
        BY <1>3, <2>3 DEF ReadSaves, Typed, OpsOK
      <3>. QED
        BY <1>2, <2>1, <3>1 DEF SavePc
    <2>. QED
      BY <2>2, <2>3
  <1>4. CASE BeginWrite(f) \/ AheadWrite(f) \/ CommitWrite(f) \/ FailWrite(f)
    <2>1. op[f].pc # "idle" /\ screen' = screen /\ seen' = seen
      BY <1>4 DEF BeginWrite, AheadWrite, CommitWrite, FailWrite, Same
    <2>2. \E pc \in SavePc : \E then : End(f) \/ Goto(f, pc) \/ Discard(f, then)
      BY <1>4 DEF BeginWrite, AheadWrite, CommitWrite, FailWrite, SavePc
    <2>. QED
      BY <1>2, <2>1, <2>2
  <1>5. CASE Clean(f) \/ Fetch(f) \/ Arrive(f) \/ Verify(f) \/ Ask(f) \/ Import(f)
    <2>1. op[f].pc # "idle" /\ screen' = screen /\ seen' = seen
      BY <1>5 DEF Clean, Fetch, Arrive, Verify, Ask, Import, Same
    <2>2. \E pc \in SavePc : \E then : End(f) \/ Goto(f, pc) \/ Discard(f, then)
      BY <1>5 DEF Clean, Fetch, Arrive, Verify, Ask, Import, SavePc
    <2>. QED
      BY <1>2, <2>1, <2>2
  <1>6. CASE DiscardTemp(f)
    <2>1. op' = [op EXCEPT ![f] = Idle] \/ op' = [op EXCEPT ![f] = [op[f] EXCEPT !.pc = "fail"]]
      BY <1>6 DEF DiscardTemp
    <2>2. End(f) \/ Goto(f, "fail")
      BY <2>1 DEF End, Goto
    <2>3. op[f].pc # "idle" /\ screen' = screen /\ seen' = seen
      BY <1>6 DEF DiscardTemp, Same
    <2>. QED
      BY <1>2, <2>2, <2>3 DEF SavePc
  <1>. QED
    BY <1>1, <1>3, <1>4, <1>5, <1>6 DEF SaveStep

LEMMA SaveFrame == ASSUME Typed, NEW f \in Slots, SaveStep(f) PROVE UploadLeft /\ PhotosLeft
  <1>1. CASE StartSave(f)
    <2>1. used'.keys = used.keys
      BY <1>1 DEF StartSave, Press, Typed, RestOK, Used
    <2>. QED
      BY <1>1, <2>1, Records DEF StartSave, UploadLeft, PhotosLeft
  <1>2. CASE ~StartSave(f)
    <2>1. UNCHANGED <<screen, session, used, seen>>
      BY <1>2 DEF SaveStep, ReadSaves, BeginWrite, AheadWrite, CommitWrite, FailWrite, Clean,
         Fetch, Arrive, Verify, Ask, Import, DiscardTemp, Same
    <2>2. store' = store \/ \E saves : store' = [store EXCEPT !.saves = saves]
      BY <1>2 DEF SaveStep, ReadSaves, BeginWrite, AheadWrite, CommitWrite, FailWrite, Clean,
         Fetch, Arrive, Verify, Ask, Import, DiscardTemp, SavesWith
    <2>. QED
      BY <2>1, <2>2, Records DEF UploadLeft, PhotosLeft
  <1>. QED
    BY <1>1, <1>2

-----------------------------------------------------------------------------
(***************************************************************************)
(* Steps of no operation: they end operations or take their screens away.  *)
(***************************************************************************)
Rests ==
    /\ seen'.overlapped = seen.overlapped
    /\ \A g \in Slots : op'[g].pc # "idle" =>
        /\ op'[g].pc = op[g].pc /\ op'[g].of = op[g].of /\ op'[g].key = op[g].key
        /\ op'[g].saves = op[g].saves /\ op'[g].then = op[g].then
        /\ screen'.shown = None \/ (op'[g].live = op[g].live /\ screen'.shown = screen.shown)
Besides ==
    \/ Navigate \/ Kill \/ ReadMarker \/ Refresh \/ Acknowledge
    \/ \E x \in phone.items \ Results : Pick(x)
    \/ \E k \in Keys : Settle(k)
    \/ \E v \in Videos : Edit(v)
    \/ ShowSaved \/ ListTemps \/ \E r \in Results : SweepTemp(r)

LEMMA AcknowledgeIs ==
    ASSUME Typed, Acknowledge
    PROVE  /\ seen'.overlapped = seen.overlapped /\ seen'.retried = seen.retried
           /\ seen'.replaced = seen.replaced /\ seen'.unmapped = seen.unmapped
           /\ seen'.resent = seen.resent /\ seen'.unknown = seen.unknown \ screen.reviewed
           /\ seen'.markerLost = IF seen.unknown \subseteq screen.reviewed THEN seen.markerLost
                                ELSE seen.markerLost \cup {"cleared"}
           /\ store'.resume = store.resume /\ store'.mapped = store.mapped
           /\ store'.saves = store.saves /\ store'.marker = None
           /\ op' = Unmounted(op) /\ screen'.shown = None
           /\ UNCHANGED <<phone, session, used>>
  <1> DEFINE lost == IF seen.unknown \subseteq screen.reviewed THEN seen.markerLost
                     ELSE seen.markerLost \cup {"cleared"}
  <1>1. seen' = [seen EXCEPT !.unknown = seen.unknown \ screen.reviewed, !.markerLost = lost]
    BY DEF Acknowledge
  <1>. HIDE DEF lost
  <1>2. seen \in Seen /\ store \in Store
    BY DEF Typed, RestOK
  <1>3. /\ seen'.overlapped = seen.overlapped /\ seen'.retried = seen.retried
        /\ seen'.replaced = seen.replaced /\ seen'.unmapped = seen.unmapped
        /\ seen'.resent = seen.resent /\ seen'.unknown = seen.unknown \ screen.reviewed
        /\ seen'.markerLost = lost
    BY <1>1, <1>2 DEF Seen
  <1>4. store' = [store EXCEPT !.marker = None]
    BY DEF Acknowledge
  <1>5. /\ store'.resume = store.resume /\ store'.mapped = store.mapped
        /\ store'.saves = store.saves /\ store'.marker = None
    BY <1>2, <1>4 DEF Store
  <1>6. op' = Unmounted(op) /\ screen'.shown = None /\ UNCHANGED <<phone, session, used>>
    BY DEF Acknowledge, Mounted
  <1>. QED
    BY <1>3, <1>5, <1>6 DEF lost

LEMMA BesideSteps == ASSUME Typed, Besides PROVE Rests
  <1>1. CASE Navigate \/ Acknowledge
    <2>1. op' = Unmounted(op) /\ screen'.shown = None /\ seen'.overlapped = seen.overlapped
      BY <1>1, AcknowledgeIs DEF Navigate, Mounted
    <2>2. op \in [Slots -> Operation]
      BY DEF Typed, OpsOK
    <2>. QED
      BY <2>1, <2>2, UnmountIs DEF Rests
  <1>2. CASE Kill
    BY <1>2 DEF Kill, Rests, Idle
  <1>3. CASE ~(Navigate \/ Acknowledge \/ Kill)
    <2>1. op' = op /\ seen' = seen /\ screen'.shown = screen.shown
      BY <1>3, Records DEF Besides, ReadMarker, Refresh, Pick, Settle, Edit, ShowSaved, ListTemps,
         SweepTemp
    <2>. QED
      BY <2>1 DEF Rests
  <1>. QED
    BY <1>1, <1>2, <1>3

LEMMA BesideUploads ==
    ASSUME Typed, Besides PROVE UploadLeft \/ \E k \in Keys : Settle(k)
  <1>1. CASE Kill
    BY <1>1 DEF Kill, UploadLeft, Mounted, Typed, RestOK, Used
  <1>2. CASE \E v \in Videos : Edit(v)
    BY <1>2 DEF Edit, UploadLeft, Typed, RestOK, Used
  <1>3. CASE Navigate \/ Acknowledge
    BY <1>3, AcknowledgeIs DEF Navigate, Mounted, UploadLeft
  <1>4. CASE ~(Kill \/ Navigate \/ Acknowledge \/ \E v \in Videos : Edit(v))
    BY <1>4, Records DEF Besides, ReadMarker, Refresh, Pick, ShowSaved, ListTemps, SweepTemp,
       UploadLeft
  <1>. QED
    BY <1>1, <1>2, <1>3, <1>4

LEMMA BesideSaves ==
    ASSUME Typed, Besides
    PROVE  /\ store'.saves = store.saves /\ seen'.retried = seen.retried
           /\ phone'.copies = phone.copies /\ phone'.damaged = phone.damaged
           /\ \A r \in Results : phone'.temp[r] \in {phone.temp[r], "none"}
  <1>1. store'.saves = store.saves /\ seen'.retried = seen.retried
    BY Records DEF Besides, Navigate, Kill, ReadMarker, Refresh, Acknowledge, Pick, Settle, Edit,
       ShowSaved, ListTemps, SweepTemp
  <1>2. /\ phone'.copies = phone.copies /\ phone'.damaged = phone.damaged
        /\ \A r \in Results : phone'.temp[r] \in {phone.temp[r], "none"}
    BY ZenonT(60) DEF Besides, Navigate, Kill, ReadMarker, Refresh, Acknowledge, Pick, Settle, Edit,
       ShowSaved, ListTemps, SweepTemp, Typed, RestOK, Phone
  <1>. QED
    BY <1>1, <1>2

LEMMA BesidePhotos == ASSUME Typed, Besides PROVE PhotosLeft \/ Acknowledge
  BY Records DEF Besides, Navigate, Kill, ReadMarker, Refresh, Pick, Settle, Edit, ShowSaved,
     ListTemps, SweepTemp, PhotosLeft

LEMMA NextIs ==
    ASSUME Next
    PROVE  Besides \/ \E f \in Slots : VideoStep(f) \/ PhotoStep(f) \/ SaveStep(f)
  BY DEF Next, Besides
LEMMA SingleNext == ASSUME Typed, Single, Shown, Next PROVE Single' /\ Shown'
  <1>1. CASE \E f \in Slots : VideoStep(f) \/ PhotoStep(f) \/ SaveStep(f)
    BY <1>1, VideoSteps, PhotoSteps, SaveSteps, SingleMoves, ShownMoves
  <1>2. CASE Besides
    BY <1>2, BesideSteps DEF Rests, Single, Shown, Running
  <1>. QED
    BY <1>1, <1>2, NextIs

-----------------------------------------------------------------------------
(***************************************************************************)
(* Photos. As long as no marker was lost, the stored one blocks every      *)
(* photo whose upload has timed out, and none of them is about to be sent. *)
(***************************************************************************)
PhotosOK ==
    ~seen.overlapped /\ seen.markerLost = {} =>
        /\ seen.resent = {}
        /\ \A p \in seen.unknown : Blocks(store.marker, p)
        /\ \A f \in Running : op[f].pc = "send" => op[f].of \notin seen.unknown

LEMMA PhotosLeftOK ==
    ASSUME Typed, Single, PhotosOK, NEW f \in Slots, Moves(f), PhotosLeft, op'[f].pc # "send"
    PROVE  PhotosOK'
  BY Lone DEF PhotosOK, PhotosLeft, Running

LEMMA MarkIs ==
    ASSUME Typed, NEW f \in Slots, Mark(f), seen'.markerLost = {}
    PROVE  /\ seen.markerLost = {} /\ op[f].of \in Photos
           /\ seen'.unknown = seen.unknown \cup {op[f].of} /\ seen'.resent = seen.resent
           /\ store'.marker = MarkerOf(op[f].of) /\ ~Overwrites(MarkerOf(op[f].of))
  <1>1. op[f].of \in Photos
    BY OpTyped DEF Mark, Fits, PhotoPc
  <1>. DEFINE marker == MarkerOf(op[f].of)
              lost == IF Overwrites(marker) THEN seen.markerLost \cup {"replaced"}
                      ELSE seen.markerLost
  <1>2. seen \in Seen /\ store \in Store
    BY DEF Typed, RestOK
  <1>3. CASE /\ store' = [store EXCEPT !.marker = marker]
             /\ seen' = [seen EXCEPT !.unknown = seen.unknown \cup {op[f].of}, !.markerLost = lost]
    <2>. HIDE DEF lost
    <2>1. /\ seen'.unknown = seen.unknown \cup {op[f].of} /\ seen'.resent = seen.resent
          /\ seen'.markerLost = lost /\ store'.marker = marker
      BY <1>2, <1>3 DEF Seen, Store
    <2>. QED
      BY <1>1, <2>1 DEF lost
  <1>4. CASE seen' = [seen EXCEPT !.unknown = seen.unknown \cup {op[f].of},
                                  !.markerLost = seen.markerLost \cup {"unwritten"}]
    <2>1. seen'.markerLost = seen.markerLost \cup {"unwritten"}
      BY <1>2, <1>4 DEF Seen
    <2>. QED
      BY <2>1
  <1>. QED
    BY <1>3, <1>4 DEF Mark

\* A marker that replaces none of another photo blocks what was blocked.
LEMMA StillBlocks ==
    ASSUME Typed, NEW p \in Photos, ~Overwrites(MarkerOf(p)),
           NEW q, q \in seen.unknown => Blocks(store.marker, q), q \in seen.unknown \cup {p}
    PROVE  Blocks(MarkerOf(p), q)
  <1>1. None # "global" /\ None \notin Photos
    BY ClientAssumptions
  <1>2. CASE q = p
    BY <1>2 DEF Blocks, MarkerOf
  <1>3. CASE q # p
    <2>1. Blocks(store.marker, q) /\ q \in Photos
      BY <1>3 DEF Typed, RestOK, Seen
    <2>. QED
      BY <1>1, <2>1 DEF Blocks, MarkerOf, Overwrites
  <1>. QED
    BY <1>2, <1>3

LEMMA PhotoStepOK ==
    ASSUME Typed, Single, PhotosOK, NEW f \in Slots, PhotoStep(f) PROVE PhotosOK'
  <1>. SUFFICES ASSUME ~seen'.overlapped, seen'.markerLost = {}
                PROVE  /\ seen'.resent = {}
                       /\ \A p \in seen'.unknown : Blocks(store'.marker, p)
                       /\ op'[f].pc = "send" => op'[f].of \notin seen'.unknown
    BY PhotoSteps, Lone DEF PhotosOK, Running
  <1>0. ~seen.overlapped
    BY PhotoSteps, Lone
  <1>1. CASE StartPhoto(f)
    <2>1. PhotosLeft
      BY <1>1, Records DEF StartPhoto, PhotosLeft
    <2>2. op'[f].pc # "send"
      <3>1. PICK p \in Photos : Press(f, [Idle EXCEPT !.pc = "check", !.of = p])
        BY <1>1 DEF StartPhoto
      <3> DEFINE new == [Idle EXCEPT !.pc = "check", !.of = p]
      <3>2. new \in Operation /\ new.pc = "check"
        BY IdleOK DEF OpOK, Idle, Operation, PhotoPc
      <3>3. Press(f, new)
        BY <3>1
      <3>. HIDE DEF new
      <3>. QED
        BY <3>2, <3>3, PressIs
    <2>. QED
      BY <1>0, <2>1, <2>2 DEF PhotosLeft, PhotosOK
  <1>2. CASE Check(f)
    <2>1. PhotosLeft /\ store' = store
      BY <1>2 DEF Check, PhotosLeft
    <2>2. op'[f].pc = "send" => op'[f].of = op[f].of /\ ~Blocks(store.marker, op[f].of)
      BY <1>2, EndIs, GotoIs DEF Check, Carried
    <2>. QED
      BY <1>0, <2>1, <2>2 DEF PhotosLeft, PhotosOK
  <1>3. CASE Send(f)
    <2>1. /\ op[f].pc = "send" /\ store' = store /\ seen \in Seen
          /\ seen' = [seen EXCEPT !.resent = seen.resent \cup ({op[f].of} \cap seen.unknown)]
      BY <1>3 DEF Send, Typed, RestOK
    <2>2. /\ seen'.resent = seen.resent \cup ({op[f].of} \cap seen.unknown)
          /\ seen'.unknown = seen.unknown /\ seen'.markerLost = seen.markerLost
      BY <2>1 DEF Seen
    <2>3. op'[f].pc = "sent"
      BY <1>3, GotoIs DEF Send
    <2>4. op[f].of \notin seen.unknown
      BY <1>0, <2>1, <2>2 DEF PhotosOK, Running
    <2>. QED
      BY <1>0, <2>1, <2>2, <2>3, <2>4 DEF PhotosOK
  <1>4. CASE Answered(f) \/ TimedOut(f)
    <2>1. PhotosLeft /\ store' = store
      BY <1>4 DEF Answered, TimedOut, PhotosLeft
    <2>2. CASE End(f) \/ TimedOut(f)
      BY <1>0, <1>4, <2>1, <2>2, EndIs, GotoIs DEF TimedOut, PhotosLeft, PhotosOK
    <2>3. CASE ~(End(f) \/ TimedOut(f))
      <3> DEFINE ops == [op EXCEPT ![f] = Idle]
      <3>1. op' = Unmounted(ops)
        BY <1>4, <2>3 DEF Answered
      <3>2. ops \in [Slots -> Operation] /\ ops[f].pc = "idle"
        BY IdleOK DEF Typed, OpsOK, OpOK, Idle
      <3>. HIDE DEF ops
      <3>3. op'[f].pc = "idle"
        BY <3>1, <3>2, UnmountIs
      <3>. QED
        BY <1>0, <2>1, <3>3 DEF PhotosLeft, PhotosOK
    <2>. QED
      BY <2>2, <2>3
  <1>5. CASE Mark(f)
    <2>1. /\ seen.markerLost = {} /\ op[f].of \in Photos
          /\ seen'.unknown = seen.unknown \cup {op[f].of} /\ seen'.resent = seen.resent
          /\ store'.marker = MarkerOf(op[f].of) /\ ~Overwrites(MarkerOf(op[f].of))
      BY <1>5, MarkIs
    <2>2. seen.resent = {} /\ \A p \in seen.unknown : Blocks(store.marker, p)
      BY <1>0, <2>1 DEF PhotosOK
    <2>3. \A p \in seen'.unknown : Blocks(store'.marker, p)
      BY <2>1, <2>2, StillBlocks
    <2>4. op'[f].pc = "idle"
      BY <1>5, EndIs DEF Mark
    <2>. QED
      BY <2>1, <2>2, <2>3, <2>4
  <1>. QED
    BY <1>1, <1>2, <1>3, <1>4, <1>5 DEF PhotoStep

LEMMA PhotosNext == ASSUME Typed, Single, PhotosOK, Next PROVE PhotosOK'
  <1>1. CASE \E f \in Slots : VideoStep(f) \/ SaveStep(f)
    <2>1. PICK f \in Slots : VideoStep(f) \/ SaveStep(f)
      BY <1>1
    <2>2. Moves(f) /\ PhotosLeft /\ op'[f].pc \in VideoPc \cup SavePc \cup {"idle"}
      BY <2>1, VideoSteps, SaveSteps, VideoFrame, SaveFrame
    <2>. QED
      BY <2>2, PhotosLeftOK DEF VideoPc, SavePc
  <1>2. CASE \E f \in Slots : PhotoStep(f)
    BY <1>2, PhotoStepOK
  <1>3. CASE Besides /\ PhotosLeft
    BY <1>3, BesideSteps DEF Rests, PhotosLeft, PhotosOK, Running
  <1>4. CASE Acknowledge
    <2>1. /\ seen'.overlapped = seen.overlapped /\ seen'.resent = seen.resent
          /\ seen'.unknown = seen.unknown \ screen.reviewed
          /\ seen'.markerLost = IF seen.unknown \subseteq screen.reviewed THEN seen.markerLost
                                ELSE seen.markerLost \cup {"cleared"}
      BY <1>4, AcknowledgeIs
    <2>2. seen'.markerLost = {} => seen.markerLost = {} /\ seen'.unknown = {}
      BY <2>1
    <2>. QED
      BY <2>1, <2>2 DEF PhotosOK
  <1>. QED
    BY <1>1, <1>2, <1>3, <1>4, NextIs, BesidePhotos
-----------------------------------------------------------------------------
(***************************************************************************)
(* Saves. A record is written before its file comes, and says that it may  *)
(* be saved before the library is asked to; the save of a result that has  *)
(* a copy was started again by the user.                                   *)
(***************************************************************************)
Again(r) == phone.copies[r] > 0 => r \in seen.retried
ResultOK(r) ==
    /\ phone.temp[r] # "none" => store.saves[r] # "none"
    /\ phone.copies[r] > 0 => store.saves[r] \in {"unknown", "saved"} \/ r \in seen.retried
SaveOK(f) ==
    LET o == op[f] r == o.of IN
    /\ o.pc \in {"beginWrite", "aheadWrite", "commitWrite", "failWrite"} => o.saves = store.saves
    /\ o.pc \in {"clean", "fetch", "arriving"} => store.saves[r] # "none"
    /\ o.pc \in {"ask", "ahead", "aheadWrite", "import"} => phone.temp[r] \in {"whole", "none"}
    /\ o.pc = "import" => store.saves[r] = "unknown"
    /\ o.pc \in SavePc \ {"commit", "commitWrite", "discard"} => Again(r)
    /\ o.pc = "discard" /\ o.then # "idle" => Again(r)
SavesOK ==
    ~seen.overlapped =>
        /\ \A r \in Results : ResultOK(r)
        /\ phone.damaged = {}
        /\ \A f \in Running : SaveOK(f)

LEMMA SavesLeftOK ==
    ASSUME Typed, Single, SavesOK, NEW f \in Slots, Moves(f), SavesLeft, op'[f].pc \notin SavePc
    PROVE  SavesOK'
  <1>. SUFFICES ASSUME ~seen'.overlapped PROVE SavesOK'
    BY DEF SavesOK
  <1>1. ~seen.overlapped /\ \A g \in Slots : op'[g].pc # "idle" => g = f
    BY Lone
  <1>2. \A r \in Results : ResultOK(r)'
    BY <1>1 DEF SavesOK, SavesLeft, ResultOK
  <1>3. phone'.damaged = {}
    BY <1>1 DEF SavesOK, SavesLeft
  <1>4. SaveOK(f)'
    BY DEF SaveOK, SavePc
  <1>. QED
    BY <1>1, <1>2, <1>3, <1>4 DEF SavesOK, Running

LEMMA BesideSavesOK == ASSUME Typed, SavesOK, Besides PROVE SavesOK'
  <1>. SUFFICES ASSUME ~seen'.overlapped PROVE SavesOK'
    BY DEF SavesOK
  <1>1. Rests /\ ~seen.overlapped
    BY BesideSteps DEF Rests
  <1>2. /\ store'.saves = store.saves /\ seen'.retried = seen.retried
        /\ phone'.copies = phone.copies /\ phone'.damaged = phone.damaged
        /\ \A r \in Results : phone'.temp[r] \in {phone.temp[r], "none"}
    BY BesideSaves
  <1>3. \A r \in Results : ResultOK(r)'
    BY <1>1, <1>2 DEF SavesOK, ResultOK
  <1>4. ASSUME NEW f \in Slots, op'[f].pc # "idle" PROVE SaveOK(f)'
    <2>1. /\ op'[f].pc = op[f].pc /\ op'[f].of = op[f].of /\ op'[f].saves = op[f].saves
          /\ op'[f].then = op[f].then
      BY <1>1, <1>4 DEF Rests
    <2>2. SaveOK(f)
      BY <1>1, <1>4, <2>1 DEF SavesOK, Running
    <2>3. op[f].pc \in SavePc => op[f].of \in Results
      BY SaveOf
    <2>. QED
      BY <1>2, <2>1, <2>2, <2>3 DEF SaveOK, Again, SavePc
  <1>. QED
    BY <1>2, <1>1, <1>3, <1>4 DEF SavesOK, Running

\* What a step of a save has to establish.
SaveMade(f) ==
    ~seen.overlapped =>
        /\ \A r \in Results : ResultOK(r)
        /\ phone.damaged = {}
        /\ op[f].pc # "idle" => SaveOK(f)

LEMMA Kept ==
    ASSUME SavesOK, ~seen.overlapped, store' = store, phone' = phone, seen' = seen
    PROVE  (\A r \in Results : ResultOK(r)') /\ phone'.damaged = {}
  BY DEF SavesOK, ResultOK

LEMMA DiscardMade ==
    ASSUME Typed, SavesOK, ~seen.overlapped, NEW f \in Slots, op[f].pc \in SavePc,
           NEW then, Discard(f, then), store' = store, phone' = phone, seen' = seen,
           then # "idle" => op[f].pc \notin {"commit", "commitWrite", "discard"}
    PROVE  SaveMade(f)'
  <1>1. op'[f].pc = "discard" /\ op'[f].then = then /\ op'[f].of = op[f].of
    BY DiscardIs
  <1>2. then # "idle" => Again(op[f].of)
    BY DEF SavesOK, Running, SaveOK, SavePc
  <1>3. SaveOK(f)'
    BY <1>1, <1>2 DEF SaveOK, Again
  <1>. QED
    BY <1>3, Kept DEF SaveMade

LEMMA WriteIs ==
    ASSUME Typed, NEW f \in Slots, op[f].of \in Results, op[f].saves = store.saves,
           NEW status, SavesWith(f, status)
    PROVE  /\ store'.saves[op[f].of] = status
           /\ \A r \in Results \ {op[f].of} : store'.saves[r] = store.saves[r]
  <1>1. store \in Store
    BY DEF Typed, RestOK
  <1>2. store'.saves = [store.saves EXCEPT ![op[f].of] = status]
    BY <1>1 DEF SavesWith, Store
  <1>. QED
    BY <1>1, <1>2 DEF Store

LEMMA SaveStarts ==
    ASSUME Typed, SavesOK, NEW f \in Slots, StartSave(f), ~seen.overlapped PROVE SaveMade(f)'
  <1> DEFINE new == [Idle EXCEPT !.pc = "begin", !.of = screen.picked]
  <1>1. Press(f, new) /\ screen.picked \in Results /\ store' = store /\ phone' = phone
    BY DEF StartSave
  <1>2. new \in Operation /\ new.pc = "begin" /\ new.of = screen.picked
    BY <1>1, IdleOK DEF OpOK, Idle, Operation, SavePc
  <1>. HIDE DEF new
  <1>3. op'[f].pc = "begin" /\ op'[f].of = screen.picked
    BY <1>1, <1>2, PressIs
  <1>4. /\ seen'.retried = IF phone.copies[screen.picked] > 0
                           THEN seen.retried \cup {screen.picked} ELSE seen.retried
    <2> DEFINE again == IF phone.copies[screen.picked] > 0
                        THEN seen.retried \cup {screen.picked} ELSE seen.retried
               both == seen.overlapped \/ Running # {}
    <2>1. seen' = [seen EXCEPT !.overlapped = both, !.retried = again]
      BY DEF StartSave
    <2>2. seen \in Seen
      BY DEF Typed, RestOK
    <2>. HIDE DEF again, both
    <2>3. seen'.retried = again
      BY <2>1, <2>2 DEF Seen
    <2>. QED
      BY <2>3 DEF again
  <1>5. SaveOK(f)'
    BY <1>1, <1>3, <1>4 DEF SaveOK, Again
  <1>6. \A r \in Results : ResultOK(r)'
    BY <1>1, <1>4 DEF SavesOK, ResultOK
  <1>. QED
    BY <1>1, <1>5, <1>6 DEF SaveMade, SavesOK

LEMMA SaveReads ==
    ASSUME Typed, SavesOK, NEW f \in Slots, ReadSaves(f), ~seen.overlapped PROVE SaveMade(f)'
  <1> DEFINE o == [op[f] EXCEPT !.pc = Writing[op[f].pc], !.saves = store.saves]
  <1>1. store' = store /\ phone' = phone /\ seen' = seen
    BY DEF ReadSaves
  <1>2. op[f].pc \in {"begin", "ahead", "commit", "fail"} /\ SaveOK(f)
    BY DEF ReadSaves, Writing, SavesOK, Running
  <1>3. CASE op' = [op EXCEPT ![f] = o]
    <2>1. op'[f] = o
      BY <1>3, SetIs
    <2>2. op'[f].pc = Writing[op[f].pc] /\ op'[f].saves = store.saves /\ op'[f].of = op[f].of
      BY <2>1, OpTyped DEF Operation
    <2>3. /\ op[f].pc = "begin" => op'[f].pc = "beginWrite"
          /\ op[f].pc = "ahead" => op'[f].pc = "aheadWrite"
          /\ op[f].pc = "commit" => op'[f].pc = "commitWrite"
          /\ op[f].pc = "fail" => op'[f].pc = "failWrite"
      BY <2>2 DEF Writing
    <2>4. SaveOK(f)'
      BY <1>1, <1>2, <2>2, <2>3 DEF SaveOK, Again, SavePc
    <2>. QED
      BY <1>1, <2>4, Kept DEF SaveMade
  <1>4. CASE End(f)
    BY <1>1, <1>4, Kept, EndIs DEF SaveMade
  <1>5. CASE Discard(f, IF op[f].pc = "commit" THEN "idle" ELSE "fail")
    <2> DEFINE then == IF op[f].pc = "commit" THEN "idle" ELSE "fail"
    <2>1. Discard(f, then) /\ (then # "idle" => op[f].pc # "commit")
      BY <1>5
    <2>. HIDE DEF then
    <2>. QED
      BY <1>1, <1>2, <2>1, DiscardMade DEF SavePc
  <1>. QED
    BY <1>3, <1>4, <1>5 DEF ReadSaves, Typed, OpsOK

LEMMA SaveWrites ==
    ASSUME Typed, SavesOK, NEW f \in Slots, ~seen.overlapped,
           BeginWrite(f) \/ AheadWrite(f) \/ CommitWrite(f) \/ FailWrite(f)
    PROVE  SaveMade(f)'
  <1>1. /\ op[f].pc \in {"beginWrite", "aheadWrite", "commitWrite", "failWrite"}
        /\ phone' = phone /\ seen' = seen /\ op[f].of \in Results
    BY SaveOf DEF BeginWrite, AheadWrite, CommitWrite, FailWrite, SavePc
  <1>2. SaveOK(f) /\ op[f].saves = store.saves
    BY <1>1 DEF SavesOK, Running, SaveOK
  <1>3. ASSUME NEW status, status # "none", SavesWith(f, status),
               status \in {"unknown", "saved"} \/ Again(op[f].of)
        PROVE  (\A r \in Results : ResultOK(r)') /\ phone'.damaged = {}
    BY <1>1, <1>2, <1>3, WriteIs DEF SavesOK, ResultOK, Again
  <1>4. CASE BeginWrite(f)
    <2>1. Again(op[f].of)
      BY <1>2, <1>4 DEF BeginWrite, SaveOK, SavePc
    <2>2. CASE SavesWith(f, "downloading") /\ Goto(f, "clean")
      <3>1. op'[f].pc = "clean" /\ op'[f].of = op[f].of
        BY <2>2, GotoIs DEF Carried
      <3>2. SaveOK(f)'
        BY <1>1, <1>2, <2>1, <2>2, <3>1, WriteIs DEF SaveOK, Again
      <3>. QED
        BY <1>3, <2>1, <2>2, <3>2 DEF SaveMade
    <2>3. CASE Goto(f, "fail") /\ UNCHANGED store
      <3>1. op'[f].pc = "fail" /\ op'[f].of = op[f].of
        BY <2>3, GotoIs DEF Carried
      <3>2. SaveOK(f)'
        BY <1>1, <2>1, <3>1 DEF SaveOK, Again
      <3>. QED
        BY <1>1, <2>3, <3>2, Kept DEF SaveMade
    <2>. QED
      BY <1>4, <2>2, <2>3 DEF BeginWrite
  <1>5. CASE AheadWrite(f)
    <2>1. op[f].pc = "aheadWrite" /\ Again(op[f].of) /\ phone.temp[op[f].of] \in {"whole", "none"}
      BY <1>2, <1>5 DEF AheadWrite, SaveOK, SavePc
    <2>2. CASE SavesWith(f, "unknown") /\ Goto(f, "import")
      <3>1. op'[f].pc = "import" /\ op'[f].of = op[f].of
        BY <2>2, GotoIs DEF Carried
      <3>2. SaveOK(f)'
        BY <1>1, <1>2, <2>1, <2>2, <3>1, WriteIs DEF SaveOK, Again
      <3>. QED
        BY <1>3, <2>1, <2>2, <3>2 DEF SaveMade
    <2>3. CASE Discard(f, "fail") /\ UNCHANGED store
      BY <1>1, <2>1, <2>3, DiscardMade DEF SavePc
    <2>. QED
      BY <1>5, <2>2, <2>3 DEF AheadWrite
  <1>6. CASE CommitWrite(f)
    <2>1. Discard(f, "idle")
      BY <1>6 DEF CommitWrite
    <2>2. CASE SavesWith(f, "saved")
      <3>1. op'[f].pc = "discard" /\ op'[f].then = "idle"
        BY <2>1, DiscardIs
      <3>2. SaveOK(f)'
        BY <3>1 DEF SaveOK
      <3>. QED
        BY <1>3, <2>2, <3>2 DEF SaveMade
    <2>3. CASE UNCHANGED store
      BY <1>1, <2>1, <2>3, DiscardMade DEF SavePc
    <2>. QED
      BY <1>6, <2>2, <2>3 DEF CommitWrite
  <1>7. CASE FailWrite(f)
    <2>1. Again(op[f].of) /\ op'[f].pc = "idle"
      BY <1>2, <1>7, EndIs DEF FailWrite, SaveOK, SavePc
    <2>2. CASE SavesWith(f, "failed")
      BY <1>3, <2>1, <2>2 DEF SaveMade
    <2>3. CASE UNCHANGED store
      BY <1>1, <2>1, <2>3, Kept DEF SaveMade
    <2>. QED
      BY <1>7, <2>2, <2>3 DEF FailWrite
  <1>. QED
    BY <1>4, <1>5, <1>6, <1>7

LEMMA TempIs ==
    ASSUME Typed, NEW f \in Slots, op[f].of \in Results, NEW temp, SetTemp(f, temp)
    PROVE  /\ phone'.temp[op[f].of] = temp
           /\ \A r \in Results \ {op[f].of} : phone'.temp[r] = phone.temp[r]
           /\ phone'.copies = phone.copies /\ phone'.damaged = phone.damaged
  <1>1. phone \in Phone
    BY DEF Typed, RestOK
  <1>2. /\ phone'.temp = [phone.temp EXCEPT ![op[f].of] = temp]
        /\ phone'.copies = phone.copies /\ phone'.damaged = phone.damaged
    BY <1>1 DEF SetTemp, Phone
  <1>. QED
    BY <1>1, <1>2 DEF Phone

\* A temporary file is set only when there is a record of it.
LEMMA TempMade ==
    ASSUME Typed, SavesOK, ~seen.overlapped, NEW f \in Slots, op[f].of \in Results,
           NEW temp, SetTemp(f, temp), temp # "none" => store.saves[op[f].of] # "none",
           store' = store, seen' = seen
    PROVE  /\ \A r \in Results : ResultOK(r)'
           /\ phone'.damaged = {}
           /\ phone'.temp[op[f].of] = temp
           /\ (phone.copies[op[f].of] > 0 => op[f].of \in seen.retried) =>
                 (phone'.copies[op[f].of] > 0 => op[f].of \in seen'.retried)
  <1>1. /\ phone'.temp[op[f].of] = temp
        /\ \A r \in Results \ {op[f].of} : phone'.temp[r] = phone.temp[r]
        /\ phone'.copies = phone.copies /\ phone'.damaged = phone.damaged
    BY TempIs
  <1>2. \A r \in Results : ResultOK(r)
    BY DEF SavesOK
  <1>3. ASSUME NEW r \in Results PROVE ResultOK(r)'
    <2>1. CASE r = op[f].of
      BY <1>1, <1>2, <2>1 DEF ResultOK
    <2>2. CASE r # op[f].of
      BY <1>1, <1>2, <2>2 DEF ResultOK
    <2>. QED
      BY <2>1, <2>2
  <1>. QED
    BY <1>1, <1>3 DEF SavesOK

LEMMA SaveDownloads ==
    ASSUME Typed, SavesOK, NEW f \in Slots, ~seen.overlapped,
           Clean(f) \/ Fetch(f) \/ Arrive(f) \/ DiscardTemp(f)
    PROVE  SaveMade(f)'
  <1>1. /\ op[f].pc \in {"clean", "fetch", "arriving", "discard"}
        /\ store' = store /\ seen' = seen /\ op[f].of \in Results
    BY SaveOf DEF Clean, Fetch, Arrive, DiscardTemp, SavePc
  <1>2. SaveOK(f)
    BY <1>1 DEF SavesOK, Running
  <1>3. op[f].pc # "discard" => Again(op[f].of) /\ store.saves[op[f].of] # "none"
    BY <1>1, <1>2 DEF SaveOK, SavePc
  <1>4. CASE Clean(f) \/ Fetch(f)
    <2>1. PICK temp \in {"none", "partial"}, pc \in {"fetch", "arriving"} :
              SetTemp(f, temp) /\ Goto(f, pc)
      BY <1>4 DEF Clean, Fetch
    <2>2. op'[f].pc = pc /\ op'[f].of = op[f].of
      BY <2>1, GotoIs DEF Carried
    <2>3. /\ \A r \in Results : ResultOK(r)'
          /\ phone'.damaged = {} /\ (phone'.copies[op[f].of] > 0 => op[f].of \in seen'.retried)
      BY <1>1, <1>3, <1>4, <2>1, TempMade DEF Again, Clean, Fetch
    <2>4. SaveOK(f)'
      BY <1>1, <1>3, <1>4, <2>1, <2>2, <2>3 DEF SaveOK, Again, Clean, Fetch
    <2>. QED
      BY <2>3, <2>4 DEF SaveMade
  <1>5. CASE Arrive(f)
    <2>1. CASE (\E temp \in {"whole", "bad"} : SetTemp(f, temp)) /\ Goto(f, "verify")
      <3>1. PICK temp \in {"whole", "bad"} : SetTemp(f, temp)
        BY <2>1
      <3>2. op'[f].pc = "verify" /\ op'[f].of = op[f].of
        BY <2>1, GotoIs DEF Carried
      <3>3. /\ \A r \in Results : ResultOK(r)'
            /\ phone'.damaged = {} /\ (phone'.copies[op[f].of] > 0 => op[f].of \in seen'.retried)
        BY <1>1, <1>3, <1>5, <3>1, TempMade DEF Again, Arrive
      <3>4. SaveOK(f)'
        BY <3>2, <3>3 DEF SaveOK, Again
      <3>. QED
        BY <3>3, <3>4 DEF SaveMade
    <2>2. CASE (\E then \in {"idle", "fail"} : Discard(f, then)) /\ UNCHANGED phone
      BY <1>1, <1>5, <2>2, DiscardMade DEF Arrive, SavePc
    <2>. QED
      BY <1>5, <2>1, <2>2 DEF Arrive
  <1>6. CASE DiscardTemp(f)
    <2>1. op' = [op EXCEPT ![f] = IF op[f].then = "idle" THEN Idle ELSE [op[f] EXCEPT !.pc = "fail"]]
      BY <1>6 DEF DiscardTemp
    <2>2. IF op[f].then = "idle" THEN End(f) ELSE Goto(f, "fail")
      BY <2>1 DEF End, Goto
    <2>3. /\ \A r \in Results : ResultOK(r)'
          /\ phone'.damaged = {} /\ (Again(op[f].of) => (phone'.copies[op[f].of] > 0 => op[f].of \in seen'.retried))
      BY <1>1, <1>6, TempMade DEF Again, DiscardTemp
    <2>4. CASE op[f].then = "idle"
      BY <2>2, <2>3, <2>4, EndIs DEF SaveMade
    <2>5. CASE op[f].then # "idle"
      <3>1. op'[f].pc = "fail" /\ op'[f].of = op[f].of
        BY <2>2, <2>5, GotoIs DEF Carried
      <3>2. phone'.copies[op[f].of] > 0 => op[f].of \in seen'.retried
        BY <1>2, <1>6, <2>3, <2>5 DEF SaveOK, DiscardTemp
      <3>3. SaveOK(f)'
        BY <3>1, <3>2 DEF SaveOK, Again
      <3>. QED
        BY <2>3, <3>3 DEF SaveMade
    <2>. QED
      BY <2>4, <2>5
  <1>. QED
    BY <1>4, <1>5, <1>6

LEMMA SaveAsks ==
    ASSUME Typed, SavesOK, NEW f \in Slots, ~seen.overlapped, Verify(f) \/ Ask(f)
    PROVE  SaveMade(f)'
  <1>1. /\ op[f].pc \in {"verify", "ask"}
        /\ store' = store /\ seen' = seen /\ phone' = phone
    BY DEF Verify, Ask
  <1>2. SaveOK(f)
    BY <1>1 DEF SavesOK, Running
  <1>3. CASE Discard(f, "fail")
    BY <1>1, <1>3, DiscardMade DEF SavePc
  <1>4. CASE ~Discard(f, "fail")
    <2>1. PICK pc \in {"ask", "ahead"} : Goto(f, pc)
      BY <1>4 DEF Verify, Ask
    <2>2. op'[f].pc = pc /\ op'[f].of = op[f].of
      BY <2>1, GotoIs DEF Carried
    <2>3. phone.temp[op[f].of] \in {"whole", "none"} /\ Again(op[f].of)
      BY <1>1, <1>2, <1>4 DEF SaveOK, SavePc, Verify, Ask
    <2>4. SaveOK(f)'
      BY <1>1, <2>2, <2>3 DEF SaveOK, Again
    <2>. QED
      BY <1>1, <2>4, Kept DEF SaveMade
  <1>. QED
    BY <1>3, <1>4

LEMMA SaveImports ==
    ASSUME Typed, SavesOK, NEW f \in Slots, ~seen.overlapped, Import(f) PROVE SaveMade(f)'
  <1>1. op[f].pc = "import" /\ store' = store /\ seen' = seen /\ op[f].of \in Results
    BY SaveOf DEF Import, SavePc
  <1>2. /\ phone.temp[op[f].of] \in {"whole", "none"} /\ store.saves[op[f].of] = "unknown"
    BY <1>1 DEF SavesOK, Running, SaveOK
  <1>3. CASE Discard(f, "fail") /\ UNCHANGED phone
    BY <1>1, <1>3, DiscardMade DEF SavePc
  <1>4. CASE ~(Discard(f, "fail") /\ UNCHANGED phone)
    <2>1. /\ phone' = [phone EXCEPT !.copies[op[f].of] = @ + 1,
                          !.damaged = IF phone.temp[op[f].of] = "whole" THEN @
                                      ELSE @ \cup {op[f].of}]
          /\ Goto(f, "commit") /\ phone.temp[op[f].of] = "whole" /\ phone \in Phone
      BY <1>2, <1>4 DEF Import, Typed, RestOK
    <2>2. /\ phone'.temp = phone.temp /\ phone'.damaged = phone.damaged
          /\ phone'.copies = [phone.copies EXCEPT ![op[f].of] = phone.copies[op[f].of] + 1]
      BY <2>1 DEF Phone
    <2>3. \A r \in Results \ {op[f].of} : phone'.copies[r] = phone.copies[r]
      BY <2>1, <2>2 DEF Phone
    <2>4. \A r \in Results : ResultOK(r)'
      BY <1>1, <1>2, <2>2, <2>3 DEF SavesOK, ResultOK
    <2>5. op'[f].pc = "commit"
      BY <2>1, GotoIs
    <2>6. SaveOK(f)'
      BY <2>5 DEF SaveOK
    <2>. QED
      BY <2>2, <2>4, <2>6 DEF SaveMade, SavesOK
  <1>. QED
    BY <1>3, <1>4

LEMMA SavesNext == ASSUME Typed, Single, SavesOK, Next PROVE SavesOK'
  <1>1. CASE \E f \in Slots : VideoStep(f) \/ PhotoStep(f)
    <2>1. PICK f \in Slots : VideoStep(f) \/ PhotoStep(f)
      BY <1>1
    <2>2. Moves(f) /\ SavesLeft /\ op'[f].pc \in VideoPc \cup PhotoPc \cup {"idle"}
      BY <2>1, VideoSteps, PhotoSteps, VideoFrame, PhotoFrame
    <2>3. op'[f].pc \notin SavePc
      BY <2>2 DEF VideoPc, PhotoPc, SavePc
    <2>. QED
      BY <2>2, <2>3, SavesLeftOK
  <1>2. CASE \E f \in Slots : SaveStep(f)
    <2>1. PICK f \in Slots : SaveStep(f)
      BY <1>2
    <2>2. Moves(f)
      BY <2>1, SaveSteps
    <2>3. CASE ~seen'.overlapped
      <3>1. ~seen.overlapped /\ \A g \in Slots : op'[g].pc # "idle" => g = f
        BY <2>2, <2>3, Lone
      <3>2. SaveMade(f)'
        BY <2>1, <3>1, SaveStarts, SaveReads, SaveWrites, SaveDownloads, SaveAsks, SaveImports
           DEF SaveStep
      <3>. QED
        BY <2>3, <3>1, <3>2 DEF SaveMade, SavesOK, Running
    <2>. QED
      BY <2>3 DEF SavesOK
  <1>3. CASE Besides
    BY <1>3, BesideSavesOK
  <1>. QED
    BY <1>1, <1>2, <1>3, NextIs
-----------------------------------------------------------------------------
(***************************************************************************)
(* Uploads. A session is dead as long as it cannot be stored, or when the  *)
(* phone need not remember it any more. The record leads to the one that   *)
(* is not dead: it is dropped, replaced or forgotten only when it leads to *)
(* a dead one.                                                             *)
(***************************************************************************)
HasRecord(k) == store.resume # None /\ store.resume.key = k
Dead(k) ==
    \/ session[k].stage \in {"absent", "closed", "rejected"}
    \/ session[k].stage = "open" /\ ~session[k].chunk
    \/ k \in store.mapped \cup seen.unmapped \cup seen.replaced
Forgettable == store.resume = None \/ Dead(store.resume.key)
HeldPc ==
    {"create", "id", "idWrite", "get", "put", "progress", "progressWrite", "finalize", "poll",
     "done", "map"}
DropPc == {"drop", "dropWrite", "dropAny", "dropAnyWrite"}
VideoOK(f) ==
    LET o == op[f] IN
    /\ o.pc \in HeldPc => HasRecord(o.key)
    /\ o.pc = "create" => Dead(o.key)
    /\ o.pc \in {"get", "put"} => store.resume.sid
    /\ o.pc = "put" => screen.shown \in {None, o.key}
    /\ o.pc = "delete" => HasRecord(o.key) \/ Forgettable
    /\ o.pc \in DropPc => Forgettable
SessionOK(k) ==
    /\ Dead(k) \/ HasRecord(k)
    /\ k > used.keys => session[k].stage = "absent"
RecordOK ==
    /\ store.resume # None =>
        /\ store.resume.key <= used.keys
        /\ store.resume.sid \/ Dead(store.resume.key)
    /\ screen.shown # None => HasRecord(screen.shown) \/ Forgettable
UploadsOK ==
    ~seen.overlapped =>
        /\ \A k \in Keys : SessionOK(k)
        /\ RecordOK
        /\ \A f \in Running : VideoOK(f)
\* What a step of an upload has to establish.
UploadMade(f) ==
    ~seen.overlapped =>
        /\ \A k \in Keys : SessionOK(k)
        /\ RecordOK
        /\ op[f].pc # "idle" => VideoOK(f)

LEMMA ResumeTyped ==
    ASSUME Typed
    PROVE  /\ store.resume # None =>
                /\ store.resume.key \in Keys /\ store.resume.sid \in BOOLEAN
                /\ store.resume.video \in Videos
           /\ screen.shown \in Keys \cup {None} /\ None \notin Resume
  BY ClientAssumptions DEF Typed, RestOK, Store, Resume, Screen

\* A step that revives no session and keeps the record keeps what leads to sessions.
Tame ==
    /\ store'.resume = store.resume /\ used'.keys = used.keys
    /\ \A k \in Keys : Dead(k) => Dead(k)'
    /\ \A k \in Keys : session[k].stage = "absent" /\ k > used.keys => session'[k].stage = "absent"

LEMMA TameKeeps ==
    ASSUME Typed, Tame
    PROVE  /\ Forgettable => Forgettable'
           /\ \A k : HasRecord(k) => HasRecord(k)'
           /\ store.resume # None /\ Dead(store.resume.key) => Dead(store.resume.key)'
  BY ResumeTyped DEF Tame, Forgettable, HasRecord

LEMMA TameUploads ==
    ASSUME Typed, UploadsOK, ~seen.overlapped, Tame,
           screen'.shown # None => \/ screen'.shown = screen.shown
                                   \/ HasRecord(screen'.shown)
    PROVE  (\A k \in Keys : SessionOK(k)') /\ RecordOK'
  <1>1. /\ Forgettable => Forgettable'
        /\ \A k : HasRecord(k) => HasRecord(k)'
    BY TameKeeps
  <1>2. \A k \in Keys : SessionOK(k)'
    BY <1>1 DEF UploadsOK, SessionOK, Tame
  <1>3. store'.resume # None =>
            /\ store'.resume.key <= used'.keys
            /\ store'.resume.sid \/ Dead(store.resume.key)'
    BY ResumeTyped, TameKeeps DEF UploadsOK, RecordOK, Tame
  <1>4. screen'.shown # None => HasRecord(screen'.shown) \/ Forgettable
    BY DEF UploadsOK, RecordOK
  <1>5. screen'.shown # None => HasRecord(screen.shown)' \/ Forgettable'
    BY <1>1, <1>4 DEF HasRecord
  <1>. QED
    BY <1>2, <1>3, <1>5 DEF RecordOK

\* What the other operations and the steps of no operation do to sessions.
LEMMA LeftTame == ASSUME Typed, UploadLeft PROVE Tame
  BY DEF UploadLeft, Tame, Dead

LEMMA SettleTame ==
    ASSUME Typed, NEW k \in Keys, Settle(k) PROVE Tame /\ screen' = screen /\ store' = store
  <1>1. UNCHANGED <<screen, store, seen, used>>
    BY DEF Settle
  <1>2. PICK s : /\ session' = [session EXCEPT ![k].stage = s]
                 /\ \/ session[k].stage = "submitted"
                    \/ session[k].stage \in {"open", "retryable"} /\ s = "closed"
    BY DEF Settle
  <1>3. session \in [Keys -> Session]
    BY DEF Typed, RestOK
  <1>4. /\ session'[k].stage = s
        /\ \A j \in Keys \ {k} : session'[j] = session[j]
    BY <1>2, <1>3 DEF Session
  <1>. QED
    BY <1>1, <1>2, <1>4 DEF Tame, Dead

LEMMA UploadLeftOK ==
    ASSUME Typed, Single, UploadsOK, NEW f \in Slots, Moves(f), UploadLeft,
           op'[f].pc \notin VideoPc
    PROVE  UploadsOK'
  <1>. SUFFICES ASSUME ~seen'.overlapped PROVE UploadsOK'
    BY DEF UploadsOK
  <1>1. ~seen.overlapped /\ \A g \in Slots : op'[g].pc # "idle" => g = f
    BY Lone
  <1>2. (\A k \in Keys : SessionOK(k)') /\ RecordOK'
    BY <1>1, LeftTame, TameUploads DEF UploadLeft
  <1>3. VideoOK(f)'
    BY DEF VideoOK, VideoPc, HeldPc, DropPc
  <1>. QED
    BY <1>1, <1>2, <1>3 DEF UploadsOK, Running

LEMMA BesideUploadsOK == ASSUME Typed, UploadsOK, Besides PROVE UploadsOK'
  <1>. SUFFICES ASSUME ~seen'.overlapped PROVE UploadsOK'
    BY DEF UploadsOK
  <1>1. Rests /\ ~seen.overlapped
    BY BesideSteps DEF Rests
  <1>2. Tame /\ screen'.shown \in {screen.shown, None}
    BY BesideUploads, LeftTame, SettleTame DEF UploadLeft
  <1>3. (\A k \in Keys : SessionOK(k)') /\ RecordOK'
    BY <1>1, <1>2, TameUploads
  <1>4. ASSUME NEW f \in Slots, op'[f].pc # "idle" PROVE VideoOK(f)'
    <2>1. op'[f].pc = op[f].pc /\ op'[f].key = op[f].key
      BY <1>1, <1>4 DEF Rests
    <2>2. VideoOK(f)
      BY <1>1, <1>4, <2>1 DEF UploadsOK, Running
    <2>3. op[f].pc \in KeyPc => op[f].key \in Keys
      BY OpTyped DEF Fits
    <2>4. /\ Forgettable => Forgettable'
          /\ \A k : HasRecord(k) => HasRecord(k)'
      BY <1>2, TameKeeps
    <2>5. store'.resume = store.resume /\ \A k \in Keys : Dead(k) => Dead(k)'
      BY <1>2 DEF Tame
    <2>6. HasRecord(op[f].key) => HasRecord(op[f].key)'
      BY <2>1, <2>4 DEF HasRecord
    <2>7. op[f].pc = "create" => Dead(op[f].key)'
      BY <2>1, <2>2, <2>3, <2>5 DEF VideoOK, KeyPc, Dead
    <2>. QED
      BY <1>2, <2>1, <2>2, <2>4, <2>5, <2>6, <2>7 DEF VideoOK
  <1>. QED
    BY <1>1, <1>3, <1>4 DEF UploadsOK, Running
(***************************************************************************)
(* The steps of an upload, the requests first. Only the chunk that is put  *)
(* brings a session to life, and the record leads to its session then.     *)
(***************************************************************************)
LEMMA AnswerIs ==
    ASSUME Typed, NEW f \in Slots, NEW k \in Keys, NEW s, NEW pc, pc # "idle",
           Answer(f, k, s, pc)
    PROVE  /\ UNCHANGED <<store, phone, seen, used>>
           /\ \A j \in Keys \ {k} : session'[j] = session[j]
           /\ \/ session' = session /\ op'[f].pc = "idle"
              \/ /\ session'[k] = s
                 /\ op'[f].pc = "idle" \/ (op'[f].pc = pc /\ op'[f].key = op[f].key)
  <1>1. UNCHANGED <<store, phone, seen, used>>
    BY DEF Answer
  <1>2. session \in [Keys -> Session]
    BY DEF Typed, RestOK
  <1>3. Goto(f, pc) => op'[f].pc = pc /\ op'[f].key = op[f].key
    BY GotoIs DEF Carried
  <1>4. End(f) => op'[f].pc = "idle"
    BY EndIs
  <1>5. \/ session' = session /\ End(f)
        \/ session' = [session EXCEPT ![k] = s] /\ (Goto(f, pc) \/ End(f))
    BY DEF Answer
  <1>. QED
    BY <1>1, <1>2, <1>3, <1>4, <1>5

\* The answer "idle" ends the operation either way.
LEMMA AnswerEnds ==
    ASSUME Typed, NEW f \in Slots, NEW k \in Keys, Answer(f, k, session[k], "idle")
    PROVE  /\ UNCHANGED <<store, phone, seen, used>>
           /\ session' = session /\ op'[f].pc = "idle"
  <1>1. session \in [Keys -> Session]
    BY DEF Typed, RestOK
  <1>2. End(f)
    BY DEF Answer, Goto
  <1>. QED
    BY <1>1, <1>2, EndIs DEF Answer

\* An answer that leaves the sessions no less dead than they were.
Lawful(f, s, pc) ==
    LET k == op[f].key IN
    /\ pc \in (HeldPc \cup DropPc \cup {"idle"}) \ {"create", "get", "put"}
    /\ s = session[k] \/ pc # "idle"
    /\ HasRecord(k) \/ (Forgettable /\ pc \in DropPc \cup {"idle"})
    /\ Dead(k) => \/ s.stage \in {"absent", "closed", "rejected"}
                  \/ s.stage = "open" /\ ~s.chunk
                  \/ k \in store.mapped \cup seen.unmapped \cup seen.replaced
    /\ session[k].stage = "absent" => s = session[k] \/ k <= used.keys
    /\ pc \in DropPc => \/ s.stage \in {"absent", "closed", "rejected"}
                        \/ Dead(k) /\ s = session[k]

LEMMA AnswerMade ==
    ASSUME Typed, UploadsOK, NEW f \in Slots, ~seen.overlapped, op[f].key \in Keys,
           screen' = screen, NEW s, NEW pc, Lawful(f, s, pc), Answer(f, op[f].key, s, pc)
    PROVE  UploadMade(f)'
  <1> DEFINE k == op[f].key
  <1>1. Tame
    <2>1. CASE pc = "idle"
      BY <2>1, AnswerEnds DEF Tame, Dead, Lawful
    <2>2. CASE pc # "idle"
      <3>1. /\ UNCHANGED <<store, phone, seen, used>>
            /\ \A j \in Keys \ {k} : session'[j] = session[j]
            /\ session'[k] \in {session[k], s}
        BY <2>2, AnswerIs
      <3>2. \A j \in Keys : Dead(j) => Dead(j)'
        BY <3>1 DEF Dead, Lawful
      <3>3. \A j \in Keys : session[j].stage = "absent" /\ j > used.keys
                                => session'[j].stage = "absent"
        BY <3>1 DEF Keys, Typed, RestOK, Used, Lawful
      <3>. QED
        BY <3>1, <3>2, <3>3 DEF Tame
    <2>. QED
      BY <2>1, <2>2
  <1>2. (\A j \in Keys : SessionOK(j)') /\ RecordOK'
    BY <1>1, TameUploads
  <1>3. ASSUME op'[f].pc # "idle" PROVE VideoOK(f)'
    <2>1. pc # "idle"
      BY <1>3, AnswerEnds DEF Lawful
    <2>2. /\ UNCHANGED <<store, phone, seen, used>>
          /\ session'[k] = s /\ op'[f].pc = pc /\ op'[f].key = k
      BY <1>3, <2>1, AnswerIs
    <2>3. HasRecord(k) => HasRecord(op[f].key)'
      BY <2>2 DEF HasRecord
    <2>4. Forgettable => Forgettable'
      BY <1>1, TameKeeps
    <2>5. CASE pc \in HeldPc
      BY <2>2, <2>3, <2>5 DEF VideoOK, HeldPc, DropPc, Lawful
    <2>6. CASE pc \in DropPc
      <3>1. HasRecord(k) => Forgettable'
        BY <2>2, <2>6 DEF HasRecord, Forgettable, Dead, Lawful
      <3>. QED
        BY <2>2, <2>4, <2>6, <3>1 DEF VideoOK, HeldPc, DropPc, Lawful
    <2>. QED
      BY <2>1, <2>5, <2>6 DEF Lawful
  <1>. QED
    BY <1>2, <1>3 DEF UploadMade

LEMMA RequestOf ==
    ASSUME Typed, UploadsOK, NEW f \in Slots, ~seen.overlapped,
           op[f].pc \in {"create", "put", "finalize", "poll", "get", "done", "map", "delete"}
    PROVE  /\ op[f].key \in Keys /\ VideoOK(f)
           /\ session[op[f].key] \in Session
           /\ HasRecord(op[f].key) =>
                op[f].key <= used.keys /\ (store.resume.sid \/ Dead(op[f].key))
  <1>1. op[f].key \in Keys
    BY OpTyped DEF Fits, KeyPc
  <1>. QED
    BY <1>1 DEF UploadsOK, RecordOK, HasRecord, Running, Typed, RestOK

LEMMA CreateMade ==
    ASSUME Typed, UploadsOK, NEW f \in Slots, ~seen.overlapped, Create(f)
    PROVE  UploadMade(f)'
  <1> DEFINE k == op[f].key  s == session[k]
  <1>1. /\ k \in Keys /\ HasRecord(k) /\ k <= used.keys /\ Dead(k) /\ screen' = screen
        /\ s \in Session
    BY RequestOf DEF Create, VideoOK, HeldPc
  <1>2. CASE s.stage = "absent" /\ Answer(f, k, [stage |-> "open", chunk |-> FALSE], "id")
    BY <1>1, <1>2, AnswerMade DEF HeldPc, DropPc, Lawful
  <1>3. CASE \E pc \in {"id", "drop", "dropAny"} : Answer(f, k, s, pc)
    <2>1. PICK pc \in {"id", "drop", "dropAny"} : Answer(f, k, s, pc)
      BY <1>3
    <2>2. \/ s.stage \in {"absent", "closed", "rejected"}
          \/ s.stage = "open" /\ ~s.chunk
          \/ k \in store.mapped \cup seen.unmapped \cup seen.replaced
      BY <1>1 DEF Dead
    <2>3. pc \in HeldPc \cup DropPc /\ pc \notin {"create", "get", "put", "idle"}
      BY DEF HeldPc, DropPc
    <2>. HIDE DEF k, s
    <2>. QED
      BY <1>1, <2>1, <2>2, <2>3, AnswerMade DEF k, s, Lawful
  <1>. QED
    BY <1>2, <1>3 DEF Create

LEMMA FinalizeMade ==
    ASSUME Typed, UploadsOK, NEW f \in Slots, ~seen.overlapped, Finalize(f)
    PROVE  UploadMade(f)'
  <1> DEFINE k == op[f].key  s == session[k]
             still == \/ s.stage \in {"absent", "closed", "rejected"}
                      \/ s.stage = "open" /\ ~s.chunk
                      \/ k \in store.mapped \cup seen.unmapped \cup seen.replaced
  <1>1. /\ k \in Keys /\ HasRecord(k) /\ k <= used.keys /\ screen' = screen
        /\ s \in Session
    BY RequestOf DEF Finalize, VideoOK, HeldPc
  <1>2. Dead(k) => still
    BY DEF Dead
  <1>3. CASE s.stage \in {"open", "retryable"} /\ s.chunk
    <2> DEFINE t == [s EXCEPT !.stage = "submitted"]
    <2>1. Answer(f, k, t, "poll")
      BY <1>3 DEF Finalize
    <2>2. Dead(k) => k \in store.mapped \cup seen.unmapped \cup seen.replaced
      BY <1>3 DEF Dead
    <2>3. s.stage # "absent"
      BY <1>3
    <2>. HIDE DEF t
    <2>. QED
      BY <1>1, <2>1, <2>2, <2>3, AnswerMade DEF HeldPc, DropPc, Lawful
  <1>4. CASE ~(s.stage \in {"open", "retryable"} /\ s.chunk)
    <2>1. PICK pc \in {"poll", "drop", "dropAny", "idle"} :
              /\ Answer(f, k, s, pc)
              /\ pc \in DropPc => s.stage \in {"closed", "rejected"}
      BY <1>4 DEF Finalize, DropPc
    <2>2. pc \in HeldPc \cup DropPc \cup {"idle"} /\ pc \notin {"create", "get", "put"}
      BY DEF HeldPc, DropPc
    <2>. HIDE DEF still
    <2>3. Dead(k) => still
      BY <1>2
    <2>. QED
      BY <1>1, <2>1, <2>2, <2>3, AnswerMade DEF still, Lawful
  <1>. QED
    BY <1>3, <1>4

LEMMA DeleteMade ==
    ASSUME Typed, UploadsOK, NEW f \in Slots, ~seen.overlapped, Delete(f)
    PROVE  UploadMade(f)'
  <1> DEFINE k == op[f].key  s == session[k]  t == [s EXCEPT !.stage = "closed"]
  <1>1. /\ k \in Keys /\ screen' = screen
        /\ HasRecord(k) \/ Forgettable
        /\ s \in Session
    BY RequestOf DEF Delete, VideoOK
  <1>2. t.stage = "closed"
    BY <1>1 DEF Session
  <1>3. CASE s.stage \in {"open", "retryable", "closed"}
    <2>1. Answer(f, k, t, "dropAny") /\ s.stage # "absent"
      BY <1>3 DEF Delete
    <2>. HIDE DEF t
    <2>2. Lawful(f, t, "dropAny")
      BY <1>1, <1>2, <2>1 DEF Lawful, DropPc
    <2>. QED
      BY <1>1, <2>1, <2>2, AnswerMade
  <1>4. CASE s.stage \notin {"open", "retryable", "closed"}
    <2>1. Answer(f, k, s, "idle")
      BY <1>4 DEF Delete
    <2>2. Dead(k) => \/ s.stage \in {"absent", "closed", "rejected"}
                     \/ s.stage = "open" /\ ~s.chunk
                     \/ k \in store.mapped \cup seen.unmapped \cup seen.replaced
      BY DEF Dead
    <2>. QED
      BY <1>1, <2>1, <2>2, AnswerMade DEF DropPc, Lawful
  <1>. QED
    BY <1>3, <1>4

LEMMA PutMade ==
    ASSUME Typed, UploadsOK, NEW f \in Slots, ~seen.overlapped, Put(f)
    PROVE  UploadMade(f)'
  <1>0. PICK k \in Keys : k = op[f].key
    BY RequestOf DEF Put
  <1> DEFINE s == session[k]  t == [s EXCEPT !.chunk = TRUE]
  <1>1. /\ HasRecord(k) /\ k <= used.keys /\ screen' = screen
        /\ store.resume.sid /\ screen.shown \in {None, k} /\ s \in Session
    BY <1>0, RequestOf DEF Put, VideoOK, HeldPc
  <1>2. CASE s.stage \in {"open", "retryable"}
    <2>1. Answer(f, k, t, "progress")
      BY <1>0, <1>2 DEF Put
    <2>. HIDE DEF t
    <2>2. /\ UNCHANGED <<store, phone, seen, used>>
          /\ \A j \in Keys \ {k} : session'[j] = session[j]
          /\ op'[f].pc = "idle" \/ (op'[f].pc = "progress" /\ op'[f].key = k)
      BY <1>0, <2>1, AnswerIs
    <2>3. \A j \in Keys \ {k} : SessionOK(j)'
      BY <2>2 DEF UploadsOK, SessionOK, Dead, HasRecord
    <2>4. SessionOK(k)'
      BY <1>1, <2>2 DEF SessionOK, HasRecord, Keys, Typed, RestOK, Used
    <2>5. RecordOK'
      BY <1>1, <2>2 DEF RecordOK, HasRecord
    <2>6. op'[f].pc # "idle" => VideoOK(f)'
      BY <1>1, <2>2 DEF VideoOK, HasRecord, HeldPc, DropPc
    <2>. QED
      BY <2>3, <2>4, <2>5, <2>6 DEF UploadMade
  <1>3. CASE s.stage \notin {"open", "retryable"}
    <2>1. PICK pc \in {"dropAny", "idle"} :
              /\ Answer(f, k, s, pc)
              /\ pc \in DropPc => s.stage = "closed"
      BY <1>0, <1>3 DEF Put, DropPc
    <2>2. Dead(k) => \/ s.stage \in {"absent", "closed", "rejected"}
                     \/ s.stage = "open" /\ ~s.chunk
                     \/ k \in store.mapped \cup seen.unmapped \cup seen.replaced
      BY DEF Dead
    <2>3. pc \in HeldPc \cup DropPc \cup {"idle"} /\ pc \notin {"create", "get", "put"}
      BY DEF DropPc
    <2>. QED
      BY <1>0, <1>1, <2>1, <2>2, <2>3, AnswerMade DEF Lawful
  <1>. QED
    BY <1>2, <1>3

(***************************************************************************)
(* The steps between the requests.                                         *)
(***************************************************************************)
LEMMA SameTame ==
    ASSUME Typed, session' = session, store'.resume = store.resume, used'.keys = used.keys,
           store.mapped \subseteq store'.mapped, seen.unmapped \subseteq seen'.unmapped,
           seen.replaced \subseteq seen'.replaced
    PROVE  Tame
  BY DEF Tame, Dead

LEMMA StartMade ==
    ASSUME Typed, UploadsOK, NEW f \in Slots, ~seen.overlapped, StartVideo(f)
    PROVE  UploadMade(f)'
  <1>1. PICK v \in Videos :
            Press(f, [Idle EXCEPT !.pc = "read", !.of = v, !.version = phone.version[v]])
    BY DEF StartVideo
  <1> DEFINE new == [Idle EXCEPT !.pc = "read", !.of = v, !.version = phone.version[v]]
  <1>2. new \in Operation /\ new.pc = "read"
    BY IdleOK DEF OpOK, Idle, Operation, VideoPc, Typed, RestOK, Phone
  <1>3. Press(f, new)
    BY <1>1
  <1>. HIDE DEF new
  <1>4. op'[f].pc = "read" /\ used'.keys = used.keys
    BY <1>2, <1>3, PressIs
  <1>5. /\ session' = session /\ store' = store /\ screen'.shown = screen.shown
        /\ seen'.unmapped = seen.unmapped /\ seen'.replaced = seen.replaced
    BY Records DEF StartVideo
  <1>6. (\A k \in Keys : SessionOK(k)') /\ RecordOK'
    BY <1>4, <1>5, SameTame, TameUploads
  <1>7. VideoOK(f)'
    BY <1>4 DEF VideoOK, HeldPc, DropPc
  <1>. QED
    BY <1>6, <1>7 DEF UploadMade

LEMMA CancelMade ==
    ASSUME Typed, UploadsOK, NEW f \in Slots, ~seen.overlapped, CancelVideo(f)
    PROVE  UploadMade(f)'
  <1> DEFINE new == [Idle EXCEPT !.pc = "delete", !.key = screen.shown]
  <1>1. screen.shown \in Keys /\ screen.shown # None
    BY Records DEF CancelVideo, CanCancel, Screen
  <1>2. new \in Operation /\ new.pc = "delete" /\ new.key = screen.shown
    BY <1>1, IdleOK DEF OpOK, Idle, Operation, VideoPc
  <1>3. Press(f, new)
    BY DEF CancelVideo
  <1>. HIDE DEF new
  <1>4. op'[f].pc = "delete" /\ op'[f].key = screen.shown /\ used'.keys = used.keys
    BY <1>2, <1>3, PressIs
  <1>5. /\ session' = session /\ store' = store /\ screen' = screen
        /\ seen'.unmapped = seen.unmapped /\ seen'.replaced = seen.replaced
    BY Records DEF CancelVideo
  <1>6. (\A k \in Keys : SessionOK(k)') /\ RecordOK'
    BY <1>4, <1>5, SameTame, TameUploads
  <1>7. HasRecord(screen.shown)' \/ Forgettable'
    BY <1>1, <1>5, <1>6 DEF RecordOK
  <1>8. VideoOK(f)'
    BY <1>4, <1>5, <1>7 DEF VideoOK, HeldPc, DropPc, HasRecord
  <1>. QED
    BY <1>6, <1>8 DEF UploadMade

LEMMA ReadMade ==
    ASSUME Typed, UploadsOK, NEW f \in Slots, ~seen.overlapped, ReadRecord(f)
    PROVE  UploadMade(f)'
  <1> DEFINE same == SameVideo(f) /\ store.resume.version = op[f].version
             o == IF same
                  THEN [op[f] EXCEPT !.key = store.resume.key,
                                     !.pc = IF store.resume.sid THEN "get" ELSE "create"]
                  ELSE IF SameVideo(f)
                  THEN [op[f] EXCEPT !.key = store.resume.key, !.pc = "drop"]
                  ELSE [op[f] EXCEPT !.pc = "keep"]
             replaced == IF SameVideo(f) /\ store.resume.version # op[f].version
                         THEN seen.replaced \cup {store.resume.key} ELSE seen.replaced
  <1>1. op' = [op EXCEPT ![f] = o]
    BY DEF ReadRecord
  <1>2. /\ same => o.key = store.resume.key
                   /\ o.pc = IF store.resume.sid THEN "get" ELSE "create"
        /\ ~same => o.pc = IF SameVideo(f) THEN "drop" ELSE "keep"
    BY OpTyped DEF Operation
  <1>3. seen' = [seen EXCEPT !.replaced = replaced]
    BY DEF ReadRecord
  <1>. HIDE DEF o
  <1>4. op'[f] = o
    BY <1>1, SetIs
  <1>5. seen'.replaced = replaced /\ seen'.unmapped = seen.unmapped
    <2>. HIDE DEF replaced
    <2>. QED
      BY <1>3, Records
  <1>6. UNCHANGED <<screen, store, session, used>>
    BY DEF ReadRecord
  <1>7. Tame
    BY <1>5, <1>6, SameTame
  <1>8. (\A k \in Keys : SessionOK(k)') /\ RecordOK'
    BY <1>6, <1>7, TameUploads
  <1>9. CASE same
    <2>1. store.resume # None
      BY <1>9 DEF SameVideo
    <2>2. ~store.resume.sid => Dead(store.resume.key)'
      BY <2>1, <1>7, TameKeeps DEF UploadsOK, RecordOK
    <2>3. op'[f].key = store.resume.key /\ op'[f].pc = IF store.resume.sid THEN "get" ELSE "create"
      BY <1>2, <1>4, <1>9
    <2>4. op'[f].pc = "create" => Dead(op[f].key)'
      BY <1>6, <2>2, <2>3 DEF Dead
    <2>. QED
      BY <1>6, <1>8, <2>1, <2>3, <2>4, ResumeTyped DEF UploadMade, VideoOK, HeldPc, DropPc, HasRecord
  <1>10. CASE ~same /\ SameVideo(f)
    <2>1. op'[f].pc = "drop"
      BY <1>2, <1>4, <1>10
    <2>2. store.resume.key \in seen'.replaced
      BY <1>5, <1>10
    <2>3. Forgettable'
      BY <1>6, <2>2 DEF Forgettable, Dead
    <2>. QED
      BY <1>8, <2>1, <2>3 DEF UploadMade, VideoOK, HeldPc, DropPc
  <1>11. CASE ~same /\ ~SameVideo(f)
    <2>1. op'[f].pc = "keep"
      BY <1>2, <1>4, <1>11
    <2>. QED
      BY <1>8, <2>1 DEF UploadMade, VideoOK, HeldPc, DropPc
  <1>. QED
    BY <1>9, <1>10, <1>11
LEMMA KeepMade ==
    ASSUME Typed, UploadsOK, NEW f \in Slots, ~seen.overlapped, KeepRecord(f)
    PROVE  UploadMade(f)'
  <1>1. PICK k \in Keys : k = used.keys + 1
    BY DEF KeepRecord
  <1> DEFINE o == [op[f] EXCEPT !.key = k, !.pc = "create"]
             record == [Record(f, FALSE) EXCEPT !.key = k]
             replaced == IF store.resume = None THEN seen.replaced
                         ELSE seen.replaced \cup {store.resume.key}
  <1>2. op[f] \in Operation /\ op[f].of \in Videos
    BY OpTyped DEF KeepRecord, Fits, RecordPc
  <1>3. o.pc = "create" /\ o.key = k
    BY <1>2 DEF Operation
  <1>4. record \in Resume /\ record.key = k
    BY <1>2 DEF Record, Resume, Operation
  <1>5. /\ op' = [op EXCEPT ![f] = o]
        /\ store' = [store EXCEPT !.resume = record]
        /\ used' = [used EXCEPT !.keys = k]
        /\ screen' = screen /\ session' = session
    BY <1>1 DEF KeepRecord, Typed, OpsOK
  <1>6. seen' = [seen EXCEPT !.replaced = replaced]
    BY DEF KeepRecord
  <1>. HIDE DEF o, record
  <1>7. op'[f] = o
    BY <1>5, SetIs
  <1>8. store'.resume = record /\ store'.mapped = store.mapped /\ used'.keys = k
    BY <1>5 DEF Typed, RestOK, Store, Used
  <1>9. seen'.replaced = replaced /\ seen'.unmapped = seen.unmapped
    <2>. HIDE DEF replaced
    <2>. QED
      BY <1>6, Records
  <1>10. HasRecord(k)' /\ store'.resume # None
    BY <1>4, <1>8, ResumeTyped DEF HasRecord
  <1>11. session[k].stage = "absent"
    BY <1>1 DEF UploadsOK, SessionOK, Keys, Typed, RestOK, Used
  <1>12. Dead(k)'
    BY <1>5, <1>11 DEF Dead
  <1>13. ASSUME NEW j \in Keys PROVE SessionOK(j)'
    <2>1. j > k => session'[j].stage = "absent"
      BY <1>1, <1>5 DEF UploadsOK, SessionOK, Keys, Typed, RestOK, Used
    <2>2. Dead(j) \/ HasRecord(j)
      BY DEF UploadsOK, SessionOK
    <2>3. Dead(j) => Dead(j)'
      BY <1>5, <1>8, <1>9 DEF Dead
    <2>4. HasRecord(j) => j \in seen'.replaced
      BY <1>9 DEF HasRecord
    <2>. QED
      BY <1>8, <2>1, <2>2, <2>3, <2>4 DEF SessionOK, Dead
  <1>14. Dead(store.resume.key)'
    BY <1>4, <1>8, <1>12 DEF Dead
  <1>15. RecordOK'
    BY <1>4, <1>8, <1>14 DEF RecordOK, Forgettable, Keys
  <1>16. VideoOK(f)'
    BY <1>3, <1>7, <1>10, <1>12 DEF VideoOK, HeldPc, DropPc, HasRecord, Dead
  <1>. QED
    BY <1>13, <1>15, <1>16 DEF UploadMade

\* A step of the operation that leaves the store and the sessions as they are.
LEMMA NothingMade ==
    ASSUME Typed, UploadsOK, NEW f \in Slots, ~seen.overlapped,
           UNCHANGED <<store, session, seen, used>>,
           screen'.shown \in {screen.shown, None} \/ HasRecord(screen'.shown),
           op'[f].key = op[f].key \/ op'[f].pc \in DropPc \cup {"idle"},
           op'[f].pc \in HeldPc => HasRecord(op[f].key),
           op'[f].pc \notin {"create", "delete"},
           op'[f].pc \in {"get", "put"} => store.resume.sid,
           op'[f].pc = "put" => screen'.shown \in {None, op[f].key},
           op'[f].pc \in DropPc => Forgettable
    PROVE  UploadMade(f)'
  <1>1. Tame
    BY SameTame
  <1>2. (\A k \in Keys : SessionOK(k)') /\ RecordOK'
    BY <1>1, TameUploads
  <1>3. Forgettable => Forgettable'
    BY <1>1, TameKeeps
  <1>4. VideoOK(f)'
    BY <1>3 DEF VideoOK, HasRecord, HeldPc, DropPc
  <1>. QED
    BY <1>2, <1>4 DEF UploadMade

LEMMA QuietMade ==
    ASSUME Typed, UploadsOK, NEW f \in Slots, ~seen.overlapped,
           NoteId(f) \/ NoteProgress(f) \/ Poll(f) \/ Uploaded(f) \/ Drop(f) \/ DropAny(f)
    PROVE  UploadMade(f)'
  <1>1. UNCHANGED <<store, session, seen, used>> /\ screen'.shown \in {screen.shown, None}
    BY Records DEF NoteId, NoteProgress, ReadOwn, Poll, Uploaded, Mounted, Drop, DropAny
  <1>2. op[f].pc # "idle"
    BY DEF NoteId, NoteProgress, Poll, Uploaded, Drop, DropAny
  <1>3. VideoOK(f)
    BY <1>2 DEF UploadsOK, Running
  <1>4. CASE End(f)
    BY <1>1, <1>4, EndIs, NothingMade DEF HeldPc, DropPc
  <1>5. CASE NoteId(f) \/ NoteProgress(f)
    <2>1. PICK pc \in {"idWrite", "progressWrite"} : End(f) \/ Goto(f, pc)
      BY <1>5 DEF NoteId, NoteProgress, ReadOwn
    <2>2. HasRecord(op[f].key)
      BY <1>3, <1>5 DEF NoteId, NoteProgress, VideoOK, HeldPc
    <2>3. CASE Goto(f, pc)
      BY <1>1, <2>2, <2>3, GotoIs, NothingMade DEF Carried, DropPc
    <2>. QED
      BY <1>4, <2>1, <2>3
  <1>6. CASE Poll(f) /\ ~End(f)
    <2>1. /\ HasRecord(op[f].key) /\ op[f].key \in Keys
      BY <1>3, <1>6, RequestOf DEF Poll, VideoOK, HeldPc
    <2>2. PICK pc \in {"done", "drop", "dropAny"} :
              /\ Goto(f, pc)
              /\ pc # "done" => session[op[f].key].stage \in {"rejected", "closed"}
      BY <1>6 DEF Poll
    <2>3. pc # "done" => Forgettable
      BY <2>1, <2>2 DEF HasRecord, Forgettable, Dead
    <2>. QED
      BY <1>1, <2>1, <2>2, <2>3, GotoIs, NothingMade DEF Carried, DropPc, HeldPc
  <1>7. CASE Uploaded(f)
    <2>1. HasRecord(op[f].key)
      BY <1>3, <1>7 DEF Uploaded, VideoOK, HeldPc
    <2>2. op' = [Unmounted(op) EXCEPT ![f].pc = "map"]
      BY <1>7 DEF Uploaded
    <2>3. op'[f].pc = "map" /\ op'[f].key = op[f].key
      BY <2>2 DEF Unmounted, Typed, OpsOK, Operation
    <2>. QED
      BY <1>1, <2>1, <2>3, NothingMade DEF DropPc
  <1>8. CASE (Drop(f) \/ DropAny(f)) /\ ~End(f)
    <2>1. Forgettable
      BY <1>3, <1>8 DEF Drop, DropAny, VideoOK, DropPc
    <2>2. op[f].then \in {"idle", "dropAny"}
      BY <1>8, OpTyped DEF Operation, Fits, VideoPc, Drop, DropAny
    <2>3. PICK pc \in {"dropWrite", "dropAny", "dropAnyWrite"} : Goto(f, pc)
      BY <1>8, <2>2 DEF Drop, DropAny
    <2>. QED
      BY <1>1, <2>1, <2>3, GotoIs, NothingMade DEF DropPc, HeldPc
  <1>. QED
    BY <1>4, <1>5, <1>6, <1>7, <1>8

LEMMA GetMade ==
    ASSUME Typed, UploadsOK, Shown, NEW f \in Slots, ~seen.overlapped, Get(f)
    PROVE  UploadMade(f)'
  <1> DEFINE s == session[op[f].key]
  <1>1. /\ HasRecord(op[f].key) /\ op[f].key \in Keys /\ s \in Session /\ store.resume.sid
    BY RequestOf DEF Get, VideoOK, HeldPc
  <1>2. UNCHANGED <<store, session, seen, used>>
    BY DEF Get
  <1>3. CASE End(f) /\ UNCHANGED screen
    BY <1>2, <1>3, EndIs, NothingMade DEF HeldPc, DropPc
  <1>4. CASE ~(End(f) /\ UNCHANGED screen)
    <2> DEFINE then == IF s.stage = "closed" THEN "dropAny" ELSE "idle"
    <2>1. PICK pc \in After(s) :
              /\ op' = [op EXCEPT ![f].pc = pc, ![f].then = then]
              /\ screen' = [screen EXCEPT !.shown = IF op[f].live THEN op[f].key ELSE @]
      BY <1>4 DEF Get
    <2>2. op' = [op EXCEPT ![f] = [op[f] EXCEPT !.pc = pc, !.then = then]]
      BY <2>1 DEF Typed, OpsOK
    <2>3. op'[f] = [op[f] EXCEPT !.pc = pc, !.then = then]
      BY <2>2, SetIs
    <2>4. op'[f].pc = pc /\ op'[f].key = op[f].key
      BY <2>3, OpTyped DEF Operation
    <2>5. /\ pc \in {"done", "drop", "dropAny", "finalize", "put"}
          /\ pc \in DropPc => s.stage \in {"closed", "rejected"}
      BY DEF After, DropPc
    <2>6. pc \in DropPc => Forgettable
      BY <1>1, <2>5 DEF HasRecord, Forgettable, Dead
    <2>7. op[f].live \/ screen.shown = None
      BY DEF Shown, Get, Running
    <2>8. screen'.shown \in {None, op[f].key}
      BY <2>1, <2>7, Records
    <2>. QED
      BY <1>1, <1>2, <2>4, <2>5, <2>6, <2>8, NothingMade DEF HeldPc
  <1>. QED
    BY <1>3, <1>4

LEMMA WriteMade ==
    ASSUME Typed, UploadsOK, NEW f \in Slots, ~seen.overlapped, WriteId(f) \/ WriteProgress(f)
    PROVE  UploadMade(f)'
  <1>1. PICK pc \in {"get", "finalize"} : Stored(f, Record(f, TRUE), pc) /\ UNCHANGED <<seen, used>>
    BY DEF WriteId, WriteProgress
  <1>2. /\ op[f] \in Operation /\ op[f].of \in Videos /\ op[f].key \in Keys
        /\ op[f].pc \in HeldPc
    BY OpTyped DEF WriteId, WriteProgress, Fits, RecordPc, KeyPc, HeldPc
  <1> DEFINE record == Record(f, TRUE)
  <1>3. record \in Resume /\ record.key = op[f].key /\ record.sid
    BY <1>2 DEF Record, Resume, Operation
  <1>4. store' = [store EXCEPT !.resume = record] /\ UNCHANGED <<screen, phone, session>>
    BY <1>1 DEF Stored
  <1>. HIDE DEF record
  <1>5. store'.resume = record /\ store'.mapped = store.mapped
    BY <1>4, Records
  <1>6. op'[f].pc = pc /\ op'[f].key = op[f].key
    BY <1>1, GotoIs DEF Stored, Carried
  <1>7. HasRecord(op[f].key) /\ VideoOK(f)
    BY <1>2 DEF UploadsOK, Running, VideoOK, HeldPc
  <1>8. /\ store'.resume # None /\ store.resume # None
        /\ store'.resume.key = store.resume.key
    BY <1>3, <1>5, <1>7, ResumeTyped DEF HasRecord
  <1>9. \A k \in Keys : SessionOK(k)'
    BY <1>1, <1>4, <1>5, <1>8 DEF UploadsOK, SessionOK, HasRecord, Dead
  <1>10. RecordOK'
    <2>1. screen.shown # None => HasRecord(screen.shown) \/ Dead(store.resume.key)
      BY <1>8 DEF UploadsOK, RecordOK, Forgettable
    <2>2. Dead(store.resume.key) => Dead(store.resume.key)'
      BY <1>1, <1>4, <1>5, <1>8 DEF Dead
    <2>. QED
      BY <1>1, <1>3, <1>4, <1>5, <1>8, <2>1, <2>2
         DEF UploadsOK, RecordOK, HasRecord, Forgettable
  <1>11. VideoOK(f)'
    BY <1>3, <1>5, <1>6, <1>8 DEF VideoOK, HasRecord, DropPc
  <1>. QED
    BY <1>9, <1>10, <1>11 DEF UploadMade

LEMMA MappingMade ==
    ASSUME Typed, UploadsOK, NEW f \in Slots, ~seen.overlapped, SaveMapping(f)
    PROVE  UploadMade(f)'
  <1>1. HasRecord(op[f].key) /\ op[f].key \in Keys
    BY RequestOf DEF SaveMapping, VideoOK, HeldPc
  <1>2. /\ UNCHANGED <<screen, phone, session, used>> /\ store'.resume = store.resume
        /\ store.mapped \subseteq store'.mapped /\ seen.unmapped \subseteq seen'.unmapped
        /\ seen.replaced = seen'.replaced
        /\ op[f].key \in store'.mapped \cup seen'.unmapped
    BY Records DEF SaveMapping
  <1>3. (\A k \in Keys : SessionOK(k)') /\ RecordOK'
    BY <1>2, SameTame, TameUploads
  <1>4. op'[f].pc = "drop"
    BY GotoIs DEF SaveMapping
  <1>5. Forgettable'
    BY <1>1, <1>2 DEF HasRecord, Forgettable, Dead
  <1>. QED
    BY <1>3, <1>4, <1>5 DEF UploadMade, VideoOK, HeldPc, DropPc

LEMMA RemoveMade ==
    ASSUME Typed, UploadsOK, NEW f \in Slots, ~seen.overlapped, RemoveRecord(f)
    PROVE  UploadMade(f)'
  <1>1. Forgettable
    BY DEF RemoveRecord, UploadsOK, Running, VideoOK, DropPc
  <1>2. /\ UNCHANGED <<screen, phone, session, seen, used>>
        /\ store'.resume = None /\ store'.mapped = store.mapped
    BY Records DEF RemoveRecord
  <1>3. \A k \in Keys : SessionOK(k)'
    BY <1>1, <1>2 DEF UploadsOK, SessionOK, Forgettable, HasRecord, Dead
  <1>4. RecordOK' /\ Forgettable'
    BY <1>2 DEF RecordOK, Forgettable
  <1>5. op' = [op EXCEPT ![f] = Idle] \/ op' = [op EXCEPT ![f] = [op[f] EXCEPT !.pc = "dropAny"]]
    BY DEF RemoveRecord
  <1>6. End(f) \/ Goto(f, "dropAny")
    BY <1>5 DEF End, Goto
  <1>7. op'[f].pc \in {"idle", "dropAny"}
    BY <1>6, EndIs, GotoIs
  <1>. QED
    BY <1>3, <1>4, <1>7 DEF UploadMade, VideoOK, HeldPc, DropPc

LEMMA UploadsNext == ASSUME Typed, Single, Shown, UploadsOK, Next PROVE UploadsOK'
  <1>1. CASE \E f \in Slots : PhotoStep(f) \/ SaveStep(f)
    <2>1. PICK f \in Slots : PhotoStep(f) \/ SaveStep(f)
      BY <1>1
    <2>2. Moves(f) /\ UploadLeft /\ op'[f].pc \in PhotoPc \cup SavePc \cup {"idle"}
      BY <2>1, PhotoSteps, SaveSteps, PhotoFrame, SaveFrame
    <2>3. op'[f].pc \notin VideoPc
      BY <2>2 DEF VideoPc, PhotoPc, SavePc
    <2>. QED
      BY <2>2, <2>3, UploadLeftOK
  <1>2. CASE \E f \in Slots : VideoStep(f)
    <2>1. PICK f \in Slots : VideoStep(f)
      BY <1>2
    <2>2. Moves(f)
      BY <2>1, VideoSteps
    <2>3. CASE ~seen'.overlapped
      <3>1. ~seen.overlapped /\ \A g \in Slots : op'[g].pc # "idle" => g = f
        BY <2>2, <2>3, Lone
      <3>2. UploadMade(f)'
        BY <2>1, <3>1, StartMade, ReadMade, KeepMade, CreateMade, WriteMade, GetMade, PutMade,
           FinalizeMade, QuietMade, MappingMade, RemoveMade, CancelMade, DeleteMade DEF VideoStep
      <3>. QED
        BY <2>3, <3>1, <3>2 DEF UploadMade, UploadsOK, Running
    <2>. QED
      BY <2>3 DEF UploadsOK
  <1>3. CASE Besides
    BY <1>3, BesideUploadsOK
  <1>. QED
    BY <1>1, <1>2, <1>3, NextIs
-----------------------------------------------------------------------------
(***************************************************************************)
(* The inductive invariant and what follows from it.                       *)
(***************************************************************************)
Remembered == Single /\ Shown /\ PhotosOK /\ SavesOK /\ UploadsOK

LEMMA InitRemembered == ASSUME Init PROVE Remembered
  <1>1. /\ Running = {} /\ screen.shown = None /\ store.resume = None
        /\ \A k \in Keys : session[k].stage = "absent"
    BY DEF Init, Running, Idle, Mounted
  <1>2. Single /\ Shown /\ UploadsOK
    BY <1>1 DEF Single, Shown, UploadsOK, SessionOK, RecordOK, Dead
  <1>3. PhotosOK /\ SavesOK
    BY <1>1 DEF Init, PhotosOK, SavesOK, ResultOK
  <1>. QED
    BY <1>2, <1>3 DEF Remembered

LEMMA NextRemembered == ASSUME Typed, Remembered, [Next]_vars PROVE Remembered'
  <1>1. CASE UNCHANGED vars
    <2>1. UNCHANGED <<screen, op, store, phone, session, seen, used>>
      BY <1>1 DEF vars
    <2>2. Single' /\ Shown'
      BY <2>1 DEF Remembered, Single, Shown, Running
    <2>3. PhotosOK'
      BY <2>1 DEF Remembered, PhotosOK, Running
    <2>4. SavesOK'
      BY <2>1 DEF Remembered, SavesOK, Running, ResultOK, SaveOK, Again
    <2>5. UploadsOK'
      BY <2>1 DEF Remembered, UploadsOK, Running, SessionOK, RecordOK, VideoOK, HasRecord, Dead,
         Forgettable
    <2>. QED
      BY <2>2, <2>3, <2>4, <2>5 DEF Remembered
  <1>2. CASE Next
    BY <1>2, SingleNext, PhotosNext, SavesNext, UploadsNext DEF Remembered
  <1>. QED
    BY <1>1, <1>2

LEMMA AlwaysRemembered == Spec => []Remembered
  BY InitRemembered, NextRemembered, AlwaysTyped, PTL DEF Spec

(***************************************************************************)
(* A video stored on the backend is known to the phone until operations    *)
(* overlap: no step of an upload, no cancellation and no kill of the app   *)
(* drops the resume record of a session that can still be stored before    *)
(* its mapping is saved or reported missing (useResumableVideoUpload.js).  *)
(***************************************************************************)
THEOREM StoredVideoIsKnown == Spec => []StoredIsKnown
  <1>1. Remembered => StoredIsKnown
    BY DEF Remembered, UploadsOK, SessionOK, Dead, HasRecord, StoredIsKnown
  <1>. QED
    BY <1>1, AlwaysRemembered, PTL

(***************************************************************************)
(* A photo whose upload timed out is not sent again before the user has    *)
(* acknowledged a list refreshed since, however often the app is killed,   *)
(* unless its marker was lost or uploads overlapped (useAssetUpload.js).   *)
(***************************************************************************)
THEOREM UnknownPhotoNotResent == Spec => []UnknownNotResent
  <1>1. Remembered => UnknownNotResent
    BY DEF Remembered, PhotosOK, UnknownNotResent
  <1>. QED
    BY <1>1, AlwaysRemembered, PTL

(***************************************************************************)
(* Until saves overlap a copy in the photo library is of a verified file   *)
(* and is recorded as saved or as possibly saved, or the user has saved    *)
(* again (useProcessedResultSave.js), wherever the app is killed.          *)
(***************************************************************************)
THEOREM CopyHasItsRecord == Spec => []CopyIsRecorded
  <1>1. Remembered => CopyIsRecorded
    BY DEF Remembered, SavesOK, ResultOK, CopyIsRecorded
  <1>. QED
    BY <1>1, AlwaysRemembered, PTL

(***************************************************************************)
(* Until saves overlap a temporary file has a record from before its first *)
(* byte to after its removal, by which the next start finds it             *)
(* (useProcessedResultSave.js), wherever the app is killed.                *)
(***************************************************************************)
THEOREM TempHasItsRecord == Spec => []TempIsFindable
  <1>1. Remembered => TempIsFindable
    BY DEF Remembered, SavesOK, ResultOK, TempIsFindable
  <1>. QED
    BY <1>1, AlwaysRemembered, PTL
=============================================================================

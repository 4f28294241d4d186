---------------------------- MODULE ClientProofs ----------------------------
(***************************************************************************)
(* Proofs about the client, for any number of videos, photos, results,     *)
(* operations at once, presses, kills and edits.                           *)
(***************************************************************************)
EXTENDS Client, TLAPS

-----------------------------------------------------------------------------
(***************************************************************************)
(* Operations. What an operation works on is of its own kind, and it has a *)
(* client_upload_id from the step on that keeps its record.                *)
(***************************************************************************)
Pcs == {"idle"} \cup VideoPc \cup PhotoPc \cup SavePc
RecordPc == {"read", "keep", "create", "id", "idWrite", "get", "put", "progress", "progressWrite"}
KeyPc ==
    {"create", "id", "idWrite", "get", "put", "progress", "progressWrite", "finalize",
     "poll", "done", "map", "delete"}
Fits(o, pc) ==
    /\ pc \in RecordPc => o.of \in Videos
    /\ pc \in KeyPc => o.key \in Keys
    /\ pc \in VideoPc => o.then # "fail"
    /\ pc \in PhotoPc => o.of \in Photos
    /\ pc \in SavePc => o.of \in Results
OpOK(o) == o \in Operation /\ Fits(o, o.pc)
OpsOK == op \in [Slots -> Operation] /\ \A f \in Slots : Fits(op[f], op[f].pc)

LEMMA IdleOK == OpOK(Idle)
  <1>1. 0 \in 0..MaxEdits
    BY ClientAssumptions
  <1>2. NoSaves \in [Results -> SaveStatus]
    BY DEF NoSaves, SaveStatus
  <1>. QED
    BY <1>1, <1>2 DEF OpOK, Fits, Idle, Operation, RecordPc, KeyPc, VideoPc, PhotoPc, SavePc

LEMMA SetStep ==
    ASSUME OpsOK, NEW f \in Slots, NEW o, OpOK(o), op' = [op EXCEPT ![f] = o]
    PROVE  OpsOK'
  <1>1. \A g \in Slots : op'[g] = IF g = f THEN o ELSE op[g]
    BY DEF OpsOK
  <1>2. op' \in [Slots -> Operation]
    BY DEF OpsOK, OpOK
  <1>3. \A g \in Slots : Fits(op'[g], op'[g].pc)
    BY <1>1 DEF OpsOK, OpOK
  <1>. QED
    BY <1>2, <1>3 DEF OpsOK, Fits

LEMMA PcOK ==
    ASSUME NEW o \in Operation, NEW pc \in Pcs, Fits(o, pc)
    PROVE  OpOK([o EXCEPT !.pc = pc])
  <1>1. [o EXCEPT !.pc = pc] \in Operation
    BY DEF Operation, Pcs
  <1>2. /\ [o EXCEPT !.pc = pc].pc = pc /\ [o EXCEPT !.pc = pc].of = o.of
        /\ [o EXCEPT !.pc = pc].key = o.key /\ [o EXCEPT !.pc = pc].then = o.then
    BY DEF Operation
  <1>. QED
    BY <1>1, <1>2 DEF OpOK, Fits

LEMMA EndStep == ASSUME OpsOK, NEW f \in Slots, End(f) PROVE OpsOK'
  BY IdleOK, SetStep DEF End

LEMMA GotoStep ==
    ASSUME OpsOK, NEW f \in Slots, NEW pc \in Pcs, Fits(op[f], pc), Goto(f, pc)
    PROVE  OpsOK'
  <1>1. CASE pc = "idle"
    BY <1>1, EndStep DEF Goto
  <1>2. CASE pc # "idle"
    <2>1. op[f] \in Operation
      BY DEF OpsOK
    <2>2. OpOK([op[f] EXCEPT !.pc = pc])
      BY <2>1, PcOK
    <2>3. op' = [op EXCEPT ![f] = [op[f] EXCEPT !.pc = pc]]
      BY <1>2 DEF Goto
    <2>. QED
      BY <2>2, <2>3, SetStep
  <1>. QED
    BY <1>1, <1>2

LEMMA UnmountOK ==
    ASSUME NEW ops \in [Slots -> Operation], \A f \in Slots : Fits(ops[f], ops[f].pc),
           op' = Unmounted(ops)
    PROVE  OpsOK'
  <1>1. op' = [f \in Slots |-> [ops[f] EXCEPT !.live = FALSE]]
    BY DEF Unmounted
  <1>2. ASSUME NEW f \in Slots
        PROVE  /\ op'[f] \in Operation /\ op'[f].pc = ops[f].pc /\ op'[f].of = ops[f].of
               /\ op'[f].key = ops[f].key /\ op'[f].then = ops[f].then
    <2>1. op'[f] = [ops[f] EXCEPT !.live = FALSE] /\ ops[f] \in Operation
      BY <1>1
    <2>. QED
      BY <2>1 DEF Operation
  <1>3. op' \in [Slots -> Operation]
    BY <1>1, <1>2
  <1>. QED
    BY <1>2, <1>3 DEF OpsOK, Fits

LEMMA SameOps == ASSUME OpsOK, op' = op PROVE OpsOK'
  BY DEF OpsOK, Fits

-----------------------------------------------------------------------------
(***************************************************************************)
(* The rest of the state. The version of a video counts edits, so that it  *)
(* stays below their bound.                                                *)
(***************************************************************************)
Used == [taps: 0..MaxTaps, kills: 0..MaxKills, edits: 0..MaxEdits, keys: 0..MaxTaps]
EditsCounted == \A v \in Videos : phone.version[v] <= used.edits
RestOK ==
    /\ screen \in Screen /\ store \in Store /\ phone \in Phone
    /\ session \in [Keys -> Session] /\ seen \in Seen /\ used \in Used
    /\ EditsCounted
Typed == OpsOK /\ RestOK

LEMMA OpTyped ==
    ASSUME Typed, NEW f \in Slots
    PROVE  op[f] \in Operation /\ Fits(op[f], op[f].pc)
  BY DEF Typed, OpsOK

LEMMA PressStep ==
    ASSUME Typed, NEW f \in Slots, NEW new \in Operation, Fits(new, new.pc), Press(f, new)
    PROVE  OpsOK' /\ used' \in Used /\ used'.edits = used.edits
  <1> DEFINE o == [new EXCEPT !.live = TRUE]
  <1>1. o \in Operation /\ o.pc = new.pc /\ o.of = new.of /\ o.key = new.key /\ o.then = new.then
    BY DEF Operation
  <1>2. OpOK(o)
    BY <1>1 DEF OpOK, Fits
  <1>3. OpsOK'
    <2>1. op' = [op EXCEPT ![f] = o]
      BY DEF Press
    <2>. QED
      BY <1>2, <2>1, SetStep DEF Typed
  <1>4. used.taps + 1 \in 0..MaxTaps
    BY ClientAssumptions DEF Typed, RestOK, Used, Press
  <1>5. used' = [used EXCEPT !.taps = used.taps + 1] /\ used \in Used
    BY DEF Press, Typed, RestOK
  <1>. QED
    BY <1>3, <1>4, <1>5 DEF Used

LEMMA MountedTyped ==
    ASSUME NEW route \in {"settings", "picker", "assets", "detail"},
           NEW x \in Videos \cup Photos \cup Results \cup {None}
    PROVE  Mounted(route, x) \in Screen
  BY DEF Mounted, Screen, Marker

-----------------------------------------------------------------------------
(***************************************************************************)
(* Uploads of videos.                                                      *)
(***************************************************************************)
LEMMA StartVideoTyped == ASSUME Typed, NEW f \in Slots, StartVideo(f) PROVE Typed'
  <1>1. PICK v \in Videos :
            Press(f, [Idle EXCEPT !.pc = "read", !.of = v, !.version = phone.version[v]])
    BY DEF StartVideo
  <1> DEFINE new == [Idle EXCEPT !.pc = "read", !.of = v, !.version = phone.version[v]]
  <1>2. new \in Operation /\ new.pc = "read" /\ new.of = v /\ new.then = "idle"
    BY IdleOK DEF OpOK, Idle, Operation, VideoPc, Typed, RestOK, Phone
  <1>3. Fits(new, new.pc)
    BY <1>2 DEF Fits, KeyPc, PhotoPc, SavePc
  <1>4. OpsOK' /\ used' \in Used /\ used'.edits = used.edits
    BY <1>1, <1>2, <1>3, PressStep
  <1>5. screen' \in Screen /\ seen' \in Seen
    BY DEF Typed, RestOK, StartVideo, Screen, Seen
  <1>. QED
    BY <1>4, <1>5 DEF Typed, RestOK, EditsCounted, StartVideo

LEMMA RecordTyped ==
    ASSUME Typed, store.resume # None
    PROVE  store.resume.key \in Keys /\ store.resume \in Resume
  BY DEF Typed, RestOK, Store, Resume

LEMMA ReadRecordTyped == ASSUME Typed, NEW f \in Slots, ReadRecord(f) PROVE Typed'
  <1> DEFINE o ==
        IF SameVideo(f) /\ store.resume.version = op[f].version
        THEN [op[f] EXCEPT !.key = store.resume.key,
                           !.pc = IF store.resume.sid THEN "get" ELSE "create"]
        ELSE IF SameVideo(f) THEN [op[f] EXCEPT !.key = store.resume.key, !.pc = "drop"]
        ELSE [op[f] EXCEPT !.pc = "keep"]
  <1>1. /\ op[f] \in Operation /\ op[f].of \in Videos /\ op[f].then # "fail"
        /\ SameVideo(f) => store.resume.key \in Keys
    BY OpTyped, RecordTyped DEF ReadRecord, Fits, RecordPc, VideoPc, SameVideo
  <1>2. /\ o \in Operation /\ o.pc \in {"get", "create", "drop", "keep"}
        /\ o.of = op[f].of /\ o.then = op[f].then
        /\ o.pc \in {"get", "create"} => o.key \in Keys
    BY <1>1 DEF Operation, VideoPc
  <1>3. OpOK(o)
    BY <1>1, <1>2 DEF OpOK, Fits, KeyPc, PhotoPc, SavePc
  <1>4. op' = [op EXCEPT ![f] = o]
    BY DEF ReadRecord
  <1>5. OpsOK'
    BY <1>3, <1>4, SetStep DEF Typed
  <1>6. seen' \in Seen
    BY <1>1 DEF ReadRecord, Typed, RestOK, Seen
  <1>. QED
    BY <1>5, <1>6 DEF Typed, RestOK, EditsCounted, ReadRecord

LEMMA KeepRecordTyped == ASSUME Typed, NEW f \in Slots, KeepRecord(f) PROVE Typed'
  <1> DEFINE k == used.keys + 1
             o == [op[f] EXCEPT !.key = k, !.pc = "create"]
  <1>1. /\ op[f] \in Operation /\ op[f].of \in Videos /\ op[f].then # "fail"
        /\ k \in Keys
    BY OpTyped DEF KeepRecord, Fits, RecordPc, VideoPc
  <1>2. OpOK(o)
    <2>1. /\ o \in Operation /\ o.pc = "create" /\ o.of = op[f].of /\ o.key = k
          /\ o.then = op[f].then
      BY <1>1 DEF Operation, VideoPc
    <2>. QED
      BY <1>1, <2>1 DEF OpOK, Fits, PhotoPc, SavePc
  <1>3. op' = [op EXCEPT ![f] = o]
    BY DEF KeepRecord
  <1>4. OpsOK'
    BY <1>2, <1>3, SetStep DEF Typed
  <1>5. store' \in Store
    <2>1. [Record(f, FALSE) EXCEPT !.key = k] \in Resume
      BY <1>1 DEF Record, Resume, Operation
    <2>. QED
      BY <2>1 DEF KeepRecord, Typed, RestOK, Store
  <1>6. seen' \in Seen
    BY RecordTyped DEF KeepRecord, Typed, RestOK, Seen
  <1>7. used' \in Used /\ used'.edits = used.edits
    BY <1>1 DEF KeepRecord, Typed, RestOK, Used, Keys
  <1>. QED
    BY <1>4, <1>5, <1>6, <1>7 DEF Typed, RestOK, EditsCounted, KeepRecord

LEMMA AnswerTyped ==
    ASSUME Typed, NEW f \in Slots, NEW k \in Keys, NEW s \in Session, NEW pc \in Pcs,
           Fits(op[f], pc), Answer(f, k, s, pc), UNCHANGED screen
    PROVE  Typed'
  <1>1. OpsOK'
    BY EndStep, GotoStep DEF Typed, Answer
  <1>2. session' \in [Keys -> Session]
    BY DEF Answer, Typed, RestOK
  <1>. QED
    BY <1>1, <1>2 DEF Typed, RestOK, EditsCounted, Answer

LEMMA SessionOf ==
    ASSUME Typed, NEW f \in Slots, op[f].pc \in KeyPc \cap VideoPc
    PROVE  /\ op[f].key \in Keys /\ session[op[f].key] \in Session /\ op[f].then # "fail"
           /\ \A s \in Stage : [session[op[f].key] EXCEPT !.stage = s] \in Session
           /\ [session[op[f].key] EXCEPT !.chunk = TRUE] \in Session
  <1>1. op[f].key \in Keys /\ op[f].then # "fail"
    BY OpTyped DEF Fits
  <1>2. session[op[f].key] \in Session
    BY <1>1 DEF Typed, RestOK
  <1>. QED
    BY <1>1, <1>2 DEF Session

\* Where the answers lead: what is needed there is there.
LEMMA VideoFits ==
    ASSUME NEW o, NEW pc \in VideoPc \cup {"idle"}, o.then # "fail",
           pc \in RecordPc => o.of \in Videos,
           pc \in KeyPc => o.key \in Keys
    PROVE  pc \in Pcs /\ Fits(o, pc)
  BY DEF Pcs, Fits, VideoPc, PhotoPc, SavePc, RecordPc, KeyPc

LEMMA CreateTyped == ASSUME Typed, NEW f \in Slots, Create(f) PROVE Typed'
  <1> DEFINE k == op[f].key  s == session[k]
  <1>1. /\ k \in Keys /\ s \in Session /\ op[f].then # "fail" /\ op[f].of \in Videos
        /\ [stage |-> "open", chunk |-> FALSE] \in Session
    BY ZenonT(60), SessionOf, OpTyped DEF Create, KeyPc, VideoPc, RecordPc, Fits, Session, Stage
  <1>2. \A pc \in {"id", "drop", "dropAny"} : pc \in Pcs /\ Fits(op[f], pc)
    BY <1>1, VideoFits DEF VideoPc, RecordPc, KeyPc
  <1>3. PICK t \in Session, pc \in {"id", "drop", "dropAny"} : Answer(f, k, t, pc)
    BY <1>1 DEF Create
  <1>. QED
    BY <1>1, <1>2, <1>3, AnswerTyped DEF Create

LEMMA PutTyped == ASSUME Typed, NEW f \in Slots, Put(f) PROVE Typed'
  <1> DEFINE k == op[f].key  s == session[k]
  <1>1. /\ k \in Keys /\ s \in Session /\ op[f].then # "fail" /\ op[f].of \in Videos
        /\ [s EXCEPT !.chunk = TRUE] \in Session
    BY SessionOf, OpTyped DEF Put, KeyPc, VideoPc, RecordPc, Fits
  <1>2. \A pc \in {"progress", "dropAny", "idle"} : pc \in Pcs /\ Fits(op[f], pc)
    BY <1>1, VideoFits DEF VideoPc, RecordPc, KeyPc
  <1>3. PICK t \in Session, pc \in {"progress", "dropAny", "idle"} : Answer(f, k, t, pc)
    BY <1>1 DEF Put
  <1>. QED
    BY <1>1, <1>2, <1>3, AnswerTyped DEF Put

LEMMA FinalizeTyped == ASSUME Typed, NEW f \in Slots, Finalize(f) PROVE Typed'
  <1> DEFINE k == op[f].key  s == session[k]
  <1>1. /\ k \in Keys /\ s \in Session /\ op[f].then # "fail"
        /\ [s EXCEPT !.stage = "submitted"] \in Session
    BY SessionOf DEF Finalize, KeyPc, VideoPc, Stage
  <1>2. \A pc \in {"poll", "drop", "dropAny", "idle"} : pc \in Pcs /\ Fits(op[f], pc)
    BY <1>1, VideoFits DEF VideoPc, RecordPc, KeyPc
  <1>3. PICK t \in Session, pc \in {"poll", "drop", "dropAny", "idle"} : Answer(f, k, t, pc)
    BY <1>1 DEF Finalize
  <1>. QED
    BY <1>1, <1>2, <1>3, AnswerTyped DEF Finalize

LEMMA DeleteTyped == ASSUME Typed, NEW f \in Slots, Delete(f) PROVE Typed'
  <1> DEFINE k == op[f].key  s == session[k]
  <1>1. /\ k \in Keys /\ s \in Session /\ op[f].then # "fail"
        /\ [s EXCEPT !.stage = "closed"] \in Session
    BY SessionOf DEF Delete, KeyPc, VideoPc, Stage
  <1>2. \A pc \in {"dropAny", "idle"} : pc \in Pcs /\ Fits(op[f], pc)
    BY <1>1, VideoFits DEF VideoPc, RecordPc, KeyPc
  <1>3. PICK t \in Session, pc \in {"dropAny", "idle"} : Answer(f, k, t, pc)
    BY <1>1 DEF Delete
  <1>. QED
    BY <1>1, <1>2, <1>3, AnswerTyped DEF Delete

\* The record is read by one step and written by the next.
LEMMA NoteTyped == ASSUME Typed, NEW f \in Slots, NoteId(f) \/ NoteProgress(f) PROVE Typed'
  <1>1. op[f].key \in Keys /\ op[f].then # "fail" /\ op[f].of \in Videos
    BY SessionOf, OpTyped DEF NoteId, NoteProgress, KeyPc, VideoPc, RecordPc, Fits
  <1>2. \A pc \in {"idWrite", "progressWrite"} : pc \in Pcs /\ Fits(op[f], pc)
    BY <1>1, VideoFits DEF VideoPc, RecordPc, KeyPc
  <1>3. OpsOK'
    BY <1>2, EndStep, GotoStep DEF Typed, NoteId, NoteProgress, ReadOwn
  <1>. QED
    BY <1>3 DEF Typed, RestOK, EditsCounted, NoteId, NoteProgress, ReadOwn

LEMMA WriteTyped == ASSUME Typed, NEW f \in Slots, WriteId(f) \/ WriteProgress(f) PROVE Typed'
  <1>1. /\ op[f].key \in Keys /\ op[f].then # "fail" /\ op[f].of \in Videos
        /\ op[f] \in Operation
    BY SessionOf, OpTyped DEF WriteId, WriteProgress, KeyPc, VideoPc, RecordPc, Fits
  <1>2. \A pc \in {"get", "finalize"} : pc \in Pcs /\ Fits(op[f], pc)
    BY <1>1, VideoFits DEF VideoPc, RecordPc, KeyPc
  <1>3. OpsOK'
    BY <1>2, GotoStep DEF Typed, WriteId, WriteProgress, Stored
  <1>4. Record(f, TRUE) \in Resume
    BY <1>1 DEF Record, Resume, Operation
  <1>5. store' = [store EXCEPT !.resume = Record(f, TRUE)]
    BY DEF WriteId, WriteProgress, Stored
  <1>6. store' \in Store
    BY <1>4, <1>5 DEF Typed, RestOK, Store
  <1>. QED
    BY <1>3, <1>6 DEF Typed, RestOK, EditsCounted, WriteId, WriteProgress, Stored

LEMMA GetTyped == ASSUME Typed, NEW f \in Slots, Get(f) PROVE Typed'
  <1> DEFINE k == op[f].key  s == session[k]
  <1>1. /\ k \in Keys /\ op[f].then # "fail" /\ op[f].of \in Videos
        /\ op[f] \in Operation
    BY SessionOf, OpTyped DEF Get, KeyPc, VideoPc, RecordPc, Fits
  <1>2. screen' \in Screen
    BY <1>1 DEF Get, Typed, RestOK, Screen
  <1>3. OpsOK'
    <2>1. CASE End(f)
      BY <2>1, EndStep DEF Typed
    <2>2. CASE ~End(f)
      <3> DEFINE o(pc) == [op[f] EXCEPT !.pc = pc, !.then = IF s.stage = "closed" THEN "dropAny" ELSE "idle"]
      <3>0. After(s) \subseteq {"done", "drop", "dropAny", "finalize", "put"}
        BY DEF After
      <3>1. PICK pc \in {"done", "drop", "dropAny", "finalize", "put"} : op' = [op EXCEPT ![f] = o(pc)]
        <4>1. PICK pc \in After(s) :
                op' = [op EXCEPT ![f].pc = pc,
                        ![f].then = IF s.stage = "closed" THEN "dropAny" ELSE "idle"]
          BY <2>2 DEF Get
        <4>2. op' = [op EXCEPT ![f] = o(pc)]
          BY <4>1 DEF Typed, OpsOK
        <4>. QED
          BY <3>0, <4>1, <4>2
      <3>2. /\ o(pc) \in Operation /\ o(pc).pc = pc /\ o(pc).then # "fail"
            /\ o(pc).of = op[f].of /\ o(pc).key = k
        BY ZenonT(60), <1>1 DEF Operation, VideoPc
      <3>3. Fits(o(pc), pc)
        BY <1>1, <3>2, VideoFits DEF VideoPc, RecordPc, KeyPc
      <3>. QED
        BY <3>1, <3>2, <3>3, SetStep DEF OpOK, Typed
    <2>. QED
      BY <2>1, <2>2
  <1>. QED
    BY <1>2, <1>3 DEF Typed, RestOK, EditsCounted, Get

LEMMA PollTyped == ASSUME Typed, NEW f \in Slots, Poll(f) PROVE Typed'
  <1>1. op[f].key \in Keys /\ op[f].then # "fail"
    BY SessionOf DEF Poll, KeyPc, VideoPc
  <1>2. \A pc \in {"done", "drop", "dropAny"} : pc \in Pcs /\ Fits(op[f], pc)
    BY <1>1, VideoFits DEF VideoPc, RecordPc, KeyPc
  <1>3. OpsOK'
    BY <1>2, EndStep, GotoStep DEF Typed, Poll
  <1>. QED
    BY <1>3 DEF Typed, RestOK, EditsCounted, Poll

LEMMA UploadedTyped == ASSUME Typed, NEW f \in Slots, Uploaded(f) PROVE Typed'
  <1> DEFINE ops == [op EXCEPT ![f].pc = "map"]
  <1>1. op[f].key \in Keys /\ op[f].then # "fail" /\ op[f] \in Operation
    BY SessionOf, OpTyped DEF Uploaded, KeyPc, VideoPc
  <1>2. "map" \in Pcs /\ Fits(op[f], "map")
    BY <1>1, VideoFits DEF VideoPc, RecordPc, KeyPc
  <1>3. OpOK([op[f] EXCEPT !.pc = "map"])
    BY <1>1, <1>2, PcOK
  <1>4. /\ ops \in [Slots -> Operation]
        /\ \A g \in Slots : Fits(ops[g], ops[g].pc)
    BY <1>3 DEF Typed, OpsOK, OpOK
  <1>5. op' = Unmounted(ops)
    BY DEF Uploaded, Unmounted, Typed, OpsOK, Operation
  <1>6. OpsOK'
    BY <1>4, <1>5, UnmountOK
  <1>. QED
    BY <1>6, MountedTyped DEF Typed, RestOK, EditsCounted, Uploaded

LEMMA SaveMappingTyped == ASSUME Typed, NEW f \in Slots, SaveMapping(f) PROVE Typed'
  <1>1. op[f].key \in Keys /\ op[f].then # "fail"
    BY SessionOf DEF SaveMapping, KeyPc, VideoPc
  <1>2. "drop" \in Pcs /\ Fits(op[f], "drop")
    BY <1>1, VideoFits DEF VideoPc, RecordPc, KeyPc
  <1>3. OpsOK'
    BY <1>2, GotoStep DEF Typed, SaveMapping
  <1>4. store' \in Store /\ seen' \in Seen
    BY <1>1 DEF Typed, RestOK, Store, Seen, SaveMapping
  <1>. QED
    BY <1>3, <1>4 DEF Typed, RestOK, EditsCounted, SaveMapping

LEMMA DropTyped ==
    ASSUME Typed, NEW f \in Slots, Drop(f) \/ DropAny(f) \/ RemoveRecord(f)
    PROVE  Typed'
  <1>1. op[f].then \in {"idle", "dropAny"} /\ op[f] \in Operation
    BY OpTyped DEF Drop, DropAny, RemoveRecord, VideoPc, Fits, Operation
  <1>2. \A pc \in {"idle", "dropWrite", "dropAny", "dropAnyWrite"} : pc \in Pcs /\ Fits(op[f], pc)
    BY <1>1, VideoFits DEF VideoPc, RecordPc, KeyPc
  <1>3. OpsOK'
    <2>1. CASE Drop(f) \/ DropAny(f)
      BY <1>1, <1>2, <2>1, EndStep, GotoStep DEF Drop, DropAny, Typed
    <2>2. CASE RemoveRecord(f)
      <3>1. OpOK([op[f] EXCEPT !.pc = "dropAny"])
        BY <1>1, <1>2, PcOK
      <3>. QED
        BY <2>2, <3>1, IdleOK, SetStep DEF RemoveRecord, Typed
    <2>. QED
      BY <2>1, <2>2
  <1>4. screen' \in Screen /\ store' \in Store
    BY <1>1 DEF Drop, DropAny, RemoveRecord, Typed, RestOK, Screen, Store, Operation
  <1>. QED
    BY <1>3, <1>4 DEF Typed, RestOK, EditsCounted, Drop, DropAny, RemoveRecord

LEMMA CancelVideoTyped == ASSUME Typed, NEW f \in Slots, CancelVideo(f) PROVE Typed'
  <1> DEFINE new == [Idle EXCEPT !.pc = "delete", !.key = screen.shown]
  <1>1. screen.shown \in Keys
    BY DEF CancelVideo, CanCancel, Typed, RestOK, Screen
  <1>2. new \in Operation /\ new.pc = "delete" /\ new.key \in Keys /\ new.then = "idle"
    BY <1>1, IdleOK DEF OpOK, Idle, Operation, VideoPc
  <1>3. Fits(new, new.pc)
    BY <1>2, VideoFits DEF VideoPc, RecordPc, KeyPc
  <1>4. OpsOK' /\ used' \in Used /\ used'.edits = used.edits
    BY <1>2, <1>3, PressStep DEF CancelVideo
  <1>5. seen' \in Seen
    BY DEF CancelVideo, Typed, RestOK, Seen
  <1>. QED
    BY <1>4, <1>5 DEF Typed, RestOK, EditsCounted, CancelVideo

LEMMA SettleTyped == ASSUME Typed, NEW k \in Keys, Settle(k) PROVE Typed'
  <1>1. session' \in [Keys -> Session]
    BY DEF Settle, Typed, RestOK, Session, Stage
  <1>. QED
    BY <1>1, SameOps DEF Typed, RestOK, EditsCounted, Settle

LEMMA EditTyped == ASSUME Typed, NEW v \in Videos, Edit(v) PROVE Typed'
  <1>0. used.edits \in 0..MaxEdits /\ used.edits < MaxEdits
    BY DEF Edit, Typed, RestOK, Used
  <1>1. \A w \in Videos : phone.version[w] \in 0..MaxEdits /\ phone.version[w] <= used.edits
    BY DEF Typed, RestOK, Phone, EditsCounted
  <1>2. used' \in Used /\ used'.edits = used.edits + 1 /\ used.edits + 1 \in 0..MaxEdits
    BY <1>0, ClientAssumptions DEF Edit, Typed, RestOK, Used
  <1>3. phone' \in Phone /\ \A w \in Videos : phone'.version[w] <= used.edits + 1
    BY <1>0, <1>1, <1>2, ClientAssumptions DEF Edit, Typed, RestOK, Phone
  <1>. QED
    BY <1>2, <1>3, SameOps DEF Typed, RestOK, EditsCounted, Edit

LEMMA VideoTyped == ASSUME Typed, NEW f \in Slots, VideoStep(f) PROVE Typed'
  BY StartVideoTyped, ReadRecordTyped, KeepRecordTyped, CreateTyped, NoteTyped, WriteTyped,
     GetTyped, PutTyped, FinalizeTyped, PollTyped, UploadedTyped, SaveMappingTyped, DropTyped,
     CancelVideoTyped, DeleteTyped DEF VideoStep

-----------------------------------------------------------------------------
(***************************************************************************)
(* Uploads of photos.                                                      *)
(***************************************************************************)
LEMMA StartPhotoTyped == ASSUME Typed, NEW f \in Slots, StartPhoto(f) PROVE Typed'
  <1>1. PICK p \in Photos : Press(f, [Idle EXCEPT !.pc = "check", !.of = p])
    BY DEF StartPhoto
  <1> DEFINE new == [Idle EXCEPT !.pc = "check", !.of = p]
  <1>2. new \in Operation /\ new.pc = "check" /\ new.of = p
    BY IdleOK DEF OpOK, Idle, Operation, PhotoPc
  <1>3. Fits(new, new.pc)
    BY <1>2 DEF Fits, RecordPc, KeyPc, VideoPc, SavePc
  <1>4. OpsOK' /\ used' \in Used /\ used'.edits = used.edits
    BY <1>1, <1>2, <1>3, PressStep
  <1>5. seen' \in Seen
    BY DEF StartPhoto, Typed, RestOK, Seen
  <1>. QED
    BY <1>4, <1>5 DEF Typed, RestOK, EditsCounted, StartPhoto

LEMMA PhotoFits ==
    ASSUME NEW o, NEW pc \in PhotoPc, o.of \in Photos
    PROVE  pc \in Pcs /\ Fits(o, pc)
  BY DEF Pcs, Fits, VideoPc, PhotoPc, SavePc, RecordPc, KeyPc

LEMMA SendingTyped ==
    ASSUME Typed, NEW f \in Slots, Check(f) \/ Send(f) \/ TimedOut(f)
    PROVE  Typed'
  <1>1. op[f].of \in Photos
    BY OpTyped DEF Check, Send, TimedOut, Fits, PhotoPc
  <1>2. \A pc \in {"send", "sent", "mark"} : pc \in Pcs /\ Fits(op[f], pc)
    BY <1>1, PhotoFits DEF PhotoPc
  <1>3. OpsOK'
    BY <1>2, EndStep, GotoStep DEF Typed, Check, Send, TimedOut
  <1>4. screen' \in Screen /\ seen' \in Seen
    BY <1>1 DEF Typed, RestOK, Check, Send, TimedOut, Screen, Store, Seen
  <1>. QED
    BY <1>3, <1>4 DEF Typed, RestOK, EditsCounted, Check, Send, TimedOut

LEMMA AnsweredTyped == ASSUME Typed, NEW f \in Slots, Answered(f) PROVE Typed'
  <1>1. OpsOK'
    <2>1. CASE End(f)
      BY <2>1, EndStep DEF Typed
    <2>2. CASE ~End(f)
      <3> DEFINE ops == [op EXCEPT ![f] = Idle]
      <3>1. /\ ops \in [Slots -> Operation]
            /\ \A g \in Slots : Fits(ops[g], ops[g].pc)
        BY IdleOK DEF Typed, OpsOK, OpOK
      <3>2. op' = Unmounted(ops)
        BY <2>2 DEF Answered
      <3>. QED
        BY <3>1, <3>2, UnmountOK
    <2>. QED
      BY <2>1, <2>2
  <1>. QED
    BY <1>1, MountedTyped DEF Typed, RestOK, EditsCounted, Answered

LEMMA MarkTyped == ASSUME Typed, NEW f \in Slots, Mark(f) PROVE Typed'
  <1> DEFINE marker == MarkerOf(op[f].of)
  <1>1. op[f].of \in Photos /\ marker \in Marker
    BY OpTyped DEF Mark, Fits, PhotoPc, MarkerOf, Marker
  <1>2. store' \in Store
    BY <1>1 DEF Typed, RestOK, Mark, Store
  <1>3. screen' \in Screen
    BY <1>1 DEF Typed, RestOK, Mark, Screen, Marker
  <1>4. seen' \in Seen
    <2>1. PICK lost \in SUBSET {"replaced", "cleared", "unwritten"} :
            seen' = [seen EXCEPT !.unknown = seen.unknown \cup {op[f].of}, !.markerLost = lost]
      <3>1. /\ seen.markerLost \cup {"replaced"} \in SUBSET {"replaced", "cleared", "unwritten"}
            /\ seen.markerLost \cup {"unwritten"} \in SUBSET {"replaced", "cleared", "unwritten"}
            /\ seen.markerLost \in SUBSET {"replaced", "cleared", "unwritten"}
        BY DEF Typed, RestOK, Seen
      <3>. QED
        BY <3>1 DEF Mark
    <2>. QED
      BY <1>1, <2>1 DEF Typed, RestOK, Seen
  <1>5. OpsOK'
    BY EndStep DEF Typed, Mark
  <1>. QED
    BY <1>2, <1>3, <1>4, <1>5 DEF Typed, RestOK, EditsCounted, Mark

LEMMA PhotoTyped == ASSUME Typed, NEW f \in Slots, PhotoStep(f) PROVE Typed'
  BY StartPhotoTyped, SendingTyped, AnsweredTyped, MarkTyped DEF PhotoStep

LEMMA MarkerTyped == ASSUME Typed, ReadMarker \/ Refresh \/ Acknowledge PROVE Typed'
  <1>1. OpsOK'
    BY SameOps, UnmountOK DEF ReadMarker, Refresh, Acknowledge, Typed, OpsOK
  <1>2. screen' \in Screen
    <2>1. CASE Acknowledge
      BY <2>1, MountedTyped DEF Acknowledge
    <2>2. CASE ReadMarker
      BY <2>2 DEF ReadMarker, Typed, RestOK, Screen, Store
    <2>3. CASE Refresh
      <3>1. (screen.marker # None) \in BOOLEAN /\ seen.unknown \in SUBSET Photos
        BY DEF Typed, RestOK, Seen
      <3>. QED
        BY <2>3, <3>1 DEF Refresh, Typed, RestOK, Screen
    <2>. QED
      BY <2>1, <2>2, <2>3
  <1>3. store' \in Store
    BY DEF ReadMarker, Refresh, Acknowledge, Typed, RestOK, Store, Marker
  <1>4. seen' \in Seen
    <2>1. CASE Acknowledge
      <3>1. /\ seen.markerLost \cup {"cleared"} \in SUBSET {"replaced", "cleared", "unwritten"}
            /\ seen.markerLost \in SUBSET {"replaced", "cleared", "unwritten"}
            /\ seen.unknown \ screen.reviewed \in SUBSET Photos
        BY DEF Typed, RestOK, Seen
      <3>2. PICK lost \in SUBSET {"replaced", "cleared", "unwritten"} :
              seen' = [seen EXCEPT !.unknown = seen.unknown \ screen.reviewed, !.markerLost = lost]
        BY <2>1, <3>1 DEF Acknowledge
      <3>. QED
        BY <3>1, <3>2 DEF Typed, RestOK, Seen
    <2>. QED
      BY <2>1 DEF ReadMarker, Refresh, Typed, RestOK
  <1>. QED
    BY <1>1, <1>2, <1>3, <1>4 DEF Typed, RestOK, EditsCounted, ReadMarker, Refresh, Acknowledge

LEMMA PickTyped == ASSUME Typed, NEW x \in phone.items \ Results, Pick(x) PROVE Typed'
  <1>1. x \in Videos \cup Photos
    BY ClientAssumptions DEF Typed, RestOK, Phone
  <1>2. screen' \in Screen
    BY <1>1 DEF Pick, Typed, RestOK, Screen
  <1>. QED
    BY <1>2, SameOps DEF Typed, RestOK, EditsCounted, Pick

-----------------------------------------------------------------------------
(***************************************************************************)
(* Saves.                                                                  *)
(***************************************************************************)
LEMMA StartSaveTyped == ASSUME Typed, NEW f \in Slots, StartSave(f) PROVE Typed'
  <1> DEFINE new == [Idle EXCEPT !.pc = "begin", !.of = screen.picked]
  <1>1. screen.picked \in Results
    BY DEF StartSave
  <1>2. new \in Operation /\ new.pc = "begin" /\ new.of = screen.picked
    BY <1>1, IdleOK DEF OpOK, Idle, Operation, SavePc
  <1>3. Fits(new, new.pc)
    BY <1>1, <1>2 DEF Fits, RecordPc, KeyPc, VideoPc, PhotoPc
  <1>4. OpsOK' /\ used' \in Used /\ used'.edits = used.edits
    BY <1>2, <1>3, PressStep DEF StartSave
  <1>5. seen' \in Seen
    BY <1>1 DEF StartSave, Typed, RestOK, Seen
  <1>. QED
    BY <1>4, <1>5 DEF Typed, RestOK, EditsCounted, StartSave

LEMMA SaveFits ==
    ASSUME NEW o, NEW pc \in SavePc, o.of \in Results
    PROVE  pc \in Pcs /\ Fits(o, pc)
  BY DEF Pcs, Fits, VideoPc, PhotoPc, SavePc, RecordPc, KeyPc

LEMMA SaveOf ==
    ASSUME Typed, NEW f \in Slots, op[f].pc \in SavePc
    PROVE  op[f].of \in Results /\ op[f] \in Operation
  BY OpTyped DEF Fits

LEMMA SaveGoto ==
    ASSUME Typed, NEW f \in Slots, op[f].pc \in SavePc, NEW pc \in SavePc, Goto(f, pc)
    PROVE  OpsOK'
  BY SaveOf, SaveFits, GotoStep DEF Typed

LEMMA DiscardStep ==
    ASSUME Typed, NEW f \in Slots, op[f].pc \in SavePc, NEW then \in {"idle", "fail"},
           Discard(f, then)
    PROVE  OpsOK'
  <1> DEFINE o == [op[f] EXCEPT !.pc = "discard", !.then = then]
  <1>1. o \in Operation /\ o.pc = "discard" /\ o.of \in Results
    BY SaveOf DEF Operation, SavePc
  <1>2. OpOK(o)
    BY <1>1, SaveFits DEF OpOK, SavePc
  <1>3. op' = [op EXCEPT ![f] = o]
    BY DEF Discard, Typed, OpsOK
  <1>. QED
    BY <1>2, <1>3, SetStep DEF Typed

LEMMA SetTempTyped ==
    ASSUME Typed, NEW f \in Slots, NEW temp \in Temp, SetTemp(f, temp)
    PROVE  phone' \in Phone /\ phone'.version = phone.version
  BY DEF SetTemp, Typed, RestOK, Phone

LEMMA SavesWithTyped ==
    ASSUME Typed, NEW f \in Slots, NEW status \in SaveStatus, SavesWith(f, status)
    PROVE  store' \in Store
  <1>1. op[f].saves \in [Results -> SaveStatus]
    BY OpTyped DEF Operation
  <1>. QED
    BY <1>1 DEF SavesWith, Typed, RestOK, Store

LEMMA ReadSavesTyped == ASSUME Typed, NEW f \in Slots, ReadSaves(f) PROVE Typed'
  <1> DEFINE pc == op[f].pc
             o == [op[f] EXCEPT !.pc = Writing[pc], !.saves = store.saves]
  <1>1. pc \in {"begin", "ahead", "commit", "fail"} /\ pc \in SavePc
    BY DEF ReadSaves, Writing, SavePc
  <1>2. Writing[pc] \in {"beginWrite", "aheadWrite", "commitWrite", "failWrite"}
    BY <1>1 DEF Writing
  <1>3. /\ o \in Operation /\ o.pc = Writing[pc] /\ o.pc \in SavePc /\ o.of = op[f].of
        /\ o.of \in Results
    <2>1. store.saves \in [Results -> SaveStatus]
      BY DEF Typed, RestOK, Store
    <2>2. op[f] \in Operation /\ op[f].of \in Results
      BY <1>1, SaveOf
    <2>. QED
      BY <1>2, <2>1, <2>2 DEF Operation, SavePc
  <1>4. OpOK(o)
    BY <1>3, SaveFits DEF OpOK
  <1>5. \/ op' = [op EXCEPT ![f] = o] \/ End(f) \/ Discard(f, "idle") \/ Discard(f, "fail")
    BY DEF ReadSaves, Typed, OpsOK
  <1>6. OpsOK'
    BY <1>1, <1>4, <1>5, SetStep, EndStep, DiscardStep DEF Typed
  <1>. QED
    BY <1>6 DEF Typed, RestOK, EditsCounted, ReadSaves, Same

LEMMA WriteSavesTyped ==
    ASSUME Typed, NEW f \in Slots,
           BeginWrite(f) \/ AheadWrite(f) \/ CommitWrite(f) \/ FailWrite(f)
    PROVE  Typed'
  <1>1. op[f].pc \in SavePc /\ {"clean", "fail", "import"} \subseteq SavePc
    BY DEF BeginWrite, AheadWrite, CommitWrite, FailWrite, SavePc
  <1>2. OpsOK'
    BY <1>1, SaveGoto, EndStep, DiscardStep
       DEF Typed, BeginWrite, AheadWrite, CommitWrite, FailWrite
  <1>3. store' \in Store
    BY SavesWithTyped
       DEF SaveStatus, BeginWrite, AheadWrite, CommitWrite, FailWrite, Typed, RestOK
  <1>. QED
    BY <1>2, <1>3
       DEF Typed, RestOK, EditsCounted, BeginWrite, AheadWrite, CommitWrite, FailWrite, Same

LEMMA DownloadTyped ==
    ASSUME Typed, NEW f \in Slots, Clean(f) \/ Fetch(f) \/ Arrive(f)
    PROVE  Typed'
  <1>1. op[f].pc \in SavePc /\ {"fetch", "arriving", "verify"} \subseteq SavePc
    BY DEF Clean, Fetch, Arrive, SavePc
  <1>2. OpsOK'
    BY <1>1, SaveGoto, DiscardStep DEF Clean, Fetch, Arrive
  <1>3. phone' \in Phone /\ phone'.version = phone.version
    BY SetTempTyped DEF Clean, Fetch, Arrive, Temp, Typed, RestOK
  <1>. QED
    BY <1>2, <1>3 DEF Typed, RestOK, EditsCounted, Clean, Fetch, Arrive, Same

LEMMA ConsentTyped == ASSUME Typed, NEW f \in Slots, Verify(f) \/ Ask(f) PROVE Typed'
  <1>1. op[f].pc \in SavePc /\ {"ask", "ahead"} \subseteq SavePc
    BY DEF Verify, Ask, SavePc
  <1>2. OpsOK'
    BY <1>1, SaveGoto, DiscardStep DEF Verify, Ask
  <1>. QED
    BY <1>2 DEF Typed, RestOK, EditsCounted, Verify, Ask, Same

LEMMA ImportTyped == ASSUME Typed, NEW f \in Slots, Import(f) PROVE Typed'
  <1>1. op[f].pc \in SavePc /\ "commit" \in SavePc /\ op[f].of \in Results
    BY SaveOf DEF Import, SavePc
  <1>2. OpsOK'
    BY <1>1, SaveGoto, DiscardStep DEF Import
  <1>3. phone' \in Phone /\ phone'.version = phone.version
    <2> DEFINE r == op[f].of
    <2>1. /\ [phone.copies EXCEPT ![r] = phone.copies[r] + 1] \in [Results -> Nat]
          /\ phone.damaged \cup {r} \in SUBSET Results /\ phone.damaged \in SUBSET Results
      BY <1>1 DEF Typed, RestOK, Phone
    <2>2. PICK copies \in [Results -> Nat], damaged \in SUBSET Results :
            phone' = [phone EXCEPT !.copies = copies, !.damaged = damaged] \/ phone' = phone
      BY <2>1 DEF Import, Typed, RestOK, Phone
    <2>. QED
      BY <2>2 DEF Typed, RestOK, Phone
  <1>. QED
    BY <1>2, <1>3 DEF Typed, RestOK, EditsCounted, Import, Same

LEMMA DiscardTempTyped == ASSUME Typed, NEW f \in Slots, DiscardTemp(f) PROVE Typed'
  <1>1. op[f].pc \in SavePc /\ "fail" \in SavePc
    BY DEF DiscardTemp, SavePc
  <1>2. OpOK([op[f] EXCEPT !.pc = "fail"])
    BY <1>1, SaveOf, SaveFits, PcOK
  <1>3. OpsOK'
    BY <1>2, IdleOK, SetStep DEF DiscardTemp, Typed
  <1>4. phone' \in Phone /\ phone'.version = phone.version
    BY SetTempTyped DEF DiscardTemp, Temp
  <1>. QED
    BY <1>3, <1>4 DEF Typed, RestOK, EditsCounted, DiscardTemp, Same

LEMMA SaveTyped == ASSUME Typed, NEW f \in Slots, SaveStep(f) PROVE Typed'
  BY StartSaveTyped, ReadSavesTyped, WriteSavesTyped, DownloadTyped, ConsentTyped, ImportTyped,
     DiscardTempTyped DEF SaveStep

LEMMA SweepTyped ==
    ASSUME Typed, ShowSaved \/ ListTemps \/ \E r \in Results : SweepTemp(r)
    PROVE  Typed'
  <1>1. op' = op
    BY DEF ShowSaved, ListTemps, SweepTemp
  <1>2. screen' \in Screen
    BY DEF ShowSaved, ListTemps, SweepTemp, Typed, RestOK, Screen
  <1>3. phone' \in Phone /\ phone'.version = phone.version
    <2>1. CASE ListTemps
      <3>1. {r \in Results : store.saves[r] # "none"} \in SUBSET Results
        OBVIOUS
      <3>. QED
        BY <2>1, <3>1 DEF ListTemps, Typed, RestOK, Phone
    <2>2. ASSUME NEW r \in Results, SweepTemp(r)
          PROVE  phone' \in Phone /\ phone'.version = phone.version
      <3>1. /\ phone.sweep \ {r} \in SUBSET Results
            /\ [phone.temp EXCEPT ![r] = "none"] \in [Results -> Temp]
        BY DEF Typed, RestOK, Phone, Temp
      <3>2. phone' = [phone EXCEPT !.sweep = phone.sweep \ {r},
                                   !.temp = [phone.temp EXCEPT ![r] = "none"]]
        BY <2>2 DEF SweepTemp, Typed, RestOK, Phone
      <3>. QED
        BY <3>1, <3>2 DEF Typed, RestOK, Phone
    <2>. QED
      BY <2>1, <2>2 DEF ShowSaved, Typed, RestOK
  <1>. QED
    BY <1>1, <1>2, <1>3, SameOps
       DEF Typed, RestOK, EditsCounted, ShowSaved, ListTemps, SweepTemp

-----------------------------------------------------------------------------
(***************************************************************************)
(* The app.                                                                *)
(***************************************************************************)
LEMMA NavigateTyped == ASSUME Typed, Navigate PROVE Typed'
  <1>1. OpsOK'
    BY UnmountOK DEF Navigate, Typed, OpsOK
  <1>2. screen' \in Screen
    BY MountedTyped DEF Navigate
  <1>. QED
    BY <1>1, <1>2 DEF Typed, RestOK, EditsCounted, Navigate

LEMMA AllIdle == ASSUME op' = [f \in Slots |-> Idle] PROVE OpsOK'
  BY IdleOK DEF OpsOK, OpOK, Fits

LEMMA KillTyped == ASSUME Typed, Kill PROVE Typed'
  <1>1. OpsOK'
    BY AllIdle DEF Kill
  <1>2. screen' \in Screen
    BY MountedTyped DEF Kill
  <1>3. phone' \in Phone /\ phone'.version = phone.version
    BY DEF Kill, Typed, RestOK, Phone
  <1>4. used' \in Used /\ used'.edits = used.edits
    BY ClientAssumptions DEF Kill, Typed, RestOK, Used
  <1>. QED
    BY <1>1, <1>2, <1>3, <1>4 DEF Typed, RestOK, EditsCounted, Kill

LEMMA InitTyped == ASSUME Init PROVE Typed
  <1>1. OpsOK
    BY IdleOK DEF Init, OpsOK, OpOK
  <1>2. screen \in Screen /\ session \in [Keys -> Session] /\ seen \in Seen
    BY MountedTyped DEF Init, Session, Stage, Seen
  <1>3. store \in Store
    BY DEF Init, Store, NoSaves, SaveStatus, Marker
  <1>4. 0 \in 0..MaxEdits /\ 0 \in 0..MaxTaps /\ 0 \in 0..MaxKills
    BY ClientAssumptions
  <1>5. phone \in Phone /\ used \in Used /\ EditsCounted
    BY <1>4 DEF Init, Phone, Temp, Used, EditsCounted
  <1>. QED
    BY <1>1, <1>2, <1>3, <1>5 DEF Typed, RestOK

LEMMA NextTyped == ASSUME Typed, [Next]_vars PROVE Typed'
  <1>1. CASE UNCHANGED vars
    BY <1>1, SameOps DEF vars, Typed, RestOK, EditsCounted
  <1>2. ASSUME NEW f \in Slots, VideoStep(f) \/ PhotoStep(f) \/ SaveStep(f) PROVE Typed'
    BY <1>2, VideoTyped, PhotoTyped, SaveTyped
  <1>3. ASSUME NEW v \in Videos, Edit(v) PROVE Typed'
    BY <1>3, EditTyped
  <1>4. ASSUME NEW k \in Keys, Settle(k) PROVE Typed'
    BY <1>4, SettleTyped
  <1>5. ASSUME NEW x \in phone.items \ Results, Pick(x) PROVE Typed'
    BY <1>5, PickTyped
  <1>. QED
    BY <1>1, <1>2, <1>3, <1>4, <1>5, MarkerTyped, SweepTyped, NavigateTyped, KillTyped DEF Next

LEMMA AlwaysTyped == Spec => []Typed
  BY InitTyped, NextTyped, PTL DEF Spec

\* Every part of the client's state has its type, whatever its sizes and bounds.
THEOREM ClientTypeCorrect == Spec => []TypeOK
  <1>1. Typed => TypeOK
    BY DEF Typed, OpsOK, RestOK, Used, TypeOK
  <1>. QED
    BY <1>1, AlwaysTyped, PTL

-----------------------------------------------------------------------------
(***************************************************************************)
(* What is shown as saved is in the photo library. An operation writes     *)
(* back all the records it has read, so those it holds must be true as     *)
(* well; and it writes "saved" only after its own import.                  *)
(***************************************************************************)
Backed(o, copies) ==
    /\ \A r \in Results : o.saves[r] = "saved" => copies[r] > 0
    /\ o.pc \in {"commit", "commitWrite"} => copies[o.of] > 0
Honest == SavedIsTrue /\ \A f \in Slots : Backed(op[f], phone.copies)

\* An operation goes on without a result saved, read or written.
GoesOn(o, new) ==
    /\ new.saves \in {o.saves, NoSaves}
    /\ new.pc \in {"commit", "commitWrite"} => new.pc = o.pc /\ new.of = o.of
Quiet == \A f \in Slots : GoesOn(op[f], op'[f])

LEMMA QuietStep ==
    ASSUME Honest, Quiet, store'.saves = store.saves, phone'.copies = phone.copies
    PROVE  Honest'
  <1>1. \A r \in Results : NoSaves[r] # "saved"
    BY DEF NoSaves
  <1>2. ASSUME NEW f \in Slots PROVE Backed(op'[f], phone'.copies)
    BY <1>1 DEF Honest, Quiet, GoesOn, Backed
  <1>3. SavedIsTrue'
    BY DEF Honest, SavedIsTrue
  <1>. QED
    BY <1>2, <1>3 DEF Honest, Backed

LEMMA SetQuiet ==
    ASSUME Typed, NEW f \in Slots, NEW o, GoesOn(op[f], o), op' = [op EXCEPT ![f] = o]
    PROVE  Quiet
  BY DEF Typed, OpsOK, Quiet, GoesOn

LEMMA IdleGoesOn == ASSUME NEW o PROVE GoesOn(o, Idle)
  BY DEF GoesOn, Idle

LEMMA PcGoesOn ==
    ASSUME NEW o \in Operation, NEW pc, pc \notin {"commit", "commitWrite"}
    PROVE  GoesOn(o, [o EXCEPT !.pc = pc])
  BY DEF GoesOn, Operation

LEMMA EndQuiet == ASSUME Typed, NEW f \in Slots, End(f) PROVE Quiet
  BY SetQuiet, IdleGoesOn DEF End

LEMMA GotoQuiet ==
    ASSUME Typed, NEW f \in Slots, NEW pc, pc \notin {"commit", "commitWrite"}, Goto(f, pc)
    PROVE  Quiet
  <1>1. CASE End(f)
    BY <1>1, EndQuiet
  <1>2. CASE ~End(f)
    <2>1. op' = [op EXCEPT ![f] = [op[f] EXCEPT !.pc = pc]]
      BY <1>2 DEF Goto
    <2>. QED
      BY <2>1, OpTyped, PcGoesOn, SetQuiet
  <1>. QED
    BY <1>1, <1>2

LEMMA DiscardQuiet == ASSUME Typed, NEW f \in Slots, NEW then, Discard(f, then) PROVE Quiet
  <1> DEFINE o == [op[f] EXCEPT !.pc = "discard", !.then = then]
  <1>1. GoesOn(op[f], o)
    BY OpTyped DEF GoesOn, Operation
  <1>2. op' = [op EXCEPT ![f] = o]
    BY DEF Discard, Typed, OpsOK
  <1>. QED
    BY <1>1, <1>2, SetQuiet

LEMMA PressQuiet ==
    ASSUME Typed, NEW f \in Slots, NEW new \in Operation, Press(f, new),
           new.saves = NoSaves, new.pc \notin {"commit", "commitWrite"}
    PROVE  Quiet
  <1>1. GoesOn(op[f], [new EXCEPT !.live = TRUE])
    BY DEF GoesOn, Operation
  <1>. QED
    BY <1>1, SetQuiet DEF Press

LEMMA SameQuiet == ASSUME op' = op PROVE Quiet
  BY DEF Quiet, GoesOn

LEMMA UnmountQuiet == ASSUME Typed, op' = Unmounted(op) PROVE Quiet
  <1>1. ASSUME NEW f \in Slots PROVE GoesOn(op[f], op'[f])
    <2>1. op'[f] = [op[f] EXCEPT !.live = FALSE]
      BY DEF Unmounted
    <2>. QED
      BY <2>1, OpTyped DEF GoesOn, Operation
  <1>. QED
    BY <1>1 DEF Quiet

-----------------------------------------------------------------------------
\* Uploads leave saves alone.
LEMMA VideoHonest == ASSUME Typed, Honest, NEW f \in Slots, VideoStep(f) PROVE Honest'
  <1>1. CASE StartVideo(f)
    <2>1. PICK v \in Videos :
              Press(f, [Idle EXCEPT !.pc = "read", !.of = v, !.version = phone.version[v]])
      BY <1>1 DEF StartVideo
    <2> DEFINE new == [Idle EXCEPT !.pc = "read", !.of = v, !.version = phone.version[v]]
    <2>2. new \in Operation /\ new.saves = NoSaves /\ new.pc = "read"
      BY IdleOK DEF OpOK, Idle, Operation, VideoPc, Typed, RestOK, Phone
    <2>. QED
      BY <1>1, <2>1, <2>2, PressQuiet, QuietStep DEF StartVideo
  <1>2. CASE ReadRecord(f)
    <2> DEFINE o ==
          IF SameVideo(f) /\ store.resume.version = op[f].version
          THEN [op[f] EXCEPT !.key = store.resume.key,
                             !.pc = IF store.resume.sid THEN "get" ELSE "create"]
          ELSE IF SameVideo(f) THEN [op[f] EXCEPT !.key = store.resume.key, !.pc = "drop"]
          ELSE [op[f] EXCEPT !.pc = "keep"]
    <2>1. GoesOn(op[f], o)
      BY OpTyped DEF GoesOn, Operation
    <2>. QED
      BY <1>2, <2>1, SetQuiet, QuietStep DEF ReadRecord
  <1>3. CASE KeepRecord(f)
    <2> DEFINE o == [op[f] EXCEPT !.key = used.keys + 1, !.pc = "create"]
    <2>1. GoesOn(op[f], o)
      BY OpTyped DEF GoesOn, Operation
    <2>2. op' = [op EXCEPT ![f] = o] /\ store'.saves = store.saves /\ phone' = phone
      BY <1>3 DEF KeepRecord, Typed, RestOK, OpsOK, Store
    <2>. QED
      BY <2>1, <2>2, SetQuiet, QuietStep
  <1>4. ASSUME NEW k, NEW s, NEW pc \in VideoPc \cup {"idle"}, Answer(f, k, s, pc)
        PROVE  Honest'
    <2>1. Goto(f, pc) \/ End(f)
      BY <1>4 DEF Answer
    <2>. QED
      BY <1>4, <2>1, GotoQuiet, EndQuiet, QuietStep DEF Answer, VideoPc
  <1>5. CASE Create(f) \/ Put(f) \/ Finalize(f) \/ Delete(f)
    BY <1>4, <1>5 DEF Create, Put, Finalize, Delete, VideoPc
  <1>6. CASE NoteId(f) \/ NoteProgress(f) \/ Poll(f)
    BY <1>6, GotoQuiet, EndQuiet, QuietStep DEF NoteId, NoteProgress, ReadOwn, Poll
  <1>7. CASE WriteId(f) \/ WriteProgress(f)
    <2>1. /\ Goto(f, "get") \/ Goto(f, "finalize")
          /\ store'.saves = store.saves /\ phone' = phone
      BY <1>7 DEF WriteId, WriteProgress, Stored, Typed, RestOK, Store
    <2>. QED
      BY <2>1, GotoQuiet, QuietStep
  <1>8. CASE Get(f)
    <2>1. CASE End(f)
      BY <1>8, <2>1, EndQuiet, QuietStep DEF Get
    <2>2. CASE ~End(f)
      <3> DEFINE then == IF session[op[f].key].stage = "closed" THEN "dropAny" ELSE "idle"
                 o(pc) == [op[f] EXCEPT !.pc = pc, !.then = then]
      <3>1. After(session[op[f].key]) \subseteq {"done", "drop", "dropAny", "finalize", "put"}
        BY DEF After
      <3>2. PICK pc \in After(session[op[f].key]) :
                op' = [op EXCEPT ![f].pc = pc, ![f].then = then]
        BY <1>8, <2>2 DEF Get
      <3>3. op' = [op EXCEPT ![f] = o(pc)]
        BY <3>2 DEF Typed, OpsOK
      <3>4. GoesOn(op[f], o(pc))
        BY <3>1, <3>2, OpTyped DEF GoesOn, Operation
      <3>. QED
        BY <1>8, <3>3, <3>4, SetQuiet, QuietStep DEF Get
    <2>. QED
      BY <2>1, <2>2
  <1>9. CASE Uploaded(f)
    <2>1. ASSUME NEW g \in Slots PROVE GoesOn(op[g], op'[g])
      <3>1. op'[g] = IF g = f THEN [op[g] EXCEPT !.live = FALSE, !.pc = "map"]
                     ELSE [op[g] EXCEPT !.live = FALSE]
        BY <1>9 DEF Uploaded, Unmounted
      <3>. QED
        BY <3>1, OpTyped DEF GoesOn, Operation
    <2>. QED
      BY <1>9, <2>1, QuietStep DEF Quiet, Uploaded
  <1>10. CASE SaveMapping(f)
    <2>1. store'.saves = store.saves
      BY <1>10 DEF SaveMapping, Typed, RestOK, Store
    <2>. QED
      BY <1>10, <2>1, GotoQuiet, QuietStep DEF SaveMapping
  <1>11. CASE Drop(f) \/ DropAny(f)
    <2>1. op[f].then \in {"idle", "dropAny", "fail"}
      BY OpTyped DEF Operation
    <2>. QED
      BY <1>11, <2>1, GotoQuiet, EndQuiet, QuietStep DEF Drop, DropAny
  <1>12. CASE RemoveRecord(f)
    <2>1. GoesOn(op[f], [op[f] EXCEPT !.pc = "dropAny"]) /\ GoesOn(op[f], Idle)
      BY OpTyped, PcGoesOn, IdleGoesOn
    <2>2. store'.saves = store.saves /\ phone' = phone
      BY <1>12 DEF RemoveRecord, Typed, RestOK, Store
    <2>. QED
      BY <1>12, <2>1, <2>2, SetQuiet, QuietStep DEF RemoveRecord
  <1>13. CASE CancelVideo(f)
    <2> DEFINE new == [Idle EXCEPT !.pc = "delete", !.key = screen.shown]
    <2>1. screen.shown \in Keys
      BY <1>13 DEF CancelVideo, CanCancel, Typed, RestOK, Screen
    <2>2. new \in Operation /\ new.saves = NoSaves /\ new.pc = "delete"
      BY <2>1, IdleOK DEF OpOK, Idle, Operation, VideoPc
    <2>. QED
      BY <1>13, <2>2, PressQuiet, QuietStep DEF CancelVideo
  <1>. QED
    BY <1>1, <1>2, <1>3, <1>5, <1>6, <1>7, <1>8, <1>9, <1>10, <1>11, <1>12, <1>13
       DEF VideoStep

LEMMA PhotoHonest == ASSUME Typed, Honest, NEW f \in Slots, PhotoStep(f) PROVE Honest'
  <1>1. CASE StartPhoto(f)
    <2>1. PICK p \in Photos : Press(f, [Idle EXCEPT !.pc = "check", !.of = p])
      BY <1>1 DEF StartPhoto
    <2> DEFINE new == [Idle EXCEPT !.pc = "check", !.of = p]
    <2>2. new \in Operation /\ new.saves = NoSaves /\ new.pc = "check"
      BY IdleOK DEF OpOK, Idle, Operation, PhotoPc
    <2>. QED
      BY <1>1, <2>1, <2>2, PressQuiet, QuietStep DEF StartPhoto
  <1>2. CASE Check(f) \/ Send(f) \/ TimedOut(f)
    BY <1>2, GotoQuiet, EndQuiet, QuietStep DEF Check, Send, TimedOut
  <1>3. CASE Answered(f)
    <2>1. CASE End(f)
      BY <1>3, <2>1, EndQuiet, QuietStep DEF Answered
    <2>2. CASE ~End(f)
      <3>1. ASSUME NEW g \in Slots PROVE GoesOn(op[g], op'[g])
        <4>1. op'[g] = IF g = f THEN [Idle EXCEPT !.live = FALSE]
                       ELSE [op[g] EXCEPT !.live = FALSE]
          BY <1>3, <2>2 DEF Answered, Unmounted, Typed, OpsOK
        <4>. QED
          BY <4>1, OpTyped DEF GoesOn, Operation, Idle
      <3>. QED
        BY <1>3, <3>1, QuietStep DEF Quiet, Answered
    <2>. QED
      BY <2>1, <2>2
  <1>4. CASE Mark(f)
    <2>1. store'.saves = store.saves
      BY <1>4 DEF Mark, Typed, RestOK, Store
    <2>. QED
      BY <1>4, <2>1, EndQuiet, QuietStep DEF Mark
  <1>. QED
    BY <1>1, <1>2, <1>3, <1>4 DEF PhotoStep

-----------------------------------------------------------------------------
\* Copies are only added, and a record says "saved" after an import or a read of "saved".
LEMMA WriteHonest ==
    ASSUME Typed, Honest, NEW f \in Slots, NEW status \in SaveStatus, SavesWith(f, status),
           status = "saved" => phone.copies[op[f].of] > 0, phone' = phone, Quiet
    PROVE  Honest'
  <1>1. op[f].saves \in [Results -> SaveStatus] /\ Backed(op[f], phone.copies)
    BY OpTyped DEF Operation, Honest
  <1>2. store'.saves = [op[f].saves EXCEPT ![op[f].of] = status]
    BY DEF SavesWith, Typed, RestOK, Store
  <1>3. SavedIsTrue'
    BY <1>1, <1>2 DEF SavedIsTrue, Backed
  <1>4. ASSUME NEW g \in Slots PROVE Backed(op'[g], phone'.copies)
    <2>1. \A r \in Results : NoSaves[r] # "saved"
      BY DEF NoSaves
    <2>. QED
      BY <2>1 DEF Honest, Quiet, GoesOn, Backed
  <1>. QED
    BY <1>3, <1>4 DEF Honest, Backed

LEMMA SaveHonest == ASSUME Typed, Honest, NEW f \in Slots, SaveStep(f) PROVE Honest'
  <1>1. CASE StartSave(f)
    <2> DEFINE new == [Idle EXCEPT !.pc = "begin", !.of = screen.picked]
    <2>1. new \in Operation /\ new.saves = NoSaves /\ new.pc = "begin"
      BY <1>1, IdleOK DEF StartSave, OpOK, Idle, Operation, SavePc
    <2>. QED
      BY <1>1, <2>1, PressQuiet, QuietStep DEF StartSave
  <1>2. CASE ReadSaves(f)
    <2> DEFINE o == [op[f] EXCEPT !.pc = Writing[op[f].pc], !.saves = store.saves]
    <2>1. UNCHANGED <<store, phone>>
      BY <1>2 DEF ReadSaves
    <2>2. CASE op' = [op EXCEPT ![f] = o]
      <3>1. /\ op[f].pc \in {"begin", "ahead", "commit", "fail"}
            /\ Writing[op[f].pc] = "commitWrite" => op[f].pc = "commit"
            /\ Writing[op[f].pc] # "commit"
        BY <1>2 DEF ReadSaves, Writing
      <3>2. /\ o.saves = store.saves /\ o.of = op[f].of /\ o.pc = Writing[op[f].pc]
            /\ Backed(op[f], phone.copies)
        BY OpTyped DEF Operation, Honest
      <3>3. Backed(o, phone.copies)
        BY <3>1, <3>2 DEF Backed, Honest, SavedIsTrue
      <3>4. \A g \in Slots : op'[g] = IF g = f THEN o ELSE op[g]
        BY <2>2 DEF Typed, OpsOK
      <3>. QED
        BY <2>1, <3>3, <3>4 DEF Honest, SavedIsTrue, Backed
    <2>3. CASE op' # [op EXCEPT ![f] = o]
      <3>1. End(f) \/ Discard(f, "idle") \/ Discard(f, "fail")
        BY <1>2, <2>3 DEF ReadSaves, Typed, OpsOK
      <3>. QED
        BY <2>1, <3>1, EndQuiet, DiscardQuiet, QuietStep
    <2>. QED
      BY <2>2, <2>3
  <1>3. CASE BeginWrite(f)
    BY <1>3, GotoQuiet, QuietStep, WriteHonest DEF BeginWrite, SaveStatus
  <1>4. CASE AheadWrite(f)
    BY <1>4, GotoQuiet, DiscardQuiet, QuietStep, WriteHonest DEF AheadWrite, SaveStatus
  <1>5. CASE CommitWrite(f)
    <2>1. phone.copies[op[f].of] > 0
      BY <1>5 DEF CommitWrite, Honest, Backed
    <2>. QED
      BY <1>5, <2>1, DiscardQuiet, QuietStep, WriteHonest DEF CommitWrite, SaveStatus
  <1>6. CASE FailWrite(f)
    BY <1>6, EndQuiet, QuietStep, WriteHonest DEF FailWrite, SaveStatus
  <1>7. ASSUME NEW temp, SetTemp(f, temp) PROVE phone'.copies = phone.copies
    BY <1>7 DEF SetTemp, Typed, RestOK, Phone
  <1>8. CASE Clean(f) \/ Fetch(f) \/ Arrive(f)
    BY <1>7, <1>8, GotoQuiet, DiscardQuiet, QuietStep DEF Clean, Fetch, Arrive, Same
  <1>9. CASE Verify(f) \/ Ask(f)
    BY <1>9, GotoQuiet, DiscardQuiet, QuietStep DEF Verify, Ask, Same
  <1>10. CASE Import(f)
    <2> DEFINE r == op[f].of
    <2>1. CASE Discard(f, "fail") /\ UNCHANGED phone
      BY <1>10, <2>1, DiscardQuiet, QuietStep DEF Import
    <2>2. CASE ~(Discard(f, "fail") /\ UNCHANGED phone)
      <3>1. op[f] \in Operation /\ r \in Results
        BY <1>10, SaveOf DEF Import, SavePc
      <3>2. /\ phone'.copies = [phone.copies EXCEPT ![r] = phone.copies[r] + 1]
            /\ phone.copies \in [Results -> Nat]
        BY <1>10, <2>2 DEF Import, Typed, RestOK, Phone
      <3>3. phone'.copies[r] > 0 /\ \A q \in Results : phone.copies[q] > 0 => phone'.copies[q] > 0
        BY <3>1, <3>2
      <3>4. op' = [op EXCEPT ![f] = [op[f] EXCEPT !.pc = "commit"]]
        BY <1>10, <2>2 DEF Import, Goto
      <3>5. ASSUME NEW g \in Slots PROVE Backed(op'[g], phone'.copies)
        <4>1. Backed(op[g], phone.copies) /\ op[g] \in Operation
          BY OpTyped DEF Honest
        <4>2. op[g].pc \in {"commit", "commitWrite"} => op[g].of \in Results
          BY SaveOf DEF SavePc
        <4>3. CASE g = f
          <5>1. op'[g].pc = "commit" /\ op'[g].of = r /\ op'[g].saves = op[g].saves
            BY <3>4, <4>1, <4>3 DEF Typed, OpsOK, Operation
          <5>. QED
            BY <3>3, <4>1, <5>1 DEF Backed
        <4>4. CASE g # f
          <5>1. op'[g] = op[g]
            BY <3>4, <4>4 DEF Typed, OpsOK
          <5>. QED
            BY <3>3, <4>1, <4>2, <5>1 DEF Backed
        <4>. QED
          BY <4>3, <4>4
      <3>6. SavedIsTrue'
        BY <1>10, <3>3 DEF Import, Honest, SavedIsTrue
      <3>. QED
        BY <3>5, <3>6 DEF Honest, Backed
    <2>. QED
      BY <2>1, <2>2
  <1>11. CASE DiscardTemp(f)
    <2>1. GoesOn(op[f], [op[f] EXCEPT !.pc = "fail"]) /\ GoesOn(op[f], Idle)
      BY OpTyped, PcGoesOn, IdleGoesOn
    <2>. QED
      BY <1>7, <1>11, <2>1, SetQuiet, QuietStep DEF DiscardTemp
  <1>. QED
    BY <1>1, <1>2, <1>3, <1>4, <1>5, <1>6, <1>8, <1>9, <1>10, <1>11 DEF SaveStep

LEMMA OthersHonest ==
    ASSUME Typed, Honest,
           \/ Navigate \/ Kill \/ ReadMarker \/ Refresh \/ Acknowledge
           \/ \E x \in phone.items \ Results : Pick(x)
           \/ \E k \in Keys : Settle(k)
           \/ \E v \in Videos : Edit(v)
           \/ ShowSaved \/ ListTemps \/ \E r \in Results : SweepTemp(r)
    PROVE  Honest'
  <1>1. store'.saves = store.saves
    BY DEF Navigate, Kill, ReadMarker, Refresh, Acknowledge, Pick, Settle, Edit, ShowSaved,
           ListTemps, SweepTemp, Typed, RestOK, Store
  <1>2. phone'.copies = phone.copies
    BY DEF Navigate, Kill, ReadMarker, Refresh, Acknowledge, Pick, Settle, Edit, ShowSaved,
           ListTemps, SweepTemp, Typed, RestOK, Phone
  <1>3. op' = op \/ op' = Unmounted(op) \/ op' = [f \in Slots |-> Idle]
    BY DEF Navigate, Kill, ReadMarker, Refresh, Acknowledge, Pick, Settle, Edit, ShowSaved,
           ListTemps, SweepTemp
  <1>4. Quiet
    BY <1>3, SameQuiet, UnmountQuiet, IdleGoesOn DEF Quiet
  <1>. QED
    BY <1>1, <1>2, <1>4, QuietStep

LEMMA InitHonest == ASSUME Init PROVE Honest
  BY DEF Init, Honest, SavedIsTrue, Backed, Idle, NoSaves

LEMMA NextHonest == ASSUME Typed, Honest, [Next]_vars PROVE Honest'
  <1>1. CASE UNCHANGED vars
    BY <1>1, SameQuiet, QuietStep DEF vars
  <1>2. CASE Next
    BY <1>2, VideoHonest, PhotoHonest, SaveHonest, OthersHonest DEF Next
  <1>. QED
    BY <1>1, <1>2

(***************************************************************************)
(* A result is shown as saved only if the photo library holds a copy,      *)
(* however many saves overlap and wherever the app is killed.              *)
(***************************************************************************)
THEOREM SavedIsInLibrary == Spec => []SavedIsTrue
  <1>1. Honest => SavedIsTrue
    BY DEF Honest
  <1>. QED
    BY <1>1, InitHonest, NextHonest, AlwaysTyped, PTL DEF Spec
=============================================================================

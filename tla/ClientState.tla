---------------------------- MODULE ClientState ----------------------------
(***************************************************************************)
(* The state of the app while it uploads and saves. An operation is one    *)
(* press of Upload, Cancel or Save running as an async function: it        *)
(* outlives the screen that started it, and the next instance of that      *)
(* screen starts with its in-flight references empty. Records in           *)
(* AsyncStorage and the photo library survive a kill of the app; screens   *)
(* and operations do not. The backend is what UploadContract promises.     *)
(***************************************************************************)
EXTENDS Integers, FiniteSets

CONSTANTS
    Videos,      \* videos of the photo library, uploaded in sessions
    Photos,      \* photos, uploaded in one request
    Anonymous,   \* the photos picked without a local asset id
    Results,     \* processed results that can be saved
    Slots,       \* operations that may run at once
    Mixes,       \* bound: the sets of the above that one behaviour works with
    None,
    MaxTaps,     \* bound: presses that start an operation
    MaxBehind,   \* bound: presses of a behaviour in which operations overlap
    MaxKills,    \* bound: kills of the app
    MaxEdits,    \* bound: edits of a video between two uploads
    Editable     \* bound: the videos that are edited

VARIABLES
    screen,    \* the mounted screen and the state of its hooks
    op,        \* operations running
    store,     \* AsyncStorage
    phone,     \* what the user works with, the videos' contents, temporary files, copies
    session,   \* upload sessions on the backend, by client_upload_id
    seen,      \* what has happened (history)
    used       \* taps, kills, edits and client_upload_ids so far

vars == <<screen, op, store, phone, session, seen, used>>

Keys == 1..MaxTaps
Stage == {"absent", "open", "submitted", "retryable", "rejected", "stored", "closed"}
Session == [stage: Stage, chunk: BOOLEAN]

\* mediavault.uploadResultUnknown: a photo, or "global" for an unidentified one.
Marker == Photos \cup {"global", None}
MarkerOf(p) == IF p \in Anonymous THEN "global" ELSE p
Blocks(marker, p) == marker = "global" \/ (marker = p /\ p \notin Anonymous)

SaveStatus == {"none", "downloading", "unknown", "saved", "failed"}
Resume == [video: Videos, version: 0..MaxEdits, key: Keys, sid: BOOLEAN]
Temp == {"none", "partial", "whole", "bad"}

Store ==
    [resume: Resume \cup {None}, mapped: SUBSET Keys, marker: Marker,
     saves: [Results -> SaveStatus]]
Phone ==
    [items: Mixes, version: [Videos -> 0..MaxEdits], temp: [Results -> Temp],
     copies: [Results -> Nat], damaged: SUBSET Results,
     listing: BOOLEAN, sweep: SUBSET Results]
Screen ==
    [route: {"settings", "picker", "assets", "detail"},
     picked: Videos \cup Photos \cup Results \cup {None}, shown: Keys \cup {None},
     over: BOOLEAN, marker: Marker \cup {"loading"}, canAck: BOOLEAN,
     reviewed: SUBSET Photos, saved: BOOLEAN]
VideoPc ==
    {"read", "keep", "create", "id", "idWrite", "get", "put", "progress",
     "progressWrite", "finalize", "poll", "done", "map", "delete", "drop", "dropWrite",
     "dropAny", "dropAnyWrite"}
PhotoPc == {"check", "send", "sent", "mark"}
SavePc ==
    {"begin", "beginWrite", "clean", "fetch", "arriving", "verify", "ask", "ahead",
     "aheadWrite", "import", "commit", "commitWrite", "discard", "fail", "failWrite"}
Operation ==
    [pc: {"idle"} \cup VideoPc \cup PhotoPc \cup SavePc, live: BOOLEAN,
     of: Videos \cup Photos \cup Results \cup {None}, version: 0..MaxEdits,
     key: Keys \cup {None}, saves: [Results -> SaveStatus],
     then: {"idle", "dropAny", "fail"}]
Seen ==
    [replaced: SUBSET Keys, unmapped: SUBSET Keys, unknown: SUBSET Photos,
     resent: SUBSET Photos, markerLost: SUBSET {"replaced", "cleared", "unwritten"},
     retried: SUBSET Results, overlapped: BOOLEAN]

NoSaves == [r \in Results |-> "none"]
Idle ==
    [pc |-> "idle", live |-> FALSE, of |-> None, version |-> 0, key |-> None,
     saves |-> NoSaves, then |-> "idle"]
\* A screen just mounted: it has yet to read the marker.
Mounted(route, x) ==
    [route |-> route, picked |-> x, shown |-> None, over |-> FALSE,
     marker |-> "loading", canAck |-> FALSE, reviewed |-> {}, saved |-> FALSE]

ASSUME ClientAssumptions ==
    /\ Anonymous \subseteq Photos
    /\ None \notin Videos \cup Photos \cup Results \cup Resume \cup {"global"}
    /\ Editable \subseteq Videos
    /\ \A items \in Mixes : items \subseteq Videos \cup Photos \cup Results
    /\ MaxTaps \in Nat /\ MaxBehind \in 0..MaxTaps /\ MaxKills \in Nat /\ MaxEdits \in Nat

Running == {f \in Slots : op[f].pc # "idle"}
\* inFlightRef, uploadInFlightRef, inFlightIdentityKeyRef of the mounted screen.
InFlight == \E f \in Running : op[f].live

End(f) == op' = [op EXCEPT ![f] = Idle]
Goto(f, pc) == IF pc = "idle" THEN End(f) ELSE op' = [op EXCEPT ![f].pc = pc]
Unmounted(ops) == [f \in Slots |-> [ops[f] EXCEPT !.live = FALSE]]

(***************************************************************************)
(* A press: the operation takes a free slot. Another one still running was *)
(* left behind by its screen.                                              *)
(***************************************************************************)
Press(f, new) ==
    /\ used.taps < (IF seen.overlapped \/ Running # {} THEN MaxBehind ELSE MaxTaps)
    /\ op[f] = Idle /\ ~InFlight
    /\ op' = [op EXCEPT ![f] = [new EXCEPT !.live = TRUE]]
    /\ used' = [used EXCEPT !.taps = @ + 1]

\* Route changes (AppShell) unmount one screen and mount another.
Navigate ==
    /\ \/ \E route \in {"picker", "assets"} : screen' = Mounted(route, None)
       \/ /\ screen.route = "assets"
          /\ \E r \in Results \cap phone.items : screen' = Mounted("detail", r)
    /\ op' = Unmounted(op)
    /\ UNCHANGED <<store, phone, session, seen, used>>

(***************************************************************************)
(* iOS ends the app. What a request or the library does to the backend or  *)
(* the library is done or not done.                                        *)
(***************************************************************************)
Kill ==
    /\ used.kills < MaxKills
    /\ used' = [used EXCEPT !.kills = @ + 1]
    /\ op' = [f \in Slots |-> Idle]
    /\ screen' = Mounted("settings", None)
    /\ phone' = [phone EXCEPT !.listing = phone.items \cap Results # {}, !.sweep = {}]
    /\ UNCHANGED <<store, session, seen>>

Init ==
    /\ screen = Mounted("settings", None)
    /\ op = [f \in Slots |-> Idle]
    /\ store = [resume |-> None, mapped |-> {}, marker |-> None, saves |-> NoSaves]
    /\ \E items \in Mixes :
        phone = [items |-> items, version |-> [v \in Videos |-> 0],
                 temp |-> [r \in Results |-> "none"],
                 copies |-> [r \in Results |-> 0], damaged |-> {},
                 listing |-> items \cap Results # {}, sweep |-> {}]
    /\ session = [k \in Keys |-> [stage |-> "absent", chunk |-> FALSE]]
    /\ seen = [replaced |-> {}, unmapped |-> {}, unknown |-> {}, resent |-> {},
               markerLost |-> {}, retried |-> {}, overlapped |-> FALSE]
    /\ used = [taps |-> 0, kills |-> 0, edits |-> 0, keys |-> 0]
=============================================================================

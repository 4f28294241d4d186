---------------------------- MODULE PhotoUpload ----------------------------
(***************************************************************************)
(* The upload of a photo in one request: useAssetUpload. The outcome of a  *)
(* request that timed out is unknown; a single marker in                   *)
(* uploadResultUnknownStore remembers the photo, and stays until the user  *)
(* has acknowledged a refreshed list of assets (AssetListScreen).          *)
(***************************************************************************)
EXTENDS ClientState

\* useAssetUpload and AssetListScreen read the marker when they are mounted.
ReadMarker ==
    /\ screen.route \in {"picker", "assets"} /\ screen.marker = "loading"
    /\ screen' = [screen EXCEPT !.marker = store.marker]
    /\ UNCHANGED <<op, store, phone, session, seen, used>>

\* pickAsset, also during an upload, but not while a session can be cancelled.
Pick(x) ==
    /\ screen.route = "picker"
    /\ screen.marker \notin {"loading", "global"}
    /\ InFlight \/ screen.shown = None \/ screen.over
    /\ screen' = [screen EXCEPT !.picked = x]
    /\ UNCHANGED <<op, store, phone, session, seen, used>>

StartPhoto(f) ==
    /\ screen.route = "picker" /\ screen.marker # "loading"
    /\ \E p \in Photos :
        /\ screen.picked = p /\ ~Blocks(screen.marker, p)
        /\ Press(f, [Idle EXCEPT !.pc = "check", !.of = p])
    /\ seen' = [seen EXCEPT !.overlapped = @ \/ Running # {}]
    /\ UNCHANGED <<screen, store, phone, session>>

\* Mutant: the marker in memory is trusted.
CheckMemory(f) ==
    /\ op[f].pc = "check"
    /\ IF op[f].live /\ Blocks(screen.marker, op[f].of) THEN End(f) ELSE Goto(f, "send")
    /\ UNCHANGED <<screen, store, phone, session, seen, used>>
\* The stored marker is read once more before the request.
Check(f) ==
    /\ op[f].pc = "check"
    /\ screen' = [screen EXCEPT !.marker = IF op[f].live THEN store.marker ELSE @]
    /\ IF Blocks(store.marker, op[f].of) THEN End(f) ELSE Goto(f, "send")
    /\ UNCHANGED <<store, phone, session, seen, used>>
Send(f) ==
    /\ op[f].pc = "send"
    /\ Goto(f, "sent")
    /\ seen' = [seen EXCEPT !.resent = @ \cup ({op[f].of} \cap seen.unknown)]
    /\ UNCHANGED <<screen, store, phone, session, used>>

\* Only a timeout leaves the outcome unknown; any other error is shown.
Answered(f) ==
    /\ op[f].pc = "sent"
    /\ \/ op' = Unmounted([op EXCEPT ![f] = Idle]) /\ screen' = Mounted("detail", None)
       \/ End(f) /\ UNCHANGED screen
    /\ UNCHANGED <<store, phone, session, seen, used>>
TimedOut(f) ==
    /\ op[f].pc = "sent"
    /\ Goto(f, "mark")
    /\ UNCHANGED <<screen, store, phone, session, seen, used>>

(***************************************************************************)
(* The marker replaces the one there is. If it cannot be stored, the hook  *)
(* blocks every upload for as long as it is mounted.                       *)
(***************************************************************************)
Overwrites(marker) == marker # "global" /\ store.marker \notin {None, marker}
Mark(f) ==
    /\ op[f].pc = "mark"
    /\ LET marker == MarkerOf(op[f].of)
           show(m) == [screen EXCEPT !.marker = IF op[f].live THEN m ELSE @]
       IN  \/ /\ store' = [store EXCEPT !.marker = marker]
              /\ screen' = show(marker)
              /\ seen' = [seen EXCEPT !.unknown = @ \cup {op[f].of},
                                     !.markerLost =
                    IF Overwrites(marker) THEN @ \cup {"replaced"} ELSE @]
           \/ /\ screen' = show("global")
              /\ seen' = [seen EXCEPT !.unknown = @ \cup {op[f].of},
                                     !.markerLost = @ \cup {"unwritten"}]
              /\ UNCHANGED store
    /\ End(f)
    /\ UNCHANGED <<phone, session, used>>

(***************************************************************************)
(* refreshAssets: the list shows what every request so far has left there. *)
(* The acknowledgement clears the marker there is, also one of an upload   *)
(* that has timed out since.                                               *)
(***************************************************************************)
Refresh ==
    /\ screen.route = "assets" /\ screen.marker # "loading"
    /\ screen' = [screen EXCEPT !.canAck = screen.marker # None, !.reviewed = seen.unknown]
    /\ UNCHANGED <<op, store, phone, session, seen, used>>
Acknowledge ==
    /\ screen.route = "assets" /\ screen.canAck
    /\ store' = [store EXCEPT !.marker = None]
    /\ seen' = [seen EXCEPT !.unknown = @ \ screen.reviewed,
                           !.markerLost = IF seen.unknown \subseteq screen.reviewed THEN @
                                         ELSE @ \cup {"cleared"}]
    /\ screen' = Mounted("picker", None)
    /\ op' = Unmounted(op)
    /\ UNCHANGED <<phone, session, used>>

PhotoStep(f) ==
    StartPhoto(f) \/ Check(f) \/ Send(f) \/ Answered(f) \/ TimedOut(f) \/ Mark(f)
=============================================================================

---------------------------- MODULE PresetPanel ----------------------------
(***************************************************************************)
(* The preset and trace panel of the dock (ZcPresetPanel in                *)
(* src/ui/zc_control_dock.cpp) with the requests of ZcCameraClient it uses *)
(* and the camera at their other end.                                      *)
(*                                                                         *)
(* Presets and traces are two families of slots with the same indices;     *)
(* TRUE stands for traces, as traceMode_ does.  One slot of each page      *)
(* stands for its ten.  Requests are answered in order, one at a time (see *)
(* HttpTransport), so the camera's handling of the first request and the   *)
(* callback of its reply are one step.  Timers have one delay, so they     *)
(* fire in the order they were started.  Recall speeds and hints are left  *)
(* out: no other state depends on them.                                    *)
(***************************************************************************)
EXTENDS Integers, Sequences

CONSTANTS
  Cams,      \* the cameras the dock can open
  Slots,     \* slot indices, one for each page
  Versions,  \* versions of the name and of the picture of a slot
  MaxQueue,  \* the operator acts while fewer requests are in the queue
  MaxActs,   \* what the operator does
  MaxFaults, \* requests that fail
  Unread,    \* a name or a picture that has not been read
  Empty,     \* no name
  Default,   \* the label of a slot without a name
  Blank,     \* no picture
  Dots       \* a picture on its way

ASSUME PresetAssumption ==
  /\ Slots \subseteq Nat /\ 0 \in Slots /\ Versions # {}
  /\ {MaxQueue, MaxActs, MaxFaults} \subseteq Nat

\* What a slot holds, a name or a picture.
Item == [cam : Cams, trace : BOOLEAN, i : Slots, v : Versions]

ASSUME SentinelsDiffer ==
  /\ {Unread, Empty, Default, Blank, Dots} \cap Item = {}
  /\ Unread # Empty /\ Default \notin {Unread, Empty}

\* The states of the camera's trace transport (TraceState).
TraceState == {"None", "Recording", "Preparing", "ReadyForPlay", "Playing",
               "Deleting", "ReadyForRecord"}

VARIABLES
  p,       \* the panel: its members and what its slot shows
  queue,   \* requests of the client
  timers,  \* single-shot timers of the panel
  cam,     \* the camera: its slots, pictures being written, transport
  done,    \* what the operator has done, and the requests that failed
  suspect  \* history: what the panel has no reason to know (see below)

presetVars == <<p, queue, timers, cam, done, suspect>>

Buttons == [primary : BOOLEAN, secondary : BOOLEAN, delete : BOOLEAN,
            rename : BOOLEAN, pages : BOOLEAN]

Panel ==
  [trace : BOOLEAN, client : {"null", "connecting", "open"}, edit : BOOLEAN,
   page : Slots, sel : Slots \cup {-1},
   info : [Slots -> Item \cup {Empty, Default, Unread}],
   thumbs : [Slots -> Item \cup {Unread}],
   name : Item \cup {Empty, Default}, thumb : Item \cup {Blank, Dots},
   state : TraceState, crashed : BOOLEAN, btn : Buttons]

Request ==
  [op : {"info"}, trace : BOOLEAN, i : Slots \cup {-1}]
  \cup [op : {"thumb", "set", "rec", "del"}, trace : BOOLEAN, i : Slots]
  \cup [op : {"name"}, trace : BOOLEAN, i : Slots, n : Item \cup {Default}]
  \cup [op : {"recall", "prepare"}, i : Slots]
  \cup [op : {"recStop", "play", "playStop", "query", "cameraInfo"}]

Timer == [what : {"reload", "started"}, i : Slots]
         \cup [what : {"stopped", "state"}]

Camera ==
  [id : Cams, st : TraceState, writing : SUBSET (BOOLEAN \X Slots),
   slot : [BOOLEAN -> [Slots -> [name : Item \cup {Empty, Default}, pic : Item]]]]

Suspect == [names : SUBSET (BOOLEAN \X (Slots \cup {-1})),
            pics : SUBSET (BOOLEAN \X Slots), transport : BOOLEAN]

PresetTypeOK ==
  /\ p \in Panel
  /\ queue \in Seq(Request)
  /\ timers \in Seq(Timer)
  /\ cam \in Camera
  /\ done \in [acts : 0..MaxActs, faults : 0..MaxFaults]
  /\ suspect \in Suspect

\* A camera as the dock finds it: the first slot of each family is in use.
FreshCamera(c) ==
  [id |-> c, st |-> "None", writing |-> {},
   slot |-> [t \in BOOLEAN |-> [i \in Slots |->
      LET x == [cam |-> c, trace |-> t, i |-> i,
                v |-> CHOOSE v \in Versions : TRUE]
      IN  [name |-> IF i = 0 THEN x ELSE Empty, pic |-> x]]]]

\* None of the panel's data is suspect.
Trusted == [names |-> {}, pics |-> {}, transport |-> FALSE]

PresetInit ==
  /\ p = [trace |-> FALSE, client |-> "null", edit |-> FALSE, page |-> 0,
          sel |-> -1, info |-> [i \in Slots |-> Unread],
          thumbs |-> [i \in Slots |-> Unread], name |-> Default,
          thumb |-> Blank, state |-> "None", crashed |-> FALSE,
          btn |-> [primary |-> FALSE, secondary |-> FALSE, delete |-> FALSE,
                   rename |-> FALSE, pages |-> TRUE]]
  /\ queue = <<>>
  /\ timers = <<>>
  /\ cam \in {FreshCamera(c) : c \in Cams}
  /\ done = [acts |-> 0, faults |-> 0]
  /\ suspect = Trusted

(***************************************************************************)
(* The panel.  A method is an operator on the pair s of the panel p and    *)
(* the queue q.                                                            *)
(***************************************************************************)

\* Which controls the transport leaves to the operator (traceActions).
traceActions(st) ==
  [record   |-> st \notin {"Playing", "Preparing"},
   prepare  |-> st \notin {"Recording", "Preparing"},
   remove   |-> st \in {"None", "ReadyForPlay", "ReadyForRecord"},
   navigate |-> st \notin {"Recording", "Playing"}]

selectedIsNamed(x) == x.sel >= 0 /\ x.info[x.sel] \notin {Unread, Empty}

updateActions(x) ==
  LET has == x.sel >= 0
      act == traceActions(x.state)
  IN  [x EXCEPT !.btn =
        IF ~x.trace
        THEN [primary |-> has, secondary |-> has, delete |-> has,
              rename |-> has, pages |-> TRUE]
        ELSE [primary |-> act.record /\ (has \/ x.state = "Recording"),
              secondary |-> act.prepare /\
                (selectedIsNamed(x) \/ x.state \in {"Playing", "ReadyForPlay"}),
              delete |-> act.remove /\ selectedIsNamed(x),
              rename |-> has /\ act.navigate, pages |-> act.navigate]]

Send(s, r) == [s EXCEPT !.q = Append(@, r)]

\* ptzPresetInfo or ptraceInfo; the callback keeps the family it asked for.
loadSlot(s, i) ==
  IF s.p.client = "open"
  THEN Send(s, [op |-> "info", trace |-> s.p.trace, i |-> i])
  ELSE s

refreshTraceState(s) ==
  IF s.p.trace /\ s.p.client = "open" THEN Send(s, [op |-> "query"]) ELSE s

showPage(s, page) ==
  loadSlot([s EXCEPT !.p = updateActions([s.p EXCEPT
    !.page = page, !.sel = -1, !.name = Default, !.thumb = Blank,
    !.edit = FALSE])], page)

Forget(x) ==
  [x EXCEPT !.info = [i \in Slots |-> Unread],
            !.thumbs = [i \in Slots |-> Unread], !.state = "None"]

refresh(s) == refreshTraceState(showPage([s EXCEPT !.p = Forget(@)], s.p.page))

\* What the field shows for a stored name.
Label(name) == IF name \in {Unread, Empty} THEN Default ELSE name

Here == <<p.trace, p.page>>

\* The page of an index.  Selection -1 is on the first page: -1 / 10 is 0.
PageOf(i) == IF i < 0 THEN 0 ELSE i

\* Mutant: a reply is applied whatever family is shown.
ForAnyFamily(x, trace) == TRUE

\* A reply is for the family that is shown.
ForFamily(x, trace) == trace = x.trace

\* The callback of loadSlot(): a reply for another family or page is dropped.
applySlotInfo(s, trace, i, name) ==
  LET x == s.p
      y == [x EXCEPT !.info[i] = name,
                     !.name = Label(name)]
      z == IF i = x.sel THEN updateActions(y) ELSE y
  IN  IF ~ForFamily(x, trace) \/ PageOf(i) # x.page THEN s
      ELSE IF i < 0 THEN [s EXCEPT !.p.crashed = TRUE]
      ELSE IF name = Empty THEN [s EXCEPT !.p = [z EXCEPT !.thumb = Blank]]
      ELSE IF x.thumbs[i] # Unread
           THEN [s EXCEPT !.p = [z EXCEPT !.thumb = x.thumbs[i]]]
      ELSE Send([s EXCEPT !.p = [z EXCEPT !.thumb = Dots]],
                [op |-> "thumb", trace |-> trace, i |-> i])

\* The callback of a thumbnail; Blank if there is none.
GotThumbnail(s, trace, i, pic) ==
  LET x == IF pic = Blank THEN s.p ELSE [s.p EXCEPT !.thumbs[i] = pic]
  IN  IF ~ForFamily(s.p, trace) THEN s
      ELSE IF i # x.page THEN [s EXCEPT !.p = x]
      ELSE [s EXCEPT !.p = [x EXCEPT !.thumb = pic]]

(***************************************************************************)
(* What the operator does.                                                 *)
(***************************************************************************)
S == [p |-> p, q |-> queue]
Becomes(s) == p' = s.p /\ queue' = s.q

Act ==
  /\ ~p.crashed /\ Len(queue) < MaxQueue /\ done.acts < MaxActs
  /\ done' = [done EXCEPT !.acts = @ + 1]
Pressed(button) == Act /\ button /\ p.client # "null"
After400ms(t) == timers' = Append(timers, t)

\* The panel forgets its cache, so nothing in it is suspect any more.
setTraceMode(trace) ==
  /\ Act /\ p.trace # trace
  /\ LET s == showPage([S EXCEPT !.p = [Forget(p) EXCEPT !.trace = trace]], 0)
     IN  Becomes(IF trace THEN refreshTraceState(s) ELSE s)
  /\ suspect' = Trusted
  /\ UNCHANGED <<timers, cam>>

PageClicked(page) ==
  /\ Act /\ p.btn.pages
  /\ Becomes(showPage(S, page))
  /\ UNCHANGED <<timers, cam, suspect>>

\* Clicking the selected slot clears the selection; either ends a rename, whose
\* text stays in the field.
onSlotClicked ==
  /\ Act /\ (p.trace => traceActions(p.state).navigate)
  /\ p' = updateActions([p EXCEPT !.edit = FALSE,
                           !.sel = IF @ = p.page THEN -1 ELSE p.page])
  /\ suspect' = IF p.edit /\ p.name # Label(p.info[p.page])
                THEN [suspect EXCEPT !.names = @ \cup {Here}] ELSE suspect
  /\ UNCHANGED <<queue, timers, cam>>

Stale(x, i) == [x EXCEPT !.thumbs[i] = Unread]

\* The primary button, recall or record.
Recall ==
  /\ Pressed(p.btn.primary) /\ ~p.trace /\ p.sel >= 0
  /\ Becomes(Send(S, [op |-> "recall", i |-> p.sel]))
  /\ UNCHANGED <<timers, cam, suspect>>

RecordStop ==
  /\ Pressed(p.btn.primary) /\ p.trace /\ p.state = "Recording"
  /\ Becomes(Send(S, [op |-> "recStop"]))
  /\ After400ms([what |-> "stopped"])
  /\ UNCHANGED <<cam, suspect>>

RecordStart ==
  /\ Pressed(p.btn.primary) /\ p.trace /\ p.state # "Recording" /\ p.sel >= 0
  /\ Becomes(Send([S EXCEPT !.p = [Stale(p, p.sel) EXCEPT
                     !.info[p.sel] = Empty, !.name = Default]],
                  [op |-> "rec", trace |-> TRUE, i |-> p.sel]))
  /\ After400ms([what |-> "started", i |-> p.sel])
  /\ UNCHANGED <<cam, suspect>>

\* Mutant: the cached thumbnail of a preset that is replaced is kept.
KeptThumbnail(x, i) == x

\* The cached thumbnail of a preset that is about to be replaced.
DropThumbnail(x, i) == Stale(x, i)

\* The secondary button, add or replace for presets.
PresetSet ==
  /\ Pressed(p.btn.secondary) /\ ~p.trace /\ p.sel >= 0
  /\ Becomes(Send([S EXCEPT !.p = DropThumbnail(p, p.sel)],
                  [op |-> "set", trace |-> FALSE, i |-> p.sel]))
  /\ After400ms([what |-> "reload", i |-> p.sel])
  /\ UNCHANGED <<cam, suspect>>

\* The secondary button, play or prepare for traces.
Transport ==
  /\ Pressed(p.btn.secondary) /\ p.trace
  /\ p.state \in {"Playing", "ReadyForPlay"} \/ p.sel >= 0
  /\ Becomes(Send(S, CASE p.state = "Playing" -> [op |-> "playStop"]
                       [] p.state = "ReadyForPlay" -> [op |-> "play"]
                       [] OTHER -> [op |-> "prepare", i |-> p.sel]))
  /\ After400ms([what |-> "state"])
  /\ UNCHANGED <<cam, suspect>>

Delete ==
  /\ Pressed(p.btn.delete) /\ p.sel >= 0
  /\ Becomes(Send([S EXCEPT !.p = [Stale(p, p.sel) EXCEPT
                     !.info[p.sel] = Empty]],
                  [op |-> "del", trace |-> p.trace, i |-> p.sel]))
  /\ After400ms([what |-> "reload", i |-> p.sel])
  /\ UNCHANGED <<cam, suspect>>

beginRename ==
  /\ Act /\ p.btn.rename /\ p.sel >= 0 /\ ~p.edit
  /\ p' = [p EXCEPT !.edit = TRUE]
  /\ UNCHANGED <<queue, timers, cam, suspect>>

\* Mutant: the name is not read back.
NotReadBack(s, i) == s

\* A new name is shown at once and read back.
ReadBack(s, i) == loadSlot(s, i)

\* The operator types; the text may be left as it is, or empty.
Types(n) ==
  /\ Act /\ p.edit
  /\ p' = [p EXCEPT !.name = n]
  /\ UNCHANGED <<queue, timers, cam, suspect>>

Texts == {Empty} \cup {[cam |-> cam.id, trace |-> p.trace, i |-> p.page, v |-> v] :
                        v \in Versions}

\* The edit ends, or Enter is pressed in a field that is not being edited: an empty
\* text reverts to the stored name, and another one is sent, the label of a slot
\* without a name too.
commitRename ==
  /\ Act
  /\ LET i == p.page
         x == [p EXCEPT !.edit = FALSE]
         y == [x EXCEPT !.info[i] = p.name]
     IN  IF p.name = Empty
         THEN Becomes([S EXCEPT !.p = [x EXCEPT !.name = Label(p.info[i])]])
         ELSE IF p.name = p.info[i] \/ p.client = "null"
         THEN Becomes([S EXCEPT !.p = x])
         ELSE Becomes(ReadBack(
                [Send(S, [op |-> "name", trace |-> p.trace, i |-> i, n |-> p.name])
                   EXCEPT !.p = IF i = p.sel THEN updateActions(y) ELSE y], i))
  /\ UNCHANGED <<timers, cam, suspect>>

\* Mutant: the state of the transport is not asked after a recording started.
StartedUnasked(s, i) == loadSlot(s, i)

\* The camera has begun to record into slot i.
Started(s, i) == loadSlot(refreshTraceState(s), i)

\* The first timer fires.
Timeout ==
  /\ ~p.crashed /\ timers # <<>>
  /\ LET t == Head(timers)
     IN  Becomes(CASE t.what = "reload" -> loadSlot(S, t.i)
                   [] t.what = "started" -> Started(S, t.i)
                   [] t.what = "stopped" -> loadSlot(refreshTraceState(S), p.sel)
                   [] OTHER -> refreshTraceState(S))
  /\ timers' = Tail(timers)
  /\ UNCHANGED <<cam, suspect, done>>

\* The dock opens a camera: the client is deleted with its requests, and
\* the panel gets one that is not connected yet.
setClient(c) ==
  /\ Act
  /\ Becomes(refresh([p |-> [p EXCEPT !.client = "connecting"], q |-> <<>>]))
  /\ cam' = IF c = cam.id THEN cam ELSE FreshCamera(c)
  /\ suspect' = Trusted
  /\ UNCHANGED timers

Succeeds(ok) ==
  /\ ~p.crashed /\ (ok \/ done.faults < MaxFaults)
  /\ done' = [done EXCEPT !.faults = IF ok THEN @ ELSE @ + 1]

\* connect() has succeeded, and has asked for /info, or has failed.
Connect(ok) ==
  /\ Succeeds(ok) /\ p.client = "connecting"
  /\ IF ok THEN Becomes([p |-> [p EXCEPT !.client = "open"],
                        q |-> Append(queue, [op |-> "cameraInfo"])])
     ELSE Becomes(refresh([p |-> [p EXCEPT !.client = "null"], q |-> <<>>]))
  /\ UNCHANGED <<timers, cam, suspect>>

(***************************************************************************)
(* The camera.  A slot is overwritten by a new version; its picture is     *)
(* written some time later.                                                *)
(***************************************************************************)
NextItem(t, i) ==
  {[cam |-> cam.id, trace |-> t, i |-> i, v |-> v] :
     v \in Versions \ {cam.slot[t][i].pic.v}}

\* The pictures of slots that the head of the queue or one behind it replaces.
Replacing(q) ==
  {<<q[n].trace, q[n].i>> :
     n \in {k \in DOMAIN q : q[k].op \in {"set", "rec"}}} \cup cam.writing

\* The state of the transport after a command.
StateAfter(r) ==
  CASE r.op = "rec" /\ cam.st \in {"None", "ReadyForPlay", "ReadyForRecord"}
         -> "Recording"
    [] r.op = "recStop" /\ cam.st = "Recording" -> "ReadyForRecord"
    [] r.op = "prepare" /\ cam.st \in {"None", "ReadyForRecord"} -> "Preparing"
    [] r.op = "play" /\ cam.st = "ReadyForPlay" -> "Playing"
    [] r.op = "playStop" /\ cam.st = "Playing" -> "ReadyForPlay"
    [] r.op = "del" /\ r.trace /\ cam.st # "Recording" -> "Deleting"
    [] OTHER -> cam.st

\* The handling of a command.  A slot in use keeps its name when it is replaced.
Handled(r) ==
  LET c == [cam EXCEPT !.st = StateAfter(r)]
  IN  CASE r.op = "set" \/ (r.op = "rec" /\ c.st # cam.st) ->
             {[c EXCEPT !.writing = @ \cup {<<r.trace, r.i>>},
                 !.slot[r.trace][r.i].name = IF @ = Empty THEN x ELSE @] :
                x \in NextItem(r.trace, r.i)}
        [] r.op = "del" -> {[c EXCEPT !.slot[r.trace][r.i].name = Empty]}
        [] r.op = "name" -> {[c EXCEPT !.slot[r.trace][r.i].name = r.n]}
        [] OTHER -> {c}

Commands == {"set", "rec", "recStop", "prepare", "play", "playStop", "del",
             "name", "recall"}

\* A command is handled, or does not reach the camera, as one that is sent before
\* the address of the camera has been negotiated.  The panel hears nothing
\* of either.  After a delete it does not ask for the state of the transport.
Command(taken) ==
  /\ Succeeds(taken \/ p.client = "connecting") /\ (taken => p.client = "open")
  /\ queue # <<>> /\ Head(queue).op \in Commands
  /\ cam' \in (IF taken THEN Handled(Head(queue)) ELSE {cam})
  /\ suspect' = [suspect EXCEPT
       !.transport = @ \/ (Head(queue).op = "del" /\ cam'.st # cam.st)]
  /\ queue' = Tail(queue)
  /\ UNCHANGED <<p, timers>>

\* A reply with the description of a slot, or one that cannot be read.
InfoReply(ok) ==
  /\ Succeeds(ok) /\ queue # <<>> /\ Head(queue).op = "info"
  /\ LET r == Head(queue)
         name == IF ok /\ r.i >= 0 THEN cam.slot[r.trace][r.i].name ELSE Empty
     IN  /\ Becomes(applySlotInfo([p |-> p, q |-> Tail(queue)],
                                  r.trace, r.i, name))
         /\ suspect' = [suspect EXCEPT !.names =
              IF ok THEN @ \ {<<r.trace, r.i>>} ELSE @ \cup {<<r.trace, r.i>>}]
  /\ UNCHANGED <<timers, cam>>

\* A reply with a thumbnail, or without one.  It is suspect if the camera is
\* about to write another one.
ThumbReply(ok) ==
  /\ Succeeds(ok) /\ queue # <<>> /\ Head(queue).op = "thumb"
  /\ LET r == Head(queue)
         pic == IF ok THEN cam.slot[r.trace][r.i].pic ELSE Blank
         key == <<r.trace, r.i>>
     IN  /\ Becomes(GotThumbnail([p |-> p, q |-> Tail(queue)],
                                 r.trace, r.i, pic))
         /\ suspect' = [suspect EXCEPT !.pics =
              IF ok /\ key \notin Replacing(queue) THEN @ \ {key}
              ELSE @ \cup {key}]
  /\ UNCHANGED <<timers, cam>>

\* A reply with the state of the transport, or none, which keeps the last one.
onTraceState(ok) ==
  /\ Succeeds(ok) /\ queue # <<>> /\ Head(queue).op = "query"
  /\ p' = IF p.trace /\ ok THEN updateActions([p EXCEPT !.state = cam.st])
          ELSE p
  /\ queue' = Tail(queue)
  /\ suspect' = [suspect EXCEPT !.transport = ~ok]
  /\ UNCHANGED <<timers, cam>>

\* /info has been read: a camera with a pan-tilt head has presets.
CameraInfo ==
  /\ ~p.crashed /\ queue # <<>> /\ Head(queue).op = "cameraInfo"
  /\ Becomes(refresh([p |-> p, q |-> Tail(queue)]))
  /\ suspect' = Trusted
  /\ UNCHANGED <<timers, cam, done>>

\* The camera finishes what its transport is doing; nobody tells the panel.
TransportMoves ==
  /\ ~p.crashed
  /\ \E to \in {"ReadyForPlay", "None"} :
       /\ <<cam.st, to>> \in {<<"Preparing", "ReadyForPlay">>,
                              <<"Playing", "ReadyForPlay">>,
                              <<"Deleting", "None">>}
       /\ cam' = [cam EXCEPT !.st = to]
  /\ suspect' = [suspect EXCEPT !.transport = TRUE]
  /\ UNCHANGED <<p, queue, timers, done>>

PictureWritten ==
  /\ ~p.crashed
  /\ \E w \in cam.writing : \E x \in NextItem(w[1], w[2]) :
       cam' = [cam EXCEPT !.writing = @ \ {w}, !.slot[w[1]][w[2]].pic = x]
  /\ UNCHANGED <<p, queue, timers, suspect, done>>

Operator ==
  \/ \E t \in BOOLEAN : setTraceMode(t)
  \/ \E page \in Slots : PageClicked(page)
  \/ onSlotClicked \/ Recall \/ RecordStop \/ RecordStart \/ PresetSet
  \/ Transport \/ Delete \/ beginRename
  \/ commitRename \/ \E n \in Texts : Types(n)
  \/ \E c \in Cams : setClient(c)

PresetNext ==
  \/ Operator \/ Timeout \/ CameraInfo
  \/ TransportMoves \/ PictureWritten
  \/ \E ok \in BOOLEAN :
       Connect(ok) \/ Command(ok) \/ InfoReply(ok) \/ ThumbReply(ok) \/ onTraceState(ok)

PresetSpec == PresetInit /\ [][PresetNext]_presetVars

(***************************************************************************)
(* Properties.                                                             *)
(***************************************************************************)
\* Nothing is on its way that would change what the panel shows.
Quiet == queue = <<>> /\ timers = <<>> /\ cam.writing = {}
         /\ p.client = "open" /\ ~p.edit

\* What the slot shows is the name and the picture of that very slot, of the
\* family and the camera that are shown: replies for a page, a family or a camera
\* the operator has left are not painted (loadSlot, applySlotInfo).
SlotShowsOwn ==
  \A x \in {p.name, p.thumb} :
    x \notin {Empty, Default, Blank, Dots} =>
      x.cam = cam.id /\ x.trace = p.trace /\ x.i = p.page

\* Once everything has been answered the slot shows the name the camera has,
\* whatever was renamed, recorded or deleted meanwhile and whether or not the
\* camera took it, unless the last reading of the slot failed or an edit was left
\* by a click.
NameSettles ==
  Quiet /\ Here \notin suspect.names =>
    p.name = Label(cam.slot[p.trace][p.page].name)

\* Once everything has been answered the slot shows the picture the camera has,
\* unless the last thumbnail could not be read, or was read before the camera had
\* written the one that replaces it.
PictureSettles ==
  Quiet /\ Here \notin suspect.names \cup suspect.pics
        /\ cam.slot[p.trace][p.page].name # Empty =>
    p.thumb = cam.slot[p.trace][p.page].pic

\* Once everything has been answered the panel knows the state of the trace
\* transport, on which its buttons depend, unless the camera has changed it of
\* its own accord since, deleted a trace, or did not answer.
TransportKnown ==
  Quiet /\ p.trace /\ ~suspect.transport => p.state = cam.st

\* "While recording the button is the stop control, so it needs no slot
\* selection" (zc_control_dock.cpp:1938): stopping a recording without a
\* selection loads slot -1, and its reply is applied to slots_[-1].
SlotsInRange == ~p.crashed

\* "The stored thumbnail is now stale; re-read once the camera has written the
\* new one" (zc_control_dock.cpp:1626): a thumbnail that was asked for before is
\* cached again, and the one the camera has written is not read.
ThumbnailReread ==
  Quiet /\ Here \notin suspect.names
        /\ cam.slot[p.trace][p.page].name # Empty =>
    p.thumb \in {Blank, cam.slot[p.trace][p.page].pic}
=============================================================================

----------------------------- MODULE DockPanels -----------------------------
(***************************************************************************)
(* What the dock does with the camera it has opened (src/ui/               *)
(* zc_control_dock.cpp): openCamera() and the life of its ZcCameraClient,  *)
(* the PTZ tab, the stream bar of ZcSettingsPanel and the joystick of      *)
(* ZcPtzPad, with the requests of the client and the cameras.              *)
(*                                                                         *)
(* Requests of a client are answered in order, one at a time (see          *)
(* HttpTransport); the camera's handling of the first one and the callback *)
(* of its reply are one step.  A deleted client takes its requests and     *)
(* callbacks with it.  The bar is followed through one of its five         *)
(* controls, a number: a write of another one is, for it, a request that   *)
(* repaints the bar.  Settings rows and presets have modules of their own, *)
(* and requests that change none of this state (status, recall, speed) are *)
(* left out.                                                               *)
(***************************************************************************)
EXTENDS Integers, Sequences, FiniteSets

CONSTANTS
  Cams,      \* cameras
  PtzCams,   \* those with a pan-tilt head
  Offers,    \* the stream indices the firmware of each camera has
  Values,    \* values of a control of the bar
  Dirs,      \* sectors of the joystick
  Nested,    \* whether the operator clicks while connect() waits
  MaxActs,   \* what the operator, and somebody at a camera, does
  MaxFaults, \* requests that fail
  MaxQueue,  \* the operator acts while fewer requests are in the queue
  None

Indices == {"app_stream1", "stream1"}

ASSUME PanelAssumption ==
  /\ PtzCams \subseteq Cams /\ Offers \in [Cams -> SUBSET Indices]
  /\ Nested \in BOOLEAN /\ {MaxActs, MaxFaults, MaxQueue} \subseteq Nat
  /\ Values # {}

Doc == [cam : Cams, index : Indices, v : Values]

\* What a client asks of its camera.
Requests == [op : {"read"}, index : Indices, discover : BOOLEAN]
              \cup [op : {"write"}, index : Indices, v : Values]
              \cup [op : {"info", "move", "stop"}]

\* A ZcCameraClient: its camera, whether it is connected, PTZ, its requests.
Clients == [cam : Cams, open : BOOLEAN, ptz : BOOLEAN, q : Seq(Requests)]

ASSUME NoneIsNew == None \notin Cams \cup Indices \cup Doc /\ None \notin Clients

VARIABLES
  client,  \* client_
  calls,   \* the calls of openCamera() that wait in connect(), outermost first
  tab,     \* whether the PTZ tab is there
  bar,     \* streamIndex_, streamDoc_, what the control shows, a drag of it
  pad,     \* mode_ and activeDir_ of the joystick
  cams,    \* the cameras: values of their streams, moving heads
  suspect, \* history: what the panels cannot know
  spent    \* what has happened, for the bounds

vars == <<client, calls, tab, bar, pad, cams, suspect, spent>>

TypeOK ==
  /\ client \in Clients \cup {None}
  /\ tab \in BOOLEAN
  /\ bar.index \in Indices \cup {None} /\ bar.doc \in Doc \cup {None}
  /\ bar.shown \in Values \cup {None} /\ bar.drag \in BOOLEAN
  /\ pad.mode \in {"None", "Sector", "FreeDrag"}
  /\ pad.dir \in Dirs \cup {None}
  /\ cams.val \in [Cams -> [Indices -> Values]]
  /\ cams.moving \subseteq Cams
  /\ suspect.bar \in BOOLEAN /\ suspect.moving \subseteq Cams
  /\ suspect.crashed \in BOOLEAN

EmptyBar == [index |-> None, doc |-> None, shown |-> None, drag |-> FALSE]
PadAtRest == [mode |-> "None", dir |-> None]

Init ==
  /\ client = None /\ calls = <<>> /\ tab = FALSE
  /\ bar = EmptyBar /\ pad = PadAtRest
  /\ cams = [val |-> [c \in Cams |-> [i \in Indices |-> CHOOSE v \in Values : TRUE]],
             moving |-> {}]
  /\ suspect = [bar |-> FALSE, moving |-> {}, crashed |-> FALSE]
  /\ spent = [acts |-> 0, faults |-> 0]

Act ==
  /\ ~suspect.crashed /\ spent.acts < MaxActs
  /\ client # None => Len(client.q) < MaxQueue
  /\ spent' = [spent EXCEPT !.acts = @ + 1]

\* The operator has one mouse, which the joystick grabs.
MouseFree == pad.mode = "None" /\ ~bar.drag

\* A request is answered, or fails.
Succeeds(ok) ==
  /\ ~suspect.crashed /\ (ok \/ spent.faults < MaxFaults)
  /\ spent' = [spent EXCEPT !.faults = IF ok THEN @ ELSE @ + 1]

Send(c, r) == [c EXCEPT !.q = Append(@, r)]

(***************************************************************************)
(* The stream bar.                                                         *)
(***************************************************************************)
\* What the bar shows of a document.
updateStreamBar(b) == [b EXCEPT !.shown = IF b.doc = None THEN None ELSE b.doc.v]

\* The request that reads the stream, once for each index until one is known.
loadStream(c, b) ==
  IF c = None \/ ~c.open THEN c
  ELSE Send(c, IF b.index = None
               THEN [op |-> "read", index |-> "app_stream1", discover |-> TRUE]
               ELSE [op |-> "read", index |-> b.index, discover |-> FALSE])

\* The document of an index, None if the camera does not have it.
Document(c, i, v) ==
  IF i \in Offers[c] THEN [cam |-> c, index |-> i, v |-> v] ELSE None

\* A reply that is a document of the index in use repaints the bar.
Repaint(b, i, doc) ==
  IF i # b.index \/ doc = None THEN b
  ELSE updateStreamBar([b EXCEPT !.doc = doc])

\* Whether the bar may differ from the camera after a reply with a document, or
\* without one, for an index.
BarSuspect(doc, i) == doc = None \/ (suspect.bar /\ i # bar'.index)

AnsweredRead(ok) ==
  /\ client # None /\ client.q # <<>> /\ Head(client.q).op = "read" /\ Succeeds(ok)
  /\ LET r == Head(client.q)
         c == [client EXCEPT !.q = Tail(@)]
         doc == IF ok THEN Document(c.cam, r.index, cams.val[c.cam][r.index])
                ELSE None
         older == r.discover /\ doc = None
     IN  /\ bar' = CASE older -> [bar EXCEPT !.index = "stream1"]
                     [] r.discover /\ ~older ->
                          updateStreamBar([bar EXCEPT !.index = r.index, !.doc = doc])
                     [] OTHER -> Repaint(bar, r.index, doc)
         \* older firmware: the other index is read
         /\ client' = IF older THEN loadStream(c, bar') ELSE c
         /\ suspect' = [suspect EXCEPT !.bar = BarSuspect(doc, r.index)]
  /\ UNCHANGED <<calls, tab, pad, cams>>

\* A slider is dragged; its release writes.  A reply may repaint it meanwhile.  A
\* combo box is a drag that is released at once.
Drag(v) ==
  /\ bar.doc # None /\ pad.mode = "None" /\ Act
  /\ bar' = [bar EXCEPT !.shown = v, !.drag = TRUE]
  /\ UNCHANGED <<client, calls, tab, pad, cams, suspect>>

\* A slider is moved by the wheel, a key or a click on its groove: it shows another
\* value, which is not written.
Nudge(v) ==
  /\ bar.doc # None /\ v # bar.shown /\ Act
  /\ bar' = [bar EXCEPT !.shown = v]
  /\ suspect' = [suspect EXCEPT !.bar = TRUE]
  /\ UNCHANGED <<client, calls, tab, pad, cams>>

\* Somebody changes a stream at a camera, which the bar is not told.
StreamChanged(c, i, v) ==
  /\ i \in Offers[c] /\ v # cams.val[c][i] /\ Act
  /\ cams' = [cams EXCEPT !.val[c][i] = v]
  /\ suspect' = [suspect EXCEPT !.bar =
                   @ \/ (client # None /\ client.cam = c /\ i = bar.index)]
  /\ UNCHANGED <<client, calls, tab, bar, pad>>

\* Without an index there is nothing to write to.
writeStreamParams ==
  /\ bar.drag /\ ~suspect.crashed
  /\ bar' = [bar EXCEPT !.drag = FALSE]
  /\ client' = IF client = None \/ bar.index = None THEN client
               ELSE Send(client, [op |-> "write", index |-> bar.index, v |-> bar.shown])
  /\ UNCHANGED <<calls, tab, pad, cams, suspect, spent>>

\* A write is taken or refused, and answered with the document, or fails.
AnsweredWrite(ok, taken) ==
  /\ client # None /\ client.q # <<>> /\ Head(client.q).op = "write" /\ Succeeds(ok)
  /\ LET r == Head(client.q)
         v == IF taken THEN r.v ELSE cams.val[client.cam][r.index]
         doc == IF ok THEN Document(client.cam, r.index, v) ELSE None
     IN  /\ taken => r.index \in Offers[client.cam]
         /\ cams' = [cams EXCEPT !.val[client.cam][r.index] = v]
         /\ bar' = Repaint(bar, r.index, doc)
         /\ suspect' = [suspect EXCEPT !.bar = BarSuspect(doc, r.index)]
  /\ client' = [client EXCEPT !.q = Tail(@)]
  /\ UNCHANGED <<calls, tab, pad>>

refreshGroup ==
  /\ client # None /\ Act
  /\ client' = loadStream(client, bar)
  /\ UNCHANGED <<calls, tab, bar, pad, cams, suspect>>

(***************************************************************************)
(* openCamera().                                                           *)
(***************************************************************************)
\* Mutant: the bar keeps the document of the last camera.
BarKept(b) == b

\* The bar of a panel that gets another client, or none.
BarOfNewClient(b) == EmptyBar

\* A camera that moves when its client is deleted is not stopped any more.
Abandoned ==
  IF client = None THEN suspect.moving
  ELSE suspect.moving \cup (cams.moving \cap {client.cam})

\* The client that there is goes, with its requests, even if its connect() is on
\* the stack.
Click(c) ==
  /\ Act /\ MouseFree /\ (calls = <<>> \/ Nested)
  /\ client' = [cam |-> c, open |-> FALSE, ptz |-> FALSE, q |-> <<>>]
  /\ calls' = Append([n \in DOMAIN calls |-> None], c)
  /\ bar' = BarOfNewClient(bar)
  /\ suspect' = [suspect EXCEPT !.bar = FALSE, !.moving = Abandoned]
  /\ UNCHANGED <<tab, pad, cams>>

WantsTab(c) == c # None /\ c.ptz

\* Mutant: the tab is left as it is when a camera does not answer.
updatePtzTabOnSuccess(c, t) == IF c = None THEN t ELSE WantsTab(c)

updatePtzTab(c, t) == WantsTab(c)

\* The innermost connect() returns.  That of a deleted client has nothing to
\* return to.
Opened(ok) ==
  /\ calls # <<>> /\ Succeeds(ok)
  /\ LET c == calls[Len(calls)]
     IN  IF c = None
         THEN /\ suspect' = [suspect EXCEPT !.crashed = TRUE]
              /\ UNCHANGED <<client, bar, tab>>
         ELSE /\ client' = IF ok
                 THEN loadStream([client EXCEPT !.open = TRUE, !.q = Append(@, [op |-> "info"])],
                                 bar)
                 ELSE None
              /\ bar' = IF ok THEN bar ELSE BarOfNewClient(bar)
              /\ tab' = updatePtzTab(client', tab)
              /\ UNCHANGED suspect
  /\ calls' = SubSeq(calls, 1, Len(calls) - 1)
  /\ UNCHANGED <<pad, cams>>

\* /info says whether the camera has a pan-tilt head; the stream is read again.
\* One that cannot be read changes nothing.
cameraInfoChanged(ok) ==
  /\ client # None /\ client.q # <<>> /\ Head(client.q).op = "info" /\ Succeeds(ok)
  /\ LET c == [client EXCEPT !.q = Tail(@)]
     IN  client' = IF ok THEN loadStream([c EXCEPT !.ptz = c.cam \in PtzCams], bar)
                   ELSE c
  /\ tab' = IF ok THEN updatePtzTab(client', tab) ELSE tab
  /\ UNCHANGED <<calls, bar, pad, cams, suspect>>

(***************************************************************************)
(* The joystick.                                                           *)
(***************************************************************************)
Tell(op) == client' = IF client = None THEN client ELSE Send(client, [op |-> op])

\* Nothing is sent for a press in the centre.
PressSector(d) ==
  /\ tab /\ MouseFree /\ Act
  /\ pad' = [mode |-> "Sector", dir |-> d]
  /\ Tell("move")
  /\ UNCHANGED <<calls, tab, bar, cams, suspect>>

PressCentre ==
  /\ tab /\ MouseFree /\ Act
  /\ pad' = [mode |-> "FreeDrag", dir |-> None]
  /\ UNCHANGED <<client, calls, tab, bar, cams, suspect>>

\* The mouse enters a sector, or leaves them all, which stops once.
MoveSector(d) ==
  /\ pad.mode = "Sector" /\ d # pad.dir /\ Act
  /\ pad' = [pad EXCEPT !.dir = d]
  /\ Tell(IF d = None THEN "stop" ELSE "move")
  /\ UNCHANGED <<calls, tab, bar, cams, suspect>>

MoveFree ==
  /\ pad.mode = "FreeDrag" /\ Act
  /\ Tell("move")
  /\ UNCHANGED <<calls, tab, bar, pad, cams, suspect>>

\* Mutant: only a sector is stopped.
StopOnReleaseSector ==
  IF pad.mode = "Sector" THEN Tell("stop") ELSE UNCHANGED client

\* The release stops the camera.
StopOnRelease == Tell("stop")

Release ==
  /\ pad.mode # "None" /\ ~suspect.crashed
  /\ StopOnRelease
  /\ pad' = PadAtRest
  /\ UNCHANGED <<calls, tab, bar, cams, suspect, spent>>

\* The stop button of the pad.
StopButton ==
  /\ tab /\ MouseFree /\ Act
  /\ Tell("stop")
  /\ UNCHANGED <<calls, tab, bar, pad, cams, suspect>>

\* A command of the pad is handled, or does not reach the camera, as one that is
\* sent before its address has been negotiated.
PadCommand(taken) ==
  /\ client # None /\ client.q # <<>> /\ Head(client.q).op \in {"move", "stop"}
  /\ Succeeds(taken \/ ~client.open) /\ (taken => client.open)
  /\ LET c == client.cam
         stop == Head(client.q).op = "stop"
     IN  /\ cams' = [cams EXCEPT !.moving =
              IF ~taken THEN @ ELSE IF stop THEN @ \ {c} ELSE @ \cup {c}]
         /\ suspect' = [suspect EXCEPT !.moving =
              IF stop /\ c \in cams'.moving THEN @ \cup {c}
              ELSE IF stop THEN @ \ {c} ELSE @]
  /\ client' = [client EXCEPT !.q = Tail(@)]
  /\ UNCHANGED <<calls, tab, bar, pad>>

Next ==
  \/ \E c \in Cams : Click(c)
  \/ \E v \in Values :
       Drag(v) \/ Nudge(v) \/ \E c \in Cams, i \in Indices : StreamChanged(c, i, v)
  \/ writeStreamParams \/ refreshGroup
  \/ \E d \in Dirs : PressSector(d)
  \/ \E d \in Dirs \cup {None} : MoveSector(d)
  \/ PressCentre \/ MoveFree \/ Release \/ StopButton
  \/ \E ok \in BOOLEAN :
       \/ Opened(ok) \/ cameraInfoChanged(ok) \/ AnsweredRead(ok) \/ PadCommand(ok)
       \/ \E taken \in BOOLEAN : AnsweredWrite(ok, taken)

Spec == Init /\ [][Next]_vars

(***************************************************************************)
(* Properties.                                                             *)
(***************************************************************************)
Pending(ops) ==
  client # None /\ \E n \in DOMAIN client.q : client.q[n].op \in ops

\* The bar is only ever painted from the camera that is open, and once every
\* request has been answered it shows the value this camera has for the index the
\* bar writes to: a refused value snaps back, and a reply that lands during a drag
\* does no harm; unless the last request about the stream failed, or since the last
\* reply a slider was moved without a write or somebody changed the stream at the
\* camera (setClient, loadStream, writeStreamParams).
BarShowsCamera ==
  bar.doc # None =>
    /\ client # None /\ bar.doc.cam = client.cam
    /\ ~Pending({"read", "write"}) /\ ~bar.drag /\ ~suspect.bar =>
         /\ bar.doc.index = bar.index
         /\ bar.shown = cams.val[client.cam][bar.index]

\* With the joystick at rest and no stop on its way no camera moves, whatever path
\* the mouse took over the sectors and whichever camera was opened since, unless a
\* stop was lost or its client was deleted before it was sent.
PadStops ==
  pad.mode = "None" /\ ~Pending({"stop"}) => cams.moving \subseteq suspect.moving

\* The PTZ tab is there if the camera that is open has a pan-tilt head and has said
\* so; another camera, or one that does not answer, takes it away.
TabFollows == calls = <<>> /\ ~suspect.crashed => (tab <=> WantsTab(client))

\* "The index then stays fixed for as long as that camera is selected"
\* (zc_control_dock.cpp:624): the stream is read twice when a camera is opened, and
\* if only the second reply fails the index changes.
IndexFixed ==
  [][bar.index # None /\ calls' = calls => bar'.index = bar.index]_vars

\* The client whose connect() is waiting is not deleted, which is so only while the
\* operator waits too.
ClientSurvives == ~suspect.crashed
=============================================================================

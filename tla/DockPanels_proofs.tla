-------------------------- MODULE DockPanels_proofs --------------------------
(***************************************************************************)
(* Theorems about the panels of the open camera, for any cameras, values   *)
(* and bounds, and whether or not the operator clicks during connect().    *)
(***************************************************************************)
EXTENDS DockPanels, SequenceTheorems, TLAPS

------------------------------------------------------------------------------
(* The inductive invariant.                                                *)

Bars == [index : Indices \cup {None}, doc : Doc \cup {None},
         shown : Values \cup {None}, drag : BOOLEAN]
Cameras == [val : [Cams -> [Indices -> Values]], moving : SUBSET Cams]

\* What is dragged is a value.
Typed ==
  /\ client \in Clients \cup {None}
  /\ calls \in Seq(Cams \cup {None})
  /\ tab \in BOOLEAN
  /\ bar \in Bars
  /\ bar.drag => bar.shown \in Values
  /\ pad \in [mode : {"None", "Sector", "FreeDrag"}, dir : Dirs \cup {None}]
  /\ cams \in Cameras
  /\ suspect \in [bar : BOOLEAN, moving : SUBSET Cams, crashed : BOOLEAN]

\* A call of openCamera() whose client is there waits for it to connect; only the
\* innermost one can have its client.
Waiting ==
  /\ calls # <<>> /\ calls[Len(calls)] # None => client # None /\ ~client.open
  /\ \A n \in DOMAIN calls : n < Len(calls) => calls[n] = None

\* The document of the bar is one of the camera that is open; the bar shows its
\* value if no request about that index is on its way.
Asks(r, i) == r.op \in {"read", "write"} /\ r.index = i
Asked(q, i) == \E n \in DOMAIN q : Asks(q[n], i)

BarFollows ==
  bar.doc # None =>
    /\ client # None /\ bar.doc.cam = client.cam
    /\ bar.index \in Indices
    /\ ~Asked(client.q, bar.index) /\ ~bar.drag /\ ~suspect.bar =>
         /\ bar.doc.index = bar.index
         /\ bar.shown = cams.val[client.cam][bar.index]

\* Only the camera that is open moves unsuspected, if it is connected; and with
\* the joystick at rest every move in the queue has a stop behind it.
Stopped(q) == \A n \in DOMAIN q : q[n].op = "move" =>
  \E m \in DOMAIN q : m > n /\ q[m].op = "stop"
Stops(q) == \E m \in DOMAIN q : q[m].op = "stop"

Strays == cams.moving \ suspect.moving

PadFollows ==
  /\ client = None => Strays = {}
  /\ client # None =>
       /\ Strays \subseteq {client.cam}
       /\ ~client.open => Strays = {}
       /\ pad.mode = "None" => Stopped(client.q) /\ (Strays # {} => Stops(client.q))

Inv == Typed /\ Waiting /\ TabFollows /\ BarFollows /\ PadFollows

------------------------------------------------------------------------------
(* The queue of a client.                                                  *)

\* What the pad, and what the bar, relies on from one client to the next.
PadKeeps(c, d) ==
  /\ d.cam = c.cam /\ (c.open => d.open)
  /\ Stopped(c.q) => Stopped(d.q)
  /\ Stops(c.q) => Stops(d.q)
BarKeeps(c, d) == d.cam = c.cam /\ \A i \in Indices : Asked(c.q, i) => Asked(d.q, i)

LEMMA Appended ==
  ASSUME NEW q \in Seq(Requests), NEW r \in Requests
  PROVE  /\ Append(q, r) \in Seq(Requests)
         /\ Stopped(q) /\ r.op # "move" => Stopped(Append(q, r))
         /\ Stops(q) => Stops(Append(q, r))
         /\ r.op = "stop" => Stopped(Append(q, r)) /\ Stops(Append(q, r))
         /\ \A i \in Indices : Asked(q, i) \/ Asks(r, i) => Asked(Append(q, r), i)
<1> DEFINE s == Append(q, r)
           k == Len(q) + 1
<1>1. /\ s \in Seq(Requests) /\ k \in Nat \ {0} /\ DOMAIN s = 1..k /\ DOMAIN q = 1..(k - 1)
      /\ s[k] = r /\ \A n \in DOMAIN q : s[n] = q[n]
  OBVIOUS
<1> HIDE DEF s, k
<1>2. Stopped(q) /\ r.op # "move" => Stopped(s)
  BY <1>1 DEF Stopped
<1>3. Stops(q) => Stops(s)
  BY <1>1 DEF Stops
<1>4. r.op = "stop" => Stopped(s) /\ Stops(s)
  BY <1>1 DEF Stopped, Stops
<1>5. \A i \in Indices : Asked(q, i) \/ Asks(r, i) => Asked(s, i)
  BY <1>1 DEF Asked
<1> QED
  BY <1>1, <1>2, <1>3, <1>4, <1>5 DEF s

LEMMA Shortened ==
  ASSUME NEW q \in Seq(Requests), q # <<>>
  PROVE  /\ Tail(q) \in Seq(Requests) /\ Head(q) \in Requests
         /\ Stopped(q) => Stopped(Tail(q))
         /\ Stops(q) /\ Head(q).op # "stop" => Stops(Tail(q))
         /\ Stopped(q) /\ Head(q).op = "move" => Stops(Tail(q))
         /\ \A i \in Indices : Asked(q, i) /\ ~Asks(Head(q), i) => Asked(Tail(q), i)
<1> DEFINE s == Tail(q)
           k == Len(q)
<1>1. /\ s \in Seq(Requests) /\ Head(q) \in Requests /\ Head(q) = q[1]
      /\ k \in Nat \ {0} /\ DOMAIN q = 1..k /\ DOMAIN s = 1..(k - 1)
      /\ \A n \in 1..(k - 1) : s[n] = q[n + 1]
  OBVIOUS
<1>2. \A m \in 2..k : m - 1 \in DOMAIN s /\ s[m - 1] = q[m]
  BY <1>1
<1> HIDE DEF s, k
<1>3. ASSUME Stopped(q) PROVE Stopped(s)
  <2> SUFFICES ASSUME NEW n \in DOMAIN s, s[n].op = "move"
               PROVE  \E m \in DOMAIN s : m > n /\ s[m].op = "stop"
    BY DEF Stopped
  <2>1. n + 1 \in DOMAIN q /\ q[n + 1].op = "move"
    BY <1>1
  <2>2. PICK m \in DOMAIN q : m > n + 1 /\ q[m].op = "stop"
    BY <1>3, <2>1 DEF Stopped
  <2>3. m - 1 \in DOMAIN s /\ m - 1 > n /\ s[m - 1].op = "stop"
    BY <1>1, <1>2, <2>2
  <2> QED
    BY <2>3
<1>4. ASSUME Stops(q), Head(q).op # "stop" PROVE Stops(s)
  <2>1. PICK m \in DOMAIN q : q[m].op = "stop"
    BY <1>4 DEF Stops
  <2>2. m \in 2..k
    BY <1>1, <1>4, <2>1
  <2>3. m - 1 \in DOMAIN s /\ s[m - 1].op = "stop"
    BY <1>2, <2>1, <2>2
  <2> QED
    BY <2>3 DEF Stops
<1>5. ASSUME Stopped(q), Head(q).op = "move" PROVE Stops(s)
  <2>1. PICK m \in DOMAIN q : m > 1 /\ q[m].op = "stop"
    BY <1>1, <1>5 DEF Stopped
  <2>2. m \in 2..k
    BY <1>1, <2>1
  <2>3. m - 1 \in DOMAIN s /\ s[m - 1].op = "stop"
    BY <1>2, <2>1, <2>2
  <2> QED
    BY <2>3 DEF Stops
<1>6. ASSUME NEW i \in Indices, Asked(q, i), ~Asks(Head(q), i) PROVE Asked(s, i)
  <2>1. PICK m \in DOMAIN q : Asks(q[m], i)
    BY <1>6 DEF Asked
  <2>2. m \in 2..k
    BY <1>1, <1>6, <2>1
  <2> QED
    BY <1>2, <2>1, <2>2 DEF Asked
<1> QED
  BY <1>1, <1>3, <1>4, <1>5, <1>6 DEF s

LEMMA ClientWith ==
  ASSUME NEW c \in Clients, NEW s \in Seq(Requests)
  PROVE  LET d == [c EXCEPT !.q = s]
         IN  /\ d \in Clients /\ d # None
             /\ d.cam = c.cam /\ d.open = c.open /\ d.ptz = c.ptz /\ d.q = s
<1> DEFINE d == [c EXCEPT !.q = s]
<1>1. /\ d \in Clients /\ d.cam = c.cam /\ d.open = c.open /\ d.ptz = c.ptz
      /\ d.q = s
  BY DEF Clients
<1> QED
  BY <1>1, NoneIsNew

LEMMA Sent ==
  ASSUME NEW c \in Clients, NEW r \in Requests
  PROVE  LET d == Send(c, r)
         IN  /\ d \in Clients /\ d # None
             /\ d.cam = c.cam /\ d.open = c.open /\ d.ptz = c.ptz
             /\ BarKeeps(c, d)
             /\ r.op # "move" => PadKeeps(c, d)
             /\ r.op = "stop" => Stopped(d.q) /\ Stops(d.q)
             /\ \A i \in Indices : Asks(r, i) => Asked(d.q, i)
<1> DEFINE s == Append(c.q, r)
           d == [c EXCEPT !.q = s]
<1>1. c.q \in Seq(Requests)
  BY DEF Clients
<1>2. Send(c, r) = d
  BY DEF Send
<1>3. /\ s \in Seq(Requests)
      /\ Stopped(c.q) /\ r.op # "move" => Stopped(s)
      /\ Stops(c.q) => Stops(s)
      /\ r.op = "stop" => Stopped(s) /\ Stops(s)
      /\ \A i \in Indices : Asked(c.q, i) \/ Asks(r, i) => Asked(s, i)
  BY <1>1, Appended
<1> HIDE DEF s
<1>4. /\ d \in Clients /\ d # None
      /\ d.cam = c.cam /\ d.open = c.open /\ d.ptz = c.ptz /\ d.q = s
  BY <1>3, ClientWith
<1> HIDE DEF d
<1> QED
  BY <1>2, <1>3, <1>4 DEF BarKeeps, PadKeeps

LEMMA Taken ==
  ASSUME NEW c \in Clients, c.q # <<>>
  PROVE  LET d == [c EXCEPT !.q = Tail(@)]
             r == Head(c.q)
         IN  /\ d \in Clients /\ d # None /\ r \in Requests
             /\ d.cam = c.cam /\ d.open = c.open /\ d.ptz = c.ptz
             /\ Stopped(c.q) => Stopped(d.q)
             /\ r.op # "stop" => PadKeeps(c, d)
             /\ Stopped(c.q) /\ r.op = "move" => Stops(d.q)
             /\ r.op \notin {"read", "write"} => BarKeeps(c, d)
             /\ \A i \in Indices : Asked(c.q, i) /\ ~Asks(r, i) => Asked(d.q, i)
<1> DEFINE s == Tail(c.q)
           r == Head(c.q)
           d == [c EXCEPT !.q = s]
<1>1. c.q \in Seq(Requests)
  BY DEF Clients
<1>2. /\ s \in Seq(Requests) /\ r \in Requests
      /\ Stopped(c.q) => Stopped(s)
      /\ Stops(c.q) /\ r.op # "stop" => Stops(s)
      /\ Stopped(c.q) /\ r.op = "move" => Stops(s)
      /\ \A i \in Indices : Asked(c.q, i) /\ ~Asks(r, i) => Asked(s, i)
  BY <1>1, Shortened
<1>3. [c EXCEPT !.q = Tail(@)] = d
  OBVIOUS
<1> HIDE DEF s, r
<1>4. /\ d \in Clients /\ d # None
      /\ d.cam = c.cam /\ d.open = c.open /\ d.ptz = c.ptz /\ d.q = s
  BY <1>2, ClientWith
<1> HIDE DEF d
<1> QED
  BY <1>2, <1>3, <1>4 DEF BarKeeps, PadKeeps, Asks, r

LEMMA Loaded ==
  ASSUME NEW c \in Clients, NEW b \in Bars
  PROVE  LET d == loadStream(c, b)
         IN  /\ d \in Clients /\ d # None
             /\ d.cam = c.cam /\ d.open = c.open /\ d.ptz = c.ptz
             /\ BarKeeps(c, d) /\ PadKeeps(c, d)
<1> DEFINE r == IF b.index = None
                THEN [op |-> "read", index |-> "app_stream1", discover |-> TRUE]
                ELSE [op |-> "read", index |-> b.index, discover |-> FALSE]
<1>1. r \in Requests /\ r.op = "read"
  BY DEF Requests, Bars, Indices
<1>2. loadStream(c, b) = c \/ loadStream(c, b) = Send(c, r)
  BY DEF loadStream
<1>3. BarKeeps(c, c) /\ PadKeeps(c, c) /\ c # None
  BY NoneIsNew DEF BarKeeps, PadKeeps
<1> HIDE DEF r
<1> QED
  BY <1>1, <1>2, <1>3, Sent

------------------------------------------------------------------------------
(* What carries the invariant over a step.                                 *)

\* The client is the same one, with its requests perhaps changed.
SameClient == client # None => client' \in Clients /\ client' # None
                /\ client'.cam = client.cam /\ client'.open = client.open
                /\ client'.ptz = client.ptz

LEMMA TabFrame ==
  ASSUME Waiting, TabFollows, SameClient, client = None => client' = None,
         calls' = calls, tab' = tab, suspect'.crashed = suspect.crashed
  PROVE  Waiting' /\ TabFollows'
<1>1. Waiting'
  BY DEF Waiting, SameClient
<1>2. WantsTab(client') <=> WantsTab(client)
  BY DEF WantsTab, SameClient
<1>3. TabFollows'
  BY <1>2 DEF TabFollows
<1> QED
  BY <1>1, <1>3

LEMMA BarFrame ==
  ASSUME BarFollows, client # None => client' # None /\ BarKeeps(client, client'),
         bar' = bar, cams'.val = cams.val, suspect'.bar = suspect.bar
  PROVE  BarFollows'
BY DEF BarFollows, BarKeeps

LEMMA PadFrame ==
  ASSUME PadFollows, client # None => client' # None /\ PadKeeps(client, client'),
         client = None => client' = None,
         pad'.mode = "None" => pad.mode = "None", Strays' = Strays
  PROVE  PadFollows'
BY DEF PadFollows, PadKeeps

\* A step that leaves the panels and the cameras alone, and sends nothing or
\* something that is no move.
LEMMA Quiet ==
  ASSUME Inv, client' = client \/ (client # None /\ client' \in Clients),
         client # None => /\ client'.cam = client.cam /\ client'.open = client.open
                          /\ client'.ptz = client.ptz
                          /\ BarKeeps(client, client') /\ PadKeeps(client, client'),
         UNCHANGED <<calls, tab, bar, cams, suspect>>,
         pad' \in [mode : {"None", "Sector", "FreeDrag"}, dir : Dirs \cup {None}],
         pad'.mode = "None" => pad.mode = "None"
  PROVE  Inv'
<1>1. client \in Clients \cup {None} /\ client' \in Clients \cup {None}
  BY DEF Inv, Typed
<1>2. Typed'
  BY <1>1 DEF Inv, Typed
<1>3. SameClient /\ (client = None => client' = None)
  BY <1>1, NoneIsNew DEF SameClient
<1>4. Strays' = Strays
  BY DEF Strays
<1>5. Waiting' /\ TabFollows'
  BY <1>3, TabFrame DEF Inv
<1>6. BarFollows'
  BY <1>3, BarFrame DEF Inv, SameClient
<1>7. PadFollows'
  BY <1>3, <1>4, PadFrame DEF Inv, SameClient
<1> QED
  BY <1>2, <1>5, <1>6, <1>7 DEF Inv

\* The commands of the pad.
LEMMA Told ==
  ASSUME Inv, NEW op \in {"move", "stop"}, Tell(op)
  PROVE  /\ client = None => client' = None
         /\ client' \in Clients \cup {None} /\ SameClient
         /\ client # None => BarKeeps(client, client')
         /\ client # None /\ op = "stop" => Stopped(client'.q) /\ Stops(client'.q)
         /\ client # None /\ op = "stop" => PadKeeps(client, client')
<1>1. [op |-> op] \in Requests /\ [op |-> op].op = op
  BY DEF Requests
<1>2. CASE client = None
  BY <1>2 DEF Tell, SameClient
<1>3. CASE client \in Clients
  <2>1. client # None /\ client' = Send(client, [op |-> op])
    BY <1>3, NoneIsNew DEF Tell
  <2> QED
    BY <1>1, <1>3, <2>1, Sent DEF SameClient
<1> QED
  BY <1>2, <1>3 DEF Inv, Typed

\* A command of the pad, if it holds the mouse afterwards or sends a stop.
LEMMA Commanded ==
  ASSUME Inv, NEW op \in {"move", "stop"}, Tell(op),
         UNCHANGED <<calls, tab, bar, cams, suspect>>,
         pad' \in [mode : {"None", "Sector", "FreeDrag"}, dir : Dirs \cup {None}],
         pad'.mode = "None" => op = "stop"
  PROVE  Inv'
<1>1. Typed'
  BY Told DEF Inv, Typed
<1>2. Strays' = Strays
  BY DEF Strays
<1>3. Waiting' /\ TabFollows'
  BY Told, TabFrame DEF Inv
<1>4. BarFollows'
  BY Told, BarFrame DEF Inv, SameClient
<1>5. PadFollows'
  BY Told, <1>2 DEF Inv, SameClient, PadFollows
<1> QED
  BY <1>1, <1>3, <1>4, <1>5 DEF Inv

------------------------------------------------------------------------------
(* The operator.                                                           *)

LEMMA ClickKeeps ==
  ASSUME Inv, NEW c \in Cams, Click(c)
  PROVE  Inv'
<1> DEFINE q == <<>>
           d == [cam |-> c, open |-> FALSE, ptz |-> FALSE, q |-> q]
           dead == [n \in DOMAIN calls |-> None]
<1>1. q \in Seq(Requests) /\ Stopped(q)
  BY DEF Stopped
<1>2. client' = d /\ bar' = EmptyBar /\ calls' = Append(dead, c)
  BY DEF Click, BarOfNewClient
<1>3. UNCHANGED <<tab, pad, cams>> /\ suspect' = [suspect EXCEPT !.bar = FALSE, !.moving = Abandoned]
  BY DEF Click
<1>4. d \in Clients /\ d.cam = c /\ ~d.open /\ d.q = q
  BY <1>1 DEF Clients
<1>5. d # None
  BY <1>4, NoneIsNew
<1>6. dead \in Seq(Cams \cup {None}) /\ Len(dead) = Len(calls) /\ \A n \in DOMAIN dead : dead[n] = None
  BY DEF Inv, Typed
<1> HIDE DEF q, d, dead
<1>7. /\ calls' \in Seq(Cams \cup {None}) /\ calls' # <<>> /\ calls'[Len(calls')] = c
      /\ \A n \in DOMAIN calls' : n < Len(calls') => calls'[n] = None
  BY <1>2, <1>6
<1>8. EmptyBar \in Bars /\ ~EmptyBar.drag /\ EmptyBar.doc = None
  BY DEF EmptyBar, Bars
<1>9. Abandoned \subseteq Cams
  BY DEF Abandoned, Inv, Typed, Cameras
<1>10. Typed'
  BY <1>2, <1>3, <1>4, <1>7, <1>8, <1>9 DEF Inv, Typed
<1>11. Waiting' /\ TabFollows'
  BY <1>2, <1>4, <1>5, <1>7 DEF Waiting, TabFollows
<1>12. BarFollows'
  BY <1>2, <1>8 DEF BarFollows
<1>13. suspect'.moving = Abandoned
  BY <1>3 DEF Inv, Typed
<1>14. Strays' = {}
  BY <1>3, <1>13 DEF Strays, Abandoned, Inv, PadFollows
<1>15. PadFollows'
  BY <1>1, <1>2, <1>4, <1>5, <1>14 DEF PadFollows
<1> QED
  BY <1>10, <1>11, <1>12, <1>15 DEF Inv

LEMMA DragKeeps ==
  ASSUME Inv, NEW v \in Values, Drag(v)
  PROVE  Inv'
<1>1. bar' = [bar EXCEPT !.shown = v, !.drag = TRUE] /\ UNCHANGED <<client, calls, tab, pad, cams, suspect>>
  BY DEF Drag
<1>2. /\ bar' \in Bars /\ bar'.drag /\ bar'.shown = v /\ bar'.doc = bar.doc
      /\ bar'.index = bar.index
  BY <1>1 DEF Bars, Inv, Typed
<1>3. Typed'
  BY <1>1, <1>2 DEF Inv, Typed
<1>4. Waiting' /\ TabFollows'
  BY <1>1 DEF Inv, Waiting, TabFollows
<1>5. BarFollows'
  BY <1>1, <1>2 DEF Inv, BarFollows
<1>6. PadFollows'
  BY <1>1 DEF Inv, PadFollows, Strays
<1> QED
  BY <1>3, <1>4, <1>5, <1>6 DEF Inv

LEMMA NudgeKeeps ==
  ASSUME Inv, NEW v \in Values, Nudge(v)
  PROVE  Inv'
<1>1. /\ bar' = [bar EXCEPT !.shown = v] /\ suspect' = [suspect EXCEPT !.bar = TRUE]
      /\ UNCHANGED <<client, calls, tab, pad, cams>>
  BY DEF Nudge
<1>2. /\ bar' \in Bars /\ bar'.shown = v /\ bar'.doc = bar.doc /\ bar'.index = bar.index
  BY <1>1 DEF Bars, Inv, Typed
<1>3. /\ suspect' \in [bar : BOOLEAN, moving : SUBSET Cams, crashed : BOOLEAN]
      /\ suspect'.bar = TRUE /\ suspect'.moving = suspect.moving
      /\ suspect'.crashed = suspect.crashed
  BY <1>1 DEF Inv, Typed
<1>4. Typed'
  BY <1>1, <1>2, <1>3 DEF Inv, Typed
<1>5. Waiting' /\ TabFollows'
  BY <1>1, <1>3 DEF Inv, Waiting, TabFollows
<1>6. BarFollows'
  BY <1>1, <1>2, <1>3 DEF Inv, BarFollows
<1>7. Strays' = Strays
  BY <1>1, <1>3 DEF Strays
<1>8. PadFollows'
  BY <1>1, <1>7 DEF Inv, PadFollows
<1> QED
  BY <1>4, <1>5, <1>6, <1>8 DEF Inv

LEMMA StreamChangedKeeps ==
  ASSUME Inv, NEW c \in Cams, NEW i \in Indices, NEW v \in Values, StreamChanged(c, i, v)
  PROVE  Inv'
<1> DEFINE mine == client # None /\ client.cam = c /\ i = bar.index
<1>1. /\ cams' = [cams EXCEPT !.val[c][i] = v]
      /\ suspect' = [suspect EXCEPT !.bar = suspect.bar \/ mine]
      /\ UNCHANGED <<client, calls, tab, bar, pad>>
  BY DEF StreamChanged
<1>2. cams \in Cameras /\ suspect \in [bar : BOOLEAN, moving : SUBSET Cams, crashed : BOOLEAN]
  BY DEF Inv, Typed
<1>3. /\ cams' \in Cameras /\ cams'.moving = cams.moving
      /\ \A d \in Cams, j \in Indices : d # c \/ j # i => cams'.val[d][j] = cams.val[d][j]
  BY <1>1, <1>2 DEF Cameras
<1>4. /\ suspect' \in [bar : BOOLEAN, moving : SUBSET Cams, crashed : BOOLEAN]
      /\ suspect'.bar = (suspect.bar \/ mine) /\ suspect'.moving = suspect.moving
      /\ suspect'.crashed = suspect.crashed
  BY <1>1, <1>2
<1>5. Typed'
  BY <1>1, <1>3, <1>4 DEF Inv, Typed
<1>6. Waiting' /\ TabFollows'
  BY <1>1, <1>4 DEF Inv, Waiting, TabFollows
<1>7. BarFollows'
  <2>1. client # None => client.cam \in Cams
    BY DEF Inv, Typed, Clients
  <2> QED
    BY <1>1, <1>3, <1>4, <2>1 DEF Inv, BarFollows
<1>8. Strays' = Strays
  BY <1>3, <1>4 DEF Strays
<1>9. PadFollows'
  BY <1>1, <1>8 DEF Inv, PadFollows
<1> QED
  BY <1>5, <1>6, <1>7, <1>9 DEF Inv

LEMMA WriteKeeps ==
  ASSUME Inv, writeStreamParams
  PROVE  Inv'
<1> DEFINE r == [op |-> "write", index |-> bar.index, v |-> bar.shown]
<1>1. /\ bar' = [bar EXCEPT !.drag = FALSE] /\ bar.drag
      /\ UNCHANGED <<calls, tab, pad, cams, suspect>>
  BY DEF writeStreamParams
<1>2. /\ bar' \in Bars /\ ~bar'.drag /\ bar'.shown = bar.shown /\ bar'.doc = bar.doc
      /\ bar'.index = bar.index
  BY <1>1 DEF Bars, Inv, Typed
<1>3. Strays' = Strays
  BY <1>1 DEF Strays
<1>4. CASE client = None \/ bar.index = None
  <2>1. client' = client
    BY <1>4 DEF writeStreamParams
  <2>2. bar.doc = None
    BY <1>4, NoneIsNew DEF Inv, BarFollows
  <2>3. BarFollows'
    BY <1>2, <2>2 DEF BarFollows
  <2>4. Typed'
    BY <1>1, <1>2, <2>1 DEF Inv, Typed
  <2>5. Waiting' /\ TabFollows' /\ PadFollows'
    BY <1>1, <1>3, <2>1 DEF Inv, Waiting, TabFollows, PadFollows
  <2> QED
    BY <2>3, <2>4, <2>5 DEF Inv
<1>5. CASE client \in Clients /\ bar.index \in Indices
  <2>1. client # None /\ bar.index # None
    BY <1>5, NoneIsNew
  <2>2. client' = Send(client, r)
    BY <2>1 DEF writeStreamParams
  <2>3. r \in Requests /\ r.op = "write" /\ Asks(r, bar.index)
    BY <1>1, <1>5 DEF Requests, Asks, Inv, Typed
  <2> HIDE DEF r
  <2>4. SameClient /\ client' \in Clients /\ client' # None /\ BarKeeps(client, client')
        /\ PadKeeps(client, client') /\ Asked(client'.q, bar.index)
    BY <1>5, <2>2, <2>3, Sent DEF SameClient
  <2>5. Typed'
    BY <1>1, <1>2, <2>4 DEF Inv, Typed
  <2>6. Waiting' /\ TabFollows'
    BY <1>1, <2>1, <2>4, TabFrame DEF Inv
  <2>7. BarFollows'
    BY <1>1, <1>2, <2>4 DEF Inv, BarFollows, BarKeeps
  <2>8. PadFollows'
    BY <1>1, <1>3, <2>1, <2>4, PadFrame DEF Inv
  <2> QED
    BY <2>5, <2>6, <2>7, <2>8 DEF Inv
<1> QED
  BY <1>4, <1>5 DEF Inv, Typed, Bars

LEMMA OperatorKeeps ==
  ASSUME Inv
  PROVE  /\ refreshGroup => Inv'
         /\ \A d \in Dirs : PressSector(d) => Inv'
         /\ \A d \in Dirs \cup {None} : MoveSector(d) => Inv'
         /\ PressCentre => Inv'
         /\ MoveFree => Inv'
         /\ Release => Inv'
         /\ StopButton => Inv'
<1> USE DEF Inv, Typed
<1> DEFINE Pads == [mode : {"None", "Sector", "FreeDrag"}, dir : Dirs \cup {None}]
<1>1. pad \in Pads
  OBVIOUS
<1>2. ASSUME refreshGroup PROVE Inv'
  <2>1. client # None /\ client \in Clients /\ bar \in Bars
    BY <1>2 DEF refreshGroup
  <2>2. client' = loadStream(client, bar) /\ UNCHANGED <<calls, tab, bar, pad, cams, suspect>>
    BY <1>2 DEF refreshGroup
  <2>3. /\ client' \in Clients /\ client'.cam = client.cam
        /\ client'.open = client.open /\ client'.ptz = client.ptz
        /\ BarKeeps(client, client') /\ PadKeeps(client, client')
    BY <2>1, <2>2, Loaded
  <2> QED
    BY <2>1, <2>2, <2>3, Quiet
<1>3. ASSUME NEW d \in Dirs, PressSector(d) PROVE Inv'
  <2>1. /\ pad' = [mode |-> "Sector", dir |-> d] /\ Tell("move")
        /\ UNCHANGED <<calls, tab, bar, cams, suspect>>
    BY <1>3 DEF PressSector
  <2>2. pad' \in Pads /\ pad'.mode # "None"
    BY <2>1
  <2> QED
    BY <2>1, <2>2, Commanded
<1>4. ASSUME NEW d \in Dirs \cup {None}, MoveSector(d) PROVE Inv'
  <2>1. /\ pad' = [pad EXCEPT !.dir = d] /\ UNCHANGED <<calls, tab, bar, cams, suspect>>
        /\ pad.mode = "Sector"
    BY <1>4 DEF MoveSector
  <2>2. pad' \in Pads /\ pad'.mode # "None"
    BY <1>1, <2>1
  <2>3. PICK op \in {"move", "stop"} : Tell(op)
    BY <1>4 DEF MoveSector
  <2> QED
    BY <2>1, <2>2, <2>3, Commanded
<1>5. ASSUME PressCentre PROVE Inv'
  <2>1. /\ pad' = [mode |-> "FreeDrag", dir |-> None]
        /\ UNCHANGED <<client, calls, tab, bar, cams, suspect>>
    BY <1>5 DEF PressCentre
  <2>2. pad' \in Pads /\ pad'.mode # "None"
    BY <2>1
  <2>3. BarKeeps(client, client') /\ PadKeeps(client, client')
    BY <2>1 DEF BarKeeps, PadKeeps
  <2> QED
    BY <2>1, <2>2, <2>3, Quiet
<1>6. ASSUME MoveFree PROVE Inv'
  <2>1. pad.mode = "FreeDrag" /\ Tell("move") /\ UNCHANGED <<calls, tab, bar, pad, cams, suspect>>
    BY <1>6 DEF MoveFree
  <2>2. pad' \in Pads /\ pad'.mode # "None"
    BY <1>1, <2>1
  <2> QED
    BY <2>1, <2>2, Commanded
<1>7. ASSUME Release PROVE Inv'
  <2>1. pad' = PadAtRest /\ Tell("stop") /\ UNCHANGED <<calls, tab, bar, cams, suspect>>
    BY <1>7 DEF Release, StopOnRelease
  <2>2. pad' \in Pads
    BY <2>1 DEF PadAtRest
  <2> QED
    BY <2>1, <2>2, Commanded
<1>8. ASSUME StopButton PROVE Inv'
  <2>1. Tell("stop") /\ UNCHANGED <<calls, tab, bar, pad, cams, suspect>>
    BY <1>8 DEF StopButton
  <2>2. pad' \in Pads
    BY <1>1, <2>1
  <2> QED
    BY <2>1, <2>2, Commanded
<1> QED
  BY <1>2, <1>3, <1>4, <1>5, <1>6, <1>7, <1>8

------------------------------------------------------------------------------
(* Replies.                                                                *)

LEMMA OpenedKeeps ==
  ASSUME Inv, NEW ok \in BOOLEAN, Opened(ok)
  PROVE  Inv'
<1> DEFINE c == calls[Len(calls)]
           e == SubSeq(calls, 1, Len(calls) - 1)
<1> USE DEF Inv, Typed
<1>1. calls # <<>> /\ calls' = e /\ UNCHANGED <<pad, cams>>
  BY DEF Opened
<1>2. /\ e \in Seq(Cams \cup {None}) /\ Len(e) = Len(calls) - 1
      /\ \A n \in DOMAIN e : n \in DOMAIN calls /\ n < Len(calls) /\ e[n] = calls[n]
      /\ e # <<>> => Len(e) \in DOMAIN e
  <2>1. /\ calls \in Seq(Cams \cup {None}) /\ Len(calls) \in Nat \ {0}
        /\ DOMAIN calls = 1..Len(calls)
    BY <1>1
  <2>2. /\ e \in Seq(Cams \cup {None}) /\ Len(e) = Len(calls) - 1
        /\ \A n \in 1..Len(e) : e[n] = calls[n]
    BY <2>1
  <2> HIDE DEF e
  <2>3. DOMAIN e = 1..Len(e) /\ (e # <<>> => Len(e) > 0)
    BY <2>2
  <2> QED
    BY <2>1, <2>2, <2>3
<1>3. (\A n \in DOMAIN e : e[n] = None) /\ (e # <<>> => e[Len(e)] = None)
  BY <1>2 DEF Waiting
<1>4. Waiting'
  BY <1>1, <1>3 DEF Waiting
<1> HIDE DEF e
<1>5. CASE c = None
  <2>1. suspect' = [suspect EXCEPT !.crashed = TRUE] /\ UNCHANGED <<client, bar, tab>>
    BY <1>5 DEF Opened
  <2>2. /\ suspect' \in [bar : BOOLEAN, moving : SUBSET Cams, crashed : BOOLEAN]
        /\ suspect'.bar = suspect.bar /\ suspect'.moving = suspect.moving /\ suspect'.crashed
    BY <2>1
  <2>3. Typed'
    BY <1>1, <1>2, <2>1, <2>2
  <2>4. TabFollows'
    BY <2>2 DEF TabFollows
  <2>5. BarFollows' /\ PadFollows'
    BY <1>1, <2>1, <2>2 DEF BarFollows, PadFollows, Strays
  <2> QED
    BY <1>4, <2>3, <2>4, <2>5
<1>6. CASE c # None /\ ok
  <2> DEFINE s == Append(client.q, [op |-> "info"])
             o == [client EXCEPT !.open = TRUE, !.q = s]
  <2>1. client \in Clients /\ ~client.open /\ client # None
    BY <1>1, <1>6 DEF Waiting
  <2>2. client.q \in Seq(Requests) /\ [op |-> "info"] \in Requests
    BY <2>1 DEF Clients, Requests
  <2>3. /\ s \in Seq(Requests) /\ (Stopped(client.q) => Stopped(s))
        /\ (Stops(client.q) => Stops(s))
        /\ \A i \in Indices : Asked(client.q, i) => Asked(s, i)
    BY <2>2, Appended
  <2>4. client' = loadStream(o, bar) /\ UNCHANGED <<bar, suspect>>
    BY <1>6 DEF Opened
  <2>5. tab' = WantsTab(client')
    BY <1>6 DEF Opened, updatePtzTab
  <2> HIDE DEF s
  <2>6. o \in Clients /\ o.cam = client.cam /\ o.open /\ o.q = s /\ o.ptz = client.ptz
    BY <2>1, <2>3 DEF Clients
  <2>7. PadKeeps(client, o) /\ BarKeeps(client, o)
    BY <2>3, <2>6 DEF PadKeeps, BarKeeps
  <2> HIDE DEF o
  <2>8. client' \in Clients /\ client' # None /\ PadKeeps(o, client') /\ BarKeeps(o, client')
    BY <2>4, <2>6, Loaded
  <2>9. PadKeeps(client, client') /\ BarKeeps(client, client')
    BY <2>7, <2>8 DEF PadKeeps, BarKeeps
  <2>10. WantsTab(client') \in BOOLEAN
    BY <2>8 DEF WantsTab, Clients
  <2>11. Typed'
    BY <1>1, <1>2, <2>4, <2>5, <2>8, <2>10
  <2>12. TabFollows'
    BY <2>5 DEF TabFollows
  <2>13. BarFollows'
    BY <1>1, <2>4, <2>8, <2>9, BarFrame
  <2>14. Strays' = Strays
    BY <1>1, <2>4 DEF Strays
  <2>15. PadFollows'
    BY <1>1, <2>1, <2>8, <2>9, <2>14, PadFrame
  <2> QED
    BY <1>4, <2>11, <2>12, <2>13, <2>15
<1>7. CASE c # None /\ ~ok
  <2>1. client # None /\ ~client.open
    BY <1>1, <1>7 DEF Waiting
  <2>2. client' = None /\ bar' = EmptyBar /\ UNCHANGED suspect
    BY <1>7 DEF Opened, BarOfNewClient
  <2>3. ~tab' /\ tab' \in BOOLEAN
    BY <1>7, <2>2 DEF Opened, updatePtzTab, WantsTab
  <2>4. EmptyBar \in Bars /\ ~EmptyBar.drag /\ EmptyBar.doc = None
    BY DEF EmptyBar, Bars
  <2>5. Typed'
    BY <1>1, <1>2, <2>2, <2>3, <2>4
  <2>6. TabFollows' /\ BarFollows'
    BY <2>2, <2>3, <2>4 DEF TabFollows, BarFollows, WantsTab
  <2>7. PadFollows'
    BY <1>1, <2>1, <2>2 DEF PadFollows, Strays
  <2> QED
    BY <1>4, <2>5, <2>6, <2>7
<1> QED
  BY <1>5, <1>6, <1>7

LEMMA InfoKeeps ==
  ASSUME Inv, NEW ok \in BOOLEAN, cameraInfoChanged(ok)
  PROVE  Inv'
<1> DEFINE c == [client EXCEPT !.q = Tail(@)]
           head == c.cam \in PtzCams
           p == [c EXCEPT !.ptz = head]
<1> USE DEF Inv, Typed
<1>1. /\ client # None /\ client \in Clients /\ client.q # <<>> /\ Head(client.q).op = "info"
      /\ UNCHANGED <<calls, bar, pad, cams, suspect>>
  BY DEF cameraInfoChanged
<1>2. /\ c \in Clients /\ c # None /\ c.cam = client.cam /\ c.open = client.open
      /\ c.ptz = client.ptz /\ PadKeeps(client, c) /\ BarKeeps(client, c)
  BY <1>1, Taken
<1>3. CASE ~ok
  <2>1. client' = c /\ tab' = tab
    BY <1>3 DEF cameraInfoChanged
  <2> HIDE DEF c
  <2> QED
    BY <1>1, <1>2, <2>1, Quiet
<1>4. CASE ok
  <2>1. client' = loadStream(p, bar)
    BY <1>4 DEF cameraInfoChanged
  <2>2. tab' = WantsTab(client')
    BY <1>4 DEF cameraInfoChanged, updatePtzTab
  <2>3. head \in BOOLEAN
    OBVIOUS
  <2> HIDE DEF c, head
  <2>4. p \in Clients /\ p.cam = c.cam /\ p.open = c.open /\ p.q = c.q
    BY <1>2, <2>3 DEF Clients
  <2>5. PadKeeps(c, p) /\ BarKeeps(c, p)
    BY <2>4 DEF PadKeeps, BarKeeps
  <2> HIDE DEF p
  <2>6. /\ client' \in Clients /\ client' # None /\ client'.open = p.open
        /\ PadKeeps(p, client') /\ BarKeeps(p, client')
    BY <2>1, <2>4, Loaded
  <2>7. PadKeeps(client, client') /\ BarKeeps(client, client') /\ client'.open = client.open
    BY <1>2, <2>4, <2>5, <2>6 DEF PadKeeps, BarKeeps
  <2>8. WantsTab(client') \in BOOLEAN
    BY <2>6 DEF WantsTab, Clients
  <2>9. Typed'
    BY <1>1, <2>2, <2>6, <2>8
  <2>10. Waiting' /\ TabFollows'
    BY <1>1, <2>2, <2>6, <2>7 DEF Waiting, TabFollows
  <2>11. BarFollows'
    BY <1>1, <2>6, <2>7, BarFrame
  <2>12. Strays' = Strays
    BY <1>1 DEF Strays
  <2>13. PadFollows'
    BY <1>1, <2>6, <2>7, <2>12, PadFrame
  <2> QED
    BY <2>9, <2>10, <2>11, <2>13
<1> QED
  BY <1>3, <1>4

\* What a reply says of a stream.
LEMMA DocumentOf ==
  ASSUME NEW c \in Cams, NEW i \in Indices, NEW v \in Values
  PROVE  LET d == Document(c, i, v)
         IN  d = None \/ (d \in Doc /\ d # None /\ d.cam = c /\ d.index = i /\ d.v = v)
<1> DEFINE d == [cam |-> c, index |-> i, v |-> v]
<1>1. d \in Doc /\ d.cam = c /\ d.index = i /\ d.v = v
  BY DEF Doc
<1> HIDE DEF d
<1>2. d # None
  BY <1>1, NoneIsNew
<1> QED
  BY <1>1, <1>2 DEF Document, d

\* The bar with a document that it is filled from.
LEMMA Filled ==
  ASSUME NEW m \in Bars, m.doc \in Doc, m.doc # None
  PROVE  LET n == updateStreamBar(m)
         IN  /\ n \in Bars /\ n.index = m.index /\ n.doc = m.doc /\ n.shown = m.doc.v
             /\ n.shown \in Values /\ n.drag = m.drag
<1> DEFINE v == m.doc.v
           n == [m EXCEPT !.shown = v]
<1>1. v \in Values
  BY DEF Doc
<1>2. updateStreamBar(m) = n
  BY DEF updateStreamBar
<1> HIDE DEF v
<1>3. /\ n \in Bars /\ n.index = m.index /\ n.doc = m.doc /\ n.shown = v
      /\ n.drag = m.drag
  BY <1>1 DEF Bars
<1> QED
  BY <1>1, <1>2, <1>3 DEF v

LEMMA Repainted ==
  ASSUME NEW b \in Bars, NEW doc \in Doc \cup {None}, NEW i \in Indices
  PROVE  LET n == Repaint(b, i, doc)
         IN  \/ n = b /\ (i # b.index \/ doc = None)
             \/ /\ i = b.index /\ doc # None
                /\ n \in Bars /\ n.index = i /\ n.doc = doc /\ n.shown = doc.v
                /\ n.shown \in Values /\ n.drag = b.drag
<1>1. CASE i # b.index \/ doc = None
  BY <1>1 DEF Repaint
<1>2. CASE i = b.index /\ doc # None
  <2> DEFINE m == [b EXCEPT !.doc = doc]
  <2>1. m \in Bars /\ m.index = i /\ m.doc = doc /\ m.drag = b.drag
    BY <1>2 DEF Bars
  <2>2. Repaint(b, i, doc) = updateStreamBar(m)
    BY <1>2 DEF Repaint
  <2> HIDE DEF m
  <2> QED
    BY <1>2, <2>1, <2>2, Filled
<1> QED
  BY <1>1, <1>2

\* The bar after a reply for an index: left alone, filled from the document, or,
\* when there is no document, on another index.
LEMMA Replied ==
  ASSUME BarFollows, client # None, client' # None, client'.cam = client.cam,
         NEW i \in Indices, NEW doc \in Doc \cup {None},
         \A j \in Indices : Asked(client.q, j) /\ j # i => Asked(client'.q, j),
         doc # None => /\ doc.cam = client.cam /\ doc.index = i
                       /\ doc.v = cams'.val[client.cam][i],
         \A j \in Indices : j # i => cams'.val[client.cam][j] = cams.val[client.cam][j],
         suspect'.bar <=> doc = None \/ (suspect.bar /\ i # bar'.index),
         \/ bar' = bar /\ (i # bar.index \/ doc = None)
         \/ doc # None /\ bar'.index = i /\ bar'.doc = doc /\ bar'.shown = doc.v
         \/ doc = None /\ bar'.index \in Indices /\ bar'.doc = bar.doc
  PROVE  BarFollows'
<1>1. CASE bar' = bar /\ doc = None
  BY <1>1 DEF BarFollows
<1>2. CASE bar' = bar /\ i # bar.index
  BY <1>2 DEF BarFollows
<1>3. CASE doc # None /\ bar'.index = i /\ bar'.doc = doc /\ bar'.shown = doc.v
  BY <1>3 DEF BarFollows
<1>4. CASE doc = None /\ bar'.index \in Indices /\ bar'.doc = bar.doc
  BY <1>4 DEF BarFollows
<1> QED
  BY <1>1, <1>2, <1>3, <1>4

LEMMA ReadKeeps ==
  ASSUME Inv, NEW ok \in BOOLEAN, AnsweredRead(ok)
  PROVE  Inv'
<1> DEFINE r == Head(client.q)
           i == r.index
           c == [client EXCEPT !.q = Tail(@)]
           v == cams.val[c.cam][i]
           doc == IF ok THEN Document(c.cam, i, v) ELSE None
           older == r.discover /\ doc = None
           m == [bar EXCEPT !.index = i, !.doc = doc]
           sb == BarSuspect(doc, i)
<1> USE DEF Inv, Typed
<1>1. /\ client # None /\ client \in Clients /\ client.q # <<>> /\ r.op = "read"
      /\ UNCHANGED <<calls, tab, pad, cams>>
  BY DEF AnsweredRead
<1>2. /\ c \in Clients /\ c # None /\ r \in Requests /\ c.cam = client.cam
      /\ c.open = client.open /\ c.ptz = client.ptz /\ PadKeeps(client, c)
      /\ \A j \in Indices : Asked(client.q, j) /\ ~Asks(r, j) => Asked(c.q, j)
  BY <1>1, Taken
<1>3. i \in Indices /\ r.discover \in BOOLEAN
  BY <1>1, <1>2 DEF Requests
<1>4. \A j \in Indices : Asked(client.q, j) /\ j # i => Asked(c.q, j)
  BY <1>2, <1>3 DEF Asks
<1>5. client.cam \in Cams
  BY <1>1 DEF Clients
<1>6. v \in Values
  BY <1>2, <1>3, <1>5 DEF Cameras
<1>7. /\ bar' = CASE older -> [bar EXCEPT !.index = "stream1"]
                  [] r.discover /\ ~older -> updateStreamBar(m)
                  [] OTHER -> Repaint(bar, i, doc)
      /\ client' = IF older THEN loadStream(c, bar') ELSE c
      /\ suspect' = [suspect EXCEPT !.bar = sb]
  BY DEF AnsweredRead
<1> HIDE DEF c, r, i
<1>8. /\ doc \in Doc \cup {None}
      /\ doc # None => doc \in Doc /\ doc.cam = client.cam /\ doc.index = i /\ doc.v = v
  BY <1>2, <1>3, <1>5, <1>6, DocumentOf
<1> HIDE DEF v, doc
<1>9. /\ bar' \in Bars /\ (bar'.drag => bar'.shown \in Values)
      /\ \/ bar' = bar /\ (i # bar.index \/ doc = None)
         \/ doc # None /\ bar'.index = i /\ bar'.doc = doc /\ bar'.shown = doc.v
         \/ doc = None /\ bar'.index \in Indices /\ bar'.doc = bar.doc
  <2>1. CASE older
    <3>1. bar' = [bar EXCEPT !.index = "stream1"] /\ doc = None
      BY <1>7, <2>1
    <3> QED
      BY <3>1 DEF Bars, Indices
  <2>2. CASE r.discover /\ ~older
    <3>1. bar' = updateStreamBar(m) /\ doc # None
      BY <1>7, <2>2
    <3>2. m \in Bars /\ m.index = i /\ m.doc = doc
      BY <1>3, <1>8 DEF Bars
    <3> HIDE DEF m
    <3> QED
      BY <1>8, <3>1, <3>2, Filled
  <2>3. CASE ~r.discover
    <3>1. bar' = Repaint(bar, i, doc)
      BY <1>7, <2>3
    <3> QED
      BY <1>3, <1>8, <3>1, Repainted
  <2> QED
    BY <2>1, <2>2, <2>3
<1>10. /\ client' \in Clients /\ client' # None /\ client'.cam = client.cam
       /\ client'.open = client.open /\ client'.ptz = client.ptz
       /\ PadKeeps(c, client') /\ BarKeeps(c, client')
  <2>1. CASE older
    <3>1. client' = loadStream(c, bar')
      BY <1>7, <2>1
    <3> QED
      BY <1>2, <1>9, <3>1, Loaded
  <2>2. CASE ~older
    <3>1. client' = c
      BY <1>7, <2>2
    <3> QED
      BY <1>2, <3>1 DEF PadKeeps, BarKeeps
  <2> QED
    BY <2>1, <2>2
<1> HIDE DEF older, m
<1>11. sb \in BOOLEAN /\ (sb <=> doc = None \/ (suspect.bar /\ i # bar'.index))
  BY DEF BarSuspect
<1> HIDE DEF sb
<1>12. /\ suspect' \in [bar : BOOLEAN, moving : SUBSET Cams, crashed : BOOLEAN]
       /\ suspect'.bar = sb /\ suspect'.moving = suspect.moving
       /\ suspect'.crashed = suspect.crashed
  BY <1>7, <1>11
<1>13. Typed'
  BY <1>1, <1>9, <1>10, <1>12
<1>14. Waiting' /\ TabFollows'
  BY <1>1, <1>10, <1>12, TabFrame DEF SameClient
<1>15. /\ \A j \in Indices : Asked(client.q, j) /\ j # i => Asked(client'.q, j)
       /\ cams'.val = cams.val /\ v = cams.val[client.cam][i]
  BY <1>1, <1>2, <1>4, <1>10 DEF BarKeeps, v
<1>16. BarFollows'
  BY <1>1, <1>3, <1>8, <1>9, <1>10, <1>11, <1>12, <1>15, Replied
<1>17. PadKeeps(client, client') /\ Strays' = Strays
  BY <1>1, <1>2, <1>10, <1>12 DEF PadKeeps, Strays
<1>18. PadFollows'
  BY <1>1, <1>10, <1>17, PadFrame
<1> QED
  BY <1>13, <1>14, <1>16, <1>18

LEMMA WrittenKeeps ==
  ASSUME Inv, NEW ok \in BOOLEAN, NEW taken \in BOOLEAN, AnsweredWrite(ok, taken)
  PROVE  Inv'
<1> DEFINE r == Head(client.q)
           i == r.index
           k == client.cam
           c == [client EXCEPT !.q = Tail(@)]
           v == IF taken THEN r.v ELSE cams.val[k][i]
           doc == IF ok THEN Document(k, i, v) ELSE None
           sb == BarSuspect(doc, i)
<1> USE DEF Inv, Typed
<1>1. /\ client # None /\ client \in Clients /\ client.q # <<>> /\ r.op = "write"
      /\ UNCHANGED <<calls, tab, pad>> /\ client' = c
  BY DEF AnsweredWrite
<1>2. /\ c \in Clients /\ c # None /\ r \in Requests /\ c.cam = client.cam
      /\ c.open = client.open /\ c.ptz = client.ptz /\ PadKeeps(client, c)
      /\ \A j \in Indices : Asked(client.q, j) /\ ~Asks(r, j) => Asked(c.q, j)
  BY <1>1, Taken
<1>3. i \in Indices /\ r.v \in Values
  BY <1>1, <1>2 DEF Requests
<1>4. \A j \in Indices : Asked(client.q, j) /\ j # i => Asked(c.q, j)
  BY <1>2, <1>3 DEF Asks
<1>5. k \in Cams
  BY <1>1 DEF Clients
<1>6. v \in Values
  BY <1>3, <1>5 DEF Cameras
<1>7. /\ cams' = [cams EXCEPT !.val[k][i] = v] /\ bar' = Repaint(bar, i, doc)
      /\ suspect' = [suspect EXCEPT !.bar = sb]
  BY DEF AnsweredWrite
<1> HIDE DEF c, r, i, k, v
<1>8. /\ doc \in Doc \cup {None}
      /\ doc # None => doc \in Doc /\ doc.cam = k /\ doc.index = i /\ doc.v = v
  BY <1>3, <1>5, <1>6, DocumentOf
<1> HIDE DEF doc
<1>9. /\ bar' \in Bars /\ (bar'.drag => bar'.shown \in Values)
      /\ \/ bar' = bar /\ (i # bar.index \/ doc = None)
         \/ doc # None /\ bar'.index = i /\ bar'.doc = doc /\ bar'.shown = doc.v
  BY <1>3, <1>7, <1>8, Repainted
<1>10. /\ cams' \in Cameras /\ cams'.moving = cams.moving /\ cams'.val[k][i] = v
       /\ \A j \in Indices : j # i => cams'.val[k][j] = cams.val[k][j]
  <2> DEFINE row == [cams.val[k] EXCEPT ![i] = v]
             val == [cams.val EXCEPT ![k] = row]
  <2>1. /\ row \in [Indices -> Values] /\ row[i] = v
        /\ \A j \in Indices : j # i => row[j] = cams.val[k][j]
    BY <1>3, <1>5, <1>6 DEF Cameras
  <2>2. cams' = [cams EXCEPT !.val = val]
    BY <1>7
  <2> HIDE DEF row
  <2>3. val \in [Cams -> [Indices -> Values]] /\ val[k] = row
    BY <1>5, <2>1 DEF Cameras
  <2> HIDE DEF val
  <2>4. cams' \in Cameras /\ cams'.moving = cams.moving /\ cams'.val = val
    BY <2>2, <2>3 DEF Cameras
  <2> QED
    BY <2>1, <2>3, <2>4
<1>11. sb \in BOOLEAN /\ (sb <=> doc = None \/ (suspect.bar /\ i # bar'.index))
  BY DEF BarSuspect
<1> HIDE DEF sb
<1>12. /\ suspect' \in [bar : BOOLEAN, moving : SUBSET Cams, crashed : BOOLEAN]
       /\ suspect'.bar = sb /\ suspect'.moving = suspect.moving
       /\ suspect'.crashed = suspect.crashed
  BY <1>7, <1>11
<1>13. Typed'
  BY <1>1, <1>2, <1>9, <1>10, <1>12
<1>14. Waiting' /\ TabFollows'
  BY <1>1, <1>2, <1>12, TabFrame DEF SameClient
<1>15. BarFollows'
  BY <1>1, <1>2, <1>3, <1>4, <1>8, <1>9, <1>10, <1>11, <1>12, Replied DEF k
<1>16. Strays' = Strays
  BY <1>10, <1>12 DEF Strays
<1>17. PadFollows'
  BY <1>1, <1>2, <1>16, PadFrame
<1> QED
  BY <1>13, <1>14, <1>15, <1>17

\* A stop that is handled stops the camera, and one that is lost is suspected; a
\* move is only handled by a camera that is connected.
LEMMA CommandKeeps ==
  ASSUME Inv, NEW taken \in BOOLEAN, PadCommand(taken)
  PROVE  Inv'
<1> DEFINE r == Head(client.q)
           k == client.cam
           c == [client EXCEPT !.q = Tail(@)]
           mv == IF ~taken THEN cams.moving
                 ELSE IF r.op = "stop" THEN cams.moving \ {k} ELSE cams.moving \cup {k}
           sm == IF r.op = "stop" /\ k \in mv THEN suspect.moving \cup {k}
                 ELSE IF r.op = "stop" THEN suspect.moving \ {k} ELSE suspect.moving
<1> USE DEF Inv, Typed
<1>1. /\ client # None /\ client \in Clients /\ client.q # <<>> /\ r.op \in {"move", "stop"}
      /\ UNCHANGED <<calls, tab, bar, pad>> /\ client' = c /\ (taken => client.open)
  BY DEF PadCommand
<1>2. /\ c \in Clients /\ c # None /\ c.cam = client.cam
      /\ c.open = client.open /\ c.ptz = client.ptz /\ BarKeeps(client, c)
      /\ (Stopped(client.q) => Stopped(c.q))
      /\ (Stopped(client.q) /\ r.op = "move" => Stops(c.q))
  BY <1>1, Taken
<1>3. k \in Cams
  BY <1>1 DEF Clients
<1>4. cams' = [cams EXCEPT !.moving = mv] /\ mv \subseteq Cams
  BY <1>3 DEF PadCommand, Cameras
<1>5. cams' \in Cameras /\ cams'.moving = mv /\ cams'.val = cams.val
  BY <1>4 DEF Cameras
<1>6. suspect' = [suspect EXCEPT !.moving = sm] /\ sm \subseteq Cams
  BY <1>3, <1>5 DEF PadCommand
<1> HIDE DEF c
<1>7. /\ suspect' \in [bar : BOOLEAN, moving : SUBSET Cams, crashed : BOOLEAN]
      /\ suspect'.moving = sm /\ suspect'.bar = suspect.bar
      /\ suspect'.crashed = suspect.crashed
  BY <1>6
<1>8. Typed'
  BY <1>1, <1>2, <1>5, <1>7
<1>9. Waiting' /\ TabFollows'
  BY <1>1, <1>2, <1>7, TabFrame DEF SameClient
<1>10. BarFollows'
  BY <1>1, <1>2, <1>5, <1>7, BarFrame
<1>11. Strays \subseteq {k} /\ (~client.open => Strays = {})
  BY <1>1 DEF PadFollows
<1>12. Strays' = mv \ sm
  BY <1>5, <1>7 DEF Strays
<1>13. CASE r.op = "stop"
  <2>1. Strays' = {}
    BY <1>11, <1>12, <1>13 DEF Strays
  <2> QED
    BY <1>1, <1>2, <1>8, <1>9, <1>10, <2>1 DEF PadFollows
<1>14. CASE r.op = "move"
  <2>1. Strays' \subseteq {k} /\ (~client.open => Strays' = {})
    BY <1>1, <1>11, <1>12, <1>14 DEF Strays
  <2>2. pad'.mode = "None" => Stopped(c.q) /\ Stops(c.q)
    BY <1>1, <1>2, <1>14 DEF PadFollows
  <2>3. PadFollows'
    BY <1>1, <1>2, <2>1, <2>2 DEF PadFollows
  <2> QED
    BY <1>8, <1>9, <1>10, <2>3
<1> QED
  BY <1>1, <1>13, <1>14

------------------------------------------------------------------------------
(* The theorems.                                                           *)

LEMMA InvInit == Init => Inv
<1> SUFFICES ASSUME Init PROVE Inv
  OBVIOUS
<1> DEFINE v0 == CHOOSE v \in Values : TRUE
           val == [c \in Cams |-> [i \in Indices |-> v0]]
<1>1. v0 \in Values
  BY PanelAssumption
<1> HIDE DEF v0
<1>2. val \in [Cams -> [Indices -> Values]]
  BY <1>1
<1>3. cams = [val |-> val, moving |-> {}]
  BY DEF Init, v0
<1> HIDE DEF val
<1>4. cams \in Cameras /\ cams.moving = {}
  BY <1>2, <1>3 DEF Cameras
<1>5. bar \in Bars /\ bar.doc = None /\ ~bar.drag
  BY DEF Init, EmptyBar, Bars
<1>6. /\ pad \in [mode : {"None", "Sector", "FreeDrag"}, dir : Dirs \cup {None}]
      /\ suspect \in [bar : BOOLEAN, moving : SUBSET Cams, crashed : BOOLEAN]
  BY DEF Init, PadAtRest
<1>7. client = None /\ calls = <<>> /\ ~tab /\ tab \in BOOLEAN
  BY DEF Init
<1>8. Typed
  BY <1>4, <1>5, <1>6, <1>7 DEF Typed
<1>9. Waiting /\ TabFollows /\ BarFollows /\ PadFollows
  BY <1>4, <1>5, <1>7 DEF Waiting, TabFollows, WantsTab, BarFollows, PadFollows, Strays
<1> QED
  BY <1>8, <1>9 DEF Inv

LEMMA InvNext == Inv /\ [Next]_vars => Inv'
<1> SUFFICES ASSUME Inv, [Next]_vars PROVE Inv'
  OBVIOUS
<1>1. CASE UNCHANGED vars
  BY <1>1 DEF vars, Inv, Typed, Waiting, TabFollows, WantsTab, BarFollows, PadFollows, Strays
<1>2. CASE Next
  BY <1>2, ClickKeeps, DragKeeps, NudgeKeeps, StreamChangedKeeps, WriteKeeps, OperatorKeeps,
     OpenedKeeps, InfoKeeps, ReadKeeps, CommandKeeps, WrittenKeeps DEF Next
<1> QED
  BY <1>1, <1>2

LEMMA Invariance == Spec => []Inv
BY InvInit, InvNext, PTL DEF Spec

\* The state of the panels stays of its type: what a reply of any camera brings
\* leaves the bar with a document, an index and a value it can show.
THEOREM Typing == Spec => []TypeOK
<1>1. Inv => TypeOK
  BY DEF Inv, Typed, TypeOK, Bars, Cameras
<1> QED
  BY <1>1, Invariance, PTL

\* The stream bar shows the open camera: documents of another one never reach it,
\* and with nothing in flight it shows the value of the index it writes to.
THEOREM BarFollowsCamera == Spec => []BarShowsCamera
<1>1. Inv => BarShowsCamera
  <2> SUFFICES ASSUME Inv, bar.doc # None PROVE BarShowsCamera
    BY DEF BarShowsCamera
  <2>1. ~Pending({"read", "write"}) => ~Asked(client.q, bar.index)
    BY DEF Inv, BarFollows, Pending, Asked, Asks
  <2> QED
    BY <2>1 DEF Inv, BarFollows, BarShowsCamera
<1> QED
  BY <1>1, Invariance, PTL

\* With the joystick released and its stop sent no camera goes on moving, but for
\* one whose stop was lost with the request or with its client.
THEOREM ReleaseStops == Spec => []PadStops
<1>1. Inv => PadStops
  <2> SUFFICES ASSUME Inv, pad.mode = "None", ~Pending({"stop"})
               PROVE  cams.moving \subseteq suspect.moving
    BY DEF PadStops
  <2>1. Strays = {}
    BY DEF Inv, PadFollows, Pending, Stops
  <2> QED
    BY <2>1 DEF Strays
<1> QED
  BY <1>1, Invariance, PTL

\* Once no connect() is waiting the PTZ tab is there exactly if the client that
\* there is has reported a pan-tilt head.
THEOREM TabShowsHead == Spec => []TabFollows
BY Invariance, PTL DEF Inv
==============================================================================

----------------------------- MODULE CameraRail -----------------------------
(***************************************************************************)
(* The camera rail of the dock (ZcCameraRail and its delegate, and the     *)
(* handlers of ZcControlDock behind it, in src/ui/zc_control_dock.cpp),    *)
(* between the discovery of cameras, which lists them, and OBS, which      *)
(* holds some of them as sources.                                          *)
(*                                                                         *)
(* Everything of the rail runs on the Qt thread, one event at a time.      *)
(* OBS changes its table of sources on other threads and signals most      *)
(* changes; a signal becomes a queued call of refreshRailPresence().       *)
(* connect() waits in a nested event loop, so a click on a row has a       *)
(* beginning and an end; a second click meanwhile is left to DockPanels.   *)
(* The order of the rows is left out.                                      *)
(***************************************************************************)
EXTENDS Naturals, FiniteSets

CONSTANTS
  Hosts,     \* what follows "ZCamera " in the name of a source
  Addresses, \* those of them that are addresses of cameras
  Default1, Default2, \* the names of a source that was given no address
  MaxObs,    \* what others do to the sources of OBS and to discovery
  MaxClicks, \* gestures of the operator
  MaxQueued, \* OBS changes its table while fewer calls are queued
  None

Names == Hosts \cup {Default1, Default2}

ASSUME RailAssumption ==
  /\ Addresses \subseteq Hosts /\ Default1 # Default2
  /\ {Default1, Default2, None} \cap Hosts = {}
  /\ {MaxObs, MaxClicks, MaxQueued} \subseteq Nat

VARIABLES
  rail,    \* its rows, added_ and the clickedHost_ of the delegate
  known,   \* reachableHosts_ and unreachableHosts_
  opening, \* the camera whose connect() is waiting
  gesture, \* the row the mouse was pressed on, and how often its chip fired
  found,   \* the cameras that discovery lists
  table,   \* the sources of OBS by name, and its signals not handled yet
  spent    \* what has happened, for the bounds

vars == <<rail, known, opening, gesture, found, table, spent>>

\* A row without a name is that of a source discovery does not list.
Row == [named : BOOLEAN, offline : BOOLEAN, added : BOOLEAN]
Source == [zc : BOOLEAN, ip : Addresses \cup {None}, removed : BOOLEAN,
           scene : BOOLEAN]

ASSUME NoneIsNew == None \notin Row \cup Source

TypeOK ==
  /\ rail.rows \in [Hosts -> Row \cup {None}]
  /\ rail.added \subseteq Hosts /\ rail.clicked \in Hosts \cup {None}
  /\ known.yes \subseteq Hosts /\ known.no \subseteq Hosts
  /\ opening \in Hosts \cup {None}
  /\ gesture.on \in Hosts \cup {None} /\ gesture.fires \in 0..2
  /\ gesture.valid \in BOOLEAN
  /\ found \subseteq Addresses
  /\ table.src \in [Names -> Source \cup {None}]
  /\ table.queued \in Nat
  /\ spent.obs \in 0..MaxObs /\ spent.clicks \in 0..MaxClicks

NoGesture == [on |-> None, fires |-> 0, valid |-> FALSE]

Init ==
  /\ rail = [rows |-> [h \in Hosts |-> None], added |-> {}, clicked |-> None]
  /\ known = [yes |-> {}, no |-> {}]
  /\ opening = None
  /\ gesture = NoGesture
  /\ found \in SUBSET Addresses
  /\ table = [src |-> [n \in Names |-> None], queued |-> 0]
  /\ spent = [obs |-> 0, clicks |-> 0]

(***************************************************************************)
(* The rail.  Its methods are operators on its state r.                    *)
(***************************************************************************)
applyRow(r, h) == [r EXCEPT !.rows[h].added = h \in r.added]

RowsOf(r) == {h \in Hosts : r.rows[h] # None}

\* Every row as added_ says.
Applied(r) ==
  [r EXCEPT !.rows = [h \in Hosts |->
     IF @[h] = None THEN None ELSE applyRow(r, h).rows[h]]]

setAddedHosts(r, added) ==
  IF r.added = added THEN r ELSE Applied([r EXCEPT !.added = added])

\* What tells the rows of two lists apart.
rowKey(row) == IF row = None THEN None ELSE <<row.named, row.offline>>

\* The list is rebuilt only if its rows would differ.
setCameras(r, rows) ==
  IF \A h \in Hosts : rowKey(r.rows[h]) = rowKey(rows[h]) THEN r
  ELSE Applied([r EXCEPT !.rows = rows])

\* Mutant: only the next scan updates the mark.
setHostOfflineLater(r, h, offline) == r

setHostOffline(r, h, offline) ==
  IF h \in RowsOf(r) THEN applyRow([r EXCEPT !.rows[h].offline = offline], h)
  ELSE r

(***************************************************************************)
(* The dock and OBS.                                                       *)
(***************************************************************************)
\* A source that was removed keeps its name until it is destroyed.
isCameraAdded(t, h) == t.src[h] # None

sourceHosts(t) == {h \in Hosts : t.src[h] # None}

refreshRailPresence(r, t) ==
  setAddedHosts(r, {h \in RowsOf(r) : isCameraAdded(t, h)})

\* Mutant: only discovery makes rows.
ExtraHostsNone(t, f) == {}

\* The cameras that OBS holds and discovery does not list.
ExtraHosts(t, f) == sourceHosts(t) \ f

\* One scan: the rows that it lists.
Scanned ==
  LET extra == ExtraHosts(table, found)
  IN  [h \in Hosts |->
        IF h \notin found \cup extra THEN None
        ELSE [named |-> h \in found, added |-> FALSE,
              offline |-> h \in known.no
                          \/ (h \in extra /\ h \notin known.yes)]]

refreshCameras ==
  /\ LET r == setCameras(rail, Scanned)
     IN  /\ rail' = refreshRailPresence(r, table)
         \* a rebuilt list has forgotten the row that was pressed
         /\ gesture' = IF r = rail THEN gesture
                       ELSE [gesture EXCEPT !.valid = FALSE]
  /\ UNCHANGED <<known, opening, found, table, spent>>

\* OBS tells of a new source, of the end of one and of a new name.
Signalled(t) == [t EXCEPT !.queued = @ + 1]

\* The first source with a default name, of this plugin and without an address.
Reclaimable(t) ==
  LET ok(n) == t.src[n] # None /\ t.src[n].zc /\ t.src[n].ip = None
  IN  IF ok(Default1) THEN {Default1}
      ELSE IF ok(Default2) THEN {Default2} ELSE {}

\* It gets the name of the camera.
reclaimDefaultSource(t, h, n) ==
  Signalled([t EXCEPT !.src[n] = None, !.src[h] = t.src[n]])

\* The source of the camera, found, reclaimed or created.
SourceFor(t, h) ==
  IF t.src[h] # None THEN t
  ELSE IF Reclaimable(t) # {}
  THEN reclaimDefaultSource(t, h, CHOOSE n \in Reclaimable(t) : TRUE)
  ELSE Signalled([t EXCEPT !.src[h] =
         [zc |-> TRUE, ip |-> None, removed |-> FALSE, scene |-> FALSE]])

\* It gets the address, whatever it is, and joins the scene unless it has been
\* removed.
addCameraToSource(t, h) ==
  LET u == SourceFor(t, h)
  IN  [u EXCEPT !.src[h].ip = IF h \in Addresses THEN h ELSE @,
                !.src[h].scene = @ \/ ~u.src[h].removed]

removeCameraFromSource(t, h) ==
  IF t.src[h] = None THEN t
  ELSE [t EXCEPT !.src[h].removed = TRUE, !.src[h].scene = FALSE]

\* onChip() of the delegate: a mark removes the camera, a plus adds it.
OnChip(r, h) ==
  LET t == IF r.rows[h].added THEN removeCameraFromSource(table, h)
           ELSE addCameraToSource(table, h)
  IN  /\ table' = t
      /\ rail' = refreshRailPresence(r, t)

(***************************************************************************)
(* The mouse.                                                              *)
(***************************************************************************)
\* The button is pressed on the chip of a row, which fires, or beside it.
Press(h, chip) ==
  /\ gesture.on = None /\ h \in RowsOf(rail) /\ spent.clicks < MaxClicks
  /\ spent' = [spent EXCEPT !.clicks = @ + 1]
  /\ gesture' = [on |-> h, fires |-> IF chip THEN 1 ELSE 0, valid |-> TRUE]
  /\ IF chip THEN OnChip([rail EXCEPT !.clicked = h], h)
     ELSE UNCHANGED <<rail, table>>
  /\ UNCHANGED <<known, opening, found>>

\* Mutant: the press is not remembered.
TrackedNever(r, h) == FALSE

\* The release belongs to a press of the chip that has fired.
Tracked(r, h) == r.clicked = h

\* The button is released on the chip of the row it was pressed on.
ReleaseOnChip ==
  /\ gesture.on # None /\ gesture.valid /\ opening = None
  /\ LET h == gesture.on
     IN  IF Tracked(rail, h)
         THEN /\ rail' = [rail EXCEPT !.clicked = None]
              /\ gesture' = NoGesture
              /\ UNCHANGED table
         ELSE /\ OnChip(rail, h)
              /\ gesture' = IF gesture.fires = 0 THEN NoGesture
                            ELSE [gesture EXCEPT !.fires = 2]
  /\ opening' = gesture.on
  /\ UNCHANGED <<known, found, spent>>

\* It is released beside the chip of that row: the row is clicked too.
ReleaseOnRow ==
  /\ gesture.on # None /\ gesture.valid /\ opening = None
  /\ opening' = gesture.on
  /\ gesture' = NoGesture
  /\ UNCHANGED <<rail, known, found, table, spent>>

\* It is released elsewhere, or the row is another one by now.
ReleaseElsewhere ==
  /\ gesture.on # None
  /\ gesture' = NoGesture
  /\ UNCHANGED <<rail, known, opening, found, table, spent>>

\* openCamera() has come back to onCameraClicked().
Opened(ok) ==
  /\ opening # None
  /\ known' = IF ok
              THEN [yes |-> known.yes \cup {opening}, no |-> known.no \ {opening}]
              ELSE [yes |-> known.yes \ {opening}, no |-> known.no \cup {opening}]
  /\ rail' = refreshRailPresence(setHostOffline(rail, opening, ~ok), table)
  /\ opening' = None
  /\ UNCHANGED <<gesture, found, table, spent>>

(***************************************************************************)
(* The other threads.                                                      *)
(***************************************************************************)
\* The queued call of a signal.
QueuedRefresh ==
  /\ table.queued > 0
  /\ table' = [table EXCEPT !.queued = @ - 1]
  /\ rail' = refreshRailPresence(rail, table)
  /\ UNCHANGED <<known, opening, gesture, found, spent>>

\* Mutant: the names of sources are not watched.
RenameUnwatched(t) == t

\* What OBS signals when a source has a new name.
Renamed(t) == Signalled(t)

ObsActs == spent.obs < MaxObs /\ spent' = [spent EXCEPT !.obs = @ + 1]

\* A source is made by hand, by this plugin or another, or loaded.
ObsCreates(n, s) ==
  /\ ObsActs /\ table.queued < MaxQueued /\ table.src[n] = None
  /\ table' = Signalled([table EXCEPT !.src[n] = s])
  /\ UNCHANGED <<rail, known, opening, gesture, found>>

ObsRenames(n, m) ==
  /\ ObsActs /\ table.queued < MaxQueued
  /\ table.src[n] # None /\ table.src[m] = None
  /\ table' = Renamed([table EXCEPT !.src[n] = None, !.src[m] = table.src[n]])
  /\ UNCHANGED <<rail, known, opening, gesture, found>>

ObsRemoves(n) ==
  /\ ObsActs /\ table.src[n] # None /\ ~table.src[n].removed
  /\ table' = [table EXCEPT !.src[n].removed = TRUE, !.src[n].scene = FALSE]
  /\ UNCHANGED <<rail, known, opening, gesture, found>>

\* The last reference to a removed source is gone.
ObsDestroys(n) ==
  /\ table.src[n] # None /\ table.src[n].removed
  /\ table' = Signalled([table EXCEPT !.src[n] = None])
  /\ UNCHANGED <<rail, known, opening, gesture, found, spent>>

Discovery(h) ==
  /\ ObsActs
  /\ found' = IF h \in found THEN found \ {h} ELSE found \cup {h}
  /\ UNCHANGED <<rail, known, opening, gesture, table>>

New == {s \in Source : ~s.removed /\ s.scene /\ (s.zc \/ s.ip = None)}

Next ==
  \/ refreshCameras \/ QueuedRefresh
  \/ \E h \in Hosts, chip \in BOOLEAN : Press(h, chip)
  \/ ReleaseOnChip \/ ReleaseOnRow \/ ReleaseElsewhere
  \/ \E ok \in BOOLEAN : Opened(ok)
  \/ \E n \in Names, s \in New : ObsCreates(n, s)
  \/ \E n, m \in Names : ObsRenames(n, m)
  \/ \E n \in Names : ObsRemoves(n) \/ ObsDestroys(n)
  \/ \E h \in Addresses : Discovery(h)

\* The scan timer and the queued calls run while the event loop does.
Fairness == WF_vars(refreshCameras) /\ WF_vars(QueuedRefresh)

Spec == Init /\ [][Next]_vars /\ Fairness

(***************************************************************************)
(* Properties.                                                             *)
(***************************************************************************)
\* The mark of a row says whether OBS holds its camera as a source once the
\* signals of OBS have been handled, whoever made, renamed or removed the source
\* and whenever the list was rebuilt (setAddedHosts() skips equal sets,
\* setCameras() equal rows).
PresenceSettles ==
  table.queued = 0 =>
    \A h \in RowsOf(rail) : rail.rows[h].added <=> isCameraAdded(table, h)

\* A row is offline if its camera has not answered the last time it was opened, or
\* was never opened and is not listed by discovery, though a click changes the
\* mark in place and a scan that finds equal rows leaves it alone.
OfflineMark ==
  \A h \in RowsOf(rail) :
    rail.rows[h].offline <=>
      h \in known.no \/ (h \notin known.yes /\ ~rail.rows[h].named)

\* "Fire exactly once per click": the release of a chip whose press has fired does
\* not fire again, although the row may show the new state by then (editorEvent).
FiresOnce == gesture.fires <= 1

\* A camera that OBS holds as a source gets a row and keeps it, whether or not
\* discovery lists it (refreshCameras).
SourceListed ==
  \A h \in Hosts :
    (<>[](table.src[h] # None)) => (<>[](rail.rows[h] # None))

\* "Names that are not `ZCamera <ip>` (scenes, other plugins' sources) are filtered
\* out" (zc_control_dock.cpp:2254): the second source that is made by hand is
\* called "ZCamera 2", and 2 gets a row.
RowsAreCameras == RowsOf(rail) \subseteq Addresses
=============================================================================

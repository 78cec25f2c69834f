------------------------- MODULE ControlDock_proofs -------------------------
(***************************************************************************)
(* Theorems about two parts of the control dock, each for any values of    *)
(* its constants: the camera rail first, then the preset and trace panel.  *)
(***************************************************************************)
EXTENDS CameraRail, PresetPanel, TLAPS

------------------------------------------------------------------------------
(* The camera rail: the inductive invariant.                               *)

RailState  == [rows : [Hosts -> Row \cup {None}], added : SUBSET Hosts,
               clicked : Hosts \cup {None}]
TableState == [src : [Names -> Source \cup {None}], queued : Nat]

Typed ==
  /\ rail \in RailState
  /\ known \in [yes : SUBSET Hosts, no : SUBSET Hosts]
  /\ opening \in Hosts \cup {None}
  /\ gesture \in [on : Hosts \cup {None}, fires : 0..1, valid : BOOLEAN]
  /\ found \subseteq Addresses
  /\ table \in TableState
  /\ spent \in [obs : 0..MaxObs, clicks : 0..MaxClicks]

\* A row shows what added_ says, between two methods of the rail too.
Marked(r) == \A h \in RowsOf(r) : r.rows[h].added <=> h \in r.added

\* added_ is what OBS has of the rows, from the last refresh to the next change
\* that OBS signals.
Settled(r, t) == \A h \in RowsOf(r) : h \in r.added <=> isCameraAdded(t, h)

\* Two rails that differ in the marks of their rows at most.
SameRows(r, e) ==
  \A h \in Hosts :
    /\ e.rows[h] = None <=> r.rows[h] = None
    /\ r.rows[h] # None => /\ e.rows[h].named = r.rows[h].named
                           /\ e.rows[h].offline = r.rows[h].offline

\* The delegate remembers the row whose chip has fired.
Remembered == gesture.fires = 1 => rail.clicked = gesture.on

Inv ==
  /\ Typed /\ Marked(rail) /\ OfflineMark /\ Remembered
  /\ table.queued = 0 => Settled(rail, table)

------------------------------------------------------------------------------
(* The methods of the rail.                                                *)

LEMMA MarkedRow ==
  ASSUME NEW x \in Row, NEW b \in BOOLEAN
  PROVE  LET y == [x EXCEPT !.added = b]
         IN  /\ y \in Row /\ y # None /\ y.added = b
             /\ y.named = x.named /\ y.offline = x.offline
<1> DEFINE y == [x EXCEPT !.added = b]
<1>1. y \in Row /\ y.added = b /\ y.named = x.named /\ y.offline = x.offline
  BY DEF Row
<1> QED
  BY <1>1, NoneIsNew

LEMMA AppliedRail ==
  ASSUME NEW r \in RailState
  PROVE  /\ Applied(r) \in RailState
         /\ Applied(r).added = r.added /\ Applied(r).clicked = r.clicked
         /\ Marked(Applied(r))
         /\ SameRows(r, Applied(r))
<1> DEFINE Row1(h) == [r.rows[h] EXCEPT !.added = h \in r.added]
           rs == [h \in Hosts |-> IF r.rows[h] = None THEN None ELSE Row1(h)]
<1>1. ASSUME NEW h \in Hosts, r.rows[h] # None
      PROVE  applyRow(r, h).rows[h] = Row1(h)
  BY <1>1 DEF applyRow, RailState
<1>2. ASSUME NEW h \in Hosts, r.rows[h] # None
      PROVE  /\ Row1(h) \in Row /\ Row1(h) # None
             /\ Row1(h).added = (h \in r.added)
             /\ Row1(h).named = r.rows[h].named /\ Row1(h).offline = r.rows[h].offline
  <2>1. r.rows[h] \in Row
    BY <1>2 DEF RailState
  <2>2. (h \in r.added) \in BOOLEAN
    OBVIOUS
  <2> QED
    BY <2>1, <2>2, MarkedRow
<1>3. Applied(r) = [r EXCEPT !.rows = rs]
  BY <1>1 DEF Applied
<1> HIDE DEF Row1
<1>4. rs \in [Hosts -> Row \cup {None}]
  BY <1>2
<1>5. /\ Applied(r) \in RailState /\ Applied(r).rows = rs
      /\ Applied(r).added = r.added /\ Applied(r).clicked = r.clicked
  <2> HIDE DEF rs
  <2> QED
    BY <1>3, <1>4 DEF RailState
<1> QED
  BY <1>2, <1>5 DEF Marked, SameRows, RowsOf

LEMMA Refreshed ==
  ASSUME NEW r \in RailState, NEW t, Marked(r)
  PROVE  LET e == refreshRailPresence(r, t)
         IN  /\ e \in RailState /\ e.clicked = r.clicked
             /\ Marked(e) /\ Settled(e, t) /\ SameRows(r, e)
<1> DEFINE a == {h \in RowsOf(r) : isCameraAdded(t, h)}
           s == [r EXCEPT !.added = a]
           e == refreshRailPresence(r, t)
<1>1. a \in SUBSET Hosts
  BY DEF RowsOf
<1>2. CASE r.added = a
  <2>1. e = r
    BY <1>2 DEF refreshRailPresence, setAddedHosts
  <2> QED
    BY <1>2, <2>1 DEF Settled, SameRows
<1>3. CASE r.added # a
  <2>1. e = Applied(s)
    BY <1>3 DEF refreshRailPresence, setAddedHosts
  <2>2. s \in RailState /\ s.added = a /\ s.rows = r.rows /\ s.clicked = r.clicked
    <3> HIDE DEF a
    <3> QED
      BY <1>1 DEF RailState
  <2> HIDE DEF s
  <2>3. /\ e \in RailState /\ e.added = a /\ e.clicked = r.clicked
        /\ Marked(e) /\ SameRows(s, e)
    BY <2>1, <2>2, AppliedRail
  <2>4. SameRows(r, e) /\ RowsOf(e) = RowsOf(r)
    BY <2>2, <2>3 DEF SameRows, RowsOf
  <2>5. Settled(e, t)
    BY <2>3, <2>4 DEF Settled
  <2> QED
    BY <2>3, <2>4, <2>5
<1> QED
  BY <1>2, <1>3

LEMMA SetCameras ==
  ASSUME NEW r \in RailState, Marked(r), NEW rows \in [Hosts -> Row \cup {None}]
  PROVE  LET e == setCameras(r, rows)
         IN  /\ e \in RailState /\ e.clicked = r.clicked /\ Marked(e)
             /\ e = r \/ SameRows([r EXCEPT !.rows = rows], e)
<1> DEFINE s == [r EXCEPT !.rows = rows]
           e == setCameras(r, rows)
<1>1. s \in RailState /\ s.clicked = r.clicked
  BY DEF RailState
<1>2. e = r \/ e = Applied(s)
  BY DEF setCameras
<1> HIDE DEF s, e
<1>3. e = r \/ SameRows(s, e)
  BY <1>1, <1>2, AppliedRail
<1>4. e \in RailState /\ e.clicked = r.clicked /\ Marked(e)
  BY <1>1, <1>2, AppliedRail
<1> QED
  BY <1>3, <1>4 DEF s, e

LEMMA SetHostOffline ==
  ASSUME NEW r \in RailState, Marked(r), NEW h \in Hosts, NEW offline \in BOOLEAN
  PROVE  LET e == setHostOffline(r, h, offline)
         IN  /\ e \in RailState /\ e.clicked = r.clicked /\ Marked(e)
             /\ RowsOf(e) = RowsOf(r)
             /\ \A g \in RowsOf(r) :
                  /\ e.rows[g].named = r.rows[g].named
                  /\ e.rows[g].offline = IF g = h THEN offline ELSE r.rows[g].offline
<1> DEFINE e == setHostOffline(r, h, offline)
<1>1. CASE h \notin RowsOf(r)
  <2>1. e = r
    BY <1>1 DEF setHostOffline
  <2> QED
    BY <1>1, <2>1
<1>2. CASE h \in RowsOf(r)
  <2> DEFINE x == [r.rows[h] EXCEPT !.offline = offline]
             y == [x EXCEPT !.added = h \in r.added]
             ys == [r.rows EXCEPT ![h] = y]
  <2>1. r.rows[h] \in Row
    BY <1>2 DEF RowsOf, RailState
  <2>2. x \in Row /\ x.offline = offline /\ x.named = r.rows[h].named
    BY <2>1 DEF Row
  <2> HIDE DEF x
  <2>3. /\ y \in Row /\ y # None /\ y.added = (h \in r.added)
        /\ y.named = r.rows[h].named /\ y.offline = offline
    <3>1. (h \in r.added) \in BOOLEAN
      OBVIOUS
    <3> QED
      BY <2>2, <3>1, MarkedRow
  <2>4. e = [r EXCEPT !.rows = ys]
    <3> DEFINE r1 == [r EXCEPT !.rows[h].offline = offline]
    <3>1. r1 = [r EXCEPT !.rows = [r.rows EXCEPT ![h] = x]]
      BY DEF x
    <3>2. e = [r1 EXCEPT !.rows[h].added = h \in r1.added]
      BY <1>2 DEF setHostOffline, applyRow
    <3>3. r1.added = r.added /\ r1.rows = [r.rows EXCEPT ![h] = x]
      BY <3>1 DEF RailState
    <3>4. [[r.rows EXCEPT ![h] = x] EXCEPT ![h].added = h \in r.added] = ys
      BY DEF RailState
    <3> HIDE DEF r1
    <3> QED
      BY <3>1, <3>2, <3>3, <3>4 DEF RailState
  <2> HIDE DEF y
  <2>5. /\ ys \in [Hosts -> Row \cup {None}] /\ ys[h] = y
        /\ \A g \in Hosts : g # h => ys[g] = r.rows[g]
    BY <2>3 DEF RailState
  <2> HIDE DEF ys, e
  <2>6. /\ e \in RailState /\ e.rows = ys /\ e.added = r.added
        /\ e.clicked = r.clicked
    BY <2>4, <2>5 DEF RailState
  <2>7. RowsOf(e) = RowsOf(r)
    BY <1>2, <2>3, <2>5, <2>6 DEF RowsOf
  <2>8. Marked(e)
    BY <2>3, <2>5, <2>6, <2>7 DEF Marked, RowsOf
  <2>9. \A g \in RowsOf(r) :
          /\ e.rows[g].named = r.rows[g].named
          /\ e.rows[g].offline = IF g = h THEN offline ELSE r.rows[g].offline
    BY <2>3, <2>5, <2>6 DEF RowsOf
  <2> QED
    BY <2>6, <2>7, <2>8, <2>9 DEF e
<1> QED
  BY <1>1, <1>2

------------------------------------------------------------------------------
(* OBS's table of sources.                                                 *)

LEMMA SignalledTable ==
  ASSUME NEW t \in TableState
  PROVE  /\ Signalled(t) \in TableState /\ Signalled(t).src = t.src
         /\ Signalled(t).queued # 0
BY DEF Signalled, TableState

LEMMA TableWith ==
  ASSUME NEW t \in TableState, NEW n \in Names, NEW x \in Source \cup {None}
  PROVE  /\ [t EXCEPT !.src[n] = x] \in TableState
         /\ [t EXCEPT !.src[n] = x].src = [t.src EXCEPT ![n] = x]
         /\ [t EXCEPT !.src[n] = x].queued = t.queued
<1> DEFINE xs == [t.src EXCEPT ![n] = x]
<1>1. xs \in [Names -> Source \cup {None}]
  BY DEF TableState
<1>2. [t EXCEPT !.src[n] = x] = [t EXCEPT !.src = xs]
  BY DEF TableState
<1> HIDE DEF xs
<1>3. /\ [t EXCEPT !.src = xs] \in TableState /\ [t EXCEPT !.src = xs].src = xs
      /\ [t EXCEPT !.src = xs].queued = t.queued
  BY <1>1 DEF TableState
<1> QED
  BY <1>2, <1>3 DEF xs

\* A source changes, and stays one.
LEMMA SourceRemoved ==
  ASSUME NEW t \in TableState, NEW n \in Names, t.src[n] # None
  PROVE  LET u == [t EXCEPT !.src[n].removed = TRUE, !.src[n].scene = FALSE]
         IN  /\ u \in TableState /\ u.queued = t.queued
             /\ \A m \in Names : u.src[m] # None <=> t.src[m] # None
<1> DEFINE x == [t.src[n] EXCEPT !.removed = TRUE, !.scene = FALSE]
           u == [t EXCEPT !.src[n].removed = TRUE, !.src[n].scene = FALSE]
<1>1. t.src[n] \in Source
  BY DEF TableState
<1>2. x \in Source
  BY <1>1 DEF Source
<1>3. u = [t EXCEPT !.src[n] = x]
  BY <1>1 DEF TableState, Source
<1> HIDE DEF x, u
<1>4. u \in TableState /\ u.queued = t.queued /\ u.src = [t.src EXCEPT ![n] = x]
  BY <1>2, <1>3, TableWith
<1> QED
  BY <1>2, <1>4, NoneIsNew DEF TableState, u

LEMMA SourceForTable ==
  ASSUME NEW t \in TableState, NEW h \in Hosts
  PROVE  SourceFor(t, h) \in TableState /\ SourceFor(t, h).src[h] # None
<1>1. h \in Names /\ Default1 \in Names /\ Default2 \in Names
  BY DEF Names
<1>2. CASE t.src[h] # None
  BY <1>2 DEF SourceFor
<1>3. CASE t.src[h] = None /\ Reclaimable(t) # {}
  <2> DEFINE n == CHOOSE n \in Reclaimable(t) : TRUE
  <2>1. n \in Names /\ t.src[n] # None
    <3>1. n \in Reclaimable(t)
      BY <1>3
    <3>2. Reclaimable(t) \subseteq {k \in Names : t.src[k] # None}
      BY <1>1 DEF Reclaimable
    <3> QED
      BY <3>1, <3>2
  <2>2. SourceFor(t, h) = reclaimDefaultSource(t, h, n)
    BY <1>3 DEF SourceFor
  <2> HIDE DEF n
  <2> DEFINE xs == [[t.src EXCEPT ![n] = None] EXCEPT ![h] = t.src[n]]
             u == [t EXCEPT !.src = xs]
  <2>3. xs \in [Names -> Source \cup {None}] /\ xs[h] # None
    BY <1>1, <2>1 DEF TableState
  <2>4. [t EXCEPT !.src[n] = None, !.src[h] = t.src[n]] = u
    BY <1>1, <2>1 DEF TableState
  <2> HIDE DEF xs
  <2>5. u \in TableState /\ u.src = xs
    BY <2>3 DEF TableState
  <2> HIDE DEF u
  <2> QED
    BY <2>2, <2>3, <2>4, <2>5, SignalledTable DEF reclaimDefaultSource
<1>4. CASE t.src[h] = None /\ Reclaimable(t) = {}
  <2> DEFINE x == [zc |-> TRUE, ip |-> None, removed |-> FALSE, scene |-> FALSE]
             u == [t EXCEPT !.src[h] = x]
  <2>1. x \in Source /\ x # None
    <3>1. x \in Source
      BY DEF Source
    <3> QED
      BY <3>1, NoneIsNew
  <2>2. SourceFor(t, h) = Signalled(u)
    BY <1>4 DEF SourceFor
  <2> HIDE DEF x
  <2>3. u \in TableState /\ u.src = [t.src EXCEPT ![h] = x]
    BY <1>1, <2>1, TableWith
  <2>4. u.src[h] # None
    BY <1>1, <2>1, <2>3 DEF TableState
  <2> HIDE DEF u
  <2> QED
    BY <2>2, <2>3, <2>4, SignalledTable
<1> QED
  BY <1>2, <1>3, <1>4

LEMMA AddedTable ==
  ASSUME NEW t \in TableState, NEW h \in Hosts
  PROVE  addCameraToSource(t, h) \in TableState
<1> DEFINE u == SourceFor(t, h)
           ip == IF h \in Addresses THEN h ELSE u.src[h].ip
           sc == u.src[h].scene \/ ~u.src[h].removed
           x == [u.src[h] EXCEPT !.ip = ip, !.scene = sc]
<1>1. u \in TableState /\ u.src[h] # None /\ h \in Names
  BY SourceForTable DEF Names
<1> HIDE DEF u
<1>2. u.src[h] \in Source
  BY <1>1 DEF TableState
<1>3. ip \in Addresses \cup {None} /\ sc \in BOOLEAN
  BY <1>2 DEF Source
<1>4. addCameraToSource(t, h) = [u EXCEPT !.src[h] = x]
  BY <1>1, <1>2 DEF addCameraToSource, u, TableState, Source
<1>5. x \in Source
  <2> HIDE DEF ip, sc
  <2> QED
    BY <1>2, <1>3 DEF Source
<1> HIDE DEF x
<1> QED
  BY <1>1, <1>4, <1>5, TableWith

LEMMA RemovedTable ==
  ASSUME NEW t \in TableState, NEW h \in Hosts
  PROVE  removeCameraFromSource(t, h) \in TableState
BY SourceRemoved DEF removeCameraFromSource, Names

\* A chip that fires leaves the rail settled with what OBS has by then.
LEMMA ChipFires ==
  ASSUME NEW r \in RailState, Marked(r), table \in TableState, NEW h \in Hosts,
         OnChip(r, h)
  PROVE  /\ rail' \in RailState /\ table' \in TableState
         /\ Marked(rail') /\ Settled(rail', table') /\ SameRows(r, rail')
         /\ rail'.clicked = r.clicked
<1>1. table' \in TableState /\ rail' = refreshRailPresence(r, table')
  BY AddedTable, RemovedTable DEF OnChip
<1> QED
  BY <1>1, Refreshed

------------------------------------------------------------------------------
(* The invariant.                                                          *)

LEMMA InvInit == Init => Inv
<1> SUFFICES ASSUME Init PROVE Inv
  OBVIOUS
<1> USE RailAssumption
<1>1. rail \in RailState /\ table \in TableState
  BY DEF Init, RailState, TableState
<1>2. Typed
  BY <1>1 DEF Init, Typed, NoGesture
<1>3. RowsOf(rail) = {} /\ gesture.fires = 0
  BY DEF Init, RowsOf, NoGesture
<1> QED
  BY <1>2, <1>3 DEF Inv, Marked, OfflineMark, Remembered, Settled

\* The mark of a row follows from its name and what is known of its camera.
OfflineOf(r, k) ==
  \A h \in RowsOf(r) :
    r.rows[h].offline <=> h \in k.no \/ (h \notin k.yes /\ ~r.rows[h].named)

LEMMA SameOffline ==
  ASSUME NEW r \in RailState, NEW e \in RailState, NEW k, SameRows(r, e), OfflineOf(r, k)
  PROVE  OfflineOf(e, k)
BY DEF OfflineOf, SameRows, RowsOf

LEMMA NewRow ==
  ASSUME NEW a \in BOOLEAN, NEW b \in BOOLEAN
  PROVE  LET x == [named |-> a, added |-> FALSE, offline |-> b]
         IN  x \in Row /\ x.named = a /\ x.offline = b
BY DEF Row

LEMMA ScannedRows ==
  ASSUME Typed
  PROVE  /\ Scanned \in [Hosts -> Row \cup {None}]
         /\ \A r \in RailState : r.rows = Scanned => OfflineOf(r, known)
<1> DEFINE extra == ExtraHosts(table, found)
           Off(h) == h \in known.no \/ (h \in extra /\ h \notin known.yes)
           new(h) == [named |-> h \in found, added |-> FALSE, offline |-> Off(h)]
<1>1. Scanned = [h \in Hosts |-> IF h \notin found \cup extra THEN None ELSE new(h)]
  BY DEF Scanned
<1>2. ASSUME NEW h \in Hosts
      PROVE  /\ new(h) \in Row
             /\ new(h).named <=> h \in found
             /\ new(h).offline <=> Off(h)
  <2>1. (h \in found) \in BOOLEAN /\ Off(h) \in BOOLEAN
    OBVIOUS
  <2> HIDE DEF Off
  <2> QED
    BY <2>1, NewRow
<1>3. \A h \in extra : h \notin found
  BY DEF ExtraHosts
<1> HIDE DEF new, extra
<1>4. Scanned \in [Hosts -> Row \cup {None}]
  BY <1>1, <1>2
<1>5. ASSUME NEW r \in RailState, r.rows = Scanned PROVE OfflineOf(r, known)
  BY <1>1, <1>2, <1>3, <1>5 DEF OfflineOf, RowsOf
<1> QED
  BY <1>4, <1>5

LEMMA InvScan == Inv /\ refreshCameras => Inv'
<1> SUFFICES ASSUME Inv, refreshCameras PROVE Inv'
  OBVIOUS
<1> DEFINE r == setCameras(rail, Scanned)
           s == [rail EXCEPT !.rows = Scanned]
<1>1. Scanned \in [Hosts -> Row \cup {None}] /\ s \in RailState /\ OfflineOf(s, known)
  <2>1. Scanned \in [Hosts -> Row \cup {None}]
    BY ScannedRows DEF Inv
  <2>2. s \in RailState /\ s.rows = Scanned
    BY <2>1 DEF Inv, Typed, RailState
  <2> HIDE DEF s
  <2> QED
    BY <2>1, <2>2, ScannedRows DEF Inv
<1>2. /\ r \in RailState /\ r.clicked = rail.clicked /\ Marked(r)
      /\ r = rail \/ SameRows(s, r)
  BY <1>1, SetCameras DEF Inv, Typed
<1>3. OfflineOf(rail, known)
  BY DEF Inv, OfflineMark, OfflineOf
<1> HIDE DEF s
<1>4. OfflineOf(r, known)
  BY <1>1, <1>2, <1>3, SameOffline
<1>5. rail' = refreshRailPresence(r, table) /\ UNCHANGED <<known, opening, found, table, spent>>
  BY DEF refreshCameras
<1>6. gesture' = gesture \/ gesture' = [gesture EXCEPT !.valid = FALSE]
  BY DEF refreshCameras
<1> HIDE DEF r
<1>7. /\ rail' \in RailState /\ rail'.clicked = rail.clicked
      /\ Marked(rail') /\ Settled(rail', table) /\ SameRows(r, rail')
  BY <1>2, <1>5, Refreshed
<1>8. OfflineOf(rail', known)
  BY <1>2, <1>4, <1>7, SameOffline
<1>9. /\ gesture' \in [on : Hosts \cup {None}, fires : 0..1, valid : BOOLEAN]
      /\ gesture'.on = gesture.on /\ gesture'.fires = gesture.fires
  BY <1>6 DEF Inv, Typed
<1>10. Typed' /\ Remembered' /\ Marked(rail)'
  BY <1>5, <1>7, <1>9 DEF Inv, Typed, Remembered
<1>11. OfflineMark' /\ Settled(rail, table)'
  BY <1>5, <1>7, <1>8 DEF OfflineMark, OfflineOf
<1> QED
  BY <1>10, <1>11 DEF Inv

\* The rail and OBS's table may change, what is known and listed does not.
LEMMA InvChip ==
  ASSUME Inv, NEW r \in RailState, Marked(r), SameRows(rail, r), NEW h \in Hosts,
         OnChip(r, h), UNCHANGED <<known, found>>
  PROVE  /\ rail' \in RailState /\ table' \in TableState
         /\ Marked(rail)' /\ OfflineMark' /\ Settled(rail, table)'
         /\ rail'.clicked = r.clicked
<1>1. /\ rail' \in RailState /\ table' \in TableState
      /\ Marked(rail') /\ Settled(rail', table') /\ SameRows(r, rail')
      /\ rail'.clicked = r.clicked
  <2> HIDE DEF OnChip
  <2> QED
    BY ChipFires DEF Inv, Typed
<1>2. OfflineOf(rail, known) /\ rail \in RailState
  BY DEF Inv, Typed, OfflineMark, OfflineOf
<1>3. OfflineOf(r, known)
  BY <1>2, SameOffline
<1>4. OfflineOf(rail', known)
  BY <1>1, <1>3, SameOffline
<1> QED
  BY <1>1, <1>4 DEF OfflineMark, OfflineOf

LEMMA InvPress ==
  ASSUME Inv, NEW h \in Hosts, NEW chip \in BOOLEAN, Press(h, chip)
  PROVE  Inv'
<1> DEFINE r == [rail EXCEPT !.clicked = h]
           g == [on |-> h, fires |-> IF chip THEN 1 ELSE 0, valid |-> TRUE]
<1>1. /\ gesture' = g /\ UNCHANGED <<known, opening, found>>
      /\ spent' \in [obs : 0..MaxObs, clicks : 0..MaxClicks]
  <2> DEFINE n == spent.clicks + 1
  <2>1. n \in 0..MaxClicks /\ spent' = [spent EXCEPT !.clicks = n]
    BY RailAssumption DEF Press, Inv, Typed
  <2> HIDE DEF n
  <2> QED
    BY <2>1 DEF Press, Inv, Typed
<1>2. g \in [on : Hosts \cup {None}, fires : 0..1, valid : BOOLEAN] /\ g.on = h
  OBVIOUS
<1>3. CASE chip
  <2>1. /\ r \in RailState /\ r.rows = rail.rows /\ r.added = rail.added
        /\ r.clicked = h
    BY DEF Inv, Typed, RailState
  <2>2. OnChip(r, h)
    BY <1>3 DEF Press
  <2> HIDE DEF r
  <2>3. Marked(r) /\ SameRows(rail, r)
    BY <2>1 DEF Inv, Marked, RowsOf, SameRows
  <2>4. /\ rail' \in RailState /\ table' \in TableState
        /\ Marked(rail)' /\ OfflineMark' /\ Settled(rail, table)'
        /\ rail'.clicked = h
    <3> HIDE DEF OnChip
    <3> QED
      BY <1>1, <2>1, <2>2, <2>3, InvChip
  <2>5. Typed' /\ Remembered'
    <3> HIDE DEF g
    <3> QED
      BY <1>1, <1>2, <2>4 DEF Inv, Typed, Remembered
  <2> QED
    BY <2>4, <2>5 DEF Inv
<1>4. CASE ~chip
  <2>1. UNCHANGED <<rail, table>> /\ g.fires = 0
    BY <1>4 DEF Press
  <2> HIDE DEF g
  <2>2. Typed' /\ Remembered'
    BY <1>1, <1>2, <2>1 DEF Inv, Typed, Remembered
  <2> QED
    BY <1>1, <2>1, <2>2 DEF Inv, Marked, OfflineMark, Settled
<1> QED
  BY <1>3, <1>4

LEMMA NoGestureType ==
  /\ NoGesture \in [on : Hosts \cup {None}, fires : 0..1, valid : BOOLEAN]
  /\ NoGesture.fires = 0
BY DEF NoGesture

LEMMA InvRelease ==
  ASSUME Inv, ReleaseOnChip \/ ReleaseOnRow \/ ReleaseElsewhere
  PROVE  Inv'
<1>1. CASE ReleaseOnRow \/ ReleaseElsewhere
  <2>1. /\ gesture' = NoGesture /\ opening' \in Hosts \cup {None}
        /\ UNCHANGED <<rail, known, found, table, spent>>
    BY <1>1 DEF ReleaseOnRow, ReleaseElsewhere, Inv, Typed
  <2>2. Typed' /\ Remembered'
    BY <2>1, NoGestureType DEF Inv, Typed, Remembered
  <2> QED
    BY <2>1, <2>2 DEF Inv, Marked, OfflineMark, Settled
<1>2. CASE ReleaseOnChip
  <2>1. gesture.on \in Hosts /\ opening' = gesture.on /\ UNCHANGED <<known, found, spent>>
    BY <1>2 DEF ReleaseOnChip, Inv, Typed
  <2>2. CASE Tracked(rail, gesture.on)
    <3> DEFINE r == [rail EXCEPT !.clicked = None]
    <3>1. rail' = r /\ gesture' = NoGesture /\ UNCHANGED table
      BY <1>2, <2>2 DEF ReleaseOnChip
    <3>2. r \in RailState /\ r.rows = rail.rows /\ r.added = rail.added
      BY DEF Inv, Typed, RailState
    <3> HIDE DEF r
    <3>3. Typed' /\ Remembered'
      BY <2>1, <3>1, <3>2, NoGestureType DEF Inv, Typed, Remembered
    <3> QED
      BY <2>1, <3>1, <3>2, <3>3 DEF Inv, Marked, OfflineMark, Settled, RowsOf
  <2>3. CASE ~Tracked(rail, gesture.on)
    <3>1. gesture.fires = 0
      BY <2>3 DEF Tracked, Inv, Typed, Remembered
    <3>2. OnChip(rail, gesture.on) /\ gesture' = NoGesture
      BY <1>2, <2>3, <3>1 DEF ReleaseOnChip
    <3>3. /\ rail' \in RailState /\ table' \in TableState
          /\ Marked(rail)' /\ OfflineMark' /\ Settled(rail, table)'
      <4>1. SameRows(rail, rail) /\ Marked(rail) /\ rail \in RailState
        BY DEF SameRows, Inv, Typed
      <4> HIDE DEF OnChip
      <4> QED
        BY <2>1, <3>2, <4>1, InvChip
    <3>4. Typed' /\ Remembered'
      BY <2>1, <3>2, <3>3, NoGestureType DEF Inv, Typed, Remembered
    <3> QED
      BY <3>3, <3>4 DEF Inv
  <2> QED
    BY <2>2, <2>3
<1> QED
  BY <1>1, <1>2

LEMMA InvOpened ==
  ASSUME Inv, NEW ok \in BOOLEAN, Opened(ok)
  PROVE  Inv'
<1> DEFINE h == opening
           off == ~ok
           r == setHostOffline(rail, h, off)
<1>1. h \in Hosts /\ off \in BOOLEAN /\ rail \in RailState /\ Marked(rail)
  BY DEF Opened, Inv, Typed
<1>2. /\ r \in RailState /\ r.clicked = rail.clicked /\ Marked(r)
      /\ RowsOf(r) = RowsOf(rail)
      /\ \A g \in RowsOf(rail) :
           /\ r.rows[g].named = rail.rows[g].named
           /\ r.rows[g].offline = IF g = h THEN off ELSE rail.rows[g].offline
  <2> HIDE DEF off
  <2> QED
    BY <1>1, SetHostOffline
<1>3. /\ known' \in [yes : SUBSET Hosts, no : SUBSET Hosts]
      /\ \A g \in Hosts : g # h => /\ g \in known'.yes <=> g \in known.yes
                                   /\ g \in known'.no <=> g \in known.no
      /\ h \in known'.yes <=> ok
      /\ h \in known'.no <=> off
  <2>1. CASE ok
    BY <1>1, <2>1 DEF Opened, Inv, Typed
  <2>2. CASE ~ok
    BY <1>1, <2>2 DEF Opened, Inv, Typed
  <2> QED
    BY <2>1, <2>2
<1>4. /\ rail' = refreshRailPresence(r, table) /\ opening' = None
      /\ UNCHANGED <<gesture, found, table, spent>>
  BY DEF Opened
<1> HIDE DEF r
<1>5. OfflineOf(r, known')
  <2> SUFFICES ASSUME NEW g \in RowsOf(rail)
               PROVE  r.rows[g].offline <=>
                        g \in known'.no \/ (g \notin known'.yes /\ ~r.rows[g].named)
    BY <1>2 DEF OfflineOf
  <2>1. CASE g = h
    BY <1>2, <1>3, <2>1
  <2>2. CASE g # h
    <3>1. g \in Hosts
      BY DEF RowsOf
    <3>2. r.rows[g].named = rail.rows[g].named /\ r.rows[g].offline = rail.rows[g].offline
      BY <1>2, <2>2
    <3> QED
      BY <1>3, <2>2, <3>1, <3>2 DEF Inv, OfflineMark
  <2> QED
    BY <2>1, <2>2
<1>6. /\ rail' \in RailState /\ rail'.clicked = rail.clicked
      /\ Marked(rail') /\ Settled(rail', table) /\ SameRows(r, rail')
  BY <1>2, <1>4, Refreshed
<1>7. OfflineOf(rail', known')
  BY <1>2, <1>5, <1>6, SameOffline
<1>8. Typed' /\ Remembered' /\ Marked(rail)'
  BY <1>3, <1>4, <1>6 DEF Inv, Typed, Remembered
<1>9. OfflineMark' /\ Settled(rail, table)'
  BY <1>4, <1>6, <1>7 DEF OfflineMark, OfflineOf
<1> QED
  BY <1>8, <1>9 DEF Inv

LEMMA InvQueued ==
  ASSUME Inv, QueuedRefresh
  PROVE  Inv'
<1> DEFINE n == table.queued - 1
<1>1. n \in Nat /\ table' = [table EXCEPT !.queued = n]
  BY DEF QueuedRefresh, Inv, Typed, TableState
<1> HIDE DEF n
<1>2. table' \in TableState /\ table'.src = table.src
  BY <1>1 DEF Inv, Typed, TableState
<1>3. /\ rail' = refreshRailPresence(rail, table)
      /\ UNCHANGED <<known, opening, gesture, found, spent>>
  BY DEF QueuedRefresh
<1>4. /\ rail' \in RailState /\ rail'.clicked = rail.clicked
      /\ Marked(rail') /\ Settled(rail', table) /\ SameRows(rail, rail')
  BY <1>3, Refreshed DEF Inv, Typed
<1>5. OfflineOf(rail', known)
  BY <1>4, SameOffline DEF Inv, Typed, OfflineMark, OfflineOf
<1>6. Typed' /\ Remembered' /\ Marked(rail)'
  BY <1>2, <1>3, <1>4 DEF Inv, Typed, Remembered
<1>7. OfflineMark' /\ Settled(rail, table)'
  BY <1>2, <1>3, <1>4, <1>5 DEF OfflineMark, OfflineOf, Settled, isCameraAdded
<1> QED
  BY <1>6, <1>7 DEF Inv

LEMMA ObsSpends ==
  ASSUME Inv, ObsActs
  PROVE  spent' \in [obs : 0..MaxObs, clicks : 0..MaxClicks]
<1> DEFINE n == spent.obs + 1
<1>1. n \in 0..MaxObs /\ spent' = [spent EXCEPT !.obs = n]
  BY RailAssumption DEF ObsActs, Inv, Typed
<1> HIDE DEF n
<1> QED
  BY <1>1 DEF Inv, Typed

\* OBS signals a change of its table, or its change is none of presence.
LEMMA InvTable ==
  ASSUME Inv, UNCHANGED <<rail, known, opening, gesture, found>>,
         spent' \in [obs : 0..MaxObs, clicks : 0..MaxClicks], table' \in TableState,
         \/ table'.queued # 0
         \/ /\ table'.queued = table.queued
            /\ \A h \in Hosts : isCameraAdded(table', h) <=> isCameraAdded(table, h)
  PROVE  Inv'
<1>1. Typed' /\ Remembered' /\ Marked(rail)' /\ OfflineMark'
  BY DEF Inv, Typed, Remembered, Marked, OfflineMark
<1>2. (table.queued = 0 => Settled(rail, table))'
  BY DEF Inv, Settled, RowsOf
<1> QED
  BY <1>1, <1>2 DEF Inv

LEMMA InvObs ==
  ASSUME Inv, NEW n \in Names
  PROVE  /\ \A s \in New : ObsCreates(n, s) => Inv'
         /\ \A m \in Names : ObsRenames(n, m) => Inv'
         /\ ObsRemoves(n) \/ ObsDestroys(n) => Inv'
<1>1. table \in TableState
  BY DEF Inv, Typed
<1>2. ASSUME NEW s \in New, ObsCreates(n, s) PROVE Inv'
  <2>1. s \in Source
    BY DEF New
  <2>2. table' = Signalled([table EXCEPT !.src[n] = s])
    BY <1>2 DEF ObsCreates
  <2>3. table' \in TableState /\ table'.queued # 0
    BY <1>1, <2>1, <2>2, TableWith, SignalledTable
  <2> QED
    BY <1>2, <2>3, ObsSpends, InvTable DEF ObsCreates
<1>3. ASSUME NEW m \in Names, ObsRenames(n, m) PROVE Inv'
  <2> DEFINE u == [table EXCEPT !.src[n] = None]
             v == [u EXCEPT !.src[m] = table.src[n]]
  <2>1. u \in TableState
    BY <1>1, TableWith
  <2>2. table.src[n] \in Source \cup {None}
    BY <1>1 DEF TableState
  <2>3. table' = Signalled(v)
    BY <1>3 DEF ObsRenames, Renamed
  <2> HIDE DEF u
  <2>4. v \in TableState
    BY <2>1, <2>2, TableWith
  <2>5. table' \in TableState /\ table'.queued # 0
    BY <2>3, <2>4, SignalledTable
  <2> QED
    BY <1>3, <2>5, ObsSpends, InvTable DEF ObsRenames
<1>4. CASE ObsRemoves(n)
  <2>1. /\ table' \in TableState /\ table'.queued = table.queued
        /\ \A m \in Names : table'.src[m] # None <=> table.src[m] # None
    BY <1>1, <1>4, SourceRemoved DEF ObsRemoves
  <2>2. \A h \in Hosts : isCameraAdded(table', h) <=> isCameraAdded(table, h)
    BY <2>1 DEF isCameraAdded, Names
  <2> QED
    BY <1>4, <2>1, <2>2, ObsSpends, InvTable DEF ObsRemoves
<1>5. CASE ObsDestroys(n)
  <2>1. table' = Signalled([table EXCEPT !.src[n] = None])
    BY <1>5 DEF ObsDestroys
  <2>2. table' \in TableState /\ table'.queued # 0
    BY <1>1, <2>1, TableWith, SignalledTable
  <2>3. spent' \in [obs : 0..MaxObs, clicks : 0..MaxClicks]
    BY <1>5 DEF ObsDestroys, Inv, Typed
  <2> QED
    BY <1>5, <2>2, <2>3, InvTable DEF ObsDestroys
<1> QED
  BY <1>2, <1>3, <1>4, <1>5

LEMMA InvNext == Inv /\ [Next]_vars => Inv'
<1> SUFFICES ASSUME Inv, [Next]_vars PROVE Inv'
  OBVIOUS
<1>1. ASSUME NEW h \in Addresses, Discovery(h) PROVE Inv'
  <2>1. /\ found' \subseteq Addresses
        /\ spent' \in [obs : 0..MaxObs, clicks : 0..MaxClicks]
        /\ UNCHANGED <<rail, known, opening, gesture, table>>
    BY <1>1, ObsSpends DEF Discovery, Inv, Typed
  <2>2. Typed' /\ Remembered'
    BY <2>1 DEF Inv, Typed, Remembered
  <2> QED
    BY <2>1, <2>2 DEF Inv, Marked, OfflineMark, Settled
<1>2. CASE UNCHANGED vars
  BY <1>2 DEF vars, Inv, Typed, Marked, OfflineMark, Remembered, Settled
<1> QED
  BY <1>1, <1>2, InvScan, InvQueued, InvPress, InvRelease, InvOpened, InvObs DEF Next

LEMMA Invariance == Spec => []Inv
BY InvInit, InvNext, PTL DEF Spec

------------------------------------------------------------------------------
(* The theorems.                                                           *)

\* Every variable stays in its range.
THEOREM Typing == Spec => []TypeOK
<1>1. Inv => TypeOK
  BY DEF Inv, Typed, RailState, TableState, TypeOK
<1> QED
  BY <1>1, Invariance, PTL

\* When the queued calls have run, the mark of every row says whether OBS holds
\* its camera, although setAddedHosts() and setCameras() skip what looks equal.
THEOREM PresenceFollows == Spec => []PresenceSettles
<1>1. Inv => PresenceSettles
  BY DEF Inv, Marked, Settled, PresenceSettles
<1> QED
  BY <1>1, Invariance, PTL

\* The offline mark is a function of what is known of the camera, whether a click
\* or a scan has set it.
THEOREM OfflineFollows == Spec => []OfflineMark
<1>1. Inv => OfflineMark
  BY DEF Inv
<1> QED
  BY <1>1, Invariance, PTL

\* A click on a chip fires it once.
THEOREM ChipFiresOnce == Spec => []FiresOnce
<1>1. Inv => FiresOnce
  BY DEF Inv, Typed, FiresOnce
<1> QED
  BY <1>1, Invariance, PTL

------------------------------------------------------------------------------
(* The preset panel: the inductive invariant.  Its parts are predicates of *)
(* a panel x, a queue q, timers T, a camera c and what is suspect u.       *)

\* A request of the set A is in the queue.
Has(q, A) == \E n \in DOMAIN q : q[n] \in A

\* Every request of B is followed by one of A.
Followed(q, B, A) ==
  \A n \in DOMAIN q : q[n] \in B => \E m \in DOMAIN q : m > n /\ q[m] \in A

\* The requests after which the panel knows what slot i has.
ReadsOf(t, i) ==
  {r \in Request : r.op = "cameraInfo" \/ (r.op = "info" /\ r.trace = t /\ r.i = i)}
ThumbsOf(t, i) == {r \in Request : r.op = "thumb" /\ r.trace = t /\ r.i = i}

\* The requests that change the name of slot i, and those that replace it.
WritesOf(t, i) ==
  {r \in Request : r.op \in {"set", "rec", "del", "name"} /\ r.trace = t /\ r.i = i}
ReplacesOf(t, i) ==
  {r \in Request : r.op \in {"set", "rec"} /\ r.trace = t /\ r.i = i}

\* The requests that move the transport, and those that ask for its state.
Moves == {r \in Request : r.op \in {"rec", "recStop", "prepare", "play", "playStop"}}
Queries == {r \in Request : r.op \in {"query", "cameraInfo"}}

\* The timers that will read slot i, and those that will ask for the state.
ReadsLater(i) == {t \in Timer : t.what \in {"reload", "started"} /\ t.i = i}
AsksLater == {t \in Timer : t.what \in {"started", "stopped", "state"}}

\* A name or a picture is that of slot i of family t of camera id.
IsOf(v, id, t, i) == v \in Item => v.cam = id /\ v.trace = t /\ v.i = i

\* What the panel shows and has cached is of the family and the camera shown.
CacheOwn(x, id) ==
  \A i \in Slots : IsOf(x.info[i], id, x.trace, i)
                   /\ IsOf(x.thumbs[i], id, x.trace, i)
PanelOwn(x, id) ==
  /\ CacheOwn(x, id)
  /\ IsOf(x.name, id, x.trace, x.page)
  /\ IsOf(x.thumb, id, x.trace, x.page)
  /\ x.sel \in {-1, x.page}

CameraOwn(c) ==
  \A t \in BOOLEAN : \A i \in Slots : IsOf(c.slot[t][i].name, c.id, t, i)
                                      /\ IsOf(c.slot[t][i].pic, c.id, t, i)

RequestOwn(r, id) == r.op = "name" => IsOf(r.n, id, r.trace, r.i)
QueueOwn(q, id) == \A n \in DOMAIN q : RequestOwn(q[n], id)

\* A picture of the cache is the camera's, and nothing replaces it.
Lasting(q, c, t, i) == <<t, i>> \notin c.writing /\ ~Has(q, ReplacesOf(t, i))
CacheFresh(x, q, c, u) ==
  \A i \in Slots :
    x.thumbs[i] # Unread /\ <<x.trace, i>> \notin u.pics =>
      x.thumbs[i] = c.slot[x.trace][i].pic /\ Lasting(q, c, x.trace, i)

\* Nothing more is going to be read of slot i.
Read(q, T, t, i) == ~Has(q, ReadsOf(t, i)) /\ ~Has(T, ReadsLater(i))

\* A change of the slot that is shown will be read, and what has been read is
\* what the camera has.
NameRead(x, q, T, c, u) ==
  x.client = "open" =>
    /\ Followed(q, WritesOf(x.trace, x.page), ReadsOf(x.trace, x.page))
       \/ Has(T, ReadsLater(x.page))
    /\ Read(q, T, x.trace, x.page) /\ <<x.trace, x.page>> \notin u.names =>
         LET name == Label(c.slot[x.trace][x.page].name)
         IN  Label(x.info[x.page]) = name /\ (~x.edit => x.name = name)

PictureRead(x, q, T, c, u) ==
  /\ x.client = "open"
  /\ Read(q, T, x.trace, x.page) /\ ~Has(q, ThumbsOf(x.trace, x.page))
  /\ <<x.trace, x.page>> \notin u.names /\ <<x.trace, x.page>> \notin u.pics
  /\ c.slot[x.trace][x.page].name # Empty
  => x.thumb = c.slot[x.trace][x.page].pic /\ Lasting(q, c, x.trace, x.page)

\* A command to the transport is followed by a question for its state.
StateAsked(x, q, T, c, u) ==
  x.client = "open" /\ x.trace =>
    /\ Followed(q, Moves, Queries) \/ Has(T, AsksLater)
    /\ ~Has(q, Queries) /\ ~Has(T, AsksLater) /\ ~u.transport => x.state = c.st

Owns(x, q, c) == PanelOwn(x, c.id) /\ QueueOwn(q, c.id) /\ CameraOwn(c)

Keeps(x, q, c, u) == Owns(x, q, c) /\ CacheFresh(x, q, c, u)
Reads(x, q, T, c, u) == NameRead(x, q, T, c, u) /\ PictureRead(x, q, T, c, u)
Shows(x, q, T, c, u) == Keeps(x, q, c, u) /\ Reads(x, q, T, c, u)

Sound(x, q, T, c, u) == Shows(x, q, T, c, u) /\ StateAsked(x, q, T, c, u)

PresetInv == PresetTypeOK /\ Sound(p, queue, timers, cam, suspect)

------------------------------------------------------------------------------
(* Queues and timers.                                                      *)

LEMMA HasAppend ==
  ASSUME NEW R, NEW q \in Seq(R), NEW r \in R
  PROVE  /\ Append(q, r) \in Seq(R)
         /\ \A A : Has(Append(q, r), A) <=> Has(q, A) \/ r \in A
<1> DEFINE s == Append(q, r)
<1>1. /\ s \in Seq(R) /\ DOMAIN s = 1..(Len(q) + 1) /\ DOMAIN q = 1..Len(q)
      /\ s[Len(q) + 1] = r /\ \A n \in 1..Len(q) : s[n] = q[n]
      /\ Len(q) \in Nat
  OBVIOUS
<1> HIDE DEF s
<1>2. ASSUME NEW A PROVE Has(s, A) <=> Has(q, A) \/ r \in A
  <2>1. Has(s, A) => Has(q, A) \/ r \in A
    BY <1>1 DEF Has
  <2>2. Has(q, A) => Has(s, A)
    BY <1>1 DEF Has
  <2>3. r \in A => Has(s, A)
    BY <1>1 DEF Has
  <2> QED BY <2>1, <2>2, <2>3
<1> QED BY <1>1, <1>2 DEF s

LEMMA HasTail ==
  ASSUME NEW R, NEW q \in Seq(R), q # <<>>
  PROVE  /\ Tail(q) \in Seq(R) /\ Head(q) \in R
         /\ \A A : Has(q, A) <=> Has(Tail(q), A) \/ Head(q) \in A
<1> DEFINE s == Tail(q)
<1>1. /\ s \in Seq(R) /\ DOMAIN s = 1..(Len(q) - 1) /\ DOMAIN q = 1..Len(q)
      /\ q[1] = Head(q) /\ \A n \in 1..(Len(q) - 1) : s[n] = q[n + 1]
      /\ Len(q) \in Nat /\ Len(q) > 0 /\ Head(q) \in R
  OBVIOUS
<1> HIDE DEF s
<1>2. ASSUME NEW A PROVE Has(q, A) <=> Has(s, A) \/ Head(q) \in A
  <2>1. ASSUME Has(q, A), Head(q) \notin A PROVE Has(s, A)
    <3>1. PICK n \in DOMAIN q : q[n] \in A
      BY <2>1 DEF Has
    <3>2. n # 1 BY <3>1, <2>1, <1>1
    <3>3. n - 1 \in DOMAIN s /\ s[n - 1] = q[n]
      BY <3>2, <1>1
    <3> QED BY <3>1, <3>3 DEF Has
  <2>2. ASSUME Has(s, A) PROVE Has(q, A)
    <3>1. PICK n \in DOMAIN s : s[n] \in A
      BY <2>2 DEF Has
    <3>2. n + 1 \in DOMAIN q /\ q[n + 1] \in A
      BY <3>1, <1>1
    <3> QED BY <3>2 DEF Has
  <2>3. Head(q) \in A => Has(q, A)
    BY <1>1 DEF Has
  <2> QED BY <2>1, <2>2, <2>3
<1> QED BY <1>1, <1>2 DEF s

LEMMA FollowedAppend ==
  ASSUME NEW q \in Seq(Request), NEW r \in Request
  PROVE  /\ \A A, B : Followed(q, B, A) /\ r \notin B => Followed(Append(q, r), B, A)
         /\ \A A, B : r \in A /\ r \notin B => Followed(Append(q, r), B, A)
<1> DEFINE s == Append(q, r)
<1>1. /\ DOMAIN s = 1..(Len(q) + 1) /\ DOMAIN q = 1..Len(q)
      /\ s[Len(q) + 1] = r /\ \A n \in 1..Len(q) : s[n] = q[n]
      /\ Len(q) \in Nat
  OBVIOUS
<1> HIDE DEF s
<1>2. ASSUME NEW A, NEW B, Followed(q, B, A), r \notin B PROVE Followed(s, B, A)
  <2> SUFFICES ASSUME NEW n \in DOMAIN s, s[n] \in B
               PROVE  \E m \in DOMAIN s : m > n /\ s[m] \in A
    BY DEF Followed
  <2>1. n \in DOMAIN q /\ q[n] \in B
    BY <1>1, <1>2
  <2>2. PICK m \in DOMAIN q : m > n /\ q[m] \in A
    BY <2>1, <1>2 DEF Followed
  <2> QED BY <2>2, <1>1
<1>3. ASSUME NEW A, NEW B, r \in A, r \notin B PROVE Followed(s, B, A)
  <2> SUFFICES ASSUME NEW n \in DOMAIN s, s[n] \in B
               PROVE  \E m \in DOMAIN s : m > n /\ s[m] \in A
    BY DEF Followed
  <2>1. n # Len(q) + 1
    BY <1>1, <1>3
  <2> QED BY <2>1, <1>1, <1>3
<1> QED BY <1>2, <1>3 DEF s

LEMMA FollowedTail ==
  ASSUME NEW q \in Seq(Request), q # <<>>, NEW A, NEW B, Followed(q, B, A)
  PROVE  /\ Followed(Tail(q), B, A)
         /\ Head(q) \in B => Has(Tail(q), A)
<1> DEFINE s == Tail(q)
<1>1. /\ DOMAIN s = 1..(Len(q) - 1) /\ DOMAIN q = 1..Len(q)
      /\ q[1] = Head(q) /\ \A n \in 1..(Len(q) - 1) : s[n] = q[n + 1]
      /\ Len(q) \in Nat /\ Len(q) > 0
  OBVIOUS
<1> HIDE DEF s
<1>2. Followed(s, B, A)
  <2> SUFFICES ASSUME NEW n \in DOMAIN s, s[n] \in B
               PROVE  \E m \in DOMAIN s : m > n /\ s[m] \in A
    BY DEF Followed
  <2>1. n + 1 \in DOMAIN q /\ q[n + 1] \in B
    BY <1>1
  <2>2. PICK m \in DOMAIN q : m > n + 1 /\ q[m] \in A
    BY <2>1 DEF Followed
  <2>3. m - 1 \in DOMAIN s /\ m - 1 > n /\ s[m - 1] = q[m]
    BY <2>2, <1>1
  <2> QED BY <2>2, <2>3
<1>3. ASSUME Head(q) \in B PROVE Has(s, A)
  <2>1. 1 \in DOMAIN q /\ q[1] \in B
    BY <1>1, <1>3
  <2>2. PICK m \in DOMAIN q : m > 1 /\ q[m] \in A
    BY <2>1 DEF Followed
  <2>3. m - 1 \in DOMAIN s /\ s[m - 1] = q[m]
    BY <2>2, <1>1
  <2> QED BY <2>2, <2>3 DEF Has
<1> QED BY <1>2, <1>3 DEF s

LEMMA OwnAppend ==
  ASSUME NEW q \in Seq(Request), NEW r \in Request, NEW id,
         QueueOwn(q, id), RequestOwn(r, id)
  PROVE  QueueOwn(Append(q, r), id)
<1> DEFINE s == Append(q, r)
<1>1. /\ DOMAIN s = 1..(Len(q) + 1) /\ DOMAIN q = 1..Len(q)
      /\ s[Len(q) + 1] = r /\ \A n \in 1..Len(q) : s[n] = q[n]
      /\ Len(q) \in Nat
  OBVIOUS
<1> HIDE DEF s
<1>2. QueueOwn(s, id)
  BY <1>1 DEF QueueOwn
<1> QED BY <1>2 DEF s

LEMMA OwnTail ==
  ASSUME NEW q \in Seq(Request), q # <<>>, NEW id, QueueOwn(q, id)
  PROVE  QueueOwn(Tail(q), id) /\ RequestOwn(Head(q), id)
<1> DEFINE s == Tail(q)
<1>1. /\ DOMAIN s = 1..(Len(q) - 1) /\ DOMAIN q = 1..Len(q)
      /\ q[1] = Head(q) /\ \A n \in 1..(Len(q) - 1) : s[n] = q[n + 1]
      /\ Len(q) \in Nat /\ Len(q) > 0
  OBVIOUS
<1> HIDE DEF s
<1>2. QueueOwn(s, id) /\ RequestOwn(Head(q), id)
  <2>1. RequestOwn(q[1], id)
    BY <1>1 DEF QueueOwn
  <2>2. ASSUME NEW n \in DOMAIN s PROVE RequestOwn(s[n], id)
    <3>1. n + 1 \in DOMAIN q /\ s[n] = q[n + 1]
      BY <1>1
    <3> QED BY <3>1 DEF QueueOwn
  <2> QED BY <2>1, <2>2, <1>1 DEF QueueOwn
<1> QED BY <1>2 DEF s

LEMMA EmptyQueue ==
  /\ \A R : << >> \in Seq(R)
  /\ \A A : ~Has(<< >>, A)
  /\ \A id : QueueOwn(<< >>, id)
BY DEF Has, QueueOwn

------------------------------------------------------------------------------
(* Requests and timers.                                                    *)

LEMMA RequestFields ==
  ASSUME NEW r \in Request
  PROVE  /\ r.op = "info" => r.trace \in BOOLEAN /\ r.i \in Slots \cup {-1}
         /\ r.op \in {"thumb", "set", "rec", "del", "name"} =>
              r.trace \in BOOLEAN /\ r.i \in Slots
         /\ r.op = "name" => r.n \in Item \cup {Default}
         /\ r.op \in {"recall", "prepare"} => r.i \in Slots
BY DEF Request

LEMMA TimerFields ==
  ASSUME NEW t \in Timer
  PROVE  /\ t.what \in {"reload", "started", "stopped", "state"}
         /\ t.what \in {"reload", "started"} => t.i \in Slots
BY DEF Timer

\* A request that changes nothing at the camera.
Plain(r) ==
  /\ r \in Request
  /\ r.op \notin {"set", "rec", "del", "name", "recStop", "prepare", "play", "playStop"}

LEMMA PlainRequest ==
  ASSUME NEW r, Plain(r)
  PROVE  /\ \A t, i : r \notin WritesOf(t, i) /\ r \notin ReplacesOf(t, i)
         /\ r \notin Moves
         /\ \A id : RequestOwn(r, id)
BY DEF Plain, WritesOf, ReplacesOf, Moves, RequestOwn

LEMMA InfoRequest ==
  ASSUME NEW t \in BOOLEAN, NEW i \in Slots \cup {-1}
  PROVE  LET r == [op |-> "info", trace |-> t, i |-> i]
         IN  Plain(r) /\ r \in ReadsOf(t, i)
BY DEF Plain, ReadsOf, Request

LEMMA QueryRequest ==
  LET r == [op |-> "query"] IN Plain(r) /\ r \in Queries
BY DEF Plain, Queries, Request

LEMMA CameraInfoRequest ==
  LET r == [op |-> "cameraInfo"]
  IN  Plain(r) /\ r \in Queries /\ \A t, i : r \in ReadsOf(t, i)
BY DEF Plain, Queries, ReadsOf, Request

LEMMA ThumbRequest ==
  ASSUME NEW t \in BOOLEAN, NEW i \in Slots
  PROVE  LET r == [op |-> "thumb", trace |-> t, i |-> i]
         IN  Plain(r) /\ r \in ThumbsOf(t, i)
BY DEF Plain, ThumbsOf, Request

LEMMA RecallRequest ==
  ASSUME NEW i \in Slots
  PROVE  Plain([op |-> "recall", i |-> i])
BY DEF Plain, Request

\* Such a request can be added to the queue at any time.
LEMMA PlainParts ==
  ASSUME NEW x, NEW q \in Seq(Request), NEW T, NEW c, NEW u, NEW r, Plain(r)
  PROVE  /\ Append(q, r) \in Seq(Request)
         /\ Keeps(x, q, c, u) => Keeps(x, Append(q, r), c, u)
         /\ NameRead(x, q, T, c, u) => NameRead(x, Append(q, r), T, c, u)
         /\ Reads(x, q, T, c, u) => Reads(x, Append(q, r), T, c, u)
         /\ StateAsked(x, q, T, c, u) => StateAsked(x, Append(q, r), T, c, u)
<1> DEFINE s == Append(q, r)
<1>1. r \in Request
  BY DEF Plain
<1>2. s \in Seq(Request) /\ \A A : Has(s, A) <=> Has(q, A) \/ r \in A
  BY <1>1, HasAppend
<1>3. /\ \A t, i : r \notin WritesOf(t, i) /\ r \notin ReplacesOf(t, i)
      /\ r \notin Moves
      /\ RequestOwn(r, c.id)
  BY PlainRequest
<1>4. QueueOwn(q, c.id) => QueueOwn(s, c.id)
  BY <1>1, <1>3, OwnAppend
<1>5. \A A, B : Followed(q, B, A) /\ r \notin B => Followed(s, B, A)
  BY <1>1, FollowedAppend
<1> HIDE DEF s
<1>6. Owns(x, q, c) => Owns(x, s, c)
  BY <1>4 DEF Owns
<1>7. \A t, i : Lasting(q, c, t, i) <=> Lasting(s, c, t, i)
  BY <1>2, <1>3 DEF Lasting
<1>8. CacheFresh(x, q, c, u) => CacheFresh(x, s, c, u)
  BY <1>7 DEF CacheFresh
<1>9. \A t, i : Read(s, T, t, i) => Read(q, T, t, i)
  BY <1>2 DEF Read
<1>10. NameRead(x, q, T, c, u) => NameRead(x, s, T, c, u)
  BY <1>3, <1>5, <1>9 DEF NameRead
<1>11. PictureRead(x, q, T, c, u) => PictureRead(x, s, T, c, u)
  BY <1>2, <1>7, <1>9 DEF PictureRead
<1>12. StateAsked(x, q, T, c, u) => StateAsked(x, s, T, c, u)
  BY <1>2, <1>3, <1>5 DEF StateAsked
<1>13. /\ Keeps(x, q, c, u) => Keeps(x, s, c, u)
       /\ Reads(x, q, T, c, u) => Reads(x, s, T, c, u)
  BY <1>6, <1>8, <1>10, <1>11 DEF Keeps, Reads
<1> QED BY <1>2, <1>10, <1>12, <1>13 DEF s

LEMMA PlainAdded ==
  ASSUME NEW x, NEW q \in Seq(Request), NEW T, NEW c, NEW u, NEW r,
         Plain(r), Shows(x, q, T, c, u)
  PROVE  /\ Append(q, r) \in Seq(Request) /\ Shows(x, Append(q, r), T, c, u)
         /\ StateAsked(x, q, T, c, u) => StateAsked(x, Append(q, r), T, c, u)
BY PlainParts DEF Shows

LEMMA PlainSent ==
  ASSUME NEW x, NEW q \in Seq(Request), NEW T, NEW c, NEW u, NEW r,
         Plain(r), Sound(x, q, T, c, u)
  PROVE  Append(q, r) \in Seq(Request) /\ Sound(x, Append(q, r), T, c, u)
BY PlainAdded DEF Sound

------------------------------------------------------------------------------
(* The methods of the panel.                                               *)

Pair == [p : Panel, q : Seq(Request)]

LEMMA SendPair ==
  ASSUME NEW s \in Pair, NEW r \in Request
  PROVE  /\ Send(s, r) \in Pair /\ Send(s, r).p = s.p
         /\ Send(s, r).q = Append(s.q, r)
<1>1. s.q \in Seq(Request)
  BY DEF Pair
<1>2. Append(s.q, r) \in Seq(Request)
  BY <1>1, HasAppend
<1> DEFINE q == Append(s.q, r)
<1>3. [s EXCEPT !.q = Append(@, r)] = [s EXCEPT !.q = q]
  OBVIOUS
<1> HIDE DEF q
<1>4. [s EXCEPT !.q = q] \in Pair /\ [s EXCEPT !.q = q].p = s.p
      /\ [s EXCEPT !.q = q].q = q
  BY <1>2 DEF Pair, q
<1>5. Send(s, r) = [s EXCEPT !.q = q]
  BY <1>3 DEF Send
<1> QED BY <1>4, <1>5 DEF q

LEMMA LoadSlot ==
  ASSUME NEW s \in Pair, NEW i \in Slots \cup {-1}
  PROVE  LET r == [op |-> "info", trace |-> s.p.trace, i |-> i]
         IN  /\ loadSlot(s, i) \in Pair /\ loadSlot(s, i).p = s.p
             /\ loadSlot(s, i).q = IF s.p.client = "open" THEN Append(s.q, r) ELSE s.q
<1>1. s.p.trace \in BOOLEAN
  BY DEF Pair, Panel
<1> DEFINE r == [op |-> "info", trace |-> s.p.trace, i |-> i]
<1>2. r \in Request
  BY <1>1, InfoRequest DEF Plain
<1> HIDE DEF r
<1>3. /\ Send(s, r) \in Pair /\ Send(s, r).p = s.p
      /\ Send(s, r).q = Append(s.q, r)
  BY <1>2, SendPair
<1>4. loadSlot(s, i) = IF s.p.client = "open" THEN Send(s, r) ELSE s
  BY DEF loadSlot, r
<1> QED BY <1>3, <1>4 DEF r

LEMMA RefreshTraceState ==
  ASSUME NEW s \in Pair
  PROVE  /\ refreshTraceState(s) \in Pair /\ refreshTraceState(s).p = s.p
         /\ refreshTraceState(s).q =
              IF s.p.trace /\ s.p.client = "open"
              THEN Append(s.q, [op |-> "query"]) ELSE s.q
<1> DEFINE r == [op |-> "query"]
<1>2. r \in Request
  BY QueryRequest DEF Plain
<1> HIDE DEF r
<1>3. /\ Send(s, r) \in Pair /\ Send(s, r).p = s.p
      /\ Send(s, r).q = Append(s.q, r)
  BY <1>2, SendPair
<1>4. refreshTraceState(s) = IF s.p.trace /\ s.p.client = "open" THEN Send(s, r) ELSE s
  BY DEF refreshTraceState, r
<1> QED BY <1>3, <1>4 DEF r

LEMMA UpdateActions ==
  ASSUME NEW x \in Panel
  PROVE  \E b \in Buttons : updateActions(x) = [x EXCEPT !.btn = b]
<1> DEFINE has == x.sel >= 0
           act == traceActions(x.state)
           rec == act.record /\ (has \/ x.state = "Recording")
           prep == act.prepare /\
                    (selectedIsNamed(x) \/ x.state \in {"Playing", "ReadyForPlay"})
           rem == act.remove /\ selectedIsNamed(x)
           ren == has /\ act.navigate
           nav == act.navigate
           b1 == [primary |-> has, secondary |-> has, delete |-> has,
                  rename |-> has, pages |-> TRUE]
           b2 == [primary |-> rec, secondary |-> prep, delete |-> rem,
                  rename |-> ren, pages |-> nav]
<1>1. updateActions(x) = [x EXCEPT !.btn = IF ~x.trace THEN b1 ELSE b2]
  BY DEF updateActions
<1>2. b1 \in Buttons
  <2>1. has \in BOOLEAN OBVIOUS
  <2> HIDE DEF has
  <2> QED BY <2>1 DEF Buttons
<1>3. b2 \in Buttons
  <2>1. rec \in BOOLEAN /\ prep \in BOOLEAN /\ rem \in BOOLEAN /\ ren \in BOOLEAN
    OBVIOUS
  <2>2. nav \in BOOLEAN
    BY DEF traceActions
  <2> HIDE DEF rec, prep, rem, ren, nav
  <2> QED BY <2>1, <2>2 DEF Buttons
<1> DEFINE b == IF ~x.trace THEN b1 ELSE b2
<1>4. b \in Buttons
  BY <1>2, <1>3
<1> HIDE DEF b1, b2
<1> QED BY <1>1, <1>4

\* What the buttons show does not matter to the rest.
SameButFor(x, y) ==
  /\ y \in Panel
  /\ y.trace = x.trace /\ y.client = x.client /\ y.edit = x.edit
  /\ y.page = x.page /\ y.sel = x.sel /\ y.info = x.info
  /\ y.thumbs = x.thumbs /\ y.name = x.name /\ y.thumb = x.thumb
  /\ y.state = x.state /\ y.crashed = x.crashed

LEMMA ActionsUpdated ==
  ASSUME NEW x \in Panel
  PROVE  SameButFor(x, updateActions(x))
<1>1. PICK b \in Buttons : updateActions(x) = [x EXCEPT !.btn = b]
  BY UpdateActions
<1> DEFINE y == [x EXCEPT !.btn = b]
<1>2. y \in Panel
  BY DEF Panel
<1>3. SameButFor(x, y)
  BY <1>2 DEF SameButFor, Panel
<1> QED BY <1>1, <1>3

\* The panel y is x after it has turned to a page.
Turned(x, y, page) ==
  /\ y \in Panel
  /\ y.trace = x.trace /\ y.client = x.client /\ y.info = x.info
  /\ y.thumbs = x.thumbs /\ y.state = x.state /\ y.crashed = x.crashed
  /\ y.page = page /\ y.sel = -1 /\ y.name = Default /\ y.thumb = Blank
  /\ y.edit = FALSE

Turning(x, page) == [x EXCEPT !.page = page, !.sel = -1, !.name = Default,
                              !.thumb = Blank, !.edit = FALSE]

LEMMA TurningPanel ==
  ASSUME NEW x \in Panel, NEW page \in Slots
  PROVE  Turned(x, Turning(x, page), page)
<1> DEFINE no == FALSE
           y == [x EXCEPT !.page = page, !.sel = -1, !.name = Default,
                          !.thumb = Blank, !.edit = no]
<1>1. Turning(x, page) = y
  BY DEF Turning
<1>2. no \in BOOLEAN /\ no = FALSE
  OBVIOUS
<1> HIDE DEF no
<1>3. y \in Panel
  BY <1>2 DEF Panel
<1>4. /\ y.trace = x.trace /\ y.client = x.client /\ y.info = x.info
      /\ y.thumbs = x.thumbs /\ y.state = x.state /\ y.crashed = x.crashed
      /\ y.page = page /\ y.sel = -1 /\ y.name = Default /\ y.thumb = Blank
      /\ y.edit = no
  BY DEF Panel
<1> QED BY <1>1, <1>2, <1>3, <1>4 DEF Turned

LEMMA ShowPage ==
  ASSUME NEW s \in Pair, NEW page \in Slots
  PROVE  LET z == showPage(s, page)
             r == [op |-> "info", trace |-> s.p.trace, i |-> page]
         IN  /\ z \in Pair /\ Turned(s.p, z.p, page)
             /\ z.q = IF s.p.client = "open" THEN Append(s.q, r) ELSE s.q
<1> DEFINE y == Turning(s.p, page)
           x == updateActions(y)
           n == [s EXCEPT !.p = x]
<1>1. s.p \in Panel /\ s.q \in Seq(Request)
  BY DEF Pair
<1>2. Turned(s.p, y, page)
  BY <1>1, TurningPanel
<1>3. SameButFor(y, x)
  BY <1>2, ActionsUpdated DEF Turned
<1>4. Turned(s.p, x, page)
  BY <1>2, <1>3 DEF Turned, SameButFor
<1>5. showPage(s, page) = loadSlot(n, page)
  BY DEF showPage, Turning
<1> HIDE DEF x
<1>6. n \in Pair /\ n.p = x /\ n.q = s.q
  BY <1>1, <1>4 DEF Pair, Turned
<1>7. n.p.trace = s.p.trace /\ n.p.client = s.p.client
  BY <1>4, <1>6 DEF Turned
<1> HIDE DEF n
<1>8. /\ loadSlot(n, page) \in Pair /\ loadSlot(n, page).p = n.p
      /\ loadSlot(n, page).q =
           IF n.p.client = "open"
           THEN Append(n.q, [op |-> "info", trace |-> n.p.trace, i |-> page]) ELSE n.q
  BY <1>6, LoadSlot
<1> QED BY <1>4, <1>5, <1>6, <1>7, <1>8

\* The panel y is x after it has forgotten what it had read.
Forgot(x, y) ==
  /\ y \in Panel
  /\ y.trace = x.trace /\ y.client = x.client /\ y.edit = x.edit
  /\ y.page = x.page /\ y.sel = x.sel /\ y.name = x.name /\ y.thumb = x.thumb
  /\ y.crashed = x.crashed /\ y.state = "None"
  /\ \A i \in Slots : y.info[i] = Unread /\ y.thumbs[i] = Unread

LEMMA Forgets ==
  ASSUME NEW x \in Panel
  PROVE  Forgot(x, Forget(x))
<1> DEFINE none == [i \in Slots |-> Unread]
           y == [x EXCEPT !.info = none, !.thumbs = none, !.state = "None"]
<1>1. /\ none \in [Slots -> Item \cup {Empty, Default, Unread}]
      /\ none \in [Slots -> Item \cup {Unread}]
      /\ \A i \in Slots : none[i] = Unread
  OBVIOUS
<1>2. Forget(x) = y
  BY DEF Forget
<1> HIDE DEF none
<1>3. y \in Panel
  BY <1>1 DEF Panel, TraceState
<1>4. /\ y.trace = x.trace /\ y.client = x.client /\ y.edit = x.edit
      /\ y.page = x.page /\ y.sel = x.sel /\ y.name = x.name /\ y.thumb = x.thumb
      /\ y.crashed = x.crashed /\ y.state = "None"
      /\ y.info = none /\ y.thumbs = none
  BY DEF Panel
<1> QED BY <1>1, <1>2, <1>3, <1>4 DEF Forgot

------------------------------------------------------------------------------
(* A page that has just been opened.                                       *)

\* Showing a page asks for what it shows, so nothing need be known of it.
LEMMA PageShown ==
  ASSUME NEW s \in Pair, NEW page \in Slots, NEW T, NEW c \in Camera, NEW u,
         CacheOwn(s.p, c.id), QueueOwn(s.q, c.id), CameraOwn(c),
         CacheFresh(s.p, s.q, c, u)
  PROVE  LET z == showPage(s, page)
         IN  /\ z \in Pair /\ Turned(s.p, z.p, page)
             /\ Shows(z.p, z.q, T, c, u)
             /\ StateAsked(s.p, s.q, T, c, u) => StateAsked(z.p, z.q, T, c, u)
<1> DEFINE z == showPage(s, page)
           r == [op |-> "info", trace |-> s.p.trace, i |-> page]
           x == z.p
<1>1. /\ z \in Pair /\ Turned(s.p, z.p, page)
      /\ z.q = IF s.p.client = "open" THEN Append(s.q, r) ELSE s.q
  BY ShowPage
<1>2. s.p.trace \in BOOLEAN /\ s.p \in Panel /\ s.q \in Seq(Request)
  BY DEF Pair, Panel
<1>3. Plain(r) /\ r \in ReadsOf(s.p.trace, page)
  BY <1>2, InfoRequest
<1> HIDE DEF z, r
<1>4. Default \notin Item /\ Blank \notin Item
  BY SentinelsDiffer
<1>5. Owns(x, s.q, c)
  BY <1>1, <1>4 DEF Owns, PanelOwn, CacheOwn, Turned, IsOf
<1>6. CacheFresh(x, s.q, c, u)
  BY <1>1 DEF CacheFresh, Turned
<1>7. StateAsked(s.p, s.q, T, c, u) => StateAsked(x, s.q, T, c, u)
  BY <1>1 DEF StateAsked, Turned
<1>8. ASSUME s.p.client # "open"
      PROVE  /\ Shows(x, z.q, T, c, u)
             /\ StateAsked(s.p, s.q, T, c, u) => StateAsked(x, z.q, T, c, u)
  BY <1>1, <1>5, <1>6, <1>7, <1>8
  DEF Shows, Keeps, Reads, NameRead, PictureRead, Turned
<1>9. ASSUME s.p.client = "open"
      PROVE  /\ Shows(x, z.q, T, c, u)
             /\ StateAsked(s.p, s.q, T, c, u) => StateAsked(x, z.q, T, c, u)
  <2>1. r \in Request
    BY <1>3 DEF Plain
  <2>2. z.q = Append(s.q, r)
    BY <1>1, <1>9
  <2>3. /\ \A A : Has(z.q, A) <=> Has(s.q, A) \/ r \in A
        /\ \A A, B : Followed(s.q, B, A) /\ r \notin B => Followed(z.q, B, A)
        /\ \A A, B : r \in A /\ r \notin B => Followed(z.q, B, A)
    BY <1>2, <2>1, <2>2, HasAppend, FollowedAppend
  <2>4. /\ \A t, i : r \notin WritesOf(t, i) /\ r \notin ReplacesOf(t, i)
        /\ r \notin Moves
        /\ RequestOwn(r, c.id)
    BY <1>3, PlainRequest
  <2>5. QueueOwn(z.q, c.id)
    BY <1>2, <1>5, <2>1, <2>2, <2>4, OwnAppend DEF Owns
  <2>6. Owns(x, z.q, c)
    BY <1>5, <2>5 DEF Owns
  <2>7. CacheFresh(x, z.q, c, u)
    BY <1>6, <2>3, <2>4 DEF CacheFresh, Lasting
  <2>8. StateAsked(s.p, s.q, T, c, u) => StateAsked(x, z.q, T, c, u)
    BY <1>7, <2>3, <2>4 DEF StateAsked
  <2>9. Has(z.q, ReadsOf(x.trace, x.page))
    BY <1>1, <1>3, <2>3 DEF Turned
  <2>10. Followed(z.q, WritesOf(x.trace, x.page), ReadsOf(x.trace, x.page))
    BY <1>1, <1>3, <2>3, <2>4 DEF Turned
  <2>11. NameRead(x, z.q, T, c, u) /\ PictureRead(x, z.q, T, c, u)
    BY <2>9, <2>10 DEF NameRead, PictureRead, Read
  <2> QED BY <2>6, <2>7, <2>8, <2>11, <1>1 DEF Shows, Keeps, Reads
<1> QED BY <1>1, <1>8, <1>9 DEF z

\* Asking for the state of the transport does the same for the transport.
LEMMA StateRefreshed ==
  ASSUME NEW s \in Pair, NEW T, NEW c \in Camera, NEW u, Shows(s.p, s.q, T, c, u)
  PROVE  LET z == refreshTraceState(s)
         IN  z \in Pair /\ z.p = s.p /\ Sound(z.p, z.q, T, c, u)
<1> DEFINE z == refreshTraceState(s)
           r == [op |-> "query"]
<1>1. /\ z \in Pair /\ z.p = s.p
      /\ z.q = IF s.p.trace /\ s.p.client = "open" THEN Append(s.q, r) ELSE s.q
  BY RefreshTraceState
<1>2. Plain(r) /\ r \in Queries /\ r \notin Moves
  BY QueryRequest, PlainRequest
<1>3. s.q \in Seq(Request)
  BY DEF Pair
<1> HIDE DEF z, r
<1>4. ASSUME ~(s.p.trace /\ s.p.client = "open") PROVE Sound(z.p, z.q, T, c, u)
  BY <1>1, <1>4 DEF Sound, StateAsked
<1>5. ASSUME s.p.trace, s.p.client = "open" PROVE Sound(z.p, z.q, T, c, u)
  <2>1. Followed(z.q, Moves, Queries) /\ Has(z.q, Queries)
    BY <1>1, <1>2, <1>3, <1>5, FollowedAppend, HasAppend DEF Plain
  <2>2. StateAsked(z.p, z.q, T, c, u)
    BY <2>1 DEF StateAsked
  <2>3. Shows(z.p, Append(s.q, r), T, c, u)
    BY <1>1, <1>2, <1>3, PlainAdded
  <2> QED BY <2>2, <2>3, <1>1, <1>5 DEF Sound
<1> QED BY <1>1, <1>4, <1>5 DEF z

\* refresh() forgets what was read and asks for all that is shown.
LEMMA PanelRefreshed ==
  ASSUME NEW s \in Pair, NEW T, NEW c \in Camera, NEW u,
         QueueOwn(s.q, c.id), CameraOwn(c)
  PROVE  refresh(s) \in Pair /\ Sound(refresh(s).p, refresh(s).q, T, c, u)
<1> DEFINE x == Forget(s.p)
           f == [s EXCEPT !.p = x]
           z == showPage(f, s.p.page)
<1>1. s.p \in Panel /\ s.q \in Seq(Request) /\ s.p.page \in Slots
  BY DEF Pair, Panel
<1>2. Forgot(s.p, x)
  BY <1>1, Forgets
<1>3. refresh(s) = refreshTraceState(z)
  BY DEF refresh
<1> HIDE DEF x
<1>4. f \in Pair /\ f.p = x /\ f.q = s.q
  BY <1>1, <1>2 DEF Pair, Forgot
<1> HIDE DEF f
<1>5. Unread \notin Item
  BY SentinelsDiffer
<1>6. CacheOwn(f.p, c.id) /\ CacheFresh(f.p, f.q, c, u)
  BY <1>2, <1>4, <1>5 DEF CacheOwn, CacheFresh, Forgot, IsOf
<1>7. z \in Pair /\ Shows(z.p, z.q, T, c, u)
  BY <1>1, <1>4, <1>6, PageShown
<1> HIDE DEF z
<1> QED BY <1>3, <1>7, StateRefreshed

LEMMA CurrentPair ==
  ASSUME PresetTypeOK
  PROVE  S \in Pair /\ S.p = p /\ S.q = queue
BY DEF PresetTypeOK, S, Pair

LEMMA BecomesPair ==
  ASSUME NEW s \in Pair, Becomes(s)
  PROVE  p' \in Panel /\ queue' \in Seq(Request) /\ p' = s.p /\ queue' = s.q
BY DEF Pair, Becomes

DoneType == [acts : 0..MaxActs, faults : 0..MaxFaults]

LEMMA ActDone ==
  ASSUME PresetTypeOK, Act
  PROVE  done' \in DoneType
<1> DEFINE n == done.acts + 1
<1>1. done \in DoneType /\ done.acts < MaxActs /\ done' = [done EXCEPT !.acts = n]
  BY DEF PresetTypeOK, DoneType, Act
<1>2. n \in 0..MaxActs
  BY <1>1, PresetAssumption DEF DoneType
<1> HIDE DEF n
<1> QED BY <1>1, <1>2 DEF DoneType

LEMMA SucceedsDone ==
  ASSUME PresetTypeOK, NEW ok \in BOOLEAN, Succeeds(ok)
  PROVE  done' \in DoneType
<1> DEFINE n == IF ok THEN done.faults ELSE done.faults + 1
<1>1. done \in DoneType /\ (ok \/ done.faults < MaxFaults)
      /\ done' = [done EXCEPT !.faults = n]
  BY DEF PresetTypeOK, DoneType, Succeeds
<1>2. n \in 0..MaxFaults
  BY <1>1, PresetAssumption DEF DoneType
<1> HIDE DEF n
<1> QED BY <1>1, <1>2 DEF DoneType

LEMMA TrustedType == Trusted \in Suspect /\ Trusted.names = {} /\ Trusted.pics = {}
                     /\ Trusted.transport = FALSE
<1> DEFINE no == FALSE
<1>1. no \in BOOLEAN /\ no = FALSE
  OBVIOUS
<1>2. Trusted = [names |-> {}, pics |-> {}, transport |-> no]
  BY DEF Trusted
<1> HIDE DEF no
<1> QED BY <1>1, <1>2 DEF Suspect

\* The panel, its queue and what is suspect change, the rest does not.
LEMMA PanelStep ==
  ASSUME PresetTypeOK, NEW s \in Pair, Becomes(s), UNCHANGED <<timers, cam>>,
         done' \in DoneType, suspect' \in Suspect,
         Sound(s.p, s.q, timers, cam, suspect')
  PROVE  PresetInv'
<1>1. p' \in Panel /\ queue' \in Seq(Request) /\ p' = s.p /\ queue' = s.q
  BY BecomesPair
<1>2. PresetTypeOK'
  BY <1>1 DEF PresetTypeOK, DoneType
<1>3. Sound(p', queue', timers', cam', suspect')
  BY <1>1
<1> QED BY <1>2, <1>3 DEF PresetInv

LEMMA InvPage ==
  ASSUME PresetInv, NEW page \in Slots, PageClicked(page)
  PROVE  PresetInv'
<1>1. PresetTypeOK /\ Sound(p, queue, timers, cam, suspect) /\ cam \in Camera
  BY DEF PresetInv, PresetTypeOK
<1>2. S \in Pair /\ S.p = p /\ S.q = queue
  BY <1>1, CurrentPair
<1> DEFINE z == showPage(S, page)
<1>3. Becomes(z) /\ Act /\ UNCHANGED <<timers, cam, suspect>>
  BY DEF PageClicked
<1>4. /\ CacheOwn(p, cam.id) /\ QueueOwn(queue, cam.id) /\ CameraOwn(cam)
      /\ CacheFresh(p, queue, cam, suspect)
      /\ StateAsked(p, queue, timers, cam, suspect)
  BY <1>1 DEF Sound, Shows, Keeps, Reads, Owns, PanelOwn
<1>5. /\ z \in Pair /\ Shows(z.p, z.q, timers, cam, suspect)
      /\ StateAsked(p, queue, timers, cam, suspect)
           => StateAsked(z.p, z.q, timers, cam, suspect)
  BY <1>1, <1>2, <1>4, PageShown
<1> HIDE DEF z
<1>6. z \in Pair /\ Sound(z.p, z.q, timers, cam, suspect)
  BY <1>4, <1>5 DEF Sound
<1>7. done' \in DoneType /\ suspect' \in Suspect /\ suspect' = suspect
  BY <1>1, <1>3, ActDone DEF PresetTypeOK
<1> QED BY <1>1, <1>3, <1>6, <1>7, PanelStep

LEMMA InvRecall ==
  ASSUME PresetInv, Recall
  PROVE  PresetInv'
<1>1. PresetTypeOK /\ Sound(p, queue, timers, cam, suspect) /\ queue \in Seq(Request)
      /\ p.sel \in Slots \cup {-1}
  BY DEF PresetInv, PresetTypeOK, Panel
<1>2. S \in Pair /\ S.p = p /\ S.q = queue
  BY <1>1, CurrentPair
<1> DEFINE r == [op |-> "recall", i |-> p.sel]
           z == Send(S, r)
<1>3. Becomes(z) /\ Act /\ p.sel >= 0 /\ UNCHANGED <<timers, cam, suspect>>
  BY DEF Recall, Pressed
<1>4. Plain(r) /\ r \in Request
  BY <1>1, <1>3, RecallRequest DEF Plain
<1> HIDE DEF r
<1>5. z \in Pair /\ z.p = p /\ z.q = Append(queue, r)
  BY <1>2, <1>4, SendPair
<1>6. Sound(z.p, z.q, timers, cam, suspect)
  BY <1>1, <1>4, <1>5, PlainSent
<1>7. done' \in DoneType /\ suspect' \in Suspect /\ suspect' = suspect
  BY <1>1, <1>3, ActDone DEF PresetTypeOK
<1> HIDE DEF z
<1> QED BY <1>1, <1>3, <1>5, <1>6, <1>7, PanelStep

LEMMA InvMode ==
  ASSUME PresetInv, NEW trace \in BOOLEAN, setTraceMode(trace)
  PROVE  PresetInv'
<1>1. /\ PresetTypeOK /\ Sound(p, queue, timers, cam, suspect)
      /\ cam \in Camera /\ p \in Panel /\ queue \in Seq(Request) /\ 0 \in Slots
  BY PresetAssumption DEF PresetInv, PresetTypeOK
<1> DEFINE y == Forget(p)
           x == [y EXCEPT !.trace = trace]
           f == [S EXCEPT !.p = x]
           z == showPage(f, 0)
           e == IF trace THEN refreshTraceState(z) ELSE z
<1>2. Becomes(e) /\ Act /\ suspect' = Trusted /\ UNCHANGED <<timers, cam>>
  BY DEF setTraceMode
<1>3. Forgot(p, y)
  BY <1>1, Forgets
<1> HIDE DEF y
<1>4. /\ x \in Panel /\ x.trace = trace /\ x.info = y.info /\ x.thumbs = y.thumbs
  BY <1>3 DEF Forgot, Panel
<1> HIDE DEF x
<1>5. S \in Pair /\ S.q = queue
  BY <1>1, CurrentPair
<1>6. f \in Pair /\ f.p = x /\ f.q = queue
  BY <1>4, <1>5 DEF Pair
<1> HIDE DEF f
<1>7. Unread \notin Item
  BY SentinelsDiffer
<1>8. CacheOwn(f.p, cam.id) /\ CacheFresh(f.p, f.q, cam, Trusted)
  BY <1>3, <1>4, <1>6, <1>7 DEF CacheOwn, CacheFresh, Forgot, IsOf
<1>9. QueueOwn(f.q, cam.id) /\ CameraOwn(cam)
  BY <1>1, <1>6 DEF Sound, Shows, Keeps, Reads, Owns
<1>10. z \in Pair /\ Turned(f.p, z.p, 0) /\ Shows(z.p, z.q, timers, cam, Trusted)
  BY <1>1, <1>6, <1>8, <1>9, PageShown
<1> HIDE DEF z
<1>11. e \in Pair /\ Sound(e.p, e.q, timers, cam, Trusted)
  <2>1. CASE trace
    BY <2>1, <1>1, <1>10, StateRefreshed
  <2>2. CASE ~trace
    <3>1. ~z.p.trace
      BY <1>4, <1>6, <1>10, <2>2 DEF Turned
    <3> QED BY <3>1, <2>2, <1>10 DEF Sound, StateAsked
  <2> QED BY <2>1, <2>2
<1> HIDE DEF e
<1>12. done' \in DoneType /\ suspect' \in Suspect
  BY <1>1, <1>2, ActDone, TrustedType
<1> QED BY <1>1, <1>2, <1>11, <1>12, PanelStep

LEMMA AnyStep ==
  ASSUME NEW s \in Pair, Becomes(s), timers' \in Seq(Timer), cam' \in Camera,
         done' \in DoneType, suspect' \in Suspect,
         Sound(s.p, s.q, timers', cam', suspect')
  PROVE  PresetInv'
<1>1. p' \in Panel /\ queue' \in Seq(Request) /\ p' = s.p /\ queue' = s.q
  BY BecomesPair
<1>2. PresetTypeOK'
  BY <1>1 DEF PresetTypeOK, DoneType
<1>3. Sound(p', queue', timers', cam', suspect')
  BY <1>1
<1> QED BY <1>2, <1>3 DEF PresetInv

LEMMA FreshSlot ==
  ASSUME NEW c \in Cams, NEW t \in BOOLEAN, NEW i \in Slots
  PROVE  LET x == [cam |-> c, trace |-> t, i |-> i,
                   v |-> CHOOSE v \in Versions : TRUE]
             e == [name |-> IF i = 0 THEN x ELSE Empty, pic |-> x]
         IN  /\ e \in [name : Item \cup {Empty, Default}, pic : Item]
             /\ IsOf(e.name, c, t, i) /\ IsOf(e.pic, c, t, i)
<1> DEFINE w == CHOOSE v \in Versions : TRUE
           x == [cam |-> c, trace |-> t, i |-> i, v |-> w]
           n == IF i = 0 THEN x ELSE Empty
           e == [name |-> n, pic |-> x]
<1>1. w \in Versions
  BY PresetAssumption
<1> HIDE DEF w
<1>2. x \in Item /\ x.cam = c /\ x.trace = t /\ x.i = i
  BY <1>1 DEF Item
<1>3. Empty \notin Item
  BY SentinelsDiffer
<1> HIDE DEF x
<1>4. n \in Item \cup {Empty, Default} /\ IsOf(n, c, t, i) /\ IsOf(x, c, t, i)
  BY <1>2, <1>3 DEF IsOf
<1> HIDE DEF n
<1>5. /\ e \in [name : Item \cup {Empty, Default}, pic : Item]
      /\ IsOf(e.name, c, t, i) /\ IsOf(e.pic, c, t, i)
  BY <1>2, <1>4
<1> QED BY <1>5 DEF n, x, w

LEMMA FreshType ==
  ASSUME NEW c \in Cams
  PROVE  FreshCamera(c) \in Camera /\ CameraOwn(FreshCamera(c))
<1> DEFINE F(t, i) == LET x == [cam |-> c, trace |-> t, i |-> i,
                              v |-> CHOOSE v \in Versions : TRUE]
                      IN  [name |-> IF i = 0 THEN x ELSE Empty, pic |-> x]
           slot == [t \in BOOLEAN |-> [i \in Slots |-> F(t, i)]]
           f == [id |-> c, st |-> "None", writing |-> {}, slot |-> slot]
<1>1. FreshCamera(c) = f
  BY DEF FreshCamera
<1>2. \A t \in BOOLEAN, i \in Slots :
        /\ F(t, i) \in [name : Item \cup {Empty, Default}, pic : Item]
        /\ IsOf(F(t, i).name, c, t, i) /\ IsOf(F(t, i).pic, c, t, i)
  BY FreshSlot
<1> HIDE DEF F
<1>3. slot \in [BOOLEAN -> [Slots -> [name : Item \cup {Empty, Default}, pic : Item]]]
  BY <1>2
<1>4. \A t \in BOOLEAN : \A i \in Slots : slot[t][i] = F(t, i)
  OBVIOUS
<1> HIDE DEF slot
<1>5. f \in Camera /\ f.id = c /\ f.slot = slot
  BY <1>3 DEF Camera, TraceState
<1> HIDE DEF f
<1>6. CameraOwn(f)
  BY <1>2, <1>4, <1>5 DEF CameraOwn
<1> QED BY <1>1, <1>5, <1>6

LEMMA WithClient ==
  ASSUME NEW x \in Panel, NEW k \in {"null", "connecting", "open"}
  PROVE  LET y == [x EXCEPT !.client = k]
         IN  /\ y \in Panel /\ y.client = k /\ y.trace = x.trace
             /\ y.page = x.page /\ y.sel = x.sel /\ y.info = x.info
             /\ y.thumbs = x.thumbs /\ y.name = x.name /\ y.thumb = x.thumb
             /\ y.state = x.state /\ y.edit = x.edit
BY DEF Panel

LEMMA InvClient ==
  ASSUME PresetInv, NEW c \in Cams, setClient(c)
  PROVE  PresetInv'
<1>1. /\ PresetTypeOK /\ Sound(p, queue, timers, cam, suspect)
      /\ cam \in Camera /\ p \in Panel /\ timers \in Seq(Timer)
  BY DEF PresetInv, PresetTypeOK
<1> DEFINE x == [p EXCEPT !.client = "connecting"]
           s == [p |-> x, q |-> << >>]
<1>2. /\ Becomes(refresh(s)) /\ Act /\ suspect' = Trusted /\ timers' = timers
      /\ cam' = IF c = cam.id THEN cam ELSE FreshCamera(c)
  BY DEF setClient
<1>3. x \in Panel
  BY <1>1, WithClient
<1> HIDE DEF x
<1>4. << >> \in Seq(Request) /\ QueueOwn(<< >>, cam'.id)
  BY EmptyQueue
<1>5. s \in Pair /\ s.q = << >>
  BY <1>3, <1>4 DEF Pair
<1>6. cam' \in Camera /\ CameraOwn(cam')
  BY <1>1, <1>2, FreshType DEF Sound, Shows, Keeps, Reads, Owns
<1> HIDE DEF s
<1>7. refresh(s) \in Pair /\ Sound(refresh(s).p, refresh(s).q, timers', cam', suspect')
  BY <1>4, <1>5, <1>6, PanelRefreshed
<1>8. done' \in DoneType /\ suspect' \in Suspect /\ timers' \in Seq(Timer)
  BY <1>1, <1>2, ActDone, TrustedType
<1> QED BY <1>2, <1>6, <1>7, <1>8, AnyStep

LEMMA InvCameraInfo ==
  ASSUME PresetInv, CameraInfo
  PROVE  PresetInv'
<1>1. /\ PresetTypeOK /\ Sound(p, queue, timers, cam, suspect)
      /\ cam \in Camera /\ p \in Panel /\ queue \in Seq(Request)
      /\ done \in DoneType
  BY DEF PresetInv, PresetTypeOK, DoneType
<1> DEFINE s == [p |-> p, q |-> Tail(queue)]
<1>2. /\ Becomes(refresh(s)) /\ suspect' = Trusted /\ UNCHANGED <<timers, cam, done>>
      /\ queue # << >>
  BY DEF CameraInfo
<1>3. Tail(queue) \in Seq(Request) /\ QueueOwn(Tail(queue), cam.id) /\ CameraOwn(cam)
  BY <1>1, <1>2, HasTail, OwnTail DEF Sound, Shows, Keeps, Reads, Owns
<1>4. s \in Pair /\ s.q = Tail(queue)
  BY <1>1, <1>3 DEF Pair
<1> HIDE DEF s
<1>5. refresh(s) \in Pair /\ Sound(refresh(s).p, refresh(s).q, timers, cam, suspect')
  BY <1>1, <1>3, <1>4, PanelRefreshed
<1>6. suspect' \in Suspect /\ done' \in DoneType
  BY <1>1, <1>2, TrustedType
<1> QED BY <1>1, <1>2, <1>5, <1>6, PanelStep

LEMMA InvConnect ==
  ASSUME PresetInv, NEW ok \in BOOLEAN, Connect(ok)
  PROVE  PresetInv'
<1>1. /\ PresetTypeOK /\ Sound(p, queue, timers, cam, suspect)
      /\ cam \in Camera /\ p \in Panel /\ queue \in Seq(Request)
  BY DEF PresetInv, PresetTypeOK
<1>2. done' \in DoneType /\ UNCHANGED <<timers, cam, suspect>> /\ suspect' \in Suspect
  BY <1>1, SucceedsDone DEF Connect, PresetTypeOK
<1>3. CASE ok
  <2> DEFINE x == [p EXCEPT !.client = "open"]
             r == [op |-> "cameraInfo"]
             n == Append(queue, r)
             s == [p |-> x, q |-> n]
  <2>1. Becomes(s)
    BY <1>3 DEF Connect
  <2>2. /\ x \in Panel /\ x.client = "open" /\ x.trace = p.trace
        /\ x.page = p.page /\ x.sel = p.sel /\ x.info = p.info
        /\ x.thumbs = p.thumbs /\ x.name = p.name /\ x.thumb = p.thumb
    BY <1>1, WithClient
  <2>3. Plain(r) /\ r \in Queries /\ (\A t, i : r \in ReadsOf(t, i)) /\ r \in Request
    BY CameraInfoRequest DEF Plain
  <2> HIDE DEF x, r
  <2>4. /\ \A t, i : r \notin WritesOf(t, i) /\ r \notin ReplacesOf(t, i)
        /\ r \notin Moves /\ RequestOwn(r, cam.id)
    BY <2>3, PlainRequest
  <2>5. /\ n \in Seq(Request)
        /\ \A A : Has(n, A) <=> Has(queue, A) \/ r \in A
        /\ \A A, B : r \in A /\ r \notin B => Followed(n, B, A)
    BY <1>1, <2>3, HasAppend, FollowedAppend
  <2>6. QueueOwn(n, cam.id)
    BY <1>1, <2>3, <2>4, OwnAppend DEF Sound, Shows, Keeps, Reads, Owns
  <2> HIDE DEF n
  <2>7. s \in Pair /\ s.p = x /\ s.q = n
    BY <2>2, <2>5 DEF Pair
  <2>8. Owns(x, n, cam)
    BY <1>1, <2>2, <2>6 DEF Sound, Shows, Keeps, Reads, Owns, PanelOwn, CacheOwn
  <2>9. CacheFresh(x, n, cam, suspect)
    BY <1>1, <2>2, <2>4, <2>5 DEF Sound, Shows, Keeps, Reads, CacheFresh, Lasting
  <2>10. NameRead(x, n, timers, cam, suspect) /\ PictureRead(x, n, timers, cam, suspect)
    BY <2>3, <2>4, <2>5 DEF NameRead, PictureRead, Read
  <2>11. StateAsked(x, n, timers, cam, suspect)
    BY <2>3, <2>4, <2>5 DEF StateAsked
  <2>12. Sound(s.p, s.q, timers, cam, suspect)
    BY <2>7, <2>8, <2>9, <2>10, <2>11 DEF Sound, Shows, Keeps, Reads
  <2> HIDE DEF s
  <2> QED BY <1>1, <1>2, <2>1, <2>7, <2>12, PanelStep
<1>4. CASE ~ok
  <2> DEFINE x == [p EXCEPT !.client = "null"]
             s == [p |-> x, q |-> << >>]
  <2>1. Becomes(refresh(s))
    BY <1>4 DEF Connect
  <2>2. x \in Panel
    BY <1>1, WithClient
  <2> HIDE DEF x
  <2>3. << >> \in Seq(Request) /\ QueueOwn(<< >>, cam.id)
    BY EmptyQueue
  <2>4. s \in Pair /\ s.q = << >>
    BY <2>2, <2>3 DEF Pair
  <2>5. CameraOwn(cam)
    BY <1>1 DEF Sound, Shows, Keeps, Reads, Owns
  <2> HIDE DEF s
  <2>6. refresh(s) \in Pair /\ Sound(refresh(s).p, refresh(s).q, timers, cam, suspect)
    BY <1>1, <2>3, <2>4, <2>5, PanelRefreshed
  <2> QED BY <1>1, <1>2, <2>1, <2>6, PanelStep
<1> QED BY <1>3, <1>4

LEMMA PlainStep ==
  ASSUME p' \in Panel, queue' \in Seq(Request), timers' \in Seq(Timer),
         cam' \in Camera, done' \in DoneType, suspect' \in Suspect,
         Sound(p', queue', timers', cam', suspect')
  PROVE  PresetInv'
BY DEF PresetInv, PresetTypeOK, DoneType

LEMMA InvClick ==
  ASSUME PresetInv, onSlotClicked
  PROVE  PresetInv'
<1>1. /\ PresetTypeOK /\ Sound(p, queue, timers, cam, suspect)
      /\ p \in Panel /\ queue \in Seq(Request) /\ timers \in Seq(Timer)
      /\ cam \in Camera /\ suspect \in Suspect
  BY DEF PresetInv, PresetTypeOK
<1> DEFINE no == FALSE
           k == IF p.sel = p.page THEN -1 ELSE p.page
           y == [p EXCEPT !.edit = no, !.sel = k]
           left == p.edit /\ p.name # Label(p.info[p.page])
           u == [suspect EXCEPT !.names = suspect.names \cup {Here}]
<1>2. /\ Act /\ p' = updateActions(y)
      /\ suspect' = IF left THEN u ELSE suspect
      /\ UNCHANGED <<queue, timers, cam>>
  BY DEF onSlotClicked
<1>3. no \in BOOLEAN /\ no = FALSE
  OBVIOUS
<1> HIDE DEF no
<1>4. p.page \in Slots /\ k \in Slots \cup {-1} /\ k \in {-1, p.page} /\ p.trace \in BOOLEAN
  BY <1>1 DEF Panel
<1> HIDE DEF k
<1>5. y \in Panel
  BY <1>1, <1>3, <1>4 DEF Panel
<1>6. /\ y.trace = p.trace /\ y.client = p.client /\ y.edit = no
      /\ y.page = p.page /\ y.sel = k /\ y.info = p.info
      /\ y.thumbs = p.thumbs /\ y.name = p.name /\ y.thumb = p.thumb
      /\ y.state = p.state
  BY <1>1 DEF Panel
<1> HIDE DEF y
<1>7. SameButFor(y, p')
  BY <1>2, <1>5, ActionsUpdated
<1>8. /\ p' \in Panel
      /\ p'.trace = p.trace /\ p'.client = p.client /\ p'.edit = FALSE
      /\ p'.page = p.page /\ p'.sel = k /\ p'.info = p.info
      /\ p'.thumbs = p.thumbs /\ p'.name = p.name /\ p'.thumb = p.thumb
      /\ p'.state = p.state
  BY <1>3, <1>6, <1>7 DEF SameButFor
<1>9. Here \in BOOLEAN \X (Slots \cup {-1}) /\ Here = <<p.trace, p.page>>
  BY <1>4 DEF Here
<1>10. /\ u \in Suspect /\ u.pics = suspect.pics /\ u.transport = suspect.transport
       /\ u.names = suspect.names \cup {Here}
  BY <1>1, <1>9 DEF Suspect
<1> HIDE DEF u
<1>11. /\ suspect' \in Suspect /\ suspect'.pics = suspect.pics
       /\ suspect'.transport = suspect.transport
       /\ suspect'.names = IF left THEN suspect.names \cup {Here} ELSE suspect.names
  BY <1>1, <1>2, <1>10
<1>12. Owns(p', queue, cam)
  BY <1>1, <1>4, <1>8 DEF Sound, Shows, Keeps, Reads, Owns, PanelOwn, CacheOwn
<1>13. CacheFresh(p', queue, cam, suspect')
  BY <1>1, <1>8, <1>11 DEF Sound, Shows, Keeps, Reads, CacheFresh
<1>14. NameRead(p', queue, timers, cam, suspect')
  BY <1>1, <1>8, <1>9, <1>11 DEF Sound, Shows, Keeps, Reads, NameRead
<1>15. PictureRead(p', queue, timers, cam, suspect')
  BY <1>1, <1>8, <1>9, <1>11 DEF Sound, Shows, Keeps, Reads, PictureRead
<1>16. StateAsked(p', queue, timers, cam, suspect')
  BY <1>1, <1>8, <1>11 DEF Sound, StateAsked
<1>17. Sound(p', queue', timers', cam', suspect')
  BY <1>2, <1>12, <1>13, <1>14, <1>15, <1>16 DEF Sound, Shows, Keeps, Reads
<1>18. done' \in DoneType
  BY <1>1, <1>2, ActDone
<1> QED BY <1>1, <1>2, <1>8, <1>11, <1>17, <1>18, PlainStep

LEMMA InvBegin ==
  ASSUME PresetInv, beginRename
  PROVE  PresetInv'
<1>1. /\ PresetTypeOK /\ Sound(p, queue, timers, cam, suspect)
      /\ p \in Panel /\ queue \in Seq(Request) /\ timers \in Seq(Timer)
      /\ cam \in Camera /\ suspect \in Suspect
  BY DEF PresetInv, PresetTypeOK
<1> DEFINE yes == TRUE
<1>2. Act /\ p' = [p EXCEPT !.edit = yes] /\ UNCHANGED <<queue, timers, cam, suspect>>
  BY DEF beginRename
<1>3. yes \in BOOLEAN /\ yes = TRUE
  OBVIOUS
<1> HIDE DEF yes
<1>4. p' \in Panel
  BY <1>1, <1>2, <1>3 DEF Panel
<1>5. /\ p'.trace = p.trace /\ p'.client = p.client /\ p'.edit = yes
      /\ p'.page = p.page /\ p'.sel = p.sel /\ p'.info = p.info
      /\ p'.thumbs = p.thumbs /\ p'.name = p.name /\ p'.thumb = p.thumb
      /\ p'.state = p.state
  BY <1>1, <1>2 DEF Panel
<1>6. Owns(p', queue, cam) /\ CacheFresh(p', queue, cam, suspect)
  BY <1>1, <1>5 DEF Sound, Shows, Keeps, Reads, Owns, PanelOwn, CacheOwn, CacheFresh
<1>7. /\ NameRead(p', queue, timers, cam, suspect)
      /\ PictureRead(p', queue, timers, cam, suspect)
  BY <1>1, <1>3, <1>5 DEF Sound, Shows, Keeps, Reads, NameRead, PictureRead
<1>8. StateAsked(p', queue, timers, cam, suspect)
  BY <1>1, <1>5 DEF Sound, StateAsked
<1>9. Sound(p', queue', timers', cam', suspect')
  BY <1>2, <1>6, <1>7, <1>8 DEF Sound, Shows, Keeps, Reads
<1>10. done' \in DoneType
  BY <1>1, <1>2, ActDone
<1> QED BY <1>1, <1>2, <1>4, <1>9, <1>10, PlainStep

LEMMA TextsOwn ==
  ASSUME PresetTypeOK, NEW n \in Texts
  PROVE  n \in Item \cup {Empty} /\ IsOf(n, cam.id, p.trace, p.page)
<1>1. cam.id \in Cams /\ p.trace \in BOOLEAN /\ p.page \in Slots
  BY DEF PresetTypeOK, Camera, Panel
<1>2. Empty \notin Item
  BY SentinelsDiffer
<1>3. CASE n = Empty
  BY <1>2, <1>3 DEF IsOf
<1>4. CASE n # Empty
  <2>1. PICK v \in Versions : n = [cam |-> cam.id, trace |-> p.trace, i |-> p.page, v |-> v]
    BY <1>4 DEF Texts
  <2>2. n \in Item /\ n.cam = cam.id /\ n.trace = p.trace /\ n.i = p.page
    BY <1>1, <2>1 DEF Item
  <2> QED BY <2>2 DEF IsOf
<1> QED BY <1>3, <1>4

LEMMA InvTypes ==
  ASSUME PresetInv, NEW n \in Texts, Types(n)
  PROVE  PresetInv'
<1>1. /\ PresetTypeOK /\ Sound(p, queue, timers, cam, suspect)
      /\ p \in Panel /\ queue \in Seq(Request) /\ timers \in Seq(Timer)
      /\ cam \in Camera /\ suspect \in Suspect
  BY DEF PresetInv, PresetTypeOK
<1>2. /\ Act /\ p.edit /\ p' = [p EXCEPT !.name = n]
      /\ UNCHANGED <<queue, timers, cam, suspect>>
  BY DEF Types
<1>3. n \in Item \cup {Empty} /\ IsOf(n, cam.id, p.trace, p.page)
  BY <1>1, TextsOwn
<1>4. p' \in Panel
  BY <1>1, <1>2, <1>3 DEF Panel
<1>5. /\ p'.trace = p.trace /\ p'.client = p.client /\ p'.edit = p.edit
      /\ p'.page = p.page /\ p'.sel = p.sel /\ p'.info = p.info
      /\ p'.thumbs = p.thumbs /\ p'.name = n /\ p'.thumb = p.thumb
      /\ p'.state = p.state
  BY <1>1, <1>2 DEF Panel
<1>6. Owns(p', queue, cam) /\ CacheFresh(p', queue, cam, suspect)
  BY <1>1, <1>3, <1>5 DEF Sound, Shows, Keeps, Reads, Owns, PanelOwn, CacheOwn, CacheFresh
<1>7. /\ NameRead(p', queue, timers, cam, suspect)
      /\ PictureRead(p', queue, timers, cam, suspect)
  BY <1>1, <1>2, <1>5 DEF Sound, Shows, Keeps, Reads, NameRead, PictureRead
<1>8. StateAsked(p', queue, timers, cam, suspect)
  BY <1>1, <1>5 DEF Sound, StateAsked
<1>9. Sound(p', queue', timers', cam', suspect')
  BY <1>2, <1>6, <1>7, <1>8 DEF Sound, Shows, Keeps, Reads
<1>10. done' \in DoneType
  BY <1>1, <1>2, ActDone
<1> QED BY <1>1, <1>2, <1>4, <1>9, <1>10, PlainStep

LEMMA LabelName ==
  ASSUME NEW v \in Item \cup {Empty, Default, Unread}
  PROVE  /\ Label(v) \in Item \cup {Default}
         /\ v \notin {Unread, Empty} => Label(v) = v
         /\ \A id, t, i : IsOf(v, id, t, i) => IsOf(Label(v), id, t, i)
BY SentinelsDiffer DEF Label, IsOf

\* The panel y is x with another edit, name and list of names.
Edited(x, y) ==
  /\ y \in Panel
  /\ y.trace = x.trace /\ y.client = x.client /\ y.page = x.page
  /\ y.sel = x.sel /\ y.thumbs = x.thumbs /\ y.thumb = x.thumb
  /\ y.state = x.state

LEMMA EditedOwn ==
  ASSUME NEW x, NEW y, NEW q, NEW n, NEW T, NEW c, NEW u, Sound(x, q, T, c, u),
         Edited(x, y), QueueOwn(n, c.id), IsOf(y.name, c.id, x.trace, x.page),
         \A i \in Slots : IsOf(y.info[i], c.id, x.trace, i),
         \A t, i : Has(n, ReplacesOf(t, i)) <=> Has(q, ReplacesOf(t, i))
  PROVE  Owns(y, n, c) /\ CacheFresh(y, n, c, u)
<1>1. Owns(y, n, c)
  BY DEF Sound, Shows, Keeps, Reads, Owns, PanelOwn, CacheOwn, Edited
<1>2. CacheFresh(y, n, c, u)
  BY DEF Sound, Shows, Keeps, Reads, CacheFresh, Lasting, Edited
<1> QED BY <1>1, <1>2

\* An edit that ends without a request.
LEMMA EditEnds ==
  ASSUME NEW x, NEW y, NEW q, NEW T, NEW c, NEW u, Sound(x, q, T, c, u),
         Edited(x, y), y.info = x.info, y.edit = FALSE,
         IsOf(y.name, c.id, x.trace, x.page),
         y.name = Label(x.info[x.page]) \/ x.client # "open"
  PROVE  Sound(y, q, T, c, u)
<1>1. Owns(y, q, c) /\ CacheFresh(y, q, c, u)
  BY EditedOwn DEF Sound, Shows, Keeps, Reads, Owns, PanelOwn, CacheOwn
<1>2. NameRead(y, q, T, c, u)
  BY DEF Sound, Shows, Keeps, Reads, NameRead, Edited
<1>3. PictureRead(y, q, T, c, u)
  BY DEF Sound, Shows, Keeps, Reads, PictureRead, Edited
<1>4. StateAsked(y, q, T, c, u)
  BY DEF Sound, StateAsked, Edited
<1> QED BY <1>1, <1>2, <1>3, <1>4 DEF Sound, Shows, Keeps, Reads

NameRequest(x) == [op |-> "name", trace |-> x.trace, i |-> x.page, n |-> x.name]

LEMMA NameIsSent ==
  ASSUME NEW x \in Panel, x.name # Empty
  PROVE  /\ NameRequest(x) \in Request /\ NameRequest(x) \notin Moves
         /\ \A t, i : NameRequest(x) \notin ReplacesOf(t, i)
         /\ \A id : IsOf(x.name, id, x.trace, x.page) => RequestOwn(NameRequest(x), id)
<1>1. x.trace \in BOOLEAN /\ x.page \in Slots /\ x.name \in Item \cup {Default}
  BY DEF Panel
<1>2. NameRequest(x) \in Request
  BY <1>1 DEF Request, NameRequest
<1>3. /\ NameRequest(x).op = "name" /\ NameRequest(x).n = x.name
      /\ NameRequest(x).trace = x.trace /\ NameRequest(x).i = x.page
  BY DEF NameRequest
<1> QED BY <1>2, <1>3 DEF Moves, ReplacesOf, RequestOwn

LEMMA InvCommit ==
  ASSUME PresetInv, commitRename
  PROVE  PresetInv'
<1>1. /\ PresetTypeOK /\ Sound(p, queue, timers, cam, suspect)
      /\ p \in Panel /\ queue \in Seq(Request) /\ timers \in Seq(Timer)
      /\ cam \in Camera /\ suspect \in Suspect
  BY DEF PresetInv, PresetTypeOK
<1>2. Act /\ UNCHANGED <<timers, cam, suspect>>
  BY DEF commitRename
<1>3. done' \in DoneType /\ suspect' \in Suspect
  BY <1>1, <1>2, ActDone
<1>4. S \in Pair /\ S.p = p /\ S.q = queue
  BY <1>1, CurrentPair
<1>5. /\ p.page \in Slots /\ p.info[p.page] \in Item \cup {Empty, Default, Unread}
      /\ p.name \in Item \cup {Empty, Default}
      /\ p.info \in [Slots -> Item \cup {Empty, Default, Unread}]
  BY <1>1 DEF Panel
<1>6. /\ IsOf(p.name, cam.id, p.trace, p.page)
      /\ \A i \in Slots : IsOf(p.info[i], cam.id, p.trace, i)
      /\ QueueOwn(queue, cam.id)
  BY <1>1 DEF Sound, Shows, Keeps, Reads, Owns, PanelOwn, CacheOwn
<1> DEFINE no == FALSE
           x == [p EXCEPT !.edit = no]
<1>7. no \in BOOLEAN /\ no = FALSE
  OBVIOUS
<1>8. /\ p.name = Empty => Becomes([S EXCEPT !.p = [x EXCEPT !.name = Label(p.info[p.page])]])
      /\ p.name # Empty /\ (p.name = p.info[p.page] \/ p.client = "null") =>
           Becomes([S EXCEPT !.p = x])
      /\ p.name # Empty /\ ~(p.name = p.info[p.page] \/ p.client = "null") =>
           LET y == [x EXCEPT !.info[p.page] = p.name]
           IN  Becomes(loadSlot([Send(S, NameRequest(p)) EXCEPT
                 !.p = IF p.page = p.sel THEN updateActions(y) ELSE y], p.page))
  BY DEF commitRename, ReadBack, NameRequest
<1> HIDE DEF no
<1>9. x \in Panel
  BY <1>1, <1>7 DEF Panel
<1>10. /\ x.trace = p.trace /\ x.client = p.client /\ x.edit = no
       /\ x.page = p.page /\ x.sel = p.sel /\ x.info = p.info
       /\ x.thumbs = p.thumbs /\ x.name = p.name /\ x.thumb = p.thumb
       /\ x.state = p.state
  BY <1>1 DEF Panel
<1> HIDE DEF x
<1>11. CASE p.name = Empty
  <2> DEFINE l == Label(p.info[p.page])
             y == [x EXCEPT !.name = l]
             s == [S EXCEPT !.p = y]
  <2>1. l \in Item \cup {Default} /\ IsOf(l, cam.id, p.trace, p.page)
    BY <1>5, <1>6, LabelName
  <2>2. Becomes(s)
    BY <1>8, <1>11
  <2>3. l = Label(p.info[p.page])
    OBVIOUS
  <2> HIDE DEF l
  <2>4. y \in Panel
    BY <1>9, <2>1 DEF Panel
  <2>5. Edited(p, y) /\ y.info = p.info /\ y.edit = FALSE /\ y.name = l
    BY <1>7, <1>9, <1>10, <2>4 DEF Panel, Edited
  <2> HIDE DEF y
  <2>6. s \in Pair /\ s.p = y /\ s.q = queue
    BY <1>4, <2>4 DEF Pair
  <2>7. Sound(y, queue, timers, cam, suspect)
    BY <1>1, <2>1, <2>3, <2>5, EditEnds
  <2>8. Sound(s.p, s.q, timers, cam, suspect')
    BY <1>2, <2>6, <2>7
  <2> HIDE DEF s
  <2> QED BY <1>1, <1>2, <1>3, <2>2, <2>6, <2>8, PanelStep
<1>12. CASE p.name # Empty /\ (p.name = p.info[p.page] \/ p.client = "null")
  <2> DEFINE s == [S EXCEPT !.p = x]
  <2>1. Becomes(s)
    BY <1>8, <1>12
  <2>2. Edited(p, x) /\ x.edit = FALSE
    BY <1>7, <1>9, <1>10 DEF Edited
  <2>3. p.name = p.info[p.page] => p.name = Label(p.info[p.page])
    BY <1>5, <1>12, LabelName, SentinelsDiffer
  <2>4. x.name = Label(p.info[p.page]) \/ p.client # "open"
    BY <1>10, <1>12, <2>3
  <2>5. Sound(x, queue, timers, cam, suspect)
    BY <1>1, <1>6, <1>10, <2>2, <2>4, EditEnds
  <2>6. s \in Pair /\ s.p = x /\ s.q = queue
    BY <1>4, <1>9 DEF Pair
  <2>7. Sound(s.p, s.q, timers, cam, suspect')
    BY <1>2, <2>5, <2>6
  <2> HIDE DEF s
  <2> QED BY <1>1, <1>2, <1>3, <2>1, <2>6, <2>7, PanelStep
<1>13. CASE p.name # Empty /\ ~(p.name = p.info[p.page] \/ p.client = "null")
  <2> DEFINE f == [p.info EXCEPT ![p.page] = p.name]
             y == [x EXCEPT !.info = f]
             w == IF p.page = p.sel THEN updateActions(y) ELSE y
             m == Send(S, NameRequest(p))
             s == [m EXCEPT !.p = w]
             z == loadSlot(s, p.page)
  <2>1. [x EXCEPT !.info[p.page] = p.name] = y
    BY <1>10
  <2>2. Becomes(z)
    BY <1>8, <1>13, <2>1
  <2>3. /\ f \in [Slots -> Item \cup {Empty, Default, Unread}]
        /\ \A i \in Slots : f[i] = IF i = p.page THEN p.name ELSE p.info[i]
    BY <1>5
  <2> HIDE DEF f
  <2>4. y \in Panel
    BY <1>9, <2>3 DEF Panel
  <2>5. Edited(p, y) /\ y.name = p.name /\ y.info = f
    BY <1>9, <1>10, <2>4 DEF Panel, Edited
  <2> HIDE DEF y
  <2>6. SameButFor(y, updateActions(y))
    BY <2>4, ActionsUpdated
  <2>7. Edited(p, w) /\ w.name = p.name /\ w.info = f
    BY <2>5, <2>6 DEF Edited, SameButFor
  <2> HIDE DEF w
  <2>8. /\ NameRequest(p) \in Request /\ NameRequest(p) \notin Moves
        /\ \A t, i : NameRequest(p) \notin ReplacesOf(t, i)
        /\ RequestOwn(NameRequest(p), cam.id)
    BY <1>1, <1>6, <1>13, NameIsSent
  <2> DEFINE r == NameRequest(p)
             n1 == Append(queue, r)
  <2> HIDE DEF r
  <2>9. m \in Pair /\ m.q = n1
    BY <1>4, <2>8, SendPair DEF r
  <2> HIDE DEF m
  <2>10. s \in Pair /\ s.p = w /\ s.q = n1
    BY <2>7, <2>9 DEF Pair, Edited
  <2> HIDE DEF s
  <2> DEFINE a == [op |-> "info", trace |-> p.trace, i |-> p.page]
             n2 == IF p.client = "open" THEN Append(n1, a) ELSE n1
  <2>11. z \in Pair /\ z.p = w /\ z.q = n2
    BY <1>5, <2>7, <2>10, LoadSlot DEF Edited
  <2> HIDE DEF z
  <2>12. Plain(a) /\ a \in ReadsOf(p.trace, p.page) /\ a \in Request
    BY <1>1, InfoRequest DEF Panel, Plain
  <2> HIDE DEF a
  <2>13. /\ \A t, i : a \notin WritesOf(t, i) /\ a \notin ReplacesOf(t, i)
         /\ a \notin Moves /\ RequestOwn(a, cam.id)
    BY <2>12, PlainRequest
  <2>14. /\ n1 \in Seq(Request) /\ QueueOwn(n1, cam.id)
         /\ \A A : Has(n1, A) <=> Has(queue, A) \/ r \in A
         /\ \A A, B : Followed(queue, B, A) /\ r \notin B => Followed(n1, B, A)
    BY <1>1, <1>6, <2>8, HasAppend, OwnAppend, FollowedAppend DEF r
  <2> HIDE DEF n1
  <2> DEFINE o == Append(n1, a)
  <2>15. /\ o \in Seq(Request) /\ QueueOwn(o, cam.id)
         /\ \A A : Has(o, A) <=> Has(n1, A) \/ a \in A
         /\ \A A, B : Followed(n1, B, A) /\ a \notin B => Followed(o, B, A)
         /\ \A A, B : a \in A /\ a \notin B => Followed(o, B, A)
    BY <2>12, <2>13, <2>14, HasAppend, OwnAppend, FollowedAppend
  <2> HIDE DEF o
  <2>16. /\ QueueOwn(n2, cam.id)
         /\ \A t, i : Has(n2, ReplacesOf(t, i)) <=> Has(queue, ReplacesOf(t, i))
    BY <2>8, <2>13, <2>14, <2>15 DEF r, o
  <2>17. \A i \in Slots : IsOf(w.info[i], cam.id, p.trace, i)
    BY <1>6, <2>3, <2>7
  <2>18. Owns(w, n2, cam) /\ CacheFresh(w, n2, cam, suspect)
    BY <1>1, <1>6, <2>7, <2>16, <2>17, EditedOwn
  <2>19. /\ NameRead(w, n2, timers, cam, suspect)
         /\ PictureRead(w, n2, timers, cam, suspect)
         /\ StateAsked(w, n2, timers, cam, suspect)
    <3>1. CASE p.client # "open"
      BY <2>7, <3>1 DEF NameRead, PictureRead, StateAsked, Edited
    <3>2. CASE p.client = "open"
      <4>1. n2 = o
        BY <3>2 DEF o
      <4>2. /\ w.trace = p.trace /\ w.page = p.page /\ w.state = p.state
            /\ w.client = "open"
        BY <2>7, <3>2 DEF Edited
      <4> HIDE DEF n2
      <4>3. /\ Has(n2, ReadsOf(w.trace, w.page))
            /\ Followed(n2, WritesOf(w.trace, w.page), ReadsOf(w.trace, w.page))
        BY <4>1, <4>2, <2>12, <2>13, <2>15
      <4>4. NameRead(w, n2, timers, cam, suspect) /\ PictureRead(w, n2, timers, cam, suspect)
        BY <4>3 DEF NameRead, PictureRead, Read
      <4>5. /\ Followed(queue, Moves, Queries) => Followed(n2, Moves, Queries)
            /\ Has(queue, Queries) => Has(n2, Queries)
        BY <4>1, <2>8, <2>13, <2>14, <2>15 DEF r
      <4>6. StateAsked(p, queue, timers, cam, suspect)
        BY <1>1 DEF Sound
      <4>7. StateAsked(w, n2, timers, cam, suspect)
        BY <3>2, <4>2, <4>5, <4>6 DEF StateAsked
      <4> QED BY <4>4, <4>7
    <3> QED BY <3>1, <3>2
  <2>20. Sound(z.p, z.q, timers, cam, suspect')
    BY <1>2, <2>11, <2>18, <2>19 DEF Sound, Shows, Keeps, Reads
  <2> QED BY <1>1, <1>2, <1>3, <2>2, <2>11, <2>20, PanelStep
<1> QED BY <1>11, <1>12, <1>13

------------------------------------------------------------------------------
(* The commands.                                                           *)

\* The panel y is x but for the slot a command is about: its name, and its
\* picture, which is forgotten.
Commanded(x, y) ==
  /\ y \in Panel
  /\ y.trace = x.trace /\ y.client = x.client /\ y.page = x.page
  /\ y.sel = x.sel /\ y.thumb = x.thumb /\ y.state = x.state
  /\ \A i \in Slots : y.thumbs[i] \in {x.thumbs[i], Unread}
  /\ \A i \in Slots : y.info[i] \in {x.info[i], Empty}
  /\ y.name \in {x.name, Default}

\* A command is safe if a timer reads again what it may change.
LEMMA CommandSent ==
  ASSUME NEW x, NEW y, NEW q \in Seq(Request), NEW T \in Seq(Timer), NEW c, NEW u,
         Sound(x, q, T, c, u), NEW r \in Request, NEW tm \in Timer,
         Commanded(x, y), RequestOwn(r, c.id),
         \A i \in Slots : r \in ReplacesOf(x.trace, i) => y.thumbs[i] = Unread,
         \/ tm \in ReadsLater(x.page)
         \/ y = x /\ r \notin WritesOf(x.trace, x.page),
         tm \in AsksLater \/ r \notin Moves
  PROVE  /\ Append(T, tm) \in Seq(Timer)
         /\ Sound(y, Append(q, r), Append(T, tm), c, u)
<1> DEFINE n == Append(q, r)
           W == Append(T, tm)
<1>1. /\ n \in Seq(Request)
      /\ \A A : Has(n, A) <=> Has(q, A) \/ r \in A
  BY HasAppend
<1>2. /\ W \in Seq(Timer)
      /\ \A A : Has(W, A) <=> Has(T, A) \/ tm \in A
  BY HasAppend
<1>3. \A A, B : Followed(q, B, A) /\ r \notin B => Followed(n, B, A)
  BY FollowedAppend
<1>4. QueueOwn(n, c.id)
  BY OwnAppend DEF Sound, Shows, Keeps, Reads, Owns
<1> HIDE DEF n, W
<1>5. Empty \notin Item /\ Default \notin Item /\ Unread \notin Item
  BY SentinelsDiffer
<1>6. Owns(y, n, c)
  <2>1. CacheOwn(y, c.id)
    BY <1>5 DEF Sound, Shows, Keeps, Reads, Owns, PanelOwn, CacheOwn, Commanded, IsOf
  <2>2. IsOf(y.name, c.id, y.trace, y.page)
    BY <1>5 DEF Sound, Shows, Keeps, Reads, Owns, PanelOwn, Commanded, IsOf
  <2> QED BY <1>4, <2>1, <2>2 DEF Sound, Shows, Keeps, Reads, Owns, PanelOwn, Commanded
<1>7. CacheFresh(y, n, c, u)
  <2> SUFFICES ASSUME NEW i \in Slots, y.thumbs[i] # Unread,
                      <<y.trace, i>> \notin u.pics
               PROVE  y.thumbs[i] = c.slot[y.trace][i].pic /\ Lasting(n, c, y.trace, i)
    BY DEF CacheFresh
  <2>1. y.thumbs[i] = x.thumbs[i] /\ y.trace = x.trace
    BY DEF Commanded
  <2>2. x.thumbs[i] = c.slot[x.trace][i].pic /\ Lasting(q, c, x.trace, i)
    BY <2>1 DEF Sound, Shows, Keeps, Reads, CacheFresh
  <2>3. r \notin ReplacesOf(x.trace, i)
    OBVIOUS
  <2> QED BY <1>1, <2>1, <2>2, <2>3 DEF Lasting
<1>8. NameRead(y, n, W, c, u) /\ PictureRead(y, n, W, c, u)
  <2>1. CASE tm \in ReadsLater(x.page)
    <3>1. Has(W, ReadsLater(y.page))
      BY <1>2, <2>1 DEF Commanded
    <3> QED BY <3>1 DEF NameRead, PictureRead, Read
  <2>2. CASE y = x /\ r \notin WritesOf(x.trace, x.page)
    <3>1. r \notin ReplacesOf(x.trace, x.page)
      BY <2>2 DEF WritesOf, ReplacesOf
    <3>2. Read(n, W, x.trace, x.page) => Read(q, T, x.trace, x.page)
      BY <1>1, <1>2 DEF Read
    <3>3. NameRead(y, n, W, c, u)
      BY <1>2, <1>3, <2>2, <3>2 DEF Sound, Shows, Keeps, Reads, NameRead
    <3>4. PictureRead(y, n, W, c, u)
      BY <1>1, <2>2, <3>1, <3>2 DEF Sound, Shows, Keeps, Reads, PictureRead, Lasting
    <3> QED BY <3>3, <3>4
  <2> QED BY <2>1, <2>2
<1>9. StateAsked(y, n, W, c, u)
  <2>1. CASE tm \in AsksLater
    <3>1. Has(W, AsksLater)
      BY <1>2, <2>1
    <3> QED BY <3>1 DEF StateAsked
  <2>2. CASE r \notin Moves
    BY <1>1, <1>2, <1>3, <2>2 DEF Sound, StateAsked, Commanded
  <2> QED BY <2>1, <2>2
<1>10. W \in Seq(Timer) /\ Sound(y, n, W, c, u)
  BY <1>2, <1>6, <1>7, <1>8, <1>9 DEF Sound, Shows, Keeps, Reads
<1> QED BY <1>10 DEF n, W

\* A button sends the request r and starts the timer tm.
LEMMA InvCommandSent ==
  ASSUME PresetInv, NEW y, NEW r \in Request, NEW tm \in Timer,
         Act, Becomes(Send([S EXCEPT !.p = y], r)), After400ms(tm),
         UNCHANGED <<cam, suspect>>,
         Commanded(p, y), r.op # "name",
         \A i \in Slots : r \in ReplacesOf(p.trace, i) => y.thumbs[i] = Unread,
         \/ tm \in ReadsLater(p.page)
         \/ y = p /\ r \notin WritesOf(p.trace, p.page),
         tm \in AsksLater \/ r \notin Moves
  PROVE  PresetInv'
<1>1. /\ PresetTypeOK /\ Sound(p, queue, timers, cam, suspect)
      /\ queue \in Seq(Request) /\ timers \in Seq(Timer)
      /\ cam \in Camera /\ suspect \in Suspect
  BY DEF PresetInv, PresetTypeOK
<1>2. S \in Pair /\ S.p = p /\ S.q = queue
  BY <1>1, CurrentPair
<1> DEFINE s == [S EXCEPT !.p = y]
           z == Send(s, r)
<1>3. s \in Pair /\ s.p = y /\ s.q = queue
  BY <1>2 DEF Pair, Commanded
<1>4. Becomes(z)
  OBVIOUS
<1> HIDE DEF s
<1>5. z \in Pair /\ z.p = y /\ z.q = Append(queue, r)
  BY <1>3, SendPair
<1>6. RequestOwn(r, cam.id)
  BY DEF RequestOwn
<1>7. /\ Append(timers, tm) \in Seq(Timer)
      /\ Sound(y, Append(queue, r), Append(timers, tm), cam, suspect)
  BY <1>1, <1>6, CommandSent
<1>8. timers' = Append(timers, tm)
  BY DEF After400ms
<1>9. done' \in DoneType
  BY <1>1, ActDone
<1>10. Sound(z.p, z.q, timers', cam', suspect')
  BY <1>5, <1>7, <1>8
<1> HIDE DEF z
<1> QED BY <1>1, <1>4, <1>5, <1>7, <1>8, <1>9, <1>10, AnyStep

LEMMA SamePanel ==
  ASSUME PresetTypeOK
  PROVE  Commanded(p, p) /\ [S EXCEPT !.p = p] = S
<1>1. S \in Pair /\ S.p = p
  BY CurrentPair
<1>2. p \in Panel
  BY DEF PresetTypeOK
<1>3. [S EXCEPT !.p = p] = S
  BY <1>1 DEF Pair
<1> QED BY <1>2, <1>3 DEF Commanded

LEMMA StaleSlot ==
  ASSUME NEW x \in Panel, NEW i \in Slots
  PROVE  Commanded(x, Stale(x, i)) /\ Stale(x, i).thumbs[i] = Unread
         /\ Stale(x, i).info = x.info /\ Stale(x, i).name = x.name
<1> DEFINE f == [x.thumbs EXCEPT ![i] = Unread]
           y == [x EXCEPT !.thumbs = f]
<1>1. x.thumbs \in [Slots -> Item \cup {Unread}]
  BY DEF Panel
<1>2. Stale(x, i) = y
  BY DEF Stale
<1>3. f \in [Slots -> Item \cup {Unread}] /\ f[i] = Unread
      /\ \A j \in Slots : f[j] \in {x.thumbs[j], Unread}
  BY <1>1
<1> HIDE DEF f
<1>4. y \in Panel
  BY <1>3 DEF Panel
<1>5. /\ y.trace = x.trace /\ y.client = x.client /\ y.page = x.page
      /\ y.sel = x.sel /\ y.thumb = x.thumb /\ y.state = x.state
      /\ y.thumbs = f /\ y.info = x.info /\ y.name = x.name
  BY DEF Panel
<1> HIDE DEF y
<1> QED BY <1>2, <1>3, <1>4, <1>5 DEF Commanded

\* The name of the slot is forgotten as well.
LEMMA ClearedSlot ==
  ASSUME NEW x \in Panel, NEW i \in Slots
  PROVE  LET y == [Stale(x, i) EXCEPT !.info[i] = Empty]
             z == [Stale(x, i) EXCEPT !.info[i] = Empty, !.name = Default]
         IN  /\ Commanded(x, y) /\ y.thumbs[i] = Unread
             /\ Commanded(x, z) /\ z.thumbs[i] = Unread
<1> DEFINE w == Stale(x, i)
           f == [w.info EXCEPT ![i] = Empty]
           y == [w EXCEPT !.info = f]
           z == [w EXCEPT !.info = f, !.name = Default]
<1>1. /\ Commanded(x, w) /\ w.thumbs[i] = Unread /\ w \in Panel
      /\ w.info = x.info /\ w.name = x.name
  BY StaleSlot DEF Commanded
<1> HIDE DEF w
<1>2. w.info \in [Slots -> Item \cup {Empty, Default, Unread}]
  BY <1>1 DEF Panel
<1>3. /\ [w EXCEPT !.info[i] = Empty] = y
      /\ [w EXCEPT !.info[i] = Empty, !.name = Default] = z
  OBVIOUS
<1>4. /\ f \in [Slots -> Item \cup {Empty, Default, Unread}]
      /\ \A j \in Slots : f[j] \in {x.info[j], Empty}
  BY <1>1, <1>2
<1> HIDE DEF f
<1>5. y \in Panel /\ z \in Panel
  BY <1>1, <1>4 DEF Panel
<1>6. /\ y.trace = w.trace /\ y.client = w.client /\ y.page = w.page
      /\ y.sel = w.sel /\ y.thumb = w.thumb /\ y.state = w.state
      /\ y.thumbs = w.thumbs /\ y.info = f /\ y.name = w.name
  BY <1>1 DEF Panel
<1>7. /\ z.trace = w.trace /\ z.client = w.client /\ z.page = w.page
      /\ z.sel = w.sel /\ z.thumb = w.thumb /\ z.state = w.state
      /\ z.thumbs = w.thumbs /\ z.info = f /\ z.name = Default
  BY <1>1 DEF Panel
<1> HIDE DEF y, z
<1>8. Commanded(x, y) /\ y.thumbs[i] = Unread
  BY <1>1, <1>4, <1>5, <1>6 DEF Commanded
<1>9. Commanded(x, z) /\ z.thumbs[i] = Unread
  BY <1>1, <1>4, <1>5, <1>7 DEF Commanded
<1> QED BY <1>3, <1>8, <1>9 DEF w

\* The slot that is selected is the one that is shown.
LEMMA SelectedShown ==
  ASSUME PresetInv, p.sel >= 0
  PROVE  p.sel = p.page /\ p.sel \in Slots /\ p.trace \in BOOLEAN /\ p \in Panel
<1>1. p.sel \in {-1, p.page}
  BY DEF PresetInv, Sound, Shows, Keeps, Owns, PanelOwn
<1>2. p.page \in Slots /\ p.trace \in BOOLEAN /\ p \in Panel
  BY DEF PresetInv, PresetTypeOK, Panel
<1> QED BY <1>1, <1>2

LEMMA ReloadTimer ==
  ASSUME NEW i \in Slots
  PROVE  /\ [what |-> "reload", i |-> i] \in Timer \cap ReadsLater(i)
         /\ [what |-> "started", i |-> i] \in Timer \cap ReadsLater(i) \cap AsksLater
BY DEF Timer, ReadsLater, AsksLater

LEMMA StateTimer ==
  /\ [what |-> "stopped"] \in Timer \cap AsksLater
  /\ [what |-> "state"] \in Timer \cap AsksLater
BY DEF Timer, AsksLater

LEMMA SlotCommand ==
  ASSUME NEW op \in {"set", "rec", "del"}, NEW t \in BOOLEAN, NEW i \in Slots
  PROVE  LET r == [op |-> op, trace |-> t, i |-> i]
         IN  /\ r \in Request /\ r.op # "name" /\ (op # "rec" => r \notin Moves)
             /\ \A a, j : r \in ReplacesOf(a, j) => j = i
BY DEF Request, Moves, ReplacesOf

LEMMA TransportCommand ==
  ASSUME NEW r, \/ r \in {[op |-> "recStop"], [op |-> "play"], [op |-> "playStop"]}
                \/ \E i \in Slots : r = [op |-> "prepare", i |-> i]
  PROVE  /\ r \in Request /\ r.op # "name"
         /\ \A t, i : r \notin WritesOf(t, i) /\ r \notin ReplacesOf(t, i)
BY DEF Request, WritesOf, ReplacesOf

LEMMA InvRecordStop ==
  ASSUME PresetInv, RecordStop
  PROVE  PresetInv'
<1> DEFINE r == [op |-> "recStop"]
           tm == [what |-> "stopped"]
<1>1. /\ Act /\ Becomes(Send(S, r)) /\ After400ms(tm) /\ UNCHANGED <<cam, suspect>>
  BY DEF RecordStop, Pressed
<1>2. Commanded(p, p) /\ [S EXCEPT !.p = p] = S
  BY SamePanel DEF PresetInv
<1>3. /\ r \in Request /\ r.op # "name"
      /\ \A t, i : r \notin WritesOf(t, i) /\ r \notin ReplacesOf(t, i)
  BY TransportCommand
<1>4. tm \in Timer /\ tm \in AsksLater
  BY StateTimer
<1> HIDE DEF r, tm
<1>5. Becomes(Send([S EXCEPT !.p = p], r))
  BY <1>1, <1>2
<1> QED BY <1>1, <1>2, <1>3, <1>4, <1>5, InvCommandSent

LEMMA InvTransport ==
  ASSUME PresetInv, Transport
  PROVE  PresetInv'
<1> DEFINE r == CASE p.state = "Playing" -> [op |-> "playStop"]
                  [] p.state = "ReadyForPlay" -> [op |-> "play"]
                  [] OTHER -> [op |-> "prepare", i |-> p.sel]
           tm == [what |-> "state"]
<1>1. /\ Act /\ Becomes(Send(S, r)) /\ After400ms(tm) /\ UNCHANGED <<cam, suspect>>
      /\ p.state \in {"Playing", "ReadyForPlay"} \/ p.sel >= 0
  BY DEF Transport, Pressed
<1>2. Commanded(p, p) /\ [S EXCEPT !.p = p] = S
  BY SamePanel DEF PresetInv
<1>3. \/ r \in {[op |-> "recStop"], [op |-> "play"], [op |-> "playStop"]}
      \/ \E i \in Slots : r = [op |-> "prepare", i |-> i]
  <2>1. CASE p.state = "Playing"
    BY <2>1
  <2>2. CASE p.state = "ReadyForPlay"
    BY <2>2
  <2>3. CASE p.state # "Playing" /\ p.state # "ReadyForPlay"
    <3>1. p.sel \in Slots
      BY <1>1, <2>3, SelectedShown
    <3>2. r = [op |-> "prepare", i |-> p.sel]
      BY <2>3
    <3> QED BY <3>1, <3>2
  <2> QED BY <2>1, <2>2, <2>3
<1> HIDE DEF r
<1>4. /\ r \in Request /\ r.op # "name"
      /\ \A t, i : r \notin WritesOf(t, i) /\ r \notin ReplacesOf(t, i)
  BY <1>3, TransportCommand
<1>5. tm \in Timer /\ tm \in AsksLater
  BY StateTimer
<1> HIDE DEF tm
<1>6. Becomes(Send([S EXCEPT !.p = p], r))
  BY <1>1, <1>2
<1> QED BY <1>1, <1>2, <1>4, <1>5, <1>6, InvCommandSent

LEMMA InvPresetSet ==
  ASSUME PresetInv, PresetSet
  PROVE  PresetInv'
<1> DEFINE y == DropThumbnail(p, p.sel)
           no == FALSE
           r == [op |-> "set", trace |-> no, i |-> p.sel]
           tm == [what |-> "reload", i |-> p.sel]
<1>1. /\ Act /\ Becomes(Send([S EXCEPT !.p = y], r)) /\ After400ms(tm)
      /\ UNCHANGED <<cam, suspect>> /\ p.sel >= 0
  BY DEF PresetSet, Pressed
<1>2. p.sel = p.page /\ p.sel \in Slots /\ p \in Panel
  BY <1>1, SelectedShown
<1>3. Commanded(p, y) /\ y.thumbs[p.sel] = Unread
  BY <1>2, StaleSlot DEF DropThumbnail
<1>4. no \in BOOLEAN
  OBVIOUS
<1> HIDE DEF no, y
<1>5. /\ r \in Request /\ r.op # "name" /\ r \notin Moves
      /\ \A t, i : r \in ReplacesOf(t, i) => i = p.sel
  BY <1>2, <1>4, SlotCommand
<1>6. tm \in Timer /\ tm \in ReadsLater(p.page)
  BY <1>2, ReloadTimer
<1> HIDE DEF r, tm
<1> QED BY <1>1, <1>3, <1>5, <1>6, InvCommandSent

LEMMA InvDelete ==
  ASSUME PresetInv, Delete
  PROVE  PresetInv'
<1> DEFINE y == [Stale(p, p.sel) EXCEPT !.info[p.sel] = Empty]
           r == [op |-> "del", trace |-> p.trace, i |-> p.sel]
           tm == [what |-> "reload", i |-> p.sel]
<1>1. /\ Act /\ Becomes(Send([S EXCEPT !.p = y], r)) /\ After400ms(tm)
      /\ UNCHANGED <<cam, suspect>> /\ p.sel >= 0
  BY DEF Delete, Pressed
<1>2. p.sel = p.page /\ p.sel \in Slots /\ p \in Panel /\ p.trace \in BOOLEAN
  BY <1>1, SelectedShown
<1>3. Commanded(p, y) /\ y.thumbs[p.sel] = Unread
  BY <1>2, ClearedSlot
<1> HIDE DEF y
<1>4. /\ r \in Request /\ r.op # "name" /\ r \notin Moves
      /\ \A t, i : r \in ReplacesOf(t, i) => i = p.sel
  BY <1>2, SlotCommand
<1>5. tm \in Timer /\ tm \in ReadsLater(p.page)
  BY <1>2, ReloadTimer
<1> HIDE DEF r, tm
<1> QED BY <1>1, <1>3, <1>4, <1>5, InvCommandSent

LEMMA InvRecordStart ==
  ASSUME PresetInv, RecordStart
  PROVE  PresetInv'
<1> DEFINE y == [Stale(p, p.sel) EXCEPT !.info[p.sel] = Empty, !.name = Default]
           yes == TRUE
           r == [op |-> "rec", trace |-> yes, i |-> p.sel]
           tm == [what |-> "started", i |-> p.sel]
<1>1. /\ Act /\ Becomes(Send([S EXCEPT !.p = y], r)) /\ After400ms(tm)
      /\ UNCHANGED <<cam, suspect>> /\ p.sel >= 0
  BY DEF RecordStart, Pressed
<1>2. p.sel = p.page /\ p.sel \in Slots /\ p \in Panel
  BY <1>1, SelectedShown
<1>3. Commanded(p, y) /\ y.thumbs[p.sel] = Unread
  BY <1>2, ClearedSlot
<1>4. yes \in BOOLEAN
  OBVIOUS
<1> HIDE DEF y, yes
<1>5. /\ r \in Request /\ r.op # "name"
      /\ \A t, i : r \in ReplacesOf(t, i) => i = p.sel
  BY <1>2, <1>4, SlotCommand
<1>6. tm \in Timer /\ tm \in ReadsLater(p.page) /\ tm \in AsksLater
  BY <1>2, ReloadTimer
<1> HIDE DEF r, tm
<1> QED BY <1>1, <1>3, <1>5, <1>6, InvCommandSent

------------------------------------------------------------------------------
(* The timers.                                                             *)

\* Reading the slot that is shown makes up for a change of it.
LEMMA SlotLoaded ==
  ASSUME NEW s \in Pair, NEW i \in Slots \cup {-1}, NEW T, NEW c, NEW u,
         Keeps(s.p, s.q, c, u), i = s.p.page \/ Reads(s.p, s.q, T, c, u)
  PROVE  LET z == loadSlot(s, i)
         IN  /\ z \in Pair /\ z.p = s.p /\ Shows(z.p, z.q, T, c, u)
             /\ StateAsked(s.p, s.q, T, c, u) => StateAsked(z.p, z.q, T, c, u)
<1> DEFINE z == loadSlot(s, i)
           r == [op |-> "info", trace |-> s.p.trace, i |-> i]
           n == Append(s.q, r)
<1>1. /\ z \in Pair /\ z.p = s.p
      /\ z.q = IF s.p.client = "open" THEN n ELSE s.q
  BY LoadSlot
<1>2. s.p.trace \in BOOLEAN /\ s.q \in Seq(Request)
  BY DEF Pair, Panel
<1>3. Plain(r) /\ r \in ReadsOf(s.p.trace, i) /\ r \in Request
  BY <1>2, InfoRequest DEF Plain
<1> HIDE DEF z, r
<1>4. /\ Keeps(s.p, n, c, u)
      /\ Reads(s.p, s.q, T, c, u) => Reads(s.p, n, T, c, u)
      /\ StateAsked(s.p, s.q, T, c, u) => StateAsked(s.p, n, T, c, u)
  BY <1>2, <1>3, PlainParts
<1>5. ASSUME i = s.p.page PROVE Reads(s.p, n, T, c, u)
  <2>1. \A t, j : r \notin WritesOf(t, j)
    BY <1>3, PlainRequest
  <2>2. /\ Has(n, ReadsOf(s.p.trace, s.p.page))
        /\ Followed(n, WritesOf(s.p.trace, s.p.page), ReadsOf(s.p.trace, s.p.page))
    BY <1>2, <1>3, <1>5, <2>1, HasAppend, FollowedAppend
  <2> HIDE DEF n
  <2> QED BY <2>2 DEF Reads, NameRead, PictureRead, Read
<1> HIDE DEF n
<1>6. ASSUME s.p.client # "open" PROVE Reads(s.p, s.q, T, c, u)
  BY <1>6 DEF Reads, NameRead, PictureRead
<1>7. /\ Shows(z.p, z.q, T, c, u)
      /\ StateAsked(s.p, s.q, T, c, u) => StateAsked(z.p, z.q, T, c, u)
  BY <1>1, <1>4, <1>5, <1>6 DEF Shows
<1> QED BY <1>1, <1>7 DEF z

LEMMA StateLoaded ==
  ASSUME NEW s \in Pair, NEW T, NEW c, NEW u, Keeps(s.p, s.q, c, u)
  PROVE  LET z == refreshTraceState(s)
         IN  /\ z \in Pair /\ z.p = s.p /\ Keeps(z.p, z.q, c, u)
             /\ Reads(s.p, s.q, T, c, u) => Reads(z.p, z.q, T, c, u)
             /\ StateAsked(z.p, z.q, T, c, u)
<1> DEFINE z == refreshTraceState(s)
           r == [op |-> "query"]
           n == Append(s.q, r)
<1>1. /\ z \in Pair /\ z.p = s.p
      /\ z.q = IF s.p.trace /\ s.p.client = "open" THEN n ELSE s.q
  BY RefreshTraceState
<1>2. Plain(r) /\ r \in Queries /\ r \notin Moves /\ r \in Request
  BY QueryRequest, PlainRequest DEF Plain
<1>3. s.q \in Seq(Request)
  BY DEF Pair
<1> HIDE DEF z, r
<1>4. /\ Keeps(s.p, n, c, u)
      /\ Reads(s.p, s.q, T, c, u) => Reads(s.p, n, T, c, u)
  BY <1>2, <1>3, PlainParts
<1>5. Followed(n, Moves, Queries) /\ Has(n, Queries)
  BY <1>2, <1>3, FollowedAppend, HasAppend
<1> HIDE DEF n
<1>6. StateAsked(z.p, z.q, T, c, u)
  BY <1>1, <1>5 DEF StateAsked
<1> QED BY <1>1, <1>4, <1>6 DEF z

LEMMA InvTimeout ==
  ASSUME PresetInv, Timeout
  PROVE  PresetInv'
<1>1. /\ PresetTypeOK /\ Sound(p, queue, timers, cam, suspect)
      /\ p \in Panel /\ timers \in Seq(Timer) /\ cam \in Camera
      /\ suspect \in Suspect /\ done \in DoneType /\ p.sel \in Slots \cup {-1}
  BY DEF PresetInv, PresetTypeOK, DoneType, Panel
<1> DEFINE t == Head(timers)
           T == Tail(timers)
<1>2. timers # << >> /\ timers' = T /\ UNCHANGED <<cam, suspect, done>>
  BY DEF Timeout
<1>3. T \in Seq(Timer) /\ t \in Timer /\ \A A : Has(timers, A) <=> Has(T, A) \/ t \in A
  BY <1>1, <1>2, HasTail
<1>4. S \in Pair /\ S.p = p /\ S.q = queue
  BY <1>1, CurrentPair
<1>5. /\ t.what = "reload" => Becomes(loadSlot(S, t.i))
      /\ t.what = "started" => Becomes(Started(S, t.i))
      /\ t.what = "stopped" => Becomes(loadSlot(refreshTraceState(S), p.sel))
      /\ t.what = "state" => Becomes(refreshTraceState(S))
  BY DEF Timeout
<1> HIDE DEF t, T
<1>6. Keeps(p, queue, cam, suspect)
  BY <1>1 DEF Sound, Shows
<1>7. t \notin ReadsLater(p.page) => Reads(p, queue, T, cam, suspect)
  BY <1>1, <1>3 DEF Sound, Shows, Reads, NameRead, PictureRead, Read
<1>8. t \notin AsksLater => StateAsked(p, queue, T, cam, suspect)
  BY <1>1, <1>3 DEF Sound, StateAsked
<1>9. /\ t.what \in {"reload", "started", "stopped", "state"}
      /\ t.what \in {"reload", "started"} => t.i \in Slots
      /\ t \in ReadsLater(p.page) <=> t.what \in {"reload", "started"} /\ t.i = p.page
      /\ t \in AsksLater <=> t.what \in {"started", "stopped", "state"}
  BY <1>3, TimerFields DEF ReadsLater, AsksLater
<1> DEFINE f == refreshTraceState(S)
<1>10. /\ f \in Pair /\ f.p = p /\ Keeps(f.p, f.q, cam, suspect)
       /\ Reads(p, queue, T, cam, suspect) => Reads(f.p, f.q, T, cam, suspect)
       /\ StateAsked(f.p, f.q, T, cam, suspect)
  BY <1>4, <1>6, StateLoaded
<1> HIDE DEF f
<1> DEFINE Goal(z) == z \in Pair /\ Becomes(z) /\ Sound(z.p, z.q, T, cam, suspect)
<1>11. \E z : Goal(z)
  <2>1. CASE t.what = "reload"
    <3> DEFINE z == loadSlot(S, t.i)
    <3>1. /\ t.i \in Slots /\ (t.i = p.page \/ Reads(p, queue, T, cam, suspect))
          /\ StateAsked(p, queue, T, cam, suspect)
      BY <1>7, <1>8, <1>9, <2>1
    <3>2. /\ z \in Pair /\ Shows(z.p, z.q, T, cam, suspect)
          /\ StateAsked(z.p, z.q, T, cam, suspect)
      BY <1>4, <1>6, <3>1, SlotLoaded
    <3>3. Goal(z)
      BY <1>5, <2>1, <3>2 DEF Sound
    <3> QED BY <3>3
  <2>2. CASE t.what = "started"
    <3> DEFINE z == loadSlot(f, t.i)
    <3>1. t.i \in Slots /\ (t.i = f.p.page \/ Reads(f.p, f.q, T, cam, suspect))
      BY <1>7, <1>9, <1>10, <2>2
    <3>2. /\ z \in Pair /\ Shows(z.p, z.q, T, cam, suspect)
          /\ StateAsked(z.p, z.q, T, cam, suspect)
      BY <1>10, <3>1, SlotLoaded
    <3>3. Becomes(z)
      BY <1>5, <2>2 DEF Started, f
    <3>4. Goal(z)
      BY <3>2, <3>3 DEF Sound
    <3> QED BY <3>4
  <2>3. CASE t.what = "stopped"
    <3> DEFINE z == loadSlot(f, p.sel)
    <3>1. Reads(f.p, f.q, T, cam, suspect)
      BY <1>7, <1>9, <1>10, <2>3
    <3>2. /\ z \in Pair /\ Shows(z.p, z.q, T, cam, suspect)
          /\ StateAsked(z.p, z.q, T, cam, suspect)
      BY <1>1, <1>10, <3>1, SlotLoaded
    <3>3. Becomes(z)
      BY <1>5, <2>3 DEF f
    <3>4. Goal(z)
      BY <3>2, <3>3 DEF Sound
    <3> QED BY <3>4
  <2>4. CASE t.what = "state"
    <3>1. Reads(f.p, f.q, T, cam, suspect)
      BY <1>7, <1>9, <1>10, <2>4
    <3>2. Becomes(f)
      BY <1>5, <2>4 DEF f
    <3>3. Goal(f)
      BY <1>10, <3>1, <3>2 DEF Sound, Shows
    <3> QED BY <3>3
  <2> QED BY <1>9, <2>1, <2>2, <2>3, <2>4
<1>12. PICK z : Goal(z)
  BY <1>11
<1> QED BY <1>1, <1>2, <1>3, <1>12, AnyStep

------------------------------------------------------------------------------
(* The replies.                                                            *)

\* What the queue says when its head has been answered.
Popped(q, n) ==
  /\ n \in Seq(Request)
  /\ \A A : Has(q, A) <=> Has(n, A) \/ Head(q) \in A
  /\ \A A, B : Followed(q, B, A) => Followed(n, B, A) /\ (Head(q) \in B => Has(n, A))
  /\ \A id : QueueOwn(q, id) => QueueOwn(n, id) /\ RequestOwn(Head(q), id)

LEMMA Answered ==
  ASSUME NEW q \in Seq(Request), q # << >>
  PROVE  Popped(q, Tail(q)) /\ Head(q) \in Request
<1>1. /\ Tail(q) \in Seq(Request) /\ Head(q) \in Request
      /\ \A A : Has(q, A) <=> Has(Tail(q), A) \/ Head(q) \in A
  BY HasTail
<1>2. \A A, B : Followed(q, B, A) =>
        Followed(Tail(q), B, A) /\ (Head(q) \in B => Has(Tail(q), A))
  BY FollowedTail
<1>3. \A id : QueueOwn(q, id) => QueueOwn(Tail(q), id) /\ RequestOwn(Head(q), id)
  BY OwnTail
<1> QED BY <1>1, <1>2, <1>3 DEF Popped

\* The panel y shows what x does, and what is suspect is the same but for slots
\* that are not shown.
LEMMA AnsweredElsewhere ==
  ASSUME NEW x, NEW q, NEW n, NEW T, NEW c, NEW u, Popped(q, n), Sound(x, q, T, c, u)
  PROVE  /\ Keeps(x, n, c, u)
         /\ Head(q) \notin ReadsOf(x.trace, x.page) => NameRead(x, n, T, c, u)
         /\ /\ Head(q) \notin ReadsOf(x.trace, x.page)
            /\ Head(q) \notin ThumbsOf(x.trace, x.page)
            => PictureRead(x, n, T, c, u)
         /\ Head(q) \notin Queries => StateAsked(x, n, T, c, u)
<1>1. \A t, i : Lasting(q, c, t, i) => Lasting(n, c, t, i)
  BY DEF Popped, Lasting
<1>2. Owns(x, n, c)
  BY DEF Sound, Shows, Keeps, Owns, Popped
<1>3. CacheFresh(x, n, c, u)
  BY <1>1 DEF Sound, Shows, Keeps, CacheFresh
<1>4. ASSUME Head(q) \notin ReadsOf(x.trace, x.page)
      PROVE  Read(n, T, x.trace, x.page) => Read(q, T, x.trace, x.page)
  BY <1>4 DEF Popped, Read
<1>5. Head(q) \notin ReadsOf(x.trace, x.page) => NameRead(x, n, T, c, u)
  BY <1>4 DEF Sound, Shows, Reads, NameRead, Popped
<1>6. /\ Head(q) \notin ReadsOf(x.trace, x.page)
      /\ Head(q) \notin ThumbsOf(x.trace, x.page)
      => PictureRead(x, n, T, c, u)
  BY <1>1, <1>4 DEF Sound, Shows, Reads, PictureRead, Popped
<1>7. Head(q) \notin Queries => StateAsked(x, n, T, c, u)
  BY DEF Sound, StateAsked, Popped
<1> QED BY <1>2, <1>3, <1>5, <1>6, <1>7 DEF Keeps

LEMMA InvTraceState ==
  ASSUME PresetInv, NEW ok \in BOOLEAN, onTraceState(ok)
  PROVE  PresetInv'
<1>1. /\ PresetTypeOK /\ Sound(p, queue, timers, cam, suspect)
      /\ p \in Panel /\ queue \in Seq(Request) /\ timers \in Seq(Timer)
      /\ cam \in Camera /\ suspect \in Suspect
  BY DEF PresetInv, PresetTypeOK
<1> DEFINE y == [p EXCEPT !.state = cam.st]
           n == Tail(queue)
           no == ~ok
<1>2. /\ Succeeds(ok) /\ queue # << >> /\ Head(queue).op = "query"
      /\ p' = IF p.trace /\ ok THEN updateActions(y) ELSE p
      /\ queue' = n /\ suspect' = [suspect EXCEPT !.transport = no]
      /\ UNCHANGED <<timers, cam>>
  BY DEF onTraceState
<1>3. no \in BOOLEAN /\ (no <=> ~ok)
  OBVIOUS
<1> HIDE DEF no
<1>4. /\ suspect' \in Suspect /\ suspect'.names = suspect.names
      /\ suspect'.pics = suspect.pics /\ suspect'.transport = no
  BY <1>1, <1>2, <1>3 DEF Suspect
<1>5. y \in Panel /\ y.state = cam.st
  BY <1>1 DEF Panel, Camera
<1>6. /\ y.trace = p.trace /\ y.client = p.client /\ y.edit = p.edit
      /\ y.page = p.page /\ y.sel = p.sel /\ y.info = p.info
      /\ y.thumbs = p.thumbs /\ y.name = p.name /\ y.thumb = p.thumb
  BY <1>1 DEF Panel
<1> HIDE DEF y
<1>7. SameButFor(y, updateActions(y))
  BY <1>5, ActionsUpdated
<1>8. /\ p' \in Panel
      /\ p'.trace = p.trace /\ p'.client = p.client /\ p'.edit = p.edit
      /\ p'.page = p.page /\ p'.sel = p.sel /\ p'.info = p.info
      /\ p'.thumbs = p.thumbs /\ p'.name = p.name /\ p'.thumb = p.thumb
      /\ p.trace /\ ok => p'.state = cam.st
  BY <1>1, <1>2, <1>5, <1>6, <1>7 DEF SameButFor
<1>9. Popped(queue, n) /\ Head(queue) \in Request
  BY <1>1, <1>2, Answered
<1> HIDE DEF n
<1>10. \A t, i : Head(queue) \notin ReadsOf(t, i) /\ Head(queue) \notin ThumbsOf(t, i)
  BY <1>2 DEF ReadsOf, ThumbsOf
<1>11. /\ Keeps(p, n, cam, suspect) /\ NameRead(p, n, timers, cam, suspect)
       /\ PictureRead(p, n, timers, cam, suspect)
  BY <1>1, <1>9, <1>10, AnsweredElsewhere
<1>12. Owns(p', n, cam) /\ CacheFresh(p', n, cam, suspect')
  BY <1>4, <1>8, <1>11 DEF Keeps, Owns, PanelOwn, CacheOwn, CacheFresh
<1>13. NameRead(p', n, timers, cam, suspect') /\ PictureRead(p', n, timers, cam, suspect')
  BY <1>4, <1>8, <1>11 DEF NameRead, PictureRead
<1>14. StateAsked(p', n, timers, cam, suspect')
  BY <1>1, <1>3, <1>4, <1>8, <1>9 DEF Sound, StateAsked, Popped
<1>15. Sound(p', queue', timers', cam', suspect')
  BY <1>2, <1>12, <1>13, <1>14 DEF Sound, Shows, Keeps, Reads
<1>16. done' \in DoneType /\ n \in Seq(Request)
  BY <1>1, <1>2, <1>9, SucceedsDone DEF Popped
<1> QED BY <1>1, <1>2, <1>4, <1>8, <1>15, <1>16, PlainStep

\* The panel y is x with the name of the slot it shows.
Informed(x, y, name) ==
  /\ y \in Panel
  /\ y.trace = x.trace /\ y.client = x.client /\ y.edit = x.edit
  /\ y.page = x.page /\ y.sel = x.sel /\ y.thumbs = x.thumbs
  /\ y.state = x.state /\ y.name = Label(name)
  /\ \A i \in Slots : y.info[i] = IF i = x.page THEN name ELSE x.info[i]

\* The picture that goes with the name, and the request for it.
Pictured(s, z, name) ==
  \/ name = Empty /\ z.p.thumb = Blank /\ z.q = s.q
  \/ /\ s.p.thumbs[s.p.page] # Unread
     /\ z.p.thumb = s.p.thumbs[s.p.page] /\ z.q = s.q
  \/ /\ z.p.thumb = Dots
     /\ z.q = Append(s.q, [op |-> "thumb", trace |-> s.p.trace, i |-> s.p.page])

SameShown(x, y) ==
  /\ y \in Panel
  /\ y.trace = x.trace /\ y.client = x.client /\ y.edit = x.edit
  /\ y.page = x.page /\ y.sel = x.sel /\ y.info = x.info
  /\ y.thumbs = x.thumbs /\ y.name = x.name /\ y.thumb = x.thumb
  /\ y.state = x.state

LEMMA WithThumb ==
  ASSUME NEW x, NEW y, NEW name, Informed(x, y, name), NEW v \in Item \cup {Blank, Dots}
  PROVE  Informed(x, [y EXCEPT !.thumb = v], name) /\ [y EXCEPT !.thumb = v].thumb = v
<1> DEFINE z == [y EXCEPT !.thumb = v]
<1>1. y \in Panel
  BY DEF Informed
<1>2. z \in Panel /\ z.thumb = v
  BY <1>1 DEF Panel
<1>3. /\ z.trace = y.trace /\ z.client = y.client /\ z.edit = y.edit
      /\ z.page = y.page /\ z.sel = y.sel /\ z.thumbs = y.thumbs
      /\ z.state = y.state /\ z.name = y.name /\ z.info = y.info
  BY <1>1 DEF Panel
<1> HIDE DEF z
<1>4. Informed(x, z, name) /\ z.thumb = v
  BY <1>2, <1>3 DEF Informed
<1> QED BY <1>4 DEF z

LEMMA SlotInfo ==
  ASSUME NEW s \in Pair, NEW t \in BOOLEAN, NEW i \in Slots \cup {-1},
         NEW name \in Item \cup {Empty, Default}
  PROVE  LET z == applySlotInfo(s, t, i, name)
         IN  /\ z \in Pair
             /\ \/ SameShown(s.p, z.p) /\ z.q = s.q /\ ~(t = s.p.trace /\ i = s.p.page)
                \/ /\ t = s.p.trace /\ i = s.p.page
                   /\ Informed(s.p, z.p, name) /\ Pictured(s, z, name)
<1> DEFINE x == s.p
           l == Label(name)
           y == [x EXCEPT !.info[i] = name, !.name = l]
           w == IF i = x.sel THEN updateActions(y) ELSE y
           z == applySlotInfo(s, t, i, name)
           r == [op |-> "thumb", trace |-> t, i |-> i]
<1>1. x \in Panel /\ s.q \in Seq(Request) /\ x.page \in Slots
  BY DEF Pair, Panel
<1>2. i \in Slots => i >= 0 /\ PageOf(i) = i
  BY PresetAssumption DEF PageOf
<1>3. -1 \notin Slots
  BY PresetAssumption
<1>4. /\ t # x.trace \/ PageOf(i) # x.page => z = s
      /\ t = x.trace /\ PageOf(i) = x.page /\ i < 0 => z = [s EXCEPT !.p.crashed = TRUE]
      /\ t = x.trace /\ PageOf(i) = x.page /\ ~(i < 0) =>
           /\ name = Empty => z = [s EXCEPT !.p = [w EXCEPT !.thumb = Blank]]
           /\ name # Empty /\ x.thumbs[i] # Unread =>
                z = [s EXCEPT !.p = [w EXCEPT !.thumb = x.thumbs[i]]]
           /\ name # Empty /\ x.thumbs[i] = Unread =>
                z = Send([s EXCEPT !.p = [w EXCEPT !.thumb = Dots]], r)
  BY DEF applySlotInfo, ForFamily
<1>5. CASE t # x.trace \/ PageOf(i) # x.page
  <2>1. SameShown(x, x)
    BY <1>1 DEF SameShown
  <2>2. ~(t = x.trace /\ i = x.page)
    BY <1>1, <1>2, <1>5
  <2> QED BY <1>4, <1>5, <2>1, <2>2
<1>6. CASE t = x.trace /\ PageOf(i) = x.page /\ i < 0
  <2> DEFINE yes == TRUE
             e == [x EXCEPT !.crashed = yes]
             f == [s EXCEPT !.p = e]
  <2>1. z = [s EXCEPT !.p.crashed = yes]
    BY <1>4, <1>6
  <2>2. yes \in BOOLEAN
    OBVIOUS
  <2> HIDE DEF yes
  <2>3. [s EXCEPT !.p.crashed = yes] = f
    BY DEF Pair
  <2>4. e \in Panel
    BY <1>1, <2>2 DEF Panel
  <2>5. SameShown(x, e)
    BY <1>1, <2>4 DEF Panel, SameShown
  <2> HIDE DEF e
  <2>6. f \in Pair /\ f.p = e /\ f.q = s.q
    BY <2>4 DEF Pair
  <2>7. i # x.page
    BY <1>1, <1>6, PresetAssumption
  <2> HIDE DEF f, z
  <2>8. z \in Pair /\ SameShown(s.p, z.p) /\ z.q = s.q
    BY <2>1, <2>3, <2>5, <2>6
  <2> QED BY <2>7, <2>8 DEF z
<1>7. CASE t = x.trace /\ PageOf(i) = x.page /\ ~(i < 0)
  <2>1. i = x.page /\ i \in Slots
    BY <1>1, <1>2, <1>7
  <2> DEFINE f == [x.info EXCEPT ![i] = name]
             g == [x EXCEPT !.info = f, !.name = l]
  <2>2. l \in Item \cup {Default}
    BY LabelName
  <2>3. x.info \in [Slots -> Item \cup {Empty, Default, Unread}]
        /\ x.thumbs \in [Slots -> Item \cup {Unread}]
    BY <1>1 DEF Panel
  <2>4. y = g
    OBVIOUS
  <2>5. /\ f \in [Slots -> Item \cup {Empty, Default, Unread}]
        /\ \A j \in Slots : f[j] = IF j = x.page THEN name ELSE x.info[j]
    BY <2>1, <2>3
  <2>6. l = Label(name)
    OBVIOUS
  <2> HIDE DEF f, l
  <2>7. g \in Panel
    BY <1>1, <2>2, <2>5 DEF Panel
  <2>8. /\ g.trace = x.trace /\ g.client = x.client /\ g.edit = x.edit
        /\ g.page = x.page /\ g.sel = x.sel /\ g.thumbs = x.thumbs
        /\ g.state = x.state /\ g.name = l /\ g.info = f
    BY <1>1 DEF Panel
  <2> HIDE DEF g
  <2>9. Informed(x, g, name)
    BY <2>5, <2>6, <2>7, <2>8 DEF Informed
  <2>10. SameButFor(g, updateActions(g))
    BY <2>7, ActionsUpdated
  <2>11. Informed(x, updateActions(g), name)
    BY <2>9, <2>10 DEF SameButFor, Informed
  <2>12. Informed(x, w, name)
    BY <2>4, <2>9, <2>11
  <2> HIDE DEF y, w
  <2>13. ASSUME NEW v \in Item \cup {Blank, Dots}
         PROVE  LET b == [s EXCEPT !.p = [w EXCEPT !.thumb = v]]
                IN  /\ b \in Pair /\ Informed(x, b.p, name) /\ b.p.thumb = v
                    /\ b.q = s.q
    <3> DEFINE k == [w EXCEPT !.thumb = v]
               b == [s EXCEPT !.p = k]
    <3>1. Informed(x, k, name) /\ k.thumb = v /\ k \in Panel
      BY <2>12, WithThumb DEF Informed
    <3> HIDE DEF k
    <3>2. b \in Pair /\ b.p = k /\ b.q = s.q
      BY <3>1 DEF Pair
    <3> HIDE DEF b
    <3>3. b \in Pair /\ Informed(x, b.p, name) /\ b.p.thumb = v /\ b.q = s.q
      BY <3>1, <3>2
    <3> QED BY <3>3 DEF b, k
  <2> SUFFICES z \in Pair /\ Informed(x, z.p, name) /\ Pictured(s, z, name)
    BY <1>7, <2>1
  <2>14. CASE name = Empty
    <3>1. z = [s EXCEPT !.p = [w EXCEPT !.thumb = Blank]]
      BY <1>4, <1>7, <2>14
    <3>2. z \in Pair /\ Informed(x, z.p, name) /\ z.p.thumb = Blank /\ z.q = s.q
      BY <3>1, <2>13
    <3> QED BY <3>2, <2>14 DEF Pictured
  <2>15. CASE name # Empty /\ x.thumbs[i] # Unread
    <3>1. z = [s EXCEPT !.p = [w EXCEPT !.thumb = x.thumbs[i]]]
      BY <1>4, <1>7, <2>15
    <3>2. x.thumbs[i] \in Item
      BY <2>1, <2>3, <2>15
    <3>3. z \in Pair /\ Informed(x, z.p, name) /\ z.p.thumb = x.thumbs[i] /\ z.q = s.q
      BY <3>1, <3>2, <2>13
    <3> QED BY <3>3, <2>1, <2>15 DEF Pictured
  <2>16. CASE name # Empty /\ x.thumbs[i] = Unread
    <3> DEFINE b == [s EXCEPT !.p = [w EXCEPT !.thumb = Dots]]
    <3>1. z = Send(b, r)
      BY <1>4, <1>7, <2>16
    <3>2. b \in Pair /\ Informed(x, b.p, name) /\ b.p.thumb = Dots /\ b.q = s.q
      BY <2>13
    <3> HIDE DEF b, z
    <3>3. r \in Request
      BY <2>1, ThumbRequest DEF Plain
    <3>4. z \in Pair /\ z.p = b.p /\ z.q = Append(s.q, r)
      BY <3>1, <3>2, <3>3, SendPair
    <3> QED BY <3>2, <3>4, <2>1, <1>7 DEF Pictured
  <2> QED BY <2>14, <2>15, <2>16
<1> QED BY <1>5, <1>6, <1>7

\* What is suspect of other slots and of the transport does not matter.
LEMMA OtherSuspects ==
  ASSUME NEW x, NEW y, NEW q, NEW T, NEW c, NEW u, NEW v, SameShown(x, y),
         Shows(x, q, T, c, u), v.pics = u.pics, v.transport = u.transport,
         <<x.trace, x.page>> \in v.names <=> <<x.trace, x.page>> \in u.names
  PROVE  /\ Shows(y, q, T, c, v)
         /\ StateAsked(x, q, T, c, u) => StateAsked(y, q, T, c, v)
<1>1. Owns(y, q, c) /\ CacheFresh(y, q, c, v)
  BY DEF Shows, Keeps, Owns, PanelOwn, CacheOwn, CacheFresh, SameShown
<1>2. NameRead(y, q, T, c, v)
  BY DEF Shows, Reads, NameRead, SameShown
<1>3. PictureRead(y, q, T, c, v)
  BY DEF Shows, Reads, PictureRead, SameShown
<1>4. StateAsked(x, q, T, c, u) => StateAsked(y, q, T, c, v)
  BY DEF StateAsked, SameShown
<1> QED BY <1>1, <1>2, <1>3, <1>4 DEF Shows, Keeps, Reads

\* A name that has been read is shown with its picture, or with a request for it.
LEMMA InfoSound ==
  ASSUME NEW s \in Pair, NEW z \in Pair, NEW q, NEW T, NEW c \in Camera, NEW u, NEW v,
         NEW ok \in BOOLEAN, NEW name,
         Sound(s.p, q, T, c, u), Popped(q, s.q), Head(q) \notin Queries,
         Informed(s.p, z.p, name), Pictured(s, z, name),
         name = IF ok THEN c.slot[s.p.trace][s.p.page].name ELSE Empty,
         v.pics = u.pics, v.transport = u.transport,
         ~ok => <<s.p.trace, s.p.page>> \in v.names
  PROVE  Sound(z.p, z.q, T, c, v)
<1> DEFINE x == s.p
           y == z.p
           n == s.q
<1>1. /\ x.trace \in BOOLEAN /\ x.page \in Slots /\ n \in Seq(Request)
  BY DEF Pair, Panel
<1>2. y.trace = x.trace /\ y.page = x.page /\ y.client = x.client /\ y.thumbs = x.thumbs
  BY DEF Informed
<1>3. name \in Item \cup {Empty, Default} /\ IsOf(name, c.id, x.trace, x.page)
  <2> DEFINE nm == c.slot[x.trace][x.page].name
  <2>1. nm \in Item \cup {Empty, Default}
    BY <1>1 DEF Camera
  <2>2. CameraOwn(c)
    BY DEF Sound, Shows, Keeps, Owns
  <2>3. IsOf(nm, c.id, x.trace, x.page)
    BY <1>1, <2>2 DEF CameraOwn
  <2>4. name = nm \/ name = Empty
    OBVIOUS
  <2> HIDE DEF nm
  <2>5. IsOf(Empty, c.id, x.trace, x.page)
    BY SentinelsDiffer DEF IsOf
  <2> QED BY <2>1, <2>3, <2>4, <2>5
<1>4. IsOf(Label(name), c.id, x.trace, x.page)
  BY <1>3, LabelName
<1>5. IsOf(y.thumb, c.id, x.trace, x.page)
  <2>1. IsOf(x.thumbs[x.page], c.id, x.trace, x.page)
    BY <1>1 DEF Sound, Shows, Keeps, Owns, PanelOwn, CacheOwn
  <2> QED BY <2>1, SentinelsDiffer DEF Pictured, IsOf
<1>6. Keeps(x, n, c, u) /\ StateAsked(x, n, T, c, u)
  BY AnsweredElsewhere
<1>7. CacheOwn(y, c.id)
  BY <1>3, <1>6 DEF Keeps, Owns, PanelOwn, CacheOwn, Informed
<1>8. Owns(y, n, c)
  BY <1>2, <1>4, <1>5, <1>6, <1>7 DEF Keeps, Owns, PanelOwn, Informed
<1>9. CacheFresh(y, n, c, v)
  BY <1>2, <1>6 DEF Keeps, CacheFresh
<1>10. StateAsked(y, n, T, c, v)
  BY <1>6 DEF StateAsked, Informed
<1>11. y.info[y.page] = name /\ y.name = Label(name)
  BY <1>1 DEF Informed
<1>12. \/ Followed(n, WritesOf(x.trace, x.page), ReadsOf(x.trace, x.page))
       \/ Has(T, ReadsLater(x.page))
       \/ x.client # "open"
  BY DEF Sound, Shows, Reads, NameRead, Popped
<1>13. NameRead(y, n, T, c, v)
  BY <1>2, <1>11, <1>12 DEF NameRead
<1>14. CASE z.q = n
  <2>1. PictureRead(y, n, T, c, v)
    <3> SUFFICES ASSUME <<x.trace, x.page>> \notin v.names,
                        <<x.trace, x.page>> \notin v.pics,
                        c.slot[x.trace][x.page].name # Empty,
                        ~Has(n, ThumbsOf(x.trace, x.page))
                 PROVE  y.thumb = c.slot[x.trace][x.page].pic
                        /\ Lasting(n, c, x.trace, x.page)
      BY <1>2 DEF PictureRead
    <3>1. name # Empty
      OBVIOUS
    <3>2. x.thumbs[x.page] # Unread /\ y.thumb = x.thumbs[x.page]
      <4> DEFINE r == [op |-> "thumb", trace |-> x.trace, i |-> x.page]
      <4>1. r \in ThumbsOf(x.trace, x.page) /\ r \in Request
        BY <1>1, ThumbRequest DEF Plain
      <4> HIDE DEF r
      <4>2. Has(Append(n, r), ThumbsOf(x.trace, x.page))
        <5>1. \A A : Has(Append(n, r), A) <=> Has(n, A) \/ r \in A
          BY <1>1, <4>1, HasAppend
        <5> QED BY <5>1, <4>1
      <4>3. z.q # Append(n, r)
        BY <1>14, <4>2
      <4> QED BY <3>1, <4>3 DEF Pictured, r
    <3> QED BY <1>1, <1>6, <3>2 DEF Keeps, CacheFresh
  <2> QED BY <1>8, <1>9, <1>10, <1>13, <1>14, <2>1 DEF Sound, Shows, Keeps, Reads
<1>15. CASE z.q # n
  <2> DEFINE r == [op |-> "thumb", trace |-> x.trace, i |-> x.page]
             m == Append(n, r)
  <2>1. z.q = m
    BY <1>15 DEF Pictured
  <2>2. Plain(r) /\ r \in ThumbsOf(x.trace, x.page) /\ r \in Request
    BY <1>1, ThumbRequest DEF Plain
  <2> HIDE DEF r
  <2>3. /\ Keeps(y, m, c, v) /\ NameRead(y, m, T, c, v) /\ StateAsked(y, m, T, c, v)
    BY <1>1, <1>8, <1>9, <1>10, <1>13, <2>2, PlainParts DEF Keeps
  <2>4. Has(m, ThumbsOf(y.trace, y.page))
    <3>1. n \in Seq(Request) /\ r \in Request
      BY <1>1, <2>2
    <3> HIDE DEF n
    <3>2. \A A : Has(m, A) <=> Has(n, A) \/ r \in A
      BY <3>1, HasAppend, ZenonT(30)
    <3> QED BY <1>2, <2>2, <3>2
  <2> HIDE DEF m
  <2>5. PictureRead(y, m, T, c, v)
    BY <2>4 DEF PictureRead
  <2> QED BY <2>1, <2>3, <2>5 DEF Sound, Shows, Reads
<1> QED BY <1>14, <1>15

LEMMA InvInfo ==
  ASSUME PresetInv, NEW ok \in BOOLEAN, InfoReply(ok)
  PROVE  PresetInv'
<1>1. /\ PresetTypeOK /\ Sound(p, queue, timers, cam, suspect)
      /\ p \in Panel /\ queue \in Seq(Request) /\ cam \in Camera
      /\ suspect \in Suspect
  BY DEF PresetInv, PresetTypeOK
<1> DEFINE r == Head(queue)
           s == [p |-> p, q |-> Tail(queue)]
           name == IF ok /\ r.i >= 0 THEN cam.slot[r.trace][r.i].name ELSE Empty
           key == <<r.trace, r.i>>
           ns == IF ok THEN suspect.names \ {key} ELSE suspect.names \cup {key}
           z == applySlotInfo(s, r.trace, r.i, name)
<1>2. /\ Succeeds(ok) /\ queue # << >> /\ r.op = "info" /\ Becomes(z)
      /\ suspect' = [suspect EXCEPT !.names = ns]
      /\ UNCHANGED <<timers, cam>>
  BY DEF InfoReply
<1>3. Popped(queue, Tail(queue)) /\ r \in Request
  BY <1>1, <1>2, Answered
<1>4. s \in Pair /\ s.p = p /\ s.q = Tail(queue)
  BY <1>1, <1>3 DEF Pair, Popped
<1>5. r.trace \in BOOLEAN /\ r.i \in Slots \cup {-1}
  BY <1>2, <1>3, RequestFields
<1>6. name \in Item \cup {Empty, Default}
  <2>1. r.i \in Slots => cam.slot[r.trace][r.i].name \in Item \cup {Empty, Default}
    BY <1>1, <1>5 DEF Camera
  <2> QED BY <1>5, <2>1
<1>7. /\ suspect' \in Suspect /\ suspect'.names = ns
      /\ suspect'.pics = suspect.pics /\ suspect'.transport = suspect.transport
  <2>1. key \in BOOLEAN \X (Slots \cup {-1})
    BY <1>5
  <2>2. ns \subseteq BOOLEAN \X (Slots \cup {-1})
    BY <1>1, <2>1 DEF Suspect
  <2> HIDE DEF ns
  <2> QED BY <1>1, <1>2, <2>2 DEF Suspect
<1>8. done' \in DoneType
  BY <1>1, <1>2, SucceedsDone
<1>9. /\ r \notin Queries
      /\ \A t, i : r \in ReadsOf(t, i) <=> t = r.trace /\ i = r.i
      /\ \A t, i : r \notin ThumbsOf(t, i)
  BY <1>2, <1>3 DEF Queries, ReadsOf, ThumbsOf
<1> HIDE DEF r, s, ns, name, key
<1>10. /\ z \in Pair
       /\ \/ SameShown(p, z.p) /\ z.q = s.q /\ ~(r.trace = p.trace /\ r.i = p.page)
          \/ /\ r.trace = p.trace /\ r.i = p.page
             /\ Informed(p, z.p, name) /\ Pictured(s, z, name)
  BY <1>4, <1>5, <1>6, SlotInfo
<1> HIDE DEF z
<1>11. CASE SameShown(p, z.p) /\ z.q = s.q /\ ~(r.trace = p.trace /\ r.i = p.page)
  <2>1. /\ Shows(p, s.q, timers, cam, suspect) /\ StateAsked(p, s.q, timers, cam, suspect)
    BY <1>1, <1>3, <1>4, <1>9, <1>11, AnsweredElsewhere DEF Shows, Reads, r
  <2>2. <<p.trace, p.page>> \in suspect'.names <=> <<p.trace, p.page>> \in suspect.names
    BY <1>7, <1>11 DEF ns, key
  <2>3. Sound(z.p, z.q, timers, cam, suspect')
    BY <1>7, <1>11, <2>1, <2>2, OtherSuspects DEF Sound
  <2> QED BY <1>1, <1>2, <1>7, <1>8, <1>10, <2>3, PanelStep
<1>12. CASE /\ r.trace = p.trace /\ r.i = p.page
            /\ Informed(p, z.p, name) /\ Pictured(s, z, name)
  <2>1. r.i >= 0
    <3>1. p.page \in Slots
      BY <1>1 DEF Panel
    <3>2. r.i \in Nat
      BY <3>1, <1>12, PresetAssumption
    <3> QED BY <3>2
  <2>2. name = IF ok THEN cam.slot[p.trace][p.page].name ELSE Empty
    BY <1>12, <2>1 DEF name
  <2>3. ~ok => <<p.trace, p.page>> \in suspect'.names
    BY <1>7, <1>12 DEF ns, key
  <2>4. Head(queue) \notin Queries
    BY <1>9 DEF r
  <2>5. Sound(z.p, z.q, timers, cam, suspect')
    BY <1>1, <1>3, <1>4, <1>7, <1>10, <1>12, <2>2, <2>3, <2>4, InfoSound
  <2> QED BY <1>1, <1>2, <1>7, <1>8, <1>10, <2>5, PanelStep
<1> QED BY <1>10, <1>11, <1>12

LEMMA NotReplacing ==
  ASSUME NEW q \in Seq(Request), NEW t, NEW i, <<t, i>> \notin Replacing(q)
  PROVE  Lasting(q, cam, t, i)
<1>1. <<t, i>> \notin cam.writing
  BY DEF Replacing
<1>2. ASSUME NEW n \in DOMAIN q, q[n] \in ReplacesOf(t, i) PROVE FALSE
  <2>1. q[n].op \in {"set", "rec"} /\ q[n].trace = t /\ q[n].i = i
    BY <1>2 DEF ReplacesOf
  <2>2. <<q[n].trace, q[n].i>> \in Replacing(q)
    BY <2>1 DEF Replacing
  <2> QED BY <2>1, <2>2
<1> QED BY <1>1, <1>2 DEF Lasting, Has

\* The panel y is x with a picture, or with none, for slot i.
GotPicture(x, y, i, pic) ==
  /\ y \in Panel
  /\ y.trace = x.trace /\ y.client = x.client /\ y.edit = x.edit
  /\ y.page = x.page /\ y.sel = x.sel /\ y.info = x.info
  /\ y.name = x.name /\ y.state = x.state
  /\ y.thumb = IF i = x.page THEN pic ELSE x.thumb
  /\ \A j \in Slots : y.thumbs[j] = IF j = i /\ pic # Blank THEN pic ELSE x.thumbs[j]

LEMMA Thumbnail ==
  ASSUME NEW s \in Pair, NEW t \in BOOLEAN, NEW i \in Slots,
         NEW pic \in Item \cup {Blank}
  PROVE  LET z == GotThumbnail(s, t, i, pic)
         IN  /\ z \in Pair /\ z.q = s.q
             /\ t # s.p.trace => z = s
             /\ t = s.p.trace => GotPicture(s.p, z.p, i, pic)
<1> DEFINE x == s.p
           f == [x.thumbs EXCEPT ![i] = pic]
           g == [x EXCEPT !.thumbs = f]
           y == IF pic = Blank THEN x ELSE g
           w == [y EXCEPT !.thumb = pic]
           z == GotThumbnail(s, t, i, pic)
<1>1. x \in Panel /\ x.thumbs \in [Slots -> Item \cup {Unread}] /\ s.q \in Seq(Request)
  BY DEF Pair, Panel
<1>2. [x EXCEPT !.thumbs[i] = pic] = g
  OBVIOUS
<1>3. /\ t # x.trace => z = s
      /\ t = x.trace /\ i # y.page => z = [s EXCEPT !.p = y]
      /\ t = x.trace /\ i = y.page => z = [s EXCEPT !.p = w]
  BY <1>2 DEF GotThumbnail, ForFamily
<1>4. pic # Blank => f \in [Slots -> Item \cup {Unread}]
  BY <1>1
<1>5. \A j \in Slots : f[j] = IF j = i THEN pic ELSE x.thumbs[j]
  BY <1>1
<1> HIDE DEF f
<1>6. pic # Blank => g \in Panel
  BY <1>1, <1>4 DEF Panel
<1>7. /\ g.trace = x.trace /\ g.client = x.client /\ g.edit = x.edit
      /\ g.page = x.page /\ g.sel = x.sel /\ g.info = x.info
      /\ g.name = x.name /\ g.state = x.state /\ g.thumb = x.thumb /\ g.thumbs = f
  BY <1>1 DEF Panel
<1> HIDE DEF g
<1>8. /\ y \in Panel
      /\ y.trace = x.trace /\ y.client = x.client /\ y.edit = x.edit
      /\ y.page = x.page /\ y.sel = x.sel /\ y.info = x.info
      /\ y.name = x.name /\ y.state = x.state /\ y.thumb = x.thumb
      /\ \A j \in Slots : y.thumbs[j] = IF j = i /\ pic # Blank THEN pic ELSE x.thumbs[j]
  BY <1>1, <1>5, <1>6, <1>7
<1> HIDE DEF y
<1>9. w \in Panel
  BY <1>8 DEF Panel
<1>10. /\ w.trace = y.trace /\ w.client = y.client /\ w.edit = y.edit
       /\ w.page = y.page /\ w.sel = y.sel /\ w.info = y.info
       /\ w.name = y.name /\ w.state = y.state /\ w.thumb = pic
       /\ w.thumbs = y.thumbs
  BY <1>8 DEF Panel
<1> HIDE DEF w
<1>11. /\ i # x.page => GotPicture(x, y, i, pic)
       /\ i = x.page => GotPicture(x, w, i, pic)
  BY <1>8, <1>9, <1>10 DEF GotPicture
<1>12. \A e \in Panel : LET b == [s EXCEPT !.p = e]
                        IN  b \in Pair /\ b.p = e /\ b.q = s.q
  BY DEF Pair
<1> HIDE DEF z
<1>13. /\ z \in Pair /\ z.q = s.q
       /\ t # x.trace => z = s
       /\ t = x.trace => GotPicture(x, z.p, i, pic)
  BY <1>3, <1>8, <1>9, <1>11, <1>12
<1> QED BY <1>13 DEF z

\* A picture is shown and cached, and is suspect if another replaces it.
LEMMA PictureSound ==
  ASSUME NEW x, NEW y, NEW n, NEW T, NEW c \in Camera, NEW u, NEW v,
         NEW ok \in BOOLEAN, NEW i \in Slots, x.trace \in BOOLEAN, NEW pic,
         Keeps(x, n, c, u), NameRead(x, n, T, c, u), StateAsked(x, n, T, c, u),
         i # x.page => PictureRead(x, n, T, c, u), GotPicture(x, y, i, pic),
         pic = IF ok THEN c.slot[x.trace][i].pic ELSE Blank,
         v.names = u.names, v.transport = u.transport,
         \A j \in Slots : j # i => (<<x.trace, j>> \in v.pics <=> <<x.trace, j>> \in u.pics),
         <<x.trace, i>> \notin v.pics => ok /\ Lasting(n, c, x.trace, i)
  PROVE  Sound(y, n, T, c, v)
<1>1. y.trace = x.trace /\ y.page = x.page /\ y.client = x.client /\ y.page \in Slots
  BY DEF GotPicture, Panel
<1>2. IsOf(pic, c.id, x.trace, i)
  <2> DEFINE e == c.slot[x.trace][i].pic
  <2>1. IsOf(e, c.id, x.trace, i)
    BY DEF Keeps, Owns, CameraOwn
  <2>2. pic = e \/ pic = Blank
    OBVIOUS
  <2> HIDE DEF e
  <2> QED BY <2>1, <2>2, SentinelsDiffer DEF IsOf
<1>3. CacheOwn(y, c.id)
  BY <1>2 DEF Keeps, Owns, PanelOwn, CacheOwn, GotPicture
<1>4. IsOf(y.thumb, c.id, y.trace, y.page)
  BY <1>2 DEF Keeps, Owns, PanelOwn, GotPicture
<1>5. Owns(y, n, c)
  BY <1>3, <1>4 DEF Keeps, Owns, PanelOwn, GotPicture
<1>6. CacheFresh(y, n, c, v)
  <2> SUFFICES ASSUME NEW j \in Slots, y.thumbs[j] # Unread,
                      <<x.trace, j>> \notin v.pics
               PROVE  y.thumbs[j] = c.slot[x.trace][j].pic /\ Lasting(n, c, x.trace, j)
    BY <1>1 DEF CacheFresh
  <2>1. CASE j = i
    <3>1. ok /\ Lasting(n, c, x.trace, j)
      BY <2>1
    <3>2. pic = c.slot[x.trace][j].pic
      BY <2>1, <3>1
    <3>3. pic \in Item
      BY <3>2 DEF Camera
    <3>4. pic # Blank
      BY <3>3, SentinelsDiffer
    <3>5. y.thumbs[j] = pic
      BY <2>1, <3>4 DEF GotPicture
    <3> QED BY <3>1, <3>2, <3>5
  <2>2. CASE j # i
    <3>1. y.thumbs[j] = x.thumbs[j]
      BY <2>2 DEF GotPicture
    <3>2. <<x.trace, j>> \notin u.pics
      BY <2>2
    <3> QED BY <3>1, <3>2 DEF Keeps, CacheFresh
  <2> QED BY <2>1, <2>2
<1>7. NameRead(y, n, T, c, v)
  BY DEF NameRead, GotPicture
<1>8. StateAsked(y, n, T, c, v)
  BY DEF StateAsked, GotPicture
<1>9. PictureRead(y, n, T, c, v)
  <2>1. CASE i = x.page
    <3>1. y.thumb = pic
      BY <2>1 DEF GotPicture
    <3> QED BY <1>1, <2>1, <3>1 DEF PictureRead
  <2>2. CASE i # x.page
    <3>1. y.thumb = x.thumb
      BY <2>2 DEF GotPicture
    <3>2. <<x.trace, x.page>> \in v.pics <=> <<x.trace, x.page>> \in u.pics
      BY <1>1, <2>2
    <3> QED BY <1>1, <2>2, <3>1, <3>2 DEF PictureRead
  <2> QED BY <2>1, <2>2
<1> QED BY <1>5, <1>6, <1>7, <1>8, <1>9 DEF Sound, Shows, Keeps, Reads

LEMMA InvThumb ==
  ASSUME PresetInv, NEW ok \in BOOLEAN, ThumbReply(ok)
  PROVE  PresetInv'
<1>1. /\ PresetTypeOK /\ Sound(p, queue, timers, cam, suspect)
      /\ p \in Panel /\ queue \in Seq(Request) /\ cam \in Camera
      /\ suspect \in Suspect /\ p.trace \in BOOLEAN
  BY DEF PresetInv, PresetTypeOK, Panel
<1> DEFINE r == Head(queue)
           s == [p |-> p, q |-> Tail(queue)]
           pic == IF ok THEN cam.slot[r.trace][r.i].pic ELSE Blank
           key == <<r.trace, r.i>>
           ps == IF ok /\ key \notin Replacing(queue) THEN suspect.pics \ {key}
                 ELSE suspect.pics \cup {key}
           z == GotThumbnail(s, r.trace, r.i, pic)
<1>2. /\ Succeeds(ok) /\ queue # << >> /\ r.op = "thumb" /\ Becomes(z)
      /\ suspect' = [suspect EXCEPT !.pics = ps]
      /\ UNCHANGED <<timers, cam>>
  BY DEF ThumbReply
<1>3. Popped(queue, Tail(queue)) /\ r \in Request
  BY <1>1, <1>2, Answered
<1>4. s \in Pair /\ s.p = p /\ s.q = Tail(queue)
  BY <1>1, <1>3 DEF Pair, Popped
<1>5. r.trace \in BOOLEAN /\ r.i \in Slots
  BY <1>2, <1>3, RequestFields
<1>6. pic \in Item \cup {Blank}
  BY <1>1, <1>5 DEF Camera
<1>7. /\ suspect' \in Suspect /\ suspect'.pics = ps
      /\ suspect'.names = suspect.names /\ suspect'.transport = suspect.transport
  <2>1. key \in BOOLEAN \X Slots
    BY <1>5
  <2>2. ps \subseteq BOOLEAN \X Slots
    BY <1>1, <2>1 DEF Suspect
  <2> HIDE DEF ps
  <2> QED BY <1>1, <1>2, <2>2 DEF Suspect
<1>8. done' \in DoneType
  BY <1>1, <1>2, SucceedsDone
<1>9. /\ r \notin Queries
      /\ \A t, i : r \notin ReadsOf(t, i)
      /\ \A t, i : r \in ThumbsOf(t, i) <=> t = r.trace /\ i = r.i
  BY <1>2, <1>3 DEF Queries, ReadsOf, ThumbsOf
<1>10. key \notin ps => ok /\ Lasting(queue, cam, r.trace, r.i)
  BY <1>1, NotReplacing
<1>11. \A t, i : Lasting(queue, cam, t, i) => Lasting(s.q, cam, t, i)
  BY <1>3, <1>4 DEF Popped, Lasting
<1>12. \A t, i : <<t, i>> # key => (<<t, i>> \in ps <=> <<t, i>> \in suspect.pics)
  OBVIOUS
<1> HIDE DEF r, s, ps
<1>13. /\ Keeps(p, s.q, cam, suspect) /\ NameRead(p, s.q, timers, cam, suspect)
       /\ StateAsked(p, s.q, timers, cam, suspect)
       /\ ~(r.trace = p.trace /\ r.i = p.page) => PictureRead(p, s.q, timers, cam, suspect)
  BY <1>1, <1>3, <1>4, <1>9, AnsweredElsewhere DEF r
<1>14. /\ z \in Pair /\ z.q = s.q
       /\ r.trace # p.trace => z = s
       /\ r.trace = p.trace => GotPicture(p, z.p, r.i, pic)
  BY <1>4, <1>5, <1>6, Thumbnail
<1> HIDE DEF z
<1>15. CASE r.trace # p.trace
  <2>1. \A i : <<p.trace, i>> \in suspect'.pics <=> <<p.trace, i>> \in suspect.pics
    BY <1>7, <1>12, <1>15
  <2>2. CacheFresh(p, s.q, cam, suspect')
    BY <1>13, <2>1 DEF Keeps, CacheFresh
  <2>3. /\ NameRead(p, s.q, timers, cam, suspect')
        /\ PictureRead(p, s.q, timers, cam, suspect')
        /\ StateAsked(p, s.q, timers, cam, suspect')
    BY <1>7, <1>13, <1>15, <2>1 DEF NameRead, PictureRead, StateAsked
  <2>4. Sound(z.p, z.q, timers, cam, suspect')
    BY <1>4, <1>13, <1>14, <1>15, <2>2, <2>3 DEF Sound, Shows, Keeps, Reads
  <2> QED BY <1>1, <1>2, <1>7, <1>8, <1>14, <2>4, PanelStep
<1>16. CASE r.trace = p.trace
  <2>1. pic = IF ok THEN cam.slot[p.trace][r.i].pic ELSE Blank
    BY <1>16
  <2> HIDE DEF pic
  <2>2. \A j \in Slots : j # r.i =>
          (<<p.trace, j>> \in suspect'.pics <=> <<p.trace, j>> \in suspect.pics)
    BY <1>7, <1>12
  <2>3. <<p.trace, r.i>> \notin suspect'.pics => ok /\ Lasting(s.q, cam, p.trace, r.i)
    BY <1>7, <1>10, <1>11, <1>16
  <2>4. Sound(z.p, s.q, timers, cam, suspect')
    BY <1>1, <1>5, <1>7, <1>13, <1>14, <1>16, <2>1, <2>2, <2>3, PictureSound
  <2>5. Sound(z.p, z.q, timers, cam, suspect')
    BY <1>14, <2>4
  <2> QED BY <1>1, <1>2, <1>7, <1>8, <1>14, <2>5, PanelStep
<1> QED BY <1>15, <1>16

------------------------------------------------------------------------------
(* The camera.                                                             *)

SlotType == [name : Item \cup {Empty, Default}, pic : Item]

\* The camera d is c with another slot i of family t.
SlotChanged(c, d, t, i, e) ==
  /\ d \in Camera /\ d.id = c.id
  /\ \A a \in BOOLEAN : \A j \in Slots :
       d.slot[a][j] = IF a = t /\ j = i THEN e ELSE c.slot[a][j]

LEMMA SlotReplaced ==
  ASSUME NEW c \in Camera, NEW t \in BOOLEAN, NEW i \in Slots, NEW e \in SlotType
  PROVE  LET d == [c EXCEPT !.slot[t][i] = e]
         IN  SlotChanged(c, d, t, i, e) /\ d.st = c.st /\ d.writing = c.writing
<1> DEFINE f == [c.slot[t] EXCEPT ![i] = e]
           g == [c.slot EXCEPT ![t] = f]
           d == [c EXCEPT !.slot = g]
<1>1. c.slot \in [BOOLEAN -> [Slots -> SlotType]]
  BY DEF Camera, SlotType
<1>2. [c EXCEPT !.slot[t][i] = e] = d
  OBVIOUS
<1>3. c.slot[t] \in [Slots -> SlotType]
  BY <1>1
<1>4. /\ f \in [Slots -> SlotType]
      /\ \A j \in Slots : f[j] = IF j = i THEN e ELSE c.slot[t][j]
  BY <1>3
<1> HIDE DEF f
<1>5. /\ g \in [BOOLEAN -> [Slots -> SlotType]]
      /\ \A a \in BOOLEAN : g[a] = IF a = t THEN f ELSE c.slot[a]
  BY <1>1, <1>4
<1> HIDE DEF g
<1>6. d \in Camera
  BY <1>5 DEF Camera, SlotType
<1>7. d.id = c.id /\ d.st = c.st /\ d.writing = c.writing /\ d.slot = g
  BY DEF Camera
<1> HIDE DEF d
<1>8. SlotChanged(c, d, t, i, e)
  BY <1>4, <1>5, <1>6, <1>7 DEF SlotChanged
<1> QED BY <1>2, <1>7, <1>8

\* The camera d is c with another name of slot i of family t.
NameChanged(c, d, t, i) ==
  /\ d \in Camera /\ d.id = c.id /\ CameraOwn(d)
  /\ d.st = c.st /\ d.writing = c.writing
  /\ \A a \in BOOLEAN : \A j \in Slots :
       /\ d.slot[a][j].pic = c.slot[a][j].pic
       /\ ~(a = t /\ j = i) => d.slot[a][j].name = c.slot[a][j].name

LEMMA NameReplaced ==
  ASSUME NEW c \in Camera, NEW t \in BOOLEAN, NEW i \in Slots,
         NEW n \in Item \cup {Empty, Default}, CameraOwn(c), IsOf(n, c.id, t, i)
  PROVE  NameChanged(c, [c EXCEPT !.slot[t][i].name = n], t, i)
<1> DEFINE o == c.slot[t][i]
           e == [o EXCEPT !.name = n]
           d == [c EXCEPT !.slot[t][i] = e]
<1>1. o \in SlotType
  BY DEF Camera, SlotType
<1>2. [c EXCEPT !.slot[t][i].name = n] = d
  OBVIOUS
<1>3. e \in SlotType /\ e.name = n /\ e.pic = o.pic
  <2> HIDE DEF o
  <2> QED BY <1>1 DEF SlotType
<1> HIDE DEF e
<1>4. SlotChanged(c, d, t, i, e) /\ d.st = c.st /\ d.writing = c.writing
  BY <1>3, SlotReplaced
<1> HIDE DEF d
<1>5. d \in Camera /\ d.id = c.id
  BY <1>4 DEF SlotChanged
<1>6. \A a \in BOOLEAN : \A j \in Slots :
        /\ d.slot[a][j].pic = c.slot[a][j].pic
        /\ d.slot[a][j].name = IF a = t /\ j = i THEN n ELSE c.slot[a][j].name
  BY <1>3, <1>4 DEF SlotChanged
<1>7. CameraOwn(d)
  BY <1>5, <1>6 DEF CameraOwn
<1>8. NameChanged(c, d, t, i)
  BY <1>4, <1>5, <1>6, <1>7 DEF NameChanged
<1> QED BY <1>2, <1>8

LEMMA TransportAfter ==
  ASSUME cam \in Camera, NEW r \in Request
  PROVE  /\ StateAfter(r) \in TraceState
         /\ StateAfter(r) # cam.st => r \in Moves \/ r.op = "del"
<1>1. cam.st \in TraceState
  BY DEF Camera
<1>2. \/ StateAfter(r) = cam.st
      \/ /\ r.op \in {"rec", "recStop", "prepare", "play", "playStop", "del"}
         /\ StateAfter(r) \in {"Recording", "ReadyForRecord", "Preparing", "Playing",
                               "ReadyForPlay", "Deleting"}
  BY DEF StateAfter
<1> QED BY <1>1, <1>2 DEF TraceState, Moves

LEMMA NewItem ==
  ASSUME cam \in Camera, NEW t \in BOOLEAN, NEW i \in Slots, NEW x \in NextItem(t, i)
  PROVE  x \in Item /\ IsOf(x, cam.id, t, i)
<1>1. PICK v \in Versions : x = [cam |-> cam.id, trace |-> t, i |-> i, v |-> v]
  BY DEF NextItem
<1>2. cam.id \in Cams
  BY DEF Camera
<1>3. x \in Item /\ x.cam = cam.id /\ x.trace = t /\ x.i = i
  BY <1>1, <1>2 DEF Item
<1> QED BY <1>3 DEF IsOf

\* What a command may do to the camera.
HandledBy(c, d, r) ==
  /\ d \in Camera /\ d.id = c.id /\ CameraOwn(d)
  /\ \A t \in BOOLEAN : \A i \in Slots :
       /\ d.slot[t][i].pic = c.slot[t][i].pic
       /\ r \notin WritesOf(t, i) => d.slot[t][i].name = c.slot[t][i].name
       /\ <<t, i>> \in d.writing => <<t, i>> \in c.writing \/ r \in ReplacesOf(t, i)
  /\ d.st # c.st => r \in Moves \/ r.op = "del"

LEMMA CommandHandled ==
  ASSUME cam \in Camera, CameraOwn(cam), NEW r \in Request, RequestOwn(r, cam.id),
         NEW d \in Handled(r)
  PROVE  HandledBy(cam, d, r)
<1> DEFINE st == StateAfter(r)
           c == [cam EXCEPT !.st = st]
           wr == r.op = "set" \/ (r.op = "rec" /\ c.st # cam.st)
<1>1. /\ wr => \E x \in NextItem(r.trace, r.i) :
           d = [c EXCEPT !.writing = @ \cup {<<r.trace, r.i>>},
                 !.slot[r.trace][r.i].name = IF @ = Empty THEN x ELSE @]
      /\ ~wr /\ r.op = "del" => d = [c EXCEPT !.slot[r.trace][r.i].name = Empty]
      /\ ~wr /\ r.op = "name" => d = [c EXCEPT !.slot[r.trace][r.i].name = r.n]
      /\ ~wr /\ r.op # "del" /\ r.op # "name" => d = c
  BY DEF Handled
<1>2. st \in TraceState /\ (st # cam.st => r \in Moves \/ r.op = "del")
  BY TransportAfter
<1> HIDE DEF st
<1>3. /\ c \in Camera /\ c.id = cam.id /\ c.st = st /\ c.slot = cam.slot
      /\ c.writing = cam.writing
  BY <1>2 DEF Camera
<1> HIDE DEF c
<1>4. CameraOwn(c)
  BY <1>3 DEF CameraOwn
<1>5. r.op \in {"set", "rec", "del", "name"} => r.trace \in BOOLEAN /\ r.i \in Slots
  BY RequestFields
<1>6. ASSUME r.op \in {"set", "rec", "del", "name"}
      PROVE  \A t, i : r \in WritesOf(t, i) <=> t = r.trace /\ i = r.i
  BY <1>6 DEF WritesOf
<1>7. CASE wr
  <2>1. PICK x \in NextItem(r.trace, r.i) :
           d = [c EXCEPT !.writing = @ \cup {<<r.trace, r.i>>},
                 !.slot[r.trace][r.i].name = IF @ = Empty THEN x ELSE @]
    BY <1>1, <1>7
  <2>2. r.op \in {"set", "rec"} /\ r.trace \in BOOLEAN /\ r.i \in Slots
    BY <1>5, <1>7
  <2>3. x \in Item /\ IsOf(x, c.id, r.trace, r.i)
    BY <1>3, <2>2, NewItem
  <2> DEFINE ws == c.writing \cup {<<r.trace, r.i>>}
             b == [c EXCEPT !.writing = ws]
             o == c.slot[r.trace][r.i].name
             n == IF o = Empty THEN x ELSE o
             e == [b EXCEPT !.slot[r.trace][r.i].name = n]
  <2>4. ws \subseteq BOOLEAN \X Slots
    BY <1>3, <2>2 DEF Camera
  <2>5. o \in Item \cup {Empty, Default} /\ IsOf(o, c.id, r.trace, r.i)
    BY <1>3, <1>4, <2>2 DEF Camera, CameraOwn
  <2>6. n \in Item \cup {Empty, Default} /\ IsOf(n, c.id, r.trace, r.i)
    <3> HIDE DEF o
    <3> QED BY <2>3, <2>5
  <2>7. d = e
    BY <2>1, <1>3 DEF Camera
  <2> HIDE DEF ws, n
  <2>8. /\ b \in Camera /\ b.id = c.id /\ b.st = c.st /\ b.slot = c.slot /\ b.writing = ws
    BY <1>3, <2>4 DEF Camera
  <2> HIDE DEF b
  <2>9. CameraOwn(b) /\ IsOf(n, b.id, r.trace, r.i)
    BY <1>4, <2>6, <2>8 DEF CameraOwn
  <2>10. NameChanged(b, e, r.trace, r.i)
    BY <2>2, <2>6, <2>8, <2>9, NameReplaced
  <2> HIDE DEF e
  <2>11. \A t, i : <<t, i>> \in ws => <<t, i>> \in c.writing \/ r \in ReplacesOf(t, i)
    BY <2>2 DEF ws, ReplacesOf
  <2> QED BY <1>2, <1>3, <1>6, <2>2, <2>7, <2>8, <2>10, <2>11 DEF HandledBy, NameChanged
<1>8. CASE ~wr /\ r.op \in {"del", "name"}
  <2> DEFINE n == IF r.op = "del" THEN Empty ELSE r.n
             e == [c EXCEPT !.slot[r.trace][r.i].name = n]
  <2>1. r.trace \in BOOLEAN /\ r.i \in Slots
    BY <1>5, <1>8
  <2>2. n \in Item \cup {Empty, Default} /\ IsOf(n, c.id, r.trace, r.i)
    BY <1>3, <1>8, RequestFields, SentinelsDiffer DEF RequestOwn, IsOf
  <2>3. d = e
    BY <1>1, <1>8
  <2> HIDE DEF n
  <2>4. NameChanged(c, e, r.trace, r.i)
    BY <1>3, <1>4, <2>1, <2>2, NameReplaced
  <2> HIDE DEF e
  <2> QED BY <1>2, <1>3, <1>6, <1>8, <2>3, <2>4 DEF HandledBy, NameChanged
<1>9. CASE ~wr /\ r.op \notin {"del", "name"}
  <2>1. d = c
    BY <1>1, <1>9
  <2> QED BY <1>2, <1>3, <1>4, <2>1 DEF HandledBy
<1> QED BY <1>7, <1>8, <1>9

LEMMA InvCommand ==
  ASSUME PresetInv, NEW taken \in BOOLEAN, Command(taken)
  PROVE  PresetInv'
<1>1. /\ PresetTypeOK /\ Sound(p, queue, timers, cam, suspect)
      /\ p \in Panel /\ queue \in Seq(Request) /\ timers \in Seq(Timer)
      /\ cam \in Camera /\ suspect \in Suspect /\ suspect.transport \in BOOLEAN
      /\ p.page \in Slots /\ p.trace \in BOOLEAN
  BY DEF PresetInv, PresetTypeOK, Panel, Suspect
<1> DEFINE h == Head(queue)
           n == Tail(queue)
           moved == suspect.transport \/ (h.op = "del" /\ cam'.st # cam.st)
           k == taken \/ p.client = "connecting"
<1>2. /\ Succeeds(k) /\ queue # << >> /\ h.op \in Commands
      /\ cam' \in (IF taken THEN Handled(h) ELSE {cam})
      /\ suspect' = [suspect EXCEPT !.transport = moved]
      /\ queue' = n /\ UNCHANGED <<p, timers>>
  BY DEF Command
<1>3. moved \in BOOLEAN /\ k \in BOOLEAN
  BY <1>1
<1>4. /\ moved <=> suspect.transport \/ (h.op = "del" /\ cam'.st # cam.st)
  OBVIOUS
<1> HIDE DEF moved, k
<1>5. /\ suspect' \in Suspect /\ suspect'.names = suspect.names
      /\ suspect'.pics = suspect.pics /\ suspect'.transport = moved
  BY <1>1, <1>2, <1>3 DEF Suspect
<1>6. done' \in DoneType
  BY <1>1, <1>2, <1>3, SucceedsDone
<1>7. Popped(queue, n) /\ h \in Request
  BY <1>1, <1>2, Answered
<1> HIDE DEF n
<1>8. CameraOwn(cam) /\ RequestOwn(h, cam.id)
  BY <1>1, <1>7 DEF Sound, Shows, Keeps, Owns, Popped
<1>9. /\ h \notin Queries
      /\ \A t, i : h \notin ReadsOf(t, i) /\ h \notin ThumbsOf(t, i)
  BY <1>2 DEF Queries, ReadsOf, ThumbsOf, Commands
<1>10. HandledBy(cam, cam', h)
  <2>1. CASE taken
    BY <1>1, <1>2, <1>7, <1>8, <2>1, CommandHandled
  <2>2. CASE ~taken
    <3>1. cam' = cam
      BY <1>2, <2>2
    <3> QED BY <1>1, <1>8, <3>1 DEF HandledBy
  <2> QED BY <2>1, <2>2
<1>11. /\ Keeps(p, n, cam, suspect) /\ NameRead(p, n, timers, cam, suspect)
       /\ PictureRead(p, n, timers, cam, suspect)
       /\ StateAsked(p, n, timers, cam, suspect)
  BY <1>1, <1>7, <1>9, AnsweredElsewhere
<1>12. \A t \in BOOLEAN : \A i \in Slots :
         Lasting(queue, cam, t, i) => Lasting(n, cam', t, i)
  BY <1>7, <1>10 DEF Lasting, Popped, HandledBy
<1>13. Owns(p, n, cam')
  BY <1>10, <1>11 DEF Keeps, Owns, HandledBy
<1>14. CacheFresh(p, n, cam', suspect')
  <2> SUFFICES ASSUME NEW i \in Slots, p.thumbs[i] # Unread,
                      <<p.trace, i>> \notin suspect'.pics
               PROVE  p.thumbs[i] = cam'.slot[p.trace][i].pic /\ Lasting(n, cam', p.trace, i)
    BY DEF CacheFresh
  <2>1. p.thumbs[i] = cam.slot[p.trace][i].pic /\ Lasting(queue, cam, p.trace, i)
    BY <1>1, <1>5 DEF Sound, Shows, Keeps, CacheFresh
  <2>2. cam'.slot[p.trace][i].pic = cam.slot[p.trace][i].pic
    BY <1>1, <1>10 DEF HandledBy
  <2> QED BY <1>1, <1>12, <2>1, <2>2

<1>16. Reads(p, n, timers, cam', suspect')
  <2>1. CASE h \in WritesOf(p.trace, p.page)
    <3>1. p.client = "open" => ~Read(n, timers, p.trace, p.page)
      BY <1>1, <1>7, <2>1 DEF Sound, Shows, Reads, NameRead, Read, Popped
    <3> QED BY <1>5, <1>11, <3>1 DEF NameRead, PictureRead, Reads
  <2>2. CASE h \notin WritesOf(p.trace, p.page)
    <3>1. /\ cam'.slot[p.trace][p.page].name = cam.slot[p.trace][p.page].name
          /\ cam'.slot[p.trace][p.page].pic = cam.slot[p.trace][p.page].pic
      BY <1>1, <1>10, <2>2 DEF HandledBy
    <3>2. NameRead(p, n, timers, cam', suspect')
      BY <1>5, <1>11, <3>1 DEF NameRead
    <3>3. Read(n, timers, p.trace, p.page) => Read(queue, timers, p.trace, p.page)
      BY <1>7, <1>9 DEF Read, Popped
    <3>4. ~Has(n, ThumbsOf(p.trace, p.page)) => ~Has(queue, ThumbsOf(p.trace, p.page))
      BY <1>7, <1>9 DEF Popped
    <3>5. PictureRead(p, n, timers, cam', suspect')
      BY <1>1, <1>5, <1>12, <3>1, <3>3, <3>4 DEF Sound, Shows, Reads, PictureRead
    <3> QED BY <3>2, <3>5 DEF Reads
  <2> QED BY <2>1, <2>2
<1>17. StateAsked(p, n, timers, cam', suspect')
  <2>1. CASE h \in Moves
    BY <1>1, <1>7, <2>1 DEF Sound, StateAsked, Popped
  <2>2. CASE h \notin Moves
    <3>1. cam'.st = cam.st \/ moved
      BY <1>4, <1>10, <2>2 DEF HandledBy
    <3>2. suspect.transport => moved
      BY <1>4
    <3> QED BY <1>5, <1>11, <3>1, <3>2 DEF StateAsked
  <2> QED BY <2>1, <2>2
<1>18. Sound(p', queue', timers', cam', suspect')
  BY <1>2, <1>13, <1>14, <1>16, <1>17 DEF Sound, Shows, Keeps
<1>19. cam' \in Camera /\ n \in Seq(Request)
  BY <1>7, <1>10 DEF HandledBy, Popped
<1> QED BY <1>1, <1>2, <1>5, <1>6, <1>18, <1>19, PlainStep

LEMMA InvMoves ==
  ASSUME PresetInv, TransportMoves
  PROVE  PresetInv'
<1>1. /\ PresetTypeOK /\ Sound(p, queue, timers, cam, suspect)
      /\ p \in Panel /\ queue \in Seq(Request) /\ timers \in Seq(Timer)
      /\ cam \in Camera /\ suspect \in Suspect /\ done \in DoneType
  BY DEF PresetInv, PresetTypeOK, DoneType
<1> DEFINE yes == TRUE
<1>2. /\ suspect' = [suspect EXCEPT !.transport = yes]
      /\ UNCHANGED <<p, queue, timers, done>>
  BY DEF TransportMoves
<1>3. PICK to \in {"ReadyForPlay", "None"} : cam' = [cam EXCEPT !.st = to]
  BY DEF TransportMoves
<1>4. yes \in BOOLEAN /\ yes = TRUE
  OBVIOUS
<1> HIDE DEF yes
<1>5. /\ suspect' \in Suspect /\ suspect'.names = suspect.names
      /\ suspect'.pics = suspect.pics /\ suspect'.transport = yes
  BY <1>1, <1>2, <1>4 DEF Suspect
<1>6. /\ cam' \in Camera /\ cam'.id = cam.id /\ cam'.slot = cam.slot
      /\ cam'.writing = cam.writing
  BY <1>1, <1>3 DEF Camera, TraceState
<1>7. Owns(p, queue, cam') /\ CacheFresh(p, queue, cam', suspect')
  BY <1>1, <1>5, <1>6
  DEF Sound, Shows, Keeps, Owns, CameraOwn, CacheFresh, Lasting
<1>8. NameRead(p, queue, timers, cam', suspect') /\ PictureRead(p, queue, timers, cam', suspect')
  BY <1>1, <1>5, <1>6 DEF Sound, Shows, Reads, NameRead, PictureRead, Lasting
<1>9. StateAsked(p, queue, timers, cam', suspect')
  BY <1>1, <1>4, <1>5 DEF Sound, StateAsked
<1>10. Sound(p', queue', timers', cam', suspect')
  BY <1>2, <1>7, <1>8, <1>9 DEF Sound, Shows, Keeps, Reads
<1> QED BY <1>1, <1>2, <1>5, <1>6, <1>10, PlainStep

LEMMA InvWritten ==
  ASSUME PresetInv, PictureWritten
  PROVE  PresetInv'
<1>1. /\ PresetTypeOK /\ Sound(p, queue, timers, cam, suspect)
      /\ p \in Panel /\ queue \in Seq(Request) /\ timers \in Seq(Timer)
      /\ cam \in Camera /\ suspect \in Suspect /\ done \in DoneType
      /\ p.trace \in BOOLEAN /\ p.page \in Slots
  BY DEF PresetInv, PresetTypeOK, DoneType, Panel
<1>2. UNCHANGED <<p, queue, timers, suspect, done>>
  BY DEF PictureWritten
<1>3. PICK w \in cam.writing : \E x \in NextItem(w[1], w[2]) :
        cam' = [cam EXCEPT !.writing = @ \ {w}, !.slot[w[1]][w[2]].pic = x]
  BY DEF PictureWritten
<1> DEFINE t == w[1]
           i == w[2]
<1>4. w \in BOOLEAN \X Slots
  BY <1>1 DEF Camera
<1>5. t \in BOOLEAN /\ i \in Slots /\ w = <<t, i>>
  BY <1>4
<1> HIDE DEF t, i
<1>6. PICK x \in NextItem(t, i) :
        cam' = [cam EXCEPT !.writing = @ \ {w}, !.slot[t][i].pic = x]
  BY <1>3 DEF t, i
<1>7. x \in Item /\ IsOf(x, cam.id, t, i)
  BY <1>1, <1>5, NewItem
<1> DEFINE ws == cam.writing \ {w}
           b == [cam EXCEPT !.writing = ws]
           o == cam.slot[t][i]
           e == [o EXCEPT !.pic = x]
           d == [b EXCEPT !.slot[t][i] = e]
<1>8. cam' = d
  BY <1>1, <1>6 DEF Camera
<1>9. ws \subseteq BOOLEAN \X Slots
  BY <1>1 DEF Camera
<1>10. o \in SlotType
  BY <1>1, <1>5 DEF Camera, SlotType
<1>11. e \in SlotType /\ e.pic = x /\ e.name = o.name
  <2> HIDE DEF o
  <2> QED BY <1>7, <1>10 DEF SlotType
<1>12. \A key : key \in ws <=> key \in cam.writing /\ key # w
  OBVIOUS
<1> HIDE DEF ws, e
<1>13. /\ b \in Camera /\ b.id = cam.id /\ b.slot = cam.slot /\ b.writing = ws
       /\ b.st = cam.st
  BY <1>1, <1>9 DEF Camera
<1> HIDE DEF b
<1>14. SlotChanged(b, d, t, i, e) /\ d.st = b.st /\ d.writing = b.writing
  BY <1>5, <1>11, <1>13, SlotReplaced
<1> HIDE DEF d
<1>15. /\ cam' \in Camera /\ cam'.id = cam.id /\ cam'.st = cam.st /\ cam'.writing = ws
       /\ \A a \in BOOLEAN : \A j \in Slots :
            /\ cam'.slot[a][j].name = cam.slot[a][j].name
            /\ cam'.slot[a][j].pic = IF a = t /\ j = i THEN x ELSE cam.slot[a][j].pic
  BY <1>8, <1>11, <1>13, <1>14 DEF SlotChanged
<1>16. CameraOwn(cam')
  BY <1>1, <1>7, <1>15 DEF Sound, Shows, Keeps, Owns, CameraOwn
<1>17. \A a \in BOOLEAN : \A j \in Slots : Lasting(queue, cam, a, j) =>
         Lasting(queue, cam', a, j) /\ cam'.slot[a][j].pic = cam.slot[a][j].pic
  BY <1>5, <1>12, <1>15 DEF Lasting
<1>18. Owns(p, queue, cam')
  BY <1>1, <1>15, <1>16 DEF Sound, Shows, Keeps, Owns
<1>19. CacheFresh(p, queue, cam', suspect)
  BY <1>1, <1>17 DEF Sound, Shows, Keeps, CacheFresh
<1>20. NameRead(p, queue, timers, cam', suspect)
  BY <1>1, <1>15 DEF Sound, Shows, Reads, NameRead
<1>21. PictureRead(p, queue, timers, cam', suspect)
  BY <1>1, <1>15, <1>17 DEF Sound, Shows, Reads, PictureRead
<1>22. StateAsked(p, queue, timers, cam', suspect)
  BY <1>1, <1>15 DEF Sound, StateAsked
<1>23. Sound(p', queue', timers', cam', suspect')
  BY <1>2, <1>18, <1>19, <1>20, <1>21, <1>22 DEF Sound, Shows, Keeps, Reads
<1> QED BY <1>1, <1>2, <1>15, <1>23, PlainStep

------------------------------------------------------------------------------
(* The theorems.                                                           *)

LEMMA PresetInvInit == PresetInit => PresetInv
<1> SUFFICES ASSUME PresetInit PROVE PresetInv
  OBVIOUS
<1> DEFINE no == FALSE
           yes == TRUE
           none == [i \in Slots |-> Unread]
           b == [primary |-> no, secondary |-> no, delete |-> no,
                 rename |-> no, pages |-> yes]
<1>1. /\ p = [trace |-> no, client |-> "null", edit |-> no, page |-> 0,
              sel |-> -1, info |-> none, thumbs |-> none, name |-> Default,
              thumb |-> Blank, state |-> "None", crashed |-> no, btn |-> b]
      /\ queue = << >> /\ timers = << >> /\ suspect = Trusted
      /\ done = [acts |-> 0, faults |-> 0]
  BY DEF PresetInit
<1>2. no \in BOOLEAN /\ yes \in BOOLEAN
  OBVIOUS
<1> HIDE DEF no, yes
<1>3. b \in Buttons
  BY <1>2 DEF Buttons
<1>4. /\ none \in [Slots -> Item \cup {Empty, Default, Unread}]
      /\ none \in [Slots -> Item \cup {Unread}]
      /\ \A i \in Slots : none[i] = Unread
  OBVIOUS
<1> HIDE DEF b, none
<1>5. p \in Panel
  BY <1>1, <1>2, <1>3, <1>4, PresetAssumption DEF Panel, TraceState
<1>6. /\ p.client = "null" /\ p.info = none /\ p.thumbs = none /\ p.name = Default
      /\ p.thumb = Blank /\ p.sel = -1
  BY <1>1
<1>7. PICK c \in Cams : cam = FreshCamera(c)
  BY DEF PresetInit
<1>8. cam \in Camera /\ CameraOwn(cam)
  BY <1>7, FreshType
<1>9. queue \in Seq(Request) /\ timers \in Seq(Timer) /\ QueueOwn(queue, cam.id)
  BY <1>1, EmptyQueue
<1>10. done \in [acts : 0..MaxActs, faults : 0..MaxFaults] /\ suspect \in Suspect
  BY <1>1, TrustedType, PresetAssumption
<1>11. Default \notin Item /\ Blank \notin Item /\ Unread \notin Item
  BY SentinelsDiffer
<1>12. Owns(p, queue, cam) /\ CacheFresh(p, queue, cam, suspect)
  BY <1>4, <1>6, <1>8, <1>9, <1>11
  DEF Owns, PanelOwn, CacheOwn, IsOf, CacheFresh
<1>13. /\ NameRead(p, queue, timers, cam, suspect)
       /\ PictureRead(p, queue, timers, cam, suspect)
       /\ StateAsked(p, queue, timers, cam, suspect)
  BY <1>6 DEF NameRead, PictureRead, StateAsked
<1> QED BY <1>5, <1>8, <1>9, <1>10, <1>12, <1>13
        DEF PresetInv, PresetTypeOK, Sound, Shows, Keeps, Reads

LEMMA PresetInvNext == PresetInv /\ [PresetNext]_presetVars => PresetInv'
<1> SUFFICES ASSUME PresetInv, [PresetNext]_presetVars PROVE PresetInv'
  OBVIOUS
<1>1. CASE UNCHANGED presetVars
  BY <1>1 DEF presetVars, PresetInv, PresetTypeOK
<1>2. CASE Operator
  <2>1. ASSUME NEW t \in BOOLEAN, setTraceMode(t) PROVE PresetInv'
    BY <2>1, InvMode
  <2>2. ASSUME NEW page \in Slots, PageClicked(page) PROVE PresetInv'
    BY <2>2, InvPage
  <2>3. ASSUME onSlotClicked \/ Recall \/ RecordStop \/ RecordStart \/ PresetSet
        PROVE  PresetInv'
    BY <2>3, InvClick, InvRecall, InvRecordStop, InvRecordStart, InvPresetSet
  <2>4. ASSUME Transport \/ Delete \/ beginRename \/ commitRename PROVE PresetInv'
    BY <2>4, InvTransport, InvDelete, InvBegin, InvCommit
  <2>5. ASSUME NEW n \in Texts, Types(n) PROVE PresetInv'
    BY <2>5, InvTypes
  <2>6. ASSUME NEW c \in Cams, setClient(c) PROVE PresetInv'
    BY <2>6, InvClient
  <2> QED BY <1>2, <2>1, <2>2, <2>3, <2>4, <2>5, <2>6 DEF Operator
<1>3. CASE Timeout \/ CameraInfo
  BY <1>3, InvTimeout, InvCameraInfo
<1>4. CASE TransportMoves \/ PictureWritten
  BY <1>4, InvMoves, InvWritten
<1>5. ASSUME NEW ok \in BOOLEAN,
             Connect(ok) \/ Command(ok) \/ InfoReply(ok) \/ ThumbReply(ok)
             \/ onTraceState(ok)
      PROVE  PresetInv'
  BY <1>5, InvConnect, InvCommand, InvInfo, InvThumb, InvTraceState
<1> QED BY <1>1, <1>2, <1>3, <1>4, <1>5 DEF PresetNext

LEMMA PresetInvariance == PresetSpec => []PresetInv
<1> QED BY PresetInvInit, PresetInvNext, PTL DEF PresetSpec

\* The panel, its queue, its timers and the camera have their types, whatever the
\* operator does.
THEOREM PresetTyping == PresetSpec => []PresetTypeOK
<1>1. PresetInv => PresetTypeOK
  BY DEF PresetInv
<1> QED BY <1>1, PresetInvariance, PTL

\* What the slot shows belongs to the slot, the family and the camera that are
\* shown: no reply of another one is painted (applySlotInfo, setClient).
THEOREM OwnSlotShown == PresetSpec => []SlotShowsOwn
<1>1. PresetInv => SlotShowsOwn
  BY DEF PresetInv, PresetTypeOK, Panel, Sound, Shows, Keeps, Owns, PanelOwn, IsOf,
         SlotShowsOwn
<1> QED BY <1>1, PresetInvariance, PTL

LEMMA QuietQueue ==
  ASSUME Quiet
  PROVE  /\ \A A : ~Has(queue, A) /\ ~Has(timers, A)
         /\ p.client = "open" /\ ~p.edit
BY EmptyQueue DEF Quiet

\* Once everything has been answered the name is the camera's: every request that
\* changes it is followed by a reading, or by a timer that reads (commitRename,
\* loadSlot).
THEOREM NameIsRead == PresetSpec => []NameSettles
<1>1. ASSUME PresetInv, Quiet, Here \notin suspect.names
      PROVE  p.name = Label(cam.slot[p.trace][p.page].name)
  BY <1>1, QuietQueue DEF PresetInv, Sound, Shows, Reads, NameRead, Read, Here
<1>2. PresetInv => NameSettles
  BY <1>1 DEF NameSettles
<1> QED BY <1>2, PresetInvariance, PTL

\* Once everything has been answered the picture is the camera's: a picture of the
\* cache that nothing has marked as suspect is not going to be replaced
\* (DropThumbnail, applySlotInfo).
THEOREM PictureIsRead == PresetSpec => []PictureSettles
<1>1. ASSUME PresetInv, Quiet, Here \notin suspect.names \cup suspect.pics,
             cam.slot[p.trace][p.page].name # Empty
      PROVE  p.thumb = cam.slot[p.trace][p.page].pic
  BY <1>1, QuietQueue DEF PresetInv, Sound, Shows, Reads, PictureRead, Read, Here
<1>2. PresetInv => PictureSettles
  BY <1>1 DEF PictureSettles
<1> QED BY <1>2, PresetInvariance, PTL

\* Once everything has been answered the panel knows the state of the transport:
\* every command to it is followed by a question, or by a timer that asks
\* (refreshTraceState).
THEOREM TransportIsKnown == PresetSpec => []TransportKnown
<1>1. ASSUME PresetInv, Quiet, p.trace, ~suspect.transport
      PROVE  p.state = cam.st
  BY <1>1, QuietQueue DEF PresetInv, Sound, StateAsked
<1>2. PresetInv => TransportKnown
  BY <1>1 DEF TransportKnown
<1> QED BY <1>2, PresetInvariance, PTL
=============================================================================

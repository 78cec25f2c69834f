---------------------------- MODULE SettingsEngine ----------------------------
(***************************************************************************)
(* ZcSettingsEngine (zc_settings_engine.cpp) and the rows of the settings  *)
(* panel (ZcSettingsPanel, zc_control_dock.cpp): catalogs are read in one  *)
(* request or, when that fails, key by key; keys are written; what a write *)
(* may have changed elsewhere is read again; the rows show what was read.  *)
(*                                                                         *)
(* Requests are answered one at a time and in order (module SerialChannel, *)
(* which HttpTransport implements), so the camera's handling of a request  *)
(* and the callback of its reply are one step.  The methods are operators  *)
(* from the state e of engine and panel to its next state.                 *)
(*                                                                         *)
(* A row shows the value that was read: a camera's value is one of the     *)
(* choices, or inside the range, that the same reply gives for the key.    *)
(***************************************************************************)
EXTENDS Naturals, Sequences, FiniteSets

CONSTANTS
  Keys, Catalogs, Values,
  Empty,     \* the empty string, which is also all the camera says of a key
             \* that it does not support
  None,      \* nothing cached, no row, no catalog
  Schema,    \* the keys of each catalog in zc::catalogs(), in order
  Reported,  \* the keys the camera lists for each catalog
  Cameras,   \* the settings of the cameras when they are opened
  ReadOnly,  \* keys the camera marks as read-only
  Targets,   \* the catalogs to read again after a write of each key, in order
  PtzKeys,   \* the keys that the preset panel reads, in order
  MaxQueue,  \* the operator acts only while the queue is shorter than this
  MaxJobs    \* how many catalogs are being read key by key at one time

RangeOf(q) == {q[i] : i \in 1..Len(q)}

KeysOf(c) == Reported[c] \cup RangeOf(Schema[c])

ASSUME SettingsShape ==
  /\ Schema \in [Catalogs -> Seq(Keys)]
  /\ Reported \in [Catalogs -> SUBSET Keys]
  /\ Cameras \subseteq [Keys -> Values \cup {Empty}]
  /\ ReadOnly \subseteq Keys
  /\ Targets \in [Keys -> Seq(Catalogs)]
  /\ PtzKeys \in Seq(Keys)
  /\ MaxQueue \in Nat /\ MaxJobs \in Nat
  /\ Empty \notin Values /\ None \notin Values \cup {Empty} \cup Catalogs

\* No key is in two catalogs, neither of the schema nor of what the camera lists.
ASSUME CatalogsDisjoint ==
  \A c, d \in Catalogs : c # d => KeysOf(c) \cap KeysOf(d) = {}

VARIABLES
  e,      \* the client with its engine, the panel, and three histories:
          \* owed: group reads not announced yet, per catalog;
          \* suspect: keys that the engine has no reason to know;
          \* lag: keys whose row has no reason to be right
  camera  \* the camera's settings; Empty where it does not support the key

vars == <<e, camera>>

Jobs == 1..MaxJobs

NoJob == [catalog |-> None, pending |-> 0, ok |-> {}]

Texts == Values \cup {Empty}

\* A ZcSettingValue, up to its type and range.
Defs == [value : Texts, supported : BOOLEAN, ro : BOOLEAN]

\* A key of which nothing is known is told from one that was read.
ASSUME NoneIsNew == None \notin Defs

GetBatch(c) == [op |-> "getbatch", arg |-> c, value |-> None, job |-> 0]
Get(k, j) == [op |-> "get", arg |-> k, value |-> None, job |-> j]
Set(k, v) == [op |-> "set", arg |-> k, value |-> v, job |-> 0]
Info == [op |-> "info", arg |-> None, value |-> None, job |-> 0]

\* A client that was just created, in a panel that shows catalog c.
Fresh(c) ==
  [open |-> FALSE, queue |-> <<>>, jobs |-> [j \in Jobs |-> NoJob],
   values |-> [k \in Keys |-> None], defs |-> [k \in Keys |-> None],
   groupKeys |-> [d \in Catalogs |-> {}],
   catalog |-> c, rows |-> [k \in Keys |-> None],
   owed |-> [d \in Catalogs |-> 0], suspect |-> {}, lag |-> {}]

Init ==
  /\ \E c \in Catalogs : e = Fresh(c)
  /\ camera = [k \in Keys |-> Empty]

------------------------------------------------------------------------------
(* ZcSettingsPanel: the rows.                                              *)

BuildRows(s, c) ==
  [s EXCEPT !.rows =
    [k \in Keys |->
      IF /\ s.open
         /\ k \in s.groupKeys[c]
         /\ s.defs[k] # None
         /\ s.defs[k].supported
         /\ ~s.defs[k].ro
        THEN s.defs[k].value
        ELSE None]]

\* Mutant: the reply of a group that was left is painted too.
OnGroupRefreshedAny(s, c) == BuildRows(s, c)

OnGroupRefreshed(s, c) == IF c = s.catalog THEN BuildRows(s, c) ELSE s

------------------------------------------------------------------------------
(* ZcSettingsEngine.                                                       *)

\* The engine stores a group's keys and emits groupRefreshed.
GroupRead(s, c, keys) ==
  OnGroupRefreshed([s EXCEPT !.groupKeys[c] = keys,
                             !.owed[c] = @ - 1], c)

\* The read will follow everything that is now in the queue: when it has been
\* answered the rows of its catalog are right again.
ReadGroup(s, c) ==
  [s EXCEPT !.queue = Append(@, GetBatch(c)),
            !.owed[c] = @ + 1,
            !.lag = @ \ KeysOf(c)]

FreeJobs(s) == {j \in Jobs : s.jobs[j].pending = 0}

ReadGroupByKeys(s, c) ==
  IF Schema[c] = <<>>
    THEN GroupRead(s, c, {})
    ELSE LET j == CHOOSE j \in FreeJobs(s) : TRUE
         IN  [s EXCEPT
               !.queue = @ \o [i \in 1..Len(Schema[c]) |-> Get(Schema[c][i], j)],
               !.jobs[j] = [catalog |-> c, pending |-> Len(Schema[c]), ok |-> {}]]

\* What the camera says of a key, and what is left of a reply that is no JSON.
Answer(k) ==
  [value |-> camera[k], supported |-> camera[k] # Empty, ro |-> k \in ReadOnly]

NoAnswer == [value |-> Empty, supported |-> TRUE, ro |-> FALSE]

\* Mutant: the definition of a key is stored once.
ApplyBatchKeepsDefs(s, c) ==
  GroupRead([s EXCEPT
      !.values = [k \in Keys |-> IF k \in Reported[c] THEN camera[k] ELSE @[k]],
      !.defs = [k \in Keys |->
                 IF k \in Reported[c] /\ @[k] = None THEN Answer(k) ELSE @[k]],
      !.suspect = @ \ Reported[c]],
    c, Reported[c])

ApplyBatch(s, c) ==
  GroupRead([s EXCEPT
      !.values = [k \in Keys |-> IF k \in Reported[c] THEN camera[k] ELSE @[k]],
      !.defs = [k \in Keys |-> IF k \in Reported[c] THEN Answer(k) ELSE @[k]],
      !.suspect = @ \ Reported[c]],
    c, Reported[c])

StoreKey(s, k, def) ==
  [s EXCEPT !.values[k] = def.value, !.defs[k] = def]

\* Mutant: only keys that the camera supports are counted.
KeyDoneSupported(s, k, def, j) ==
  LET ok == s.jobs[j].ok \cup {k}
  IN  IF j = 0 \/ ~def.supported THEN s
      ELSE IF s.jobs[j].pending = 1
        THEN GroupRead([s EXCEPT !.jobs[j] = NoJob], s.jobs[j].catalog, ok)
        ELSE [s EXCEPT !.jobs[j].pending = @ - 1, !.jobs[j].ok = ok]

\* The callback that readGroupByKeys() gives to readKey().
KeyDone(s, k, def, j) ==
  LET ok == IF def.supported THEN s.jobs[j].ok \cup {k} ELSE s.jobs[j].ok
  IN  IF j = 0 THEN s
      ELSE IF s.jobs[j].pending = 1
        THEN GroupRead([s EXCEPT !.jobs[j] = NoJob], s.jobs[j].catalog, ok)
        ELSE [s EXCEPT !.jobs[j].pending = @ - 1, !.jobs[j].ok = ok]

\* readGroup() for every target of the key, in order.
ApplyDependencies(s, k) ==
  [s EXCEPT
    !.queue = @ \o [i \in 1..Len(Targets[k]) |-> GetBatch(Targets[k][i])],
    !.owed = [c \in Catalogs |->
                @[c] + Cardinality({i \in 1..Len(Targets[k]) : Targets[k][i] = c})],
    !.lag = @ \ UNION {KeysOf(c) : c \in RangeOf(Targets[k])}]

\* Mutant: nothing is read again after a write.
WriteDoneAlone(s, k, v) == [s EXCEPT !.values[k] = v]

\* The reply to a write was 200.
WriteDone(s, k, v) == ApplyDependencies([s EXCEPT !.values[k] = v], k)

------------------------------------------------------------------------------
(* Replies.  The request at the head of the queue is answered.             *)

Answering(op) == e.open /\ e.queue # <<>> /\ Head(e.queue).op = op

Popped == [e EXCEPT !.queue = Tail(@)]

GetBatchListed ==
  /\ Answering("getbatch")
  /\ Reported[Head(e.queue).arg] # {}
  /\ e' = ApplyBatch(Popped, Head(e.queue).arg)
  /\ UNCHANGED camera

\* No reply, no JSON, or no cfgs.
GetBatchFailed ==
  /\ Answering("getbatch")
  /\ FreeJobs(e) # {}
  /\ e' = ReadGroupByKeys(Popped, Head(e.queue).arg)
  /\ UNCHANGED camera

GetAnswered ==
  /\ Answering("get")
  /\ LET k == Head(e.queue).arg
     IN  e' = KeyDone([StoreKey(Popped, k, Answer(k)) EXCEPT !.suspect = @ \ {k}],
                      k, Answer(k), Head(e.queue).job)
  /\ UNCHANGED camera

GetFailed ==
  /\ Answering("get")
  /\ LET k == Head(e.queue).arg
     IN  e' = KeyDone([StoreKey(Popped, k, NoAnswer) EXCEPT !.suspect = @ \cup {k},
                                                            !.lag = @ \cup {k}],
                      k, NoAnswer, Head(e.queue).job)
  /\ UNCHANGED camera

\* A write of a key may change the keys of the catalogs that depend on it: what
\* both ways to read such a catalog would read again.
Coupled(k) ==
  UNION {Reported[c] \cap RangeOf(Schema[c]) : c \in RangeOf(Targets[k])}

\* The camera takes the value, which is not the empty string.
Takes(k, v) ==
  /\ camera[k] # Empty /\ v # Empty
  /\ \E new \in [Coupled(k) \ {k} -> Values] :
       camera' = [x \in Keys |->
                   IF x = k THEN v
                   ELSE IF x \in DOMAIN new /\ camera[x] # Empty THEN new[x]
                   ELSE camera[x]]

SetTaken ==
  /\ Answering("set")
  /\ LET r == Head(e.queue)
     IN  /\ Takes(r.arg, r.value)
         /\ e' = WriteDone([Popped EXCEPT !.suspect = @ \ {r.arg}], r.arg, r.value)

\* Refused in the body of a reply that is 200.
SetRefused ==
  /\ Answering("set")
  /\ LET r == Head(e.queue)
     IN  e' = [WriteDone([Popped EXCEPT !.suspect = @ \cup {r.arg}], r.arg, r.value)
                 EXCEPT !.lag = @ \cup {r.arg}]
  /\ UNCHANGED camera

\* Any other reply, or none, from a camera that did not take the value ...
SetFailed ==
  /\ Answering("set")
  /\ e' = [Popped EXCEPT !.lag = @ \cup {Head(e.queue).arg}]
  /\ UNCHANGED camera

\* ... and from one that did.
SetUnheard ==
  /\ Answering("set")
  /\ LET r == Head(e.queue)
         touched == {r.arg} \cup Coupled(r.arg)
     IN  /\ Takes(r.arg, r.value)
         /\ e' = [Popped EXCEPT !.suspect = @ \cup touched, !.lag = @ \cup touched]

\* ZcPresetPanel::refresh(): a readSetting() for each of its keys.
PresetRefresh(s) ==
  [s EXCEPT !.queue = @ \o [i \in 1..Len(PtzKeys) |-> Get(PtzKeys[i], 0)]]

\* The reply of /info: the panel rebuilds its rows and reads its group again;
\* then the presets are read if the camera has a pan/tilt head.
InfoAnswered(ptz) ==
  /\ Answering("info")
  /\ LET s == ReadGroup(BuildRows(Popped, e.catalog), e.catalog)
     IN  e' = IF ptz THEN PresetRefresh(s) ELSE s
  /\ UNCHANGED camera

InfoFailed ==
  /\ Answering("info")
  /\ e' = Popped
  /\ UNCHANGED camera

Reply ==
  \/ GetBatchListed \/ GetBatchFailed \/ GetAnswered \/ GetFailed
  \/ SetTaken \/ SetRefused \/ SetFailed \/ SetUnheard
  \/ (\E ptz \in BOOLEAN : InfoAnswered(ptz)) \/ InfoFailed

------------------------------------------------------------------------------
(* The operator, the dock and the camera.                                  *)

Room == Len(e.queue) < MaxQueue

OnGroupSelected(c) ==
  /\ c # e.catalog
  /\ Room
  /\ LET s == BuildRows([e EXCEPT !.catalog = c], c)
     IN  e' = IF e.open THEN ReadGroup(s, c) ELSE s
  /\ UNCHANGED camera

RefreshGroup ==
  /\ e.open
  /\ Room
  /\ e' = ReadGroup(e, e.catalog)
  /\ UNCHANGED camera

\* The operator changes what a row shows: a slider that is moved, text that is
\* typed.  Nothing is written; the wheel, a key or a click on the groove of a
\* slider end here.
Adjust(k, v) ==
  /\ e.rows[k] \notin {None, v}
  /\ e' = [e EXCEPT !.rows[k] = v, !.lag = @ \cup {k}]
  /\ UNCHANGED camera

\* What a row shows is written: a slider is let go after a drag, or a text has
\* been edited; a combo box is an Adjust with a Commit at once.  A read of the
\* group that was asked for before will be answered before the write, and will
\* rebuild the row.
Commit(k) ==
  /\ e.rows[k] # None
  /\ Room
  /\ e' = [e EXCEPT
            !.queue = Append(@, Set(k, e.rows[k])),
            !.lag = IF e.owed[e.catalog] > 0 THEN @ \cup {k} ELSE @ \ {k}]
  /\ UNCHANGED camera

\* ZcControlDock::openCamera() on a camera that answers: a new client; the
\* preset panel reads its keys, connect() asks for /info, and the settings
\* panel reads the group that it shows ...
OpenCamera ==
  /\ camera' \in Cameras
  /\ LET s == PresetRefresh([Fresh(e.catalog) EXCEPT !.open = TRUE])
     IN  e' = ReadGroup([s EXCEPT !.queue = Append(@, Info)], e.catalog)

\* ... and on one that does not: no client.
OpenFailed ==
  /\ e.open
  /\ e' = Fresh(e.catalog)
  /\ UNCHANGED camera

\* Somebody changes a setting at the camera.  The event that it sends reaches
\* no panel.
CameraChanged(k) ==
  /\ camera[k] # Empty
  /\ \E v \in Values \ {camera[k]} : camera' = [camera EXCEPT ![k] = v]
  /\ e' = [e EXCEPT !.suspect = @ \cup {k}, !.lag = @ \cup {k}]

Next ==
  \/ Reply
  \/ RefreshGroup \/ OpenCamera \/ OpenFailed
  \/ \E c \in Catalogs : OnGroupSelected(c)
  \/ \E k \in Keys :
       CameraChanged(k) \/ Commit(k) \/ \E v \in Texts : Adjust(k, v)

Spec == Init /\ [][Next]_vars

------------------------------------------------------------------------------
(* Properties.                                                             *)

Requests ==
  {GetBatch(c) : c \in Catalogs} \cup {Get(k, j) : k \in Keys, j \in {0} \cup Jobs}
    \cup {Set(k, v) : k \in Keys, v \in Texts} \cup {Info}

\* Type invariant.
TypeOK ==
  /\ e.open \in BOOLEAN
  /\ e.queue \in Seq(Requests)
  /\ e.jobs \in [Jobs -> [catalog : Catalogs \cup {None}, pending : Nat, ok : SUBSET Keys]]
  /\ e.values \in [Keys -> Texts \cup {None}]
  /\ e.defs \in [Keys -> Defs \cup {None}]
  /\ e.groupKeys \in [Catalogs -> SUBSET Keys]
  /\ e.catalog \in Catalogs
  /\ e.rows \in [Keys -> Texts \cup {None}]
  /\ e.owed \in [Catalogs -> Nat]
  /\ e.suspect \subseteq Keys /\ e.lag \subseteq Keys
  /\ camera \in [Keys -> Texts]

Count(P(_)) == Cardinality({i \in 1..Len(e.queue) : P(e.queue[i])})

\* Every group read that was asked for and not announced is either a request in
\* the queue or a series of reads by key that still has one there: whatever
\* fails, readGroup() ends in exactly one groupRefreshed.
ReadsAccounted ==
  /\ \A c \in Catalogs :
       LET asked(r) == r = GetBatch(c)
       IN  e.owed[c] = Count(asked)
             + Cardinality({j \in Jobs : e.jobs[j].pending > 0 /\ e.jobs[j].catalog = c})
  /\ \A j \in Jobs :
       LET mine(r) == r.op = "get" /\ r.job = j
       IN  e.jobs[j].pending = Count(mine)

\* When all replies have arrived, the engine's value of a key is the camera's,
\* unless the last read or write of the key failed or somebody else changed it:
\* what a write changed in other catalogs has been read again.
CacheFollowsCamera ==
  e.open /\ e.queue = <<>> =>
    \A k \in Keys \ e.suspect : e.values[k] # None => e.values[k] = camera[k]

\* When all replies have arrived, a row shows the camera's value, unless it was
\* changed and not written, a write of it failed or was made while a read of its
\* group was on its way, or somebody else changed the setting, and since then
\* neither the row has been written nor the group been read.
RowsSettle ==
  e.open /\ e.queue = <<>> =>
    \A k \in Keys \ e.lag : e.rows[k] # None => e.rows[k] = camera[k]

\* The pane only has rows of the group that is selected, however late the
\* replies for other groups arrive.
PaneShowsGroup ==
  \A k \in Keys : e.rows[k] # None => k \in e.groupKeys[e.catalog] \cap KeysOf(e.catalog)

\* "Unsupported (code -1) and read-only keys are hidden."
HiddenKeys ==
  \A k \in Keys : e.rows[k] # None => camera[k] # Empty /\ k \notin ReadOnly
==============================================================================

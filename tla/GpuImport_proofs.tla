-------------------------- MODULE GpuImport_proofs --------------------------
(***************************************************************************)
(* Theorems about the hardware decoders and their importers, for any       *)
(* decoders, contexts, threads, adapters and sizes.                        *)
(***************************************************************************)
EXTENDS GpuImport, FiniteSetTheorems, SequenceTheorems, WellFoundedInduction, TLAPS

------------------------------------------------------------------------------
(* The inductive invariant.  An importer is described by a predicate of    *)
(* the state g of the C functions, so that it can be asked between two     *)
(* calls of theirs too.                                                    *)

Vp   == ToSet(VpObjects)
Cuda == ToSet(CudaObjects)
Av   == ToSet(AvObjects)

Call == [op : {"register", "unregister", "copy"}, own : Contexts,
         current : Contexts \cup {None}, pushed : BOOLEAN]

State == [imp : Imports \cup {None}, alive : [Objects -> Int],
          stack : Seq(Contexts), made : SUBSET Contexts, calls : SUBSET Call,
          ok : BOOLEAN]

One(o, objects) == IF o \in objects THEN 1 ELSE 0

\* The pointers of an importer that may not be there.
Points(imp) == IF imp = None THEN {} ELSE imp.held

\* There is one of each object that the decoder or its importer points to.
Owned(counts, ff, imp) ==
  \A o \in Objects : counts[o] = One(o, ff) + One(o, Points(imp))

OwnCurrent(c) == c.current = c.own \/ (c.op = "unregister" /\ ~c.pushed)

\* What holds between two calls to the drivers.
Sound(g, ff) ==
  g \in State /\ Owned(g.alive, ff, g.imp) /\ \A c \in g.calls : OwnCurrent(c)

Bare(imp) == imp.held = {} /\ imp.ctx = None /\ imp.size = Unknown

\* What holds of an importer between two frames: it has all of its objects or
\* none, and with them a context if it is one for CUDA.
Whole(imp, backend) ==
  imp # None =>
    \/ Bare(imp)
    \/ IF backend = "cuda" THEN imp.held = Cuda /\ imp.ctx \in Contexts
       ELSE imp.held = Vp

\* What a decoder points to against what the drivers keep for it: its counts of
\* objects, its references to device contexts and its surface pools.
Settled(x, counts, refs, made_pools) ==
  IF x = None
  THEN (\A o \in Objects : counts[o] = 0) /\ refs = made_pools
  ELSE /\ x.ff \in {Av, Av \cup {Pool}}
       /\ Owned(counts, x.ff, x.imp)
       /\ Whole(x.imp, x.backend)
       /\ refs = made_pools + Holds(x.ff)

Inv ==
  /\ TypeOK
  /\ calls \subseteq Call /\ \A c \in calls : OwnCurrent(c)
  /\ \A d \in Decoders : Settled(dec[d], alive[d], devRef[d], pools[d])

------------------------------------------------------------------------------
(* Objects.                                                                *)

LEMMA VpRow ==
  Vp = {"device", "context", "vdev", "vctx", "enumr", "vp", "out_tex", "out_view"}
BY DEF Vp, VpObjects, ToSet

LEMMA CudaRow ==
  Cuda = {"device", "context", "cuda_ctx", "y_tex", "uv_tex", "y_srv", "uv_srv",
          "out_tex", "out_rtv", "vs", "ps", "samp", "params", "y_res", "uv_res"}
BY DEF Cuda, CudaObjects, ToSet

LEMMA AvRow == Av = {"hw_device_ctx", "avctx", "hw_frame"}
BY DEF Av, AvObjects, ToSet

\* The decoder's own objects are none of its importer's.
LEMMA Apart ==
  /\ Vp \subseteq Objects /\ Cuda \subseteq Objects
  /\ Av \subseteq Objects /\ Pool \in Objects
  /\ (Av \cup {Pool}) \cap (Vp \cup Cuda) = {}
  /\ "vp" \in Vp /\ Vp # {} /\ Cuda # {}
<1>1. /\ Vp \subseteq Objects /\ Cuda \subseteq Objects
      /\ Av \subseteq Objects /\ Pool \in Objects
  BY DEF Objects, Vp, Cuda, Av
<1>2. (Av \cup {Pool}) \cap (Vp \cup Cuda) = {}
  BY VpRow, CudaRow, AvRow DEF Pool
<1> QED
  BY <1>1, <1>2, VpRow, CudaRow

LEMMA PrefixOfRow ==
  ASSUME NEW row \in {VpObjects, CudaObjects}, NEW n \in 0..Len(row)
  PROVE  /\ Prefix(row, n) \subseteq Objects
         /\ Prefix(row, Len(row)) = ToSet(row)
<1>0. VpObjects \in Seq(Objects) /\ CudaObjects \in Seq(Objects)
  <2>1. VpObjects \in Seq(Vp)
    BY VpRow DEF VpObjects
  <2>2. CudaObjects \in Seq(Cuda)
    BY CudaRow DEF CudaObjects
  <2> QED
    BY <2>1, <2>2, Apart
<1>1. row \in Seq(Objects)
  BY <1>0
<1>2. ToSet(row) \subseteq Objects
  BY DEF Objects
<1>3. \A i \in 1..n : row[i] \in ToSet(row)
  BY <1>1 DEF ToSet
<1>4. SubSeq(row, 1, n) \in Seq(ToSet(row))
  BY <1>1, <1>3, SubSeqProperties
<1>5. ToSet(SubSeq(row, 1, n)) \subseteq ToSet(row)
  BY <1>4 DEF ToSet
<1>6. SubSeq(row, 1, Len(row)) = row
  BY <1>1, SubSeqFull
<1> QED
  BY <1>2, <1>5, <1>6 DEF Prefix

------------------------------------------------------------------------------
(* The stack of a thread.                                                  *)

LEMMA Pushed ==
  ASSUME NEW s \in Seq(Contexts), NEW c \in Contexts
  PROVE  /\ cuCtxPushCurrent(s, c) \in Seq(Contexts)
         /\ cuCtxPushCurrent(s, c) # <<>>
         /\ Current(cuCtxPushCurrent(s, c)) = c
<1>1. /\ Append(s, c) \in Seq(Contexts) /\ Append(s, c) # <<>>
      /\ Append(s, c)[Len(Append(s, c))] = c
  OBVIOUS
<1> QED
  BY <1>1 DEF cuCtxPushCurrent, Current, Last

LEMMA FrontTyped ==
  ASSUME NEW s \in Seq(Contexts), s # <<>>
  PROVE  Front(s) \in Seq(Contexts) /\ Last(s) \in Contexts
<1>1. Len(s) \in Nat /\ Len(s) > 0
  OBVIOUS
<1>2. \A i \in 1..(Len(s) - 1) : s[i] \in Contexts
  BY <1>1
<1>3. SubSeq(s, 1, Len(s) - 1) \in Seq(Contexts)
  BY <1>1, <1>2, SubSeqProperties
<1>4. s[Len(s)] \in Contexts
  BY <1>1
<1> QED
  BY <1>3, <1>4 DEF Front, Last

LEMMA Popped ==
  ASSUME NEW s \in Seq(Contexts), NEW c \in Contexts
  PROVE  /\ cuCtxPopCurrent(s) \in Seq(Contexts)
         /\ cuCtxDestroy(s, c) \in Seq(Contexts)
         /\ Current(s) \in Contexts \cup {None}
<1> USE GpuAssumption
<1>1. CASE s = <<>>
  BY <1>1 DEF cuCtxPopCurrent, cuCtxDestroy, Current
<1>2. CASE s # <<>>
  BY <1>2, FrontTyped DEF cuCtxPopCurrent, cuCtxDestroy, Current
<1> QED
  BY <1>1, <1>2

------------------------------------------------------------------------------
(* What a step of an importer does to its state.                           *)

LEMMA FailedSound ==
  ASSUME NEW g, NEW ff, Sound(g, ff)
  PROVE  Sound(Failed(g), ff) /\ Failed(g).imp = g.imp /\ ~Failed(g).ok
<1> DEFINE b == FALSE
           h == [g EXCEPT !.ok = b]
<1>1. b \in BOOLEAN
  OBVIOUS
<1>2. Failed(g) = h
  BY DEF Failed
<1> HIDE DEF b
<1>3. h \in State
  BY <1>1 DEF Sound, State
<1>4. h.imp = g.imp /\ h.alive = g.alive /\ h.calls = g.calls /\ h.ok = b
  BY DEF Sound, State
<1> HIDE DEF h
<1> QED
  BY <1>2, <1>3, <1>4 DEF Sound, b

\* A thread's stack may change between two calls.
LEMMA StackSound ==
  ASSUME NEW g, NEW ff, Sound(g, ff), NEW s \in Seq(Contexts)
  PROVE  LET h == [g EXCEPT !.stack = s]
         IN  /\ Sound(h, ff) /\ h.stack = s
             /\ h.imp = g.imp /\ h.ok = g.ok
<1> DEFINE h == [g EXCEPT !.stack = s]
<1>1. h \in State
  BY DEF Sound, State
<1>2. h.imp = g.imp /\ h.alive = g.alive /\ h.calls = g.calls /\ h.ok = g.ok
      /\ h.stack = s
  BY DEF Sound, State
<1> HIDE DEF h
<1>3. Sound(h, ff)
  BY <1>1, <1>2 DEF Sound
<1> QED
  BY <1>2, <1>3 DEF h

LEMMA InteropSound ==
  ASSUME NEW g, NEW ff, Sound(g, ff), NEW op \in {"register", "unregister", "copy"},
         NEW own \in Contexts, NEW pushed \in BOOLEAN,
         Current(g.stack) = own \/ (op = "unregister" /\ ~pushed)
  PROVE  LET h == Interop(g, op, own, pushed)
         IN  /\ Sound(h, ff) /\ h.stack = g.stack
             /\ h.imp = g.imp /\ h.ok = g.ok
<1> DEFINE now == Current(g.stack)
           c == [op |-> op, own |-> own, current |-> now, pushed |-> pushed]
           all == g.calls \cup {c}
           h == [g EXCEPT !.calls = all]
<1>1. now \in Contexts \cup {None}
  BY Popped DEF Sound, State
<1>2. c \in Call /\ OwnCurrent(c)
  <2> HIDE DEF now
  <2> QED
    BY <1>1 DEF Call, OwnCurrent, now
<1>3. Interop(g, op, own, pushed) = h
  BY DEF Interop
<1> HIDE DEF c
<1>4. all \in SUBSET Call /\ \A k \in all : OwnCurrent(k)
  BY <1>2 DEF Sound, State
<1> HIDE DEF all
<1>5. h \in State
  BY <1>4 DEF Sound, State
<1>6. /\ h.imp = g.imp /\ h.alive = g.alive /\ h.stack = g.stack /\ h.ok = g.ok
      /\ h.calls = all
  BY DEF Sound, State
<1> HIDE DEF h
<1> QED
  BY <1>3, <1>4, <1>5, <1>6 DEF Sound

\* What Acquire() leaves of an importer that had nothing.
AcquiredFrom(g, objects, h) ==
  /\ h.imp # None /\ h.imp.held = objects /\ h.imp.ctx = g.imp.ctx
  /\ h.imp.size = g.imp.size
  /\ h.stack = g.stack /\ h.made = g.made /\ h.ok = g.ok

LEMMA Acquired ==
  ASSUME NEW g, NEW ff, Sound(g, ff), g.imp # None, g.imp.held = {},
         NEW objects \in SUBSET Objects
  PROVE  LET h == Acquire(g, objects)
         IN  Sound(h, ff) /\ AcquiredFrom(g, objects, h)
<1> DEFINE i == [g.imp EXCEPT !.held = objects]
           a == [o \in Objects |-> g.alive[o] + IF o \in objects THEN 1 ELSE 0]
           h == [g EXCEPT !.imp = i, !.alive = a]
<1>1. g.imp \in Imports /\ g \in State
  BY DEF Sound, State
<1>2. /\ i \in Imports /\ i.held = objects /\ i.ctx = g.imp.ctx
      /\ i.size = g.imp.size
  BY <1>1 DEF Imports
<1>3. Acquire(g, objects) = h
  BY <1>1 DEF Acquire, State
<1> HIDE DEF i
<1>4. i # None
  BY <1>2, NoneIsNew
<1>5. a \in [Objects -> Int]
  BY <1>1 DEF State
<1>6. Owned(a, ff, i)
  <2> SUFFICES ASSUME NEW o \in Objects
               PROVE  a[o] = One(o, ff) + One(o, Points(i))
    BY DEF Owned
  <2>1. g.alive[o] = One(o, ff)
    BY DEF Sound, Owned, Points, One
  <2>2. a[o] = g.alive[o] + One(o, objects)
    BY DEF One
  <2> QED
    BY <1>2, <1>4, <2>1, <2>2 DEF Points
<1> HIDE DEF a
<1>7. h \in State
  BY <1>1, <1>2, <1>5 DEF State
<1>8. /\ h.imp = i /\ h.alive = a /\ h.stack = g.stack /\ h.made = g.made
      /\ h.calls = g.calls /\ h.ok = g.ok
  BY <1>1 DEF State
<1> HIDE DEF h
<1> QED
  BY <1>2, <1>3, <1>4, <1>6, <1>7, <1>8 DEF Sound, AcquiredFrom

\* What ReleaseHeld() leaves of an importer.
ReleasedFrom(g, h) ==
  /\ h.imp # None /\ Bare(h.imp) /\ h.imp.unavailable = g.imp.unavailable
  /\ h.stack = g.stack /\ h.made = g.made /\ h.ok = g.ok

LEMMA Released ==
  ASSUME NEW g, NEW ff, Sound(g, ff), g.imp # None
  PROVE  LET h == ReleaseHeld(g)
         IN  Sound(h, ff) /\ ReleasedFrom(g, h)
<1> DEFINE u == g.imp.unavailable
           i == [EmptyImport EXCEPT !.unavailable = u]
           a == [o \in Objects |-> g.alive[o] - IF o \in g.imp.held THEN 1 ELSE 0]
           h == [g EXCEPT !.imp = i, !.alive = a]
<1>1. g.imp \in Imports /\ g \in State
  BY DEF Sound, State
<1>2. u \in BOOLEAN
  BY <1>1 DEF Imports
<1>3. ReleaseHeld(g) = h
  BY <1>1 DEF ReleaseHeld, State
<1> HIDE DEF u
<1>4. i = [held |-> {}, ctx |-> None, size |-> Unknown, unavailable |-> u]
  BY <1>2 DEF EmptyImport
<1>5. i \in Imports /\ Bare(i) /\ i.unavailable = u
  <2> HIDE DEF i
  <2> QED
    BY <1>2, <1>4 DEF Imports, Bare
<1> HIDE DEF i
<1>6. i # None
  BY <1>5, NoneIsNew
<1>7. a \in [Objects -> Int]
  BY <1>1 DEF State
<1>8. Owned(a, ff, i)
  <2> SUFFICES ASSUME NEW o \in Objects
               PROVE  a[o] = One(o, ff) + One(o, Points(i))
    BY DEF Owned
  <2>1. g.alive[o] = One(o, ff) + One(o, g.imp.held)
    BY DEF Sound, Owned, Points
  <2>2. a[o] = g.alive[o] - One(o, g.imp.held)
    BY DEF One
  <2>3. One(o, Points(i)) = 0
    BY <1>5, <1>6 DEF Points, One, Bare
  <2>4. One(o, ff) \in Int /\ One(o, g.imp.held) \in Int
    BY DEF One
  <2> QED
    BY <2>1, <2>2, <2>3, <2>4
<1> HIDE DEF a
<1>9. h \in State
  BY <1>1, <1>5, <1>7 DEF State
<1>10. /\ h.imp = i /\ h.alive = a /\ h.stack = g.stack /\ h.made = g.made
       /\ h.calls = g.calls /\ h.ok = g.ok
  BY <1>1 DEF State
<1> HIDE DEF h
<1> QED
  BY <1>3, <1>5, <1>6, <1>8, <1>9, <1>10 DEF Sound, ReleasedFrom, u

\* Other fields of the pointers: objects and their counts stay.
LEMMA PointersSound ==
  ASSUME NEW g, NEW ff, Sound(g, ff), g.imp # None,
         NEW i \in Imports, i.held = g.imp.held
  PROVE  LET h == [g EXCEPT !.imp = i]
         IN  /\ Sound(h, ff) /\ h.imp = i /\ h.imp # None
             /\ h.stack = g.stack /\ h.made = g.made /\ h.ok = g.ok
<1> DEFINE h == [g EXCEPT !.imp = i]
<1>1. i # None
  BY NoneIsNew
<1>2. h \in State
  BY DEF Sound, State
<1>3. /\ h.imp = i /\ h.alive = g.alive /\ h.calls = g.calls
      /\ h.stack = g.stack /\ h.made = g.made /\ h.ok = g.ok
  BY DEF Sound, State
<1> HIDE DEF h
<1>4. Sound(h, ff)
  BY <1>1, <1>2, <1>3 DEF Sound, Owned, Points
<1> QED
  BY <1>1, <1>3, <1>4 DEF h

\* The latch of an importer that failed.
Latched(g) == [g EXCEPT !.imp.unavailable = TRUE]

LEMMA LatchSound ==
  ASSUME NEW g, NEW ff, Sound(g, ff), g.imp # None
  PROVE  LET h == Latched(g)
         IN  /\ Sound(h, ff) /\ h.imp # None /\ h.stack = g.stack
             /\ h.made = g.made /\ h.ok = g.ok
             /\ h.imp.held = g.imp.held /\ h.imp.ctx = g.imp.ctx
             /\ h.imp.size = g.imp.size
<1> DEFINE b == TRUE
           i == [g.imp EXCEPT !.unavailable = b]
           h == [g EXCEPT !.imp = i]
<1>1. g.imp \in Imports /\ g \in State /\ b \in BOOLEAN
  BY DEF Sound, State
<1>2. Latched(g) = h
  BY <1>1 DEF State, Latched
<1> HIDE DEF b
<1>3. /\ i \in Imports /\ i.held = g.imp.held /\ i.ctx = g.imp.ctx
      /\ i.size = g.imp.size
  BY <1>1 DEF Imports
<1> HIDE DEF i
<1>4. /\ Sound(h, ff) /\ h.imp = i /\ h.imp # None
      /\ h.stack = g.stack /\ h.made = g.made /\ h.ok = g.ok
  BY <1>3, PointersSound
<1> HIDE DEF h
<1> QED
  BY <1>2, <1>3, <1>4

\* The importer knows the size it was set up for.
Sized(g, size) == [g EXCEPT !.imp.size = size]

LEMMA SizeSound ==
  ASSUME NEW g, NEW ff, Sound(g, ff), g.imp # None, NEW size \in Sizes
  PROVE  LET h == Sized(g, size)
         IN  /\ Sound(h, ff) /\ h.imp # None /\ h.stack = g.stack
             /\ h.made = g.made /\ h.ok = g.ok
             /\ h.imp.held = g.imp.held /\ h.imp.ctx = g.imp.ctx
<1> DEFINE i == [g.imp EXCEPT !.size = size]
           h == [g EXCEPT !.imp = i]
<1>1. g.imp \in Imports /\ g \in State
  BY DEF Sound, State
<1>2. Sized(g, size) = h
  BY <1>1 DEF State, Sized
<1>3. i \in Imports /\ i.held = g.imp.held /\ i.ctx = g.imp.ctx
  BY <1>1 DEF Imports
<1> HIDE DEF i
<1>4. /\ Sound(h, ff) /\ h.imp = i /\ h.imp # None
      /\ h.stack = g.stack /\ h.made = g.made /\ h.ok = g.ok
  BY <1>3, PointersSound
<1> HIDE DEF h
<1> QED
  BY <1>2, <1>3, <1>4

LEMMA SlotSound ==
  ASSUME NEW g, NEW ff, Sound(g, ff)
  PROVE  LET h == WithSlot(g)
         IN  /\ Sound(h, ff) /\ h.imp # None /\ h.stack = g.stack
             /\ h.made = g.made /\ h.ok = g.ok
             /\ IF g.imp = None THEN Bare(h.imp) ELSE h.imp = g.imp
<1>1. CASE g.imp # None
  BY <1>1 DEF WithSlot
<1>2. CASE g.imp = None
  <2> DEFINE i == EmptyImport
             h == [g EXCEPT !.imp = i]
  <2>1. i \in Imports /\ Bare(i)
    <3> DEFINE b == FALSE
    <3>1. b \in BOOLEAN /\ i = [held |-> {}, ctx |-> None, size |-> Unknown,
                                unavailable |-> b]
      BY DEF EmptyImport
    <3> HIDE DEF b, i
    <3> QED
      BY <3>1 DEF Imports, Bare
  <2>2. WithSlot(g) = h
    BY <1>2 DEF WithSlot
  <2> HIDE DEF i
  <2>3. i # None
    BY <2>1, NoneIsNew
  <2>4. h \in State
    BY <2>1 DEF Sound, State
  <2>5. /\ h.imp = i /\ h.alive = g.alive /\ h.calls = g.calls
        /\ h.stack = g.stack /\ h.made = g.made /\ h.ok = g.ok
    BY DEF Sound, State
  <2> HIDE DEF h
  <2>6. Sound(h, ff)
    BY <1>2, <2>1, <2>3, <2>4, <2>5 DEF Sound, Owned, Points, Bare
  <2> QED
    BY <1>2, <2>1, <2>2, <2>3, <2>5, <2>6
<1> QED
  BY <1>1, <1>2

------------------------------------------------------------------------------
(* The importer of D3D11.                                                  *)

LEMMA VpSetupSound ==
  ASSUME NEW g, NEW ff, Sound(g, ff), g.imp # None, g.imp.held = {},
         NEW size \in Sizes, NEW h \in vp_setup(g, size)
  PROVE  Sound(h, ff) /\ h.imp # None /\ (h.ok => h.imp.held = Vp)
<1>1. CASE h \in {Failed(Acquire(g, Prefix(VpObjects, n))) : n \in 0..Len(VpObjects)}
  <2>1. PICK n \in 0..Len(VpObjects) : h = Failed(Acquire(g, Prefix(VpObjects, n)))
    BY <1>1
  <2> DEFINE objects == Prefix(VpObjects, n)
             k == Acquire(g, objects)
  <2>2. objects \in SUBSET Objects
    BY PrefixOfRow
  <2> HIDE DEF objects
  <2>3. Sound(k, ff) /\ AcquiredFrom(g, objects, k)
    BY <2>2, Acquired
  <2>4. h = Failed(k)
    BY <2>1 DEF objects
  <2> HIDE DEF k
  <2> QED
    BY <2>3, <2>4, FailedSound DEF AcquiredFrom
<1>2. CASE h = Sized(Acquire(g, Vp), size)
  <2> DEFINE k == Acquire(g, Vp)
  <2>1. Sound(k, ff) /\ AcquiredFrom(g, Vp, k)
    BY Apart, Acquired
  <2> HIDE DEF k
  <2>2. h = Sized(k, size)
    BY <1>2 DEF k
  <2>3. k.imp # None /\ k.imp.held = Vp
    BY <2>1 DEF AcquiredFrom
  <2> QED
    BY <2>1, <2>2, <2>3, SizeSound
<1> QED
  BY <1>1, <1>2 DEF vp_setup, Sized, Vp

LEMMA VpSetUpSound ==
  ASSUME NEW g, NEW ff, Sound(g, ff), g.imp # None, g.imp.held = {},
         NEW size \in Sizes, NEW h \in VpSetUp(g, size)
  PROVE  Sound(h, ff) /\ h.imp # None /\ Whole(h.imp, "d3d11")
<1>1. CASE h \in Succeeded(vp_setup(g, size))
  <2>1. h \in vp_setup(g, size) /\ h.ok
    BY <1>1 DEF Succeeded
  <2> QED
    BY <2>1, VpSetupSound DEF Whole
<1>2. CASE h \in {vp_clear(k) : k \in GivenUp(vp_setup(g, size))}
  <2>1. PICK k \in vp_setup(g, size) : h = vp_clear(Latched(k))
    BY <1>2 DEF GivenUp, Latched
  <2>2. Sound(k, ff) /\ k.imp # None
    BY <2>1, VpSetupSound
  <2> DEFINE l == Latched(k)
  <2>3. Sound(l, ff) /\ l.imp # None
    BY <2>2, LatchSound
  <2>4. h = ReleaseHeld(l)
    BY <2>1 DEF vp_clear
  <2> HIDE DEF l
  <2> QED
    BY <2>3, <2>4, Released DEF ReleasedFrom, Whole
<1> QED
  BY <1>1, <1>2 DEF VpSetUp

LEMMA VpReadySound ==
  ASSUME NEW g, NEW ff, Sound(g, ff), g.imp # None, Whole(g.imp, "d3d11"),
         NEW size \in Sizes, NEW h \in VpReady(g, size)
  PROVE  Sound(h, ff) /\ h.imp # None /\ Whole(h.imp, "d3d11")
<1>1. CASE "vp" \notin g.imp.held
  <2>1. g.imp.held = {}
    BY <1>1, Apart DEF Whole, Bare
  <2> QED
    BY <1>1, <2>1, VpSetUpSound DEF VpReady
<1>2. CASE "vp" \in g.imp.held /\ size # g.imp.size
  <2> DEFINE k == ReleaseHeld(g)
  <2>1. Sound(k, ff) /\ ReleasedFrom(g, k)
    BY Released
  <2>2. h \in VpSetUp(k, size)
    BY <1>2 DEF VpReady, vp_clear
  <2> HIDE DEF k
  <2> QED
    BY <2>1, <2>2, VpSetUpSound DEF ReleasedFrom, Bare
<1>3. CASE "vp" \in g.imp.held /\ size = g.imp.size
  BY <1>3 DEF VpReady
<1> QED
  BY <1>1, <1>2, <1>3

LEMMA SliceSound ==
  ASSUME NEW g, NEW ff, Sound(g, ff), Whole(g.imp, "d3d11"), NEW size \in Sizes,
         NEW surface \in {"good", "absent", "not NV12", "slice out of range"},
         NEW h \in zc_hw_import_d3d11_slice(g, size, surface)
  PROVE  Sound(h, ff) /\ Whole(h.imp, "d3d11")
<1> DEFINE k == WithSlot(g)
<1>1. Sound(k, ff) /\ k.imp # None /\ Whole(k.imp, "d3d11")
  BY SlotSound DEF Whole
<1>2. CASE h = Failed(g)
  BY <1>2, FailedSound
<1>3. CASE h = Latched(Failed(k))
  <2> DEFINE f == Failed(k)
  <2>1. Sound(f, ff) /\ f.imp # None /\ Whole(f.imp, "d3d11")
    <3> HIDE DEF k
    <3> QED
      BY <1>1, FailedSound
  <2>2. h = Latched(f)
    BY <1>3
  <2> HIDE DEF f
  <2> QED
    BY <2>1, <2>2, LatchSound DEF Whole, Bare
<1>4. CASE h = Failed(k)
  <2> HIDE DEF k
  <2> QED
    BY <1>1, <1>4, FailedSound
<1>5. CASE \E r \in VpReady(k, size) : h = r \/ h = Failed(r)
  <2>1. PICK r \in VpReady(k, size) : h = r \/ h = Failed(r)
    BY <1>5
  <2>2. Sound(r, ff) /\ Whole(r.imp, "d3d11")
    <3> HIDE DEF k
    <3> QED
      BY <1>1, VpReadySound
  <2> QED
    BY <2>1, <2>2, FailedSound
<1>6. \/ h = Failed(g) \/ h = Latched(Failed(k)) \/ h = Failed(k)
      \/ \E r \in VpReady(k, size) : h = r \/ h = Failed(r)
  BY DEF zc_hw_import_d3d11_slice, Latched
<1> QED
  BY <1>2, <1>3, <1>4, <1>5, <1>6

------------------------------------------------------------------------------
(* The importer of CUDA.                                                   *)

LEMMA CudaClearSound ==
  ASSUME NEW g, NEW ff, Sound(g, ff), g.imp # None, NEW h \in cuda_clear(g)
  PROVE  Sound(h, ff) /\ h.imp # None /\ Bare(h.imp) /\ h.ok = g.ok
<1>1. CASE g.imp.ctx = None
  BY <1>1, Released DEF cuda_clear, ReleasedFrom
<1>2. CASE g.imp.ctx # None
  <2> DEFINE c == g.imp.ctx
             In(pushed) == IF pushed THEN [g EXCEPT !.stack = cuCtxPushCurrent(@, c)]
                           ELSE g
             Used(pushed) == IF {"y_res", "uv_res"} \cap g.imp.held = {} THEN In(pushed)
                             ELSE Interop(In(pushed), "unregister", c, pushed)
             Left(pushed) ==
               [Used(pushed) EXCEPT !.stack = cuCtxDestroy(cuCtxPopCurrent(@), c)]
  <2>1. PICK pushed \in BOOLEAN : h = ReleaseHeld(Left(pushed))
    BY <1>2 DEF cuda_clear
  <2>2. c \in Contexts /\ g.stack \in Seq(Contexts)
    BY <1>2 DEF Sound, State, Imports
  <2>3. /\ Sound(In(pushed), ff) /\ In(pushed).imp = g.imp /\ In(pushed).ok = g.ok
        /\ Current(In(pushed).stack) = c \/ ~pushed
    <3> DEFINE s == cuCtxPushCurrent(g.stack, c)
    <3>1. s \in Seq(Contexts) /\ Current(s) = c
      BY <2>2, Pushed
    <3>2. CASE pushed
      <4>1. In(pushed) = [g EXCEPT !.stack = s]
        BY <3>2
      <4> HIDE DEF In, s
      <4> QED
        BY <3>1, <4>1, StackSound
    <3>3. CASE ~pushed
      BY <3>3
    <3> QED
      BY <3>2, <3>3
  <2> HIDE DEF In
  <2>4. Sound(Used(pushed), ff) /\ Used(pushed).imp = g.imp /\ Used(pushed).ok = g.ok
    <3>1. CASE {"y_res", "uv_res"} \cap g.imp.held = {}
      BY <2>3, <3>1
    <3>2. CASE ~({"y_res", "uv_res"} \cap g.imp.held = {})
      <4> DEFINE i == In(pushed)
                 u == Interop(i, "unregister", c, pushed)
      <4>1. Sound(u, ff) /\ u.imp = i.imp /\ u.ok = i.ok
        <5> HIDE DEF i, c
        <5> QED
          BY <2>2, <2>3, InteropSound DEF i
      <4>2. Used(pushed) = u
        BY <3>2
      <4> QED
        BY <2>3, <4>1, <4>2
    <3> QED
      BY <3>1, <3>2
  <2> DEFINE u == Used(pushed)
             s == cuCtxDestroy(cuCtxPopCurrent(u.stack), c)
  <2>5. Left(pushed) = [u EXCEPT !.stack = s]
    OBVIOUS
  <2> HIDE DEF Used, Left, u
  <2>6. s \in Seq(Contexts)
    <3>1. u.stack \in Seq(Contexts)
      BY <2>4 DEF u, Sound, State
    <3>2. cuCtxPopCurrent(u.stack) \in Seq(Contexts)
      BY <2>2, <3>1, Popped
    <3> QED
      BY <2>2, <3>2, Popped
  <2> HIDE DEF s
  <2>7. /\ Sound(Left(pushed), ff) /\ Left(pushed).imp = g.imp
        /\ Left(pushed).ok = g.ok
    BY <2>4, <2>5, <2>6, StackSound DEF u
  <2> DEFINE l == Left(pushed)
  <2>8. Sound(l, ff) /\ l.imp # None /\ l.ok = g.ok /\ h = ReleaseHeld(l)
    BY <2>1, <2>7
  <2> HIDE DEF l
  <2> QED
    BY <2>8, Released DEF ReleasedFrom
<1> QED
  BY <1>1, <1>2

LEMMA CreatedSound ==
  ASSUME NEW m, NEW ff, Sound(m, ff), m.imp # None, NEW c \in Contexts
  PROVE  LET k == Created(m, c)
         IN  /\ Sound(k, ff) /\ k.imp # None /\ k.ok = m.ok
             /\ k.imp.held = m.imp.held /\ k.imp.ctx = c
             /\ k.stack \in Seq(Contexts) /\ Current(k.stack) = c
<1> DEFINE i == [m.imp EXCEPT !.ctx = c]
           a == m.made \cup {c}
           s == cuCtxPushCurrent(m.stack, c)
           k == [m EXCEPT !.imp = i, !.made = a, !.stack = s]
<1>1. m.imp \in Imports /\ m \in State
  BY DEF Sound, State
<1>2. i \in Imports /\ i.held = m.imp.held /\ i.ctx = c
  BY <1>1 DEF Imports
<1>3. s \in Seq(Contexts) /\ Current(s) = c
  BY <1>1, Pushed DEF State
<1>4. a \in SUBSET Contexts
  BY <1>1 DEF State
<1>5. Created(m, c) = k
  BY <1>1 DEF Created, State
<1> HIDE DEF i, a, s
<1>6. i # None
  BY <1>2, NoneIsNew
<1>7. k \in State
  BY <1>1, <1>2, <1>3, <1>4 DEF State
<1>8. /\ k.imp = i /\ k.alive = m.alive /\ k.stack = s /\ k.calls = m.calls
      /\ k.ok = m.ok
  BY <1>1 DEF State
<1> HIDE DEF k
<1>9. Sound(k, ff)
  BY <1>2, <1>6, <1>7, <1>8 DEF Sound, Owned, Points
<1> QED
  BY <1>2, <1>3, <1>5, <1>6, <1>8, <1>9

LEMMA RegisteredSound ==
  ASSUME NEW k, NEW ff, Sound(k, ff), NEW c \in Contexts, Current(k.stack) = c,
         NEW pushed \in BOOLEAN
  PROVE  LET r == Registered(k, c, pushed)
         IN  Sound(r, ff) /\ r.imp = k.imp /\ r.ok = k.ok
<1> DEFINE s == cuCtxPushCurrent(k.stack, c)
           in == IF pushed THEN [k EXCEPT !.stack = s] ELSE k
           u == Interop(in, "register", c, pushed)
           p == cuCtxPopCurrent(u.stack)
           r == [u EXCEPT !.stack = p]
<1>1. s \in Seq(Contexts) /\ Current(s) = c
  BY Pushed DEF Sound, State
<1>2. Sound(in, ff) /\ in.imp = k.imp /\ in.ok = k.ok /\ Current(in.stack) = c
  <2>1. CASE pushed
    <3>1. in = [k EXCEPT !.stack = s]
      BY <2>1
    <3> HIDE DEF in, s
    <3> QED
      BY <1>1, <3>1, StackSound
  <2>2. CASE ~pushed
    BY <2>2
  <2> QED
    BY <2>1, <2>2
<1>3. Registered(k, c, pushed) = r
  BY DEF Registered
<1> HIDE DEF in
<1>4. Sound(u, ff) /\ u.imp = in.imp /\ u.ok = in.ok
  BY <1>2, InteropSound
<1> HIDE DEF u
<1>5. p \in Seq(Contexts)
  BY <1>4, Popped DEF Sound, State
<1> HIDE DEF p
<1>6. Sound(r, ff) /\ r.imp = u.imp /\ r.ok = u.ok
  BY <1>4, <1>5, StackSound
<1> QED
  BY <1>2, <1>3, <1>4, <1>6

LEMMA CudaSetupSound ==
  ASSUME NEW g, NEW ff, Sound(g, ff), g.imp # None, g.imp.held = {},
         NEW size \in Sizes, NEW h \in cuda_setup(g, size)
  PROVE  /\ Sound(h, ff) /\ h.imp # None
         /\ h.ok => h.imp.held = Cuda /\ h.imp.ctx \in Contexts
<1> DEFINE Made(n) == Acquire(g, Prefix(CudaObjects, n))
           free == Contexts \ g.made
<1>1. Len(CudaObjects) = 15
  BY DEF CudaObjects
<1>2. ASSUME NEW n \in 0..15
      PROVE  /\ Sound(Made(n), ff) /\ Made(n).imp # None
             /\ Made(n).imp.held = Prefix(CudaObjects, n)
  <2> DEFINE objects == Prefix(CudaObjects, n)
             k == Acquire(g, objects)
  <2>1. objects \in SUBSET Objects
    BY <1>1, PrefixOfRow
  <2> HIDE DEF objects
  <2>2. Sound(k, ff) /\ AcquiredFrom(g, objects, k)
    BY <2>1, Acquired
  <2> HIDE DEF k
  <2>3. k.imp # None /\ k.imp.held = objects
    BY <2>2 DEF AcquiredFrom
  <2> QED
    BY <2>2, <2>3 DEF k, objects
<1>3. Prefix(CudaObjects, 15) = Cuda
  <2>1. 0 \in 0..Len(CudaObjects)
    BY <1>1
  <2>2. Prefix(CudaObjects, Len(CudaObjects)) = ToSet(CudaObjects)
    BY <2>1, PrefixOfRow
  <2> QED
    BY <1>1, <2>2 DEF Cuda
<1> HIDE DEF Made
<1> DEFINE New(n, c) == Created(Made(n), c)
<1>4. ASSUME NEW n \in 0..15, NEW c \in Contexts
      PROVE  /\ Sound(New(n, c), ff) /\ New(n, c).imp # None
             /\ New(n, c).imp.held = Prefix(CudaObjects, n)
             /\ New(n, c).imp.ctx = c /\ Current(New(n, c).stack) = c
  BY <1>2, CreatedSound
<1> HIDE DEF New
<1> DEFINE Done(n, c, pushed) == Registered(New(n, c), c, pushed)
<1>5. ASSUME NEW n \in 0..15, NEW c \in Contexts, NEW pushed \in BOOLEAN
      PROVE  /\ Sound(Done(n, c, pushed), ff)
             /\ Done(n, c, pushed).imp = New(n, c).imp
  BY <1>4, RegisteredSound
<1> HIDE DEF Done
<1>6. CASE \E n \in 1..2 : h = Failed(Made(n))
  <2>1. PICK n \in 1..2 : h = Failed(Made(n))
    BY <1>6
  <2>2. n \in 0..15
    OBVIOUS
  <2> QED
    BY <1>2, <2>1, <2>2, FailedSound
<1>7. CASE \E n \in 3..12, c \in free : h = Failed(New(n, c))
  <2>1. PICK n \in 3..12, c \in free : h = Failed(New(n, c))
    BY <1>7
  <2>2. n \in 0..15 /\ c \in Contexts
    OBVIOUS
  <2> QED
    BY <1>4, <2>1, <2>2, FailedSound
<1>8. CASE \E n \in 13..14, c \in free, pushed \in BOOLEAN :
             h = Failed(Done(n, c, pushed))
  <2>1. PICK n \in 13..14, c \in free, pushed \in BOOLEAN :
          h = Failed(Done(n, c, pushed))
    BY <1>8
  <2>2. n \in 0..15 /\ c \in Contexts
    OBVIOUS
  <2> DEFINE r == Done(n, c, pushed)
  <2>3. Sound(r, ff) /\ r.imp # None
    BY <1>4, <1>5, <2>2
  <2> HIDE DEF r
  <2>4. h = Failed(r)
    BY <2>1 DEF r
  <2> QED
    BY <2>3, <2>4, FailedSound
<1>9. CASE \E c \in free, pushed \in BOOLEAN : h = Sized(Done(15, c, pushed), size)
  <2>1. PICK c \in free, pushed \in BOOLEAN : h = Sized(Done(15, c, pushed), size)
    BY <1>9
  <2> DEFINE r == Done(15, c, pushed)
  <2>2. Sound(r, ff) /\ r.imp # None /\ r.imp.held = Cuda /\ r.imp.ctx \in Contexts
    BY <1>3, <1>4, <1>5
  <2> HIDE DEF r
  <2>3. h = Sized(r, size)
    BY <2>1 DEF r
  <2> QED
    BY <2>2, <2>3, SizeSound
<1>10. \/ \E n \in 1..2 : h = Failed(Made(n))
       \/ \E n \in 3..12, c \in free : h = Failed(New(n, c))
       \/ \E n \in 13..14, c \in free, pushed \in BOOLEAN :
            h = Failed(Done(n, c, pushed))
       \/ \E c \in free, pushed \in BOOLEAN : h = Sized(Done(15, c, pushed), size)
  <2> DEFINE rows == 3..9 \cup cuda_compile_shaders \cup 11..12
  <2>1. \A n \in rows : n \in 3..12
    BY DEF cuda_compile_shaders
  <2>2. h \in {Failed(Made(n)) : n \in 1..2}
             \cup {Failed(New(n, c)) : n \in rows, c \in free}
             \cup {Failed(Done(n, c, pushed)) :
                     n \in 13..14, c \in free, pushed \in BOOLEAN}
             \cup {Sized(Done(15, c, pushed), size) :
                     c \in free, pushed \in BOOLEAN}
    BY DEF cuda_setup, Done, New, Made, Sized
  <2> HIDE DEF rows, free
  <2> QED
    BY <2>1, <2>2
<1> QED
  BY <1>6, <1>7, <1>8, <1>9, <1>10

LEMMA CopySound ==
  ASSUME NEW g, NEW ff, Sound(g, ff), g.imp # None, g.imp.ctx \in Contexts,
         NEW h \in cuda_copy_planes(g)
  PROVE  Sound(h, ff) /\ h.imp = g.imp
<1> DEFINE c == g.imp.ctx
           s == cuCtxPushCurrent(g.stack, c)
           in == [g EXCEPT !.stack = s]
           yes == TRUE
           u == Interop(in, "copy", c, yes)
           p == cuCtxPopCurrent(u.stack)
           out == [u EXCEPT !.stack = p]
<1>1. h = Failed(g) \/ h = Failed(out) \/ h = out
  BY DEF cuda_copy_planes
<1>2. s \in Seq(Contexts) /\ Current(s) = c
  BY Pushed DEF Sound, State
<1> HIDE DEF s
<1>3. Sound(in, ff) /\ in.imp = g.imp /\ Current(in.stack) = c
  BY <1>2, StackSound
<1>4. yes \in BOOLEAN
  OBVIOUS
<1> HIDE DEF in, yes
<1>5. Sound(u, ff) /\ u.imp = in.imp
  BY <1>3, <1>4, InteropSound
<1> HIDE DEF u
<1>6. p \in Seq(Contexts)
  BY <1>5, Popped DEF Sound, State
<1> HIDE DEF p
<1>7. Sound(out, ff) /\ out.imp = u.imp
  BY <1>5, <1>6, StackSound
<1> HIDE DEF out
<1> QED
  BY <1>1, <1>3, <1>5, <1>7, FailedSound

LEMMA CudaReadySound ==
  ASSUME NEW g, NEW ff, Sound(g, ff), g.imp # None, NEW size \in Sizes,
         NEW h,
         LET setups == UNION {cuda_setup(k, size) : k \in cuda_clear(g)}
         IN  h \in Succeeded(setups) \cup UNION {cuda_clear(k) : k \in GivenUp(setups)}
  PROVE  /\ Sound(h, ff) /\ h.imp # None /\ Whole(h.imp, "cuda")
         /\ h.ok => h.imp.ctx \in Contexts
<1> DEFINE setups == UNION {cuda_setup(k, size) : k \in cuda_clear(g)}
<1>1. ASSUME NEW s \in setups
      PROVE  /\ Sound(s, ff) /\ s.imp # None
             /\ s.ok => s.imp.held = Cuda /\ s.imp.ctx \in Contexts
  <2>1. PICK k \in cuda_clear(g) : s \in cuda_setup(k, size)
    BY <1>1
  <2>2. Sound(k, ff) /\ k.imp # None /\ k.imp.held = {}
    BY <2>1, CudaClearSound DEF Bare
  <2> QED
    BY <2>1, <2>2, CudaSetupSound
<1>2. h \in Succeeded(setups) \cup UNION {cuda_clear(k) : k \in GivenUp(setups)}
  OBVIOUS
<1> HIDE DEF setups
<1>3. CASE h \in Succeeded(setups)
  BY <1>1, <1>3 DEF Succeeded, Whole
<1>4. CASE h \in UNION {cuda_clear(k) : k \in GivenUp(setups)}
  <2>1. PICK s \in setups : ~s.ok /\ h \in cuda_clear(Latched(s))
    BY <1>4 DEF GivenUp, Latched
  <2> DEFINE l == Latched(s)
  <2>2. Sound(s, ff) /\ s.imp # None
    BY <1>1
  <2>3. Sound(l, ff) /\ l.imp # None /\ l.ok = s.ok
    BY <2>2, LatchSound
  <2> HIDE DEF l
  <2>4. Sound(h, ff) /\ h.imp # None /\ Bare(h.imp) /\ h.ok = l.ok
    BY <2>1, <2>3, CudaClearSound DEF l
  <2> QED
    BY <2>1, <2>3, <2>4 DEF Whole
<1> QED
  BY <1>2, <1>3, <1>4

LEMMA CudaFrameSound ==
  ASSUME NEW g, NEW ff, Sound(g, ff), Whole(g.imp, "cuda"), NEW size \in Sizes,
         NEW frame \in {"good", "no OBS device", "planes absent", "odd size"},
         NEW h \in zc_hw_cuda_import_frame(g, size, frame)
  PROVE  Sound(h, ff) /\ Whole(h.imp, "cuda")
<1> DEFINE w == WithSlot(g)
           setups == UNION {cuda_setup(k, size) : k \in cuda_clear(w)}
           ready == IF w.imp.size = size THEN {w}
                    ELSE Succeeded(setups) \cup UNION {cuda_clear(k) : k \in GivenUp(setups)}
           copied == UNION {cuda_copy_planes(k) : k \in {r \in ready : r.ok}}
<1>1. CASE h = Failed(g)
  BY <1>1, FailedSound
<1>2. CASE g.imp # None /\ h = Latched(Failed(g))
  <2> DEFINE f == Failed(g)
  <2>1. Sound(f, ff) /\ f.imp # None /\ Whole(f.imp, "cuda")
    BY <1>2, FailedSound
  <2>2. h = Latched(f)
    BY <1>2
  <2> HIDE DEF f
  <2> QED
    BY <2>1, <2>2, LatchSound DEF Whole, Bare
<1>3. Sound(w, ff) /\ w.imp # None /\ Whole(w.imp, "cuda")
  BY SlotSound DEF Whole
<1> HIDE DEF w
<1>4. ASSUME NEW r \in ready
      PROVE  /\ Sound(r, ff) /\ r.imp # None /\ Whole(r.imp, "cuda")
             /\ r.ok => r.imp.ctx \in Contexts
  <2>1. CASE w.imp.size = size
    <3>1. r = w
      BY <2>1
    <3>2. w.imp.ctx \in Contexts
      BY <1>3, <2>1, GpuAssumption DEF Whole, Bare
    <3> QED
      BY <1>3, <3>1, <3>2
  <2>2. CASE w.imp.size # size
    BY <1>3, <2>2, CudaReadySound
  <2> QED
    BY <2>1, <2>2
<1>5. \/ h = Failed(g)
      \/ g.imp # None /\ h = Latched(Failed(g))
      \/ h \in {r \in ready : ~r.ok} \cup copied \cup {Failed(k) : k \in copied}
  BY DEF zc_hw_cuda_import_frame, Latched, w
<1> HIDE DEF ready
<1>6. ASSUME NEW k \in copied
      PROVE  Sound(k, ff) /\ Whole(k.imp, "cuda")
  <2>1. PICK r \in ready : r.ok /\ k \in cuda_copy_planes(r)
    BY <1>6
  <2> QED
    BY <1>4, <2>1, CopySound
<1> HIDE DEF copied
<1>7. CASE h \in {r \in ready : ~r.ok} \cup copied \cup {Failed(k) : k \in copied}
  BY <1>4, <1>6, <1>7, FailedSound
<1> QED
  BY <1>1, <1>2, <1>5, <1>7

------------------------------------------------------------------------------
(* The decoders.                                                           *)

LEMMA HoldsNat == ASSUME NEW ff PROVE Holds(ff) \in Nat
<1> DEFINE S == ff \cap {"hw_device_ctx", "avctx", Pool}
<1>1. IsFiniteSet({"hw_device_ctx", "avctx", Pool})
  <2>1. IsFiniteSet({"hw_device_ctx"})
    BY FS_Singleton
  <2>2. IsFiniteSet({"hw_device_ctx"} \cup {"avctx"})
    BY <2>1, FS_AddElement
  <2>3. IsFiniteSet(({"hw_device_ctx"} \cup {"avctx"}) \cup {Pool})
    BY <2>2, FS_AddElement
  <2>4. ({"hw_device_ctx"} \cup {"avctx"}) \cup {Pool} = {"hw_device_ctx", "avctx", Pool}
    OBVIOUS
  <2> QED
    BY <2>3, <2>4
<1>2. IsFiniteSet(S)
  BY <1>1, FS_Subset
<1> QED
  BY <1>2, FS_CardinalityType DEF Holds

LEMMA DeviceInRange ==
  ASSUME NEW answering \in SUBSET DOMAIN Luids
  PROVE  zc_hw_cuda_device_for_d3d11(answering) \in -1..(Len(Luids) - 1)
<1> DEFINE matching == {i \in answering : Luids[i] = ObsLuid}
           i0 == CHOOSE i \in matching : \A j \in matching : i <= j
           R == OpToRel(<, Nat)
<1>1. DOMAIN Luids = 1..Len(Luids) /\ Len(Luids) \in Nat
  BY GpuAssumption
<1>2. matching \in SUBSET Nat
  BY <1>1
<1>3. CASE matching = {}
  BY <1>1, <1>3 DEF zc_hw_cuda_device_for_d3d11
<1>4. CASE matching # {}
  <2>1. IsWellFoundedOn(R, Nat)
    BY NatLessThanWellFounded
  <2>2. \A x, y \in Nat : x < y => <<x, y>> \in R
    BY DEF OpToRel
  <2> HIDE DEF R, matching
  <2>3. PICK k \in matching : \A j \in matching : ~(<<j, k>> \in R)
    BY <1>2, <1>4, <2>1, WFMin
  <2>4. \A j \in matching : ~(j < k) /\ j \in Nat /\ k \in Nat
    BY <1>2, <2>2, <2>3
  <2>5. \A j \in matching : k <= j
    BY <2>4
  <2>6. i0 \in matching
    BY <2>5
  <2> HIDE DEF i0
  <2>7. i0 \in 1..Len(Luids)
    BY <1>1, <2>6 DEF matching
  <2>8. zc_hw_cuda_device_for_d3d11(answering) = i0 - 1
    BY <1>4 DEF zc_hw_cuda_device_for_d3d11, i0, matching
  <2> QED
    BY <1>1, <2>7, <2>8
<1> QED
  BY <1>3, <1>4

\* An importer starts from what the decoder has settled.
LEMMA WorldSound ==
  ASSUME Inv, NEW d \in Decoders, dec[d] # None, NEW t \in Threads
  PROVE  /\ Sound(World(d, t), dec[d].ff)
         /\ World(d, t).imp = dec[d].imp
<1> DEFINE b == TRUE
           none == {}
           i == dec[d].imp
           a == alive[d]
           s == stack[t]
           w == [imp |-> i, alive |-> a, stack |-> s, made |-> made,
                 calls |-> none, ok |-> b]
<1>1. b \in BOOLEAN /\ none \subseteq Call
  OBVIOUS
<1>2. /\ i \in Imports \cup {None} /\ a \in [Objects -> Int] /\ s \in Seq(Contexts)
      /\ made \in SUBSET Contexts
  BY DEF Inv, TypeOK, Opened
<1>3. Owned(a, dec[d].ff, i)
  BY DEF Inv, Settled
<1>4. World(d, t) = w
  BY DEF World
<1> HIDE DEF b, none, i, a, s
<1>5. w \in State
  BY <1>1, <1>2 DEF State
<1>6. w.imp = i /\ w.alive = a /\ w.calls = none
  OBVIOUS
<1> HIDE DEF w
<1>7. Sound(w, dec[d].ff)
  BY <1>3, <1>5, <1>6 DEF Sound, none
<1> QED
  BY <1>4, <1>6, <1>7 DEF i

\* A step that changes one decoder and what the drivers keep for it.
LEMMA OneDecoder ==
  ASSUME Inv, NEW d \in Decoders, NEW x \in Opened \cup {None},
         NEW a \in [Objects -> Int], NEW r \in Int, NEW n \in 0..MaxPools,
         dec' = [dec EXCEPT ![d] = x], alive' = [alive EXCEPT ![d] = a],
         devRef' = [devRef EXCEPT ![d] = r], pools' = [pools EXCEPT ![d] = n],
         Settled(x, a, r, n)
  PROVE  /\ \A e \in Decoders : Settled(dec'[e], alive'[e], devRef'[e], pools'[e])
         /\ dec' \in [Decoders -> Opened \cup {None}]
         /\ alive' \in [Decoders -> [Objects -> Int]]
         /\ devRef' \in [Decoders -> Int]
         /\ pools' \in [Decoders -> 0..MaxPools]
<1>1. /\ dec' \in [Decoders -> Opened \cup {None}]
      /\ alive' \in [Decoders -> [Objects -> Int]]
      /\ devRef' \in [Decoders -> Int]
      /\ pools' \in [Decoders -> 0..MaxPools]
  BY DEF Inv, TypeOK
<1>2. ASSUME NEW e \in Decoders
      PROVE  Settled(dec'[e], alive'[e], devRef'[e], pools'[e])
  <2>1. CASE e = d
    <3>1. dec'[e] = x /\ alive'[e] = a /\ devRef'[e] = r /\ pools'[e] = n
      BY <2>1 DEF Inv, TypeOK
    <3> QED
      BY <3>1
  <2>2. CASE e # d
    <3>1. /\ dec'[e] = dec[e] /\ alive'[e] = alive[e] /\ devRef'[e] = devRef[e]
          /\ pools'[e] = pools[e]
      BY <2>2 DEF Inv, TypeOK
    <3>2. Settled(dec[e], alive[e], devRef[e], pools[e])
      BY DEF Inv
    <3> QED
      BY <3>1, <3>2
  <2> QED
    BY <2>1, <2>2
<1> QED
  BY <1>1, <1>2

\* A decoder was not opened: at most a pool was asked for.
LEMMA NotOpened ==
  ASSUME Inv, NEW d \in Decoders, dec[d] = None, NEW k \in 0..1,
         pools[d] + k \in 0..MaxPools,
         pools' = [pools EXCEPT ![d] = @ + k], devRef' = [devRef EXCEPT ![d] = @ + k],
         UNCHANGED <<dec, alive, made, stack>>, calls' = {},
         api' \in {"unloaded", "loaded", "missing"}
  PROVE  Inv'
<1> DEFINE x == dec[d]
           a == alive[d]
           r == devRef[d] + k
           n == pools[d] + k
<1>1. /\ x \in Opened \cup {None} /\ a \in [Objects -> Int]
      /\ devRef[d] \in Int /\ pools[d] \in Nat
  BY GpuAssumption DEF Inv, TypeOK
<1>2. Settled(x, a, devRef[d], pools[d])
  BY DEF Inv
<1>3. r \in Int /\ n \in 0..MaxPools
  BY <1>1
<1>4. Settled(x, a, r, n)
  BY <1>1, <1>2 DEF Settled
<1>5. /\ dec' = [dec EXCEPT ![d] = x] /\ alive' = [alive EXCEPT ![d] = a]
      /\ devRef' = [devRef EXCEPT ![d] = r] /\ pools' = [pools EXCEPT ![d] = n]
  BY DEF Inv, TypeOK
<1> HIDE DEF x, a, r, n
<1>6. /\ \A e \in Decoders : Settled(dec'[e], alive'[e], devRef'[e], pools'[e])
      /\ dec' \in [Decoders -> Opened \cup {None}]
      /\ alive' \in [Decoders -> [Objects -> Int]]
      /\ devRef' \in [Decoders -> Int]
      /\ pools' \in [Decoders -> 0..MaxPools]
  BY <1>1, <1>3, <1>4, <1>5, OneDecoder DEF x, a
<1> QED
  BY <1>6 DEF Inv, TypeOK

LEMMA Opens ==
  ASSUME Inv, NEW d \in Decoders, dec[d] = None, NEW k \in 0..1,
         pools[d] + k \in 0..MaxPools, NEW backend \in {"d3d11", "cuda"},
         NEW ff \in {Av, Av \cup {Pool}}, NEW device \in -1..(Len(Luids) - 1),
         OpensWith(d, backend, device, ff),
         pools' = [pools EXCEPT ![d] = @ + k],
         devRef' = [devRef EXCEPT ![d] = @ + Holds(ff) + k],
         UNCHANGED <<made, stack>>, calls' = {},
         api' \in {"unloaded", "loaded", "missing"}
  PROVE  Inv'
<1> DEFINE b == FALSE
           x == [backend |-> backend, ff |-> ff, cuda_device |-> device,
                 import_unsupported |-> b, imp |-> None]
           a == [o \in Objects |-> alive[d][o] + IF o \in ff THEN 1 ELSE 0]
           r == devRef[d] + Holds(ff) + k
           n == pools[d] + k
<1>1. /\ alive[d] \in [Objects -> Int] /\ devRef[d] \in Int /\ pools[d] \in Nat
      /\ Holds(ff) \in Nat
  BY GpuAssumption, HoldsNat DEF Inv, TypeOK
<1>2. Settled(dec[d], alive[d], devRef[d], pools[d])
  BY DEF Inv
<1>3. dec' = [dec EXCEPT ![d] = x] /\ b \in BOOLEAN
  BY DEF OpensWith
<1>4. /\ alive' = [alive EXCEPT ![d] = a] /\ devRef' = [devRef EXCEPT ![d] = r]
      /\ pools' = [pools EXCEPT ![d] = n]
  BY DEF Inv, TypeOK, OpensWith
<1>5. ff \in SUBSET Objects
  BY Apart
<1> HIDE DEF b
<1>6. x \in Opened
  BY <1>3, <1>5 DEF Opened
<1>7. x # None /\ x.ff = ff /\ x.imp = None
  BY <1>6, NoneIsNew
<1> HIDE DEF x
<1>8. a \in [Objects -> Int] /\ r \in Int /\ n \in 0..MaxPools
  BY <1>1
<1>9. Settled(x, a, r, n)
  <2>1. \A o \in Objects : a[o] = One(o, ff)
    BY <1>1, <1>2 DEF Settled, One
  <2>2. Owned(a, ff, None)
    BY <2>1 DEF Owned, Points, One
  <2>3. r = n + Holds(ff)
    BY <1>1, <1>2 DEF Settled
  <2> HIDE DEF a, r, n
  <2> QED
    BY <1>7, <2>2, <2>3 DEF Settled, Whole
<1> HIDE DEF a, r, n
<1>10. /\ \A e \in Decoders : Settled(dec'[e], alive'[e], devRef'[e], pools'[e])
       /\ dec' \in [Decoders -> Opened \cup {None}]
       /\ alive' \in [Decoders -> [Objects -> Int]]
       /\ devRef' \in [Decoders -> Int]
       /\ pools' \in [Decoders -> 0..MaxPools]
  BY <1>3, <1>4, <1>6, <1>8, <1>9, OneDecoder
<1> QED
  BY <1>10 DEF Inv, TypeOK

LEMMA CreateKeeps ==
  ASSUME Inv, NEW d \in Decoders, NEW backend \in {"d3d11", "cuda"},
         NEW size \in Sizes \cup {Unknown}, zc_hw_ffmpeg_create(d, backend, size)
  PROVE  Inv'
<1> DEFINE pooled == IF WantsPool(backend, size) THEN 1 ELSE 0
           Device(s) == DeviceFor(backend, api', s)
<1>1. PICK s \in SUBSET DOMAIN Luids :
        \/ UNCHANGED <<dec, alive, devRef, pools>>
        \/ /\ pools' = [pools EXCEPT ![d] = @ + pooled]
           /\ devRef' = [devRef EXCEPT ![d] = @ + pooled]
           /\ UNCHANGED <<dec, alive>>
        \/ \E pool \in IF pooled = 1 THEN {{}, {Pool}} ELSE {{}} :
             /\ OpensWith(d, backend, Device(s), Av \cup pool)
             /\ pools' = [pools EXCEPT ![d] = @ + pooled]
             /\ devRef' = [devRef EXCEPT ![d] = @ + Holds(Av \cup pool) + pooled]
  BY DEF zc_hw_ffmpeg_create, Av
<1>2. /\ dec[d] = None /\ calls' = {} /\ UNCHANGED <<made, stack>>
      /\ WantsPool(backend, size) => pools[d] < MaxPools
  BY DEF zc_hw_ffmpeg_create
<1>3. pooled \in 0..1 /\ pools[d] + pooled \in 0..MaxPools /\ pools[d] \in 0..MaxPools
  BY <1>2, GpuAssumption DEF Inv, TypeOK
<1>4. Device(s) \in -1..(Len(Luids) - 1)
  <2>1. Len(Luids) \in Nat
    BY GpuAssumption
  <2> QED
    BY <2>1, DeviceInRange DEF DeviceFor
<1>5. api' \in {"unloaded", "loaded", "missing"}
  BY DEF zc_hw_ffmpeg_create, zc_cuda_api_get, Inv, TypeOK
<1> HIDE DEF pooled, Device
<1>6. CASE UNCHANGED <<dec, alive, devRef, pools>>
  BY <1>2, <1>5, <1>6 DEF Inv, TypeOK, Settled
<1>7. CASE /\ pools' = [pools EXCEPT ![d] = @ + pooled]
           /\ devRef' = [devRef EXCEPT ![d] = @ + pooled]
           /\ UNCHANGED <<dec, alive>>
  BY <1>2, <1>3, <1>5, <1>7, NotOpened
<1>8. ASSUME NEW pool \in IF pooled = 1 THEN {{}, {Pool}} ELSE {{}},
             OpensWith(d, backend, Device(s), Av \cup pool),
             pools' = [pools EXCEPT ![d] = @ + pooled],
             devRef' = [devRef EXCEPT ![d] = @ + Holds(Av \cup pool) + pooled]
      PROVE  Inv'
  <2> DEFINE ff == Av \cup pool
             device == Device(s)
  <2>1. ff \in {Av, Av \cup {Pool}}
    OBVIOUS
  <2>2. device \in -1..(Len(Luids) - 1)
    BY <1>4
  <2>3. /\ OpensWith(d, backend, device, ff)
        /\ devRef' = [devRef EXCEPT ![d] = @ + Holds(ff) + pooled]
    BY <1>8
  <2> HIDE DEF ff, device
  <2> QED
    BY <1>2, <1>3, <1>5, <1>8, <2>1, <2>2, <2>3, Opens
<1> QED
  BY <1>1, <1>6, <1>7, <1>8

LEMMA ImportKeeps ==
  ASSUME Inv, NEW d \in Decoders, NEW size \in Sizes, ffmpeg_import(d, size)
  PROVE  Inv'
<1> DEFINE w == World(d, Render)
           ff == dec[d].ff
           backend == dec[d].backend
<1>0. dec[d] # None /\ UNCHANGED <<devRef, pools, api>>
  BY DEF ffmpeg_import
<1>1. Render \in Threads
  BY DEF Threads
<1>2. /\ dec[d] \in Opened /\ ff \in {Av, Av \cup {Pool}}
      /\ Whole(dec[d].imp, backend) /\ backend \in {"d3d11", "cuda"}
      /\ devRef[d] = pools[d] + Holds(ff)
  BY <1>0 DEF Inv, TypeOK, Settled, Opened
<1>3. Sound(w, ff) /\ w.imp = dec[d].imp
  BY <1>0, <1>1, WorldSound
<1>4. PICK g : /\ Apply(d, Render, g)
               /\ dec' = [dec EXCEPT ![d].imp = g.imp, ![d].import_unsupported = ~g.ok]
               /\ \/ /\ backend = "d3d11"
                     /\ \E s \in {"good", "absent", "not NV12", "slice out of range"} :
                          g \in zc_hw_import_d3d11_slice(w, size, s)
                  \/ /\ backend # "d3d11"
                     /\ \E f \in {"good", "no OBS device", "planes absent", "odd size"} :
                          g \in zc_hw_cuda_import_frame(w, size, f)
  BY DEF ffmpeg_import
<1>5. Sound(g, ff) /\ Whole(g.imp, backend)
  <2> HIDE DEF w
  <2> QED
    BY <1>2, <1>3, <1>4, SliceSound, CudaFrameSound
<1> DEFINE i == g.imp
           no == ~g.ok
           x == [dec[d] EXCEPT !.imp = i, !.import_unsupported = no]
           a == g.alive
<1>6. /\ i \in Imports \cup {None} /\ a \in [Objects -> Int] /\ no \in BOOLEAN
      /\ g.stack \in Seq(Contexts) /\ g.made \subseteq Contexts
      /\ g.calls \subseteq Call /\ \A c \in g.calls : OwnCurrent(c)
      /\ Owned(a, ff, i)
  BY <1>5 DEF Sound, State
<1>7. dec' = [dec EXCEPT ![d] = x]
  BY <1>2, <1>4 DEF Opened, Inv, TypeOK
<1> HIDE DEF no
<1>8. x \in Opened /\ x.ff = ff /\ x.imp = i /\ x.backend = backend
  BY <1>2, <1>6 DEF Opened
<1> HIDE DEF x
<1>9. Settled(x, a, devRef[d], pools[d])
  BY <1>2, <1>5, <1>6, <1>8, NoneIsNew DEF Settled
<1>10. /\ alive' = [alive EXCEPT ![d] = a]
       /\ devRef' = [devRef EXCEPT ![d] = devRef[d]]
       /\ pools' = [pools EXCEPT ![d] = pools[d]]
       /\ devRef[d] \in Int /\ pools[d] \in 0..MaxPools
  BY <1>0, <1>4 DEF Apply, Inv, TypeOK
<1> HIDE DEF a, i, w, ff, backend
<1>11. /\ \A e \in Decoders : Settled(dec'[e], alive'[e], devRef'[e], pools'[e])
       /\ dec' \in [Decoders -> Opened \cup {None}]
       /\ alive' \in [Decoders -> [Objects -> Int]]
       /\ devRef' \in [Decoders -> Int]
       /\ pools' \in [Decoders -> 0..MaxPools]
  BY <1>6, <1>7, <1>8, <1>9, <1>10, OneDecoder
<1>12. stack' \in [Threads -> Seq(Contexts)] /\ made' \subseteq Contexts
       /\ calls' = g.calls
  BY <1>1, <1>4, <1>6 DEF Apply, Inv, TypeOK
<1> QED
  BY <1>0, <1>6, <1>11, <1>12 DEF Inv, TypeOK

LEMMA FreedSound ==
  ASSUME Inv, NEW d \in Decoders, dec[d] # None, NEW t \in Threads,
         NEW g \in ImportFreed(d, t)
  PROVE  Sound(g, dec[d].ff) /\ Points(g.imp) = {}
<1> DEFINE w == World(d, t)
<1>1. Sound(w, dec[d].ff) /\ w.imp = dec[d].imp
  BY WorldSound
<1> HIDE DEF w
<1>2. CASE dec[d].imp = None
  BY <1>1, <1>2 DEF ImportFreed, Points, w
<1>3. CASE dec[d].imp # None
  <2>1. g \in cuda_clear(w) \/ g = ReleaseHeld(w)
    BY <1>3 DEF ImportFreed, vp_clear, w
  <2>2. CASE g \in cuda_clear(w)
    BY <1>1, <1>3, <2>2, CudaClearSound DEF Points, Bare
  <2>3. CASE g = ReleaseHeld(w)
    BY <1>1, <1>3, <2>3, Released DEF ReleasedFrom, Points, Bare
  <2> QED
    BY <2>1, <2>2, <2>3
<1> QED
  BY <1>2, <1>3

LEMMA DestroyKeeps ==
  ASSUME Inv, NEW d \in Decoders, NEW t \in Threads, ffmpeg_destroy(d, t)
  PROVE  Inv'
<1> DEFINE ff == dec[d].ff
<1>1. /\ dec[d] # None /\ dec' = [dec EXCEPT ![d] = None]
      /\ UNCHANGED <<pools, api>>
  BY DEF ffmpeg_destroy
<1>2. PICK g \in ImportFreed(d, t) :
        /\ stack' = [stack EXCEPT ![t] = g.stack]
        /\ made' = g.made
        /\ calls' = g.calls
        /\ alive' = [alive EXCEPT ![d] =
             [o \in Objects |-> g.alive[o] - IF o \in ff THEN 1 ELSE 0]]
        /\ devRef' = [devRef EXCEPT ![d] = @ - Holds(ff)]
  BY DEF ffmpeg_destroy
<1>3. Sound(g, ff) /\ Points(g.imp) = {}
  BY <1>1, FreedSound
<1>4. /\ g.alive \in [Objects -> Int] /\ g.stack \in Seq(Contexts)
      /\ g.made \subseteq Contexts /\ g.calls \subseteq Call
      /\ \A c \in g.calls : OwnCurrent(c)
      /\ Owned(g.alive, ff, g.imp)
  BY <1>3 DEF Sound, State
<1> DEFINE a == [o \in Objects |-> g.alive[o] - IF o \in ff THEN 1 ELSE 0]
           r == devRef[d] - Holds(ff)
<1>5. /\ devRef[d] \in Int /\ pools[d] \in 0..MaxPools /\ Holds(ff) \in Nat
      /\ devRef[d] = pools[d] + Holds(ff)
  BY <1>1, HoldsNat DEF Inv, TypeOK, Settled
<1>6. a \in [Objects -> Int] /\ \A o \in Objects : a[o] = 0
  BY <1>3, <1>4 DEF Owned, One
<1>7. r \in Int /\ r = pools[d]
  BY <1>5
<1>8. /\ alive' = [alive EXCEPT ![d] = a] /\ devRef' = [devRef EXCEPT ![d] = r]
      /\ pools' = [pools EXCEPT ![d] = pools[d]]
  BY <1>1, <1>2 DEF Inv, TypeOK
<1> HIDE DEF a, r, ff
<1>9. Settled(None, a, r, pools[d])
  BY <1>6, <1>7 DEF Settled
<1>10. /\ \A e \in Decoders : Settled(dec'[e], alive'[e], devRef'[e], pools'[e])
       /\ dec' \in [Decoders -> Opened \cup {None}]
       /\ alive' \in [Decoders -> [Objects -> Int]]
       /\ devRef' \in [Decoders -> Int]
       /\ pools' \in [Decoders -> 0..MaxPools]
  BY <1>1, <1>5, <1>6, <1>7, <1>8, <1>9, OneDecoder
<1>11. stack' \in [Threads -> Seq(Contexts)] /\ made' \subseteq Contexts
  BY <1>2, <1>4 DEF Inv, TypeOK
<1> QED
  BY <1>1, <1>2, <1>4, <1>10, <1>11 DEF Inv, TypeOK

------------------------------------------------------------------------------
(* The theorems.                                                           *)

LEMMA InvInit == Init => Inv
<1> SUFFICES ASSUME Init PROVE Inv
  OBVIOUS
<1>1. TypeOK
  BY GpuAssumption DEF Init, TypeOK
<1>2. \A d \in Decoders : Settled(dec[d], alive[d], devRef[d], pools[d])
  BY DEF Init, Settled
<1> QED
  BY <1>1, <1>2 DEF Inv, Init

LEMMA InvNext == Inv /\ [Next]_vars => Inv'
<1> SUFFICES ASSUME Inv, [Next]_vars PROVE Inv'
  OBVIOUS
<1>1. CASE UNCHANGED vars
  BY <1>1 DEF vars, Inv, TypeOK, Settled
<1>2. CASE Next
  BY <1>2, CreateKeeps, ImportKeeps, DestroyKeeps DEF Next
<1> QED
  BY <1>1, <1>2

LEMMA Invariance == Spec => []Inv
BY InvInit, InvNext, PTL DEF Spec

\* The decoders, the drivers and the stacks of the threads keep their shape: no
\* thread ever has something on its stack that is not a context.
THEOREM Typing == Spec => []TypeOK
BY Invariance, PTL DEF Inv

\* The drivers keep exactly what the decoders point to, for any number of
\* decoders: whichever calls of vp_setup() and cuda_setup() fail, and on whichever
\* thread a decoder is destroyed, nothing is lost or released twice but the
\* reference of each surface pool.
THEOREM ObjectsOwned == Spec => []EverythingOwned
<1>1. Inv => EverythingOwned
  <2> SUFFICES ASSUME Inv, NEW d \in Decoders
               PROVE  /\ \A o \in Objects : alive[d][o] = IF o \in Held(d) THEN 1 ELSE 0
                      /\ Held(d) \cap (Vp \cup Cuda) \in {{}, Vp, Cuda}
                      /\ devRef[d] = pools[d]
                           + IF dec[d] = None THEN 0 ELSE Holds(dec[d].ff)
    BY DEF EverythingOwned, Vp, Cuda
  <2>1. Settled(dec[d], alive[d], devRef[d], pools[d])
    BY DEF Inv
  <2>2. CASE dec[d] = None
    <3>1. devRef[d] = pools[d] /\ pools[d] \in Nat
      BY <2>1, <2>2 DEF Settled, Inv, TypeOK
    <3> QED
      BY <2>1, <2>2, <3>1 DEF Held, Settled
  <2>3. CASE dec[d] # None
    <3> DEFINE ff == dec[d].ff
               held == Points(dec[d].imp)
    <3>1. Held(d) = ff \cup held
      BY <2>3 DEF Held, Points
    <3>2. /\ ff \in {Av, Av \cup {Pool}} /\ Owned(alive[d], ff, dec[d].imp)
          /\ devRef[d] = pools[d] + Holds(ff)
      BY <2>1, <2>3 DEF Settled
    <3>3. held \in {{}, Vp, Cuda}
      BY <2>1, <2>3 DEF Settled, Whole, Bare, Points
    <3>4. \A o \in Objects : alive[d][o] = One(o, ff) + One(o, held)
      BY <3>2 DEF Owned
    <3> HIDE DEF ff, held
    <3>5. ff \cap held = {} /\ ff \cap (Vp \cup Cuda) = {}
      BY <3>2, <3>3, Apart
    <3>6. \A o \in Objects : alive[d][o] = IF o \in Held(d) THEN 1 ELSE 0
      BY <3>1, <3>4, <3>5 DEF One
    <3>7. Held(d) \cap (Vp \cup Cuda) = held
      BY <3>1, <3>3, <3>5
    <3> QED
      BY <2>3, <3>2, <3>3, <3>6, <3>7 DEF ff
  <2> QED
    BY <2>2, <2>3
<1> QED
  BY <1>1, Invariance, PTL

\* Every interop call is made with the context of its own importer current,
\* whatever the other decoders left on the stack of the render thread; only the
\* unregistering of a context that could not be pushed is not.
THEOREM ContextCurrent == Spec => []OwnContextCurrent
<1>1. Inv => OwnContextCurrent
  BY DEF Inv, OwnCurrent, OwnContextCurrent
<1> QED
  BY <1>1, Invariance, PTL
==============================================================================

------------------------------ MODULE GpuImport ------------------------------
(***************************************************************************)
(* The hardware decoders of hw_decode_ffmpeg.cpp and the two importers that *)
(* turn their frames into textures OBS can draw: the video processor of     *)
(* hw_decode_d3d11_win.cpp and the CUDA copy of hw_decode_cuda_win.cpp.     *)
(*                                                                          *)
(* Every operation runs with the graphics context of OBS entered, so two of *)
(* them never overlap and each is one step.  What a step does is a row of   *)
(* driver calls of which any may fail; a C function is an operator from the *)
(* state it starts in to the set of states it may return in.  The objects   *)
(* that the drivers hand out are counted apart from the pointers to them,   *)
(* so a pointer that is overwritten or forgotten is an object lost.         *)
(*                                                                          *)
(* CUDA keeps a stack of contexts PER THREAD.  Frames are imported on the   *)
(* render thread of OBS; decoders are created and destroyed there and on    *)
(* the receive and teardown threads of the sources.                         *)
(***************************************************************************)
EXTENDS Integers, Sequences, SequencesExt, FiniteSets

CONSTANTS
  Decoders,  \* the decoders of all sources
  Contexts,  \* the CUDA contexts that can be created, one after the other
  Others,    \* threads of the plugin besides the render thread of OBS
  Luids,     \* the adapters of the CUDA devices, a sequence
  ObsLuid,   \* the adapter OBS renders on
  Sizes,     \* sizes of frames, even and not zero
  Unknown,   \* the size before the camera has sent its metadata
  None,
  MaxPools   \* bound on the D3D11 surface pools that a decoder identity makes

Render == "render"
Threads == {Render} \cup Others

ASSUME GpuAssumption ==
  /\ None \notin Decoders \cup Contexts
  /\ Render \notin Others
  /\ Unknown \notin Sizes
  /\ MaxPools \in Nat
  /\ Luids \in Seq({Luids[n] : n \in DOMAIN Luids})

VARIABLES
  dec,    \* what a decoder points to, or None
  alive,  \* how many objects of each sort the drivers keep for it
  devRef, \* references to the device contexts made for it
  pools,  \* history: how often av_hwframe_ctx_alloc() was called for it
  api,    \* the CUDA driver: "unloaded", "loaded" or "missing"
  made,   \* the CUDA contexts created so far
  stack,  \* the CUDA contexts that are current on each thread
  calls   \* history: the interop calls of the last step

vars == <<dec, alive, devRef, pools, api, made, stack, calls>>

\* What vp_setup() and cuda_setup() make, in the order in which they do.
VpObjects == <<"device", "context", "vdev", "vctx", "enumr", "vp", "out_tex",
               "out_view">>
CudaObjects == <<"device", "context", "cuda_ctx", "y_tex", "uv_tex", "y_srv",
                 "uv_srv", "out_tex", "out_rtv", "vs", "ps", "samp", "params",
                 "y_res", "uv_res">>

\* What zc_hw_ffmpeg_create() makes; the frames context only for D3D11VA.
AvObjects == <<"hw_device_ctx", "avctx", "hw_frame">>
Pool == "hw_frames_ctx"

Objects == ToSet(VpObjects) \cup ToSet(CudaObjects) \cup ToSet(AvObjects) \cup {Pool}

\* The first n of a row of objects.
Prefix(row, n) == ToSet(SubSeq(row, 1, n))

EmptyImport == [held |-> {}, ctx |-> None, size |-> Unknown, unavailable |-> FALSE]

Imports == [held : SUBSET Objects, ctx : Contexts \cup {None},
            size : Sizes \cup {Unknown}, unavailable : BOOLEAN]

\* A zc_hw_ffmpeg: the decoder's own objects, its adapter and its importer.
Opened == [backend : {"d3d11", "cuda"}, ff : SUBSET Objects,
           cuda_device : -1..(Len(Luids) - 1), import_unsupported : BOOLEAN,
           imp : Imports \cup {None}]

ASSUME NoneIsNew == None \notin Imports /\ None \notin Opened

TypeOK ==
  /\ dec \in [Decoders -> Opened \cup {None}]
  /\ alive \in [Decoders -> [Objects -> Int]]
  /\ devRef \in [Decoders -> Int]
  /\ pools \in [Decoders -> 0..MaxPools]
  /\ api \in {"unloaded", "loaded", "missing"}
  /\ made \subseteq Contexts
  /\ stack \in [Threads -> Seq(Contexts)]

Init ==
  /\ dec = [d \in Decoders |-> None]
  /\ alive = [d \in Decoders |-> [o \in Objects |-> 0]]
  /\ devRef = [d \in Decoders |-> 0]
  /\ pools = [d \in Decoders |-> 0]
  /\ api = "unloaded"
  /\ made = {}
  /\ stack = [t \in Threads |-> <<>>]
  /\ calls = {}

(***************************************************************************)
(* The CUDA driver.  cuCtxCreate() makes the new context current; pushing   *)
(* and popping a context act on the calling thread, and so does the part of *)
(* cuCtxDestroy() that pops the context if it is the current one.           *)
(***************************************************************************)

Current(s) == IF s = <<>> THEN None ELSE Last(s)
cuCtxPushCurrent(s, c) == Append(s, c)
cuCtxPopCurrent(s) == IF s = <<>> THEN s ELSE Front(s)
cuCtxDestroy(s, c) == IF Current(s) = c THEN Front(s) ELSE s

\* The driver is looked for once; all later calls see the same result.
zc_cuda_api_get(a) == IF a = "unloaded" THEN {"loaded", "missing"} ELSE {a}

\* The first device on the adapter of OBS among those that answer, or -1.
zc_hw_cuda_device_for_d3d11(answering) ==
  LET matching == {i \in answering : Luids[i] = ObsLuid}
  IN IF matching = {} THEN -1 ELSE (CHOOSE i \in matching : \A j \in matching : i <= j) - 1

(***************************************************************************)
(* Importers.  A state g of an importer that runs on some thread: the       *)
(* pointers, the objects that exist, the thread's stack, the contexts made, *)
(* the interop calls made, and whether the function succeeded.              *)
(***************************************************************************)

World(d, t) ==
  [imp |-> dec[d].imp, alive |-> alive[d], stack |-> stack[t], made |-> made,
   calls |-> {}, ok |-> TRUE]

Failed(g) == [g EXCEPT !.ok = FALSE]

\* The drivers make objects and the pointers to them are stored, over whatever
\* was there.
Acquire(g, objects) ==
  [g EXCEPT !.imp.held = objects,
            !.alive = [o \in Objects |-> @[o] + IF o \in objects THEN 1 ELSE 0]]

\* Every object a pointer leads to is released and the pointers are cleared.
\* The latch stays.
ReleaseHeld(g) ==
  [g EXCEPT !.imp = [EmptyImport EXCEPT !.unavailable = g.imp.unavailable],
            !.alive = [o \in Objects |-> @[o] - IF o \in g.imp.held THEN 1 ELSE 0]]

\* A call that needs the context of its importer to be current.
Interop(g, op, own, pushed) ==
  [g EXCEPT !.calls = @ \cup {[op |-> op, own |-> own, current |-> Current(g.stack),
                               pushed |-> pushed]}]

vp_clear(g) == ReleaseHeld(g)

\* A failure leaves the objects made so far; the last one is a texture without
\* a shared handle.
vp_setup(g, size) ==
  {Failed(Acquire(g, Prefix(VpObjects, n))) : n \in 0..Len(VpObjects)}
  \cup {[Acquire(g, ToSet(VpObjects)) EXCEPT !.imp.size = size]}

Succeeded(setups) == {g \in setups : g.ok}

\* A failed setup is latched, and its caller clears what it has left.
GivenUp(setups) == {[g EXCEPT !.imp.unavailable = TRUE] : g \in {h \in setups : ~h.ok}}

VpSetUp(g, size) ==
  LET setups == vp_setup(g, size)
  IN Succeeded(setups) \cup {vp_clear(h) : h \in GivenUp(setups)}

\* Mutant: a processor of the wrong size is replaced without being released.
VpReadyUncleared(g, size) ==
  IF "vp" \notin g.imp.held \/ size # g.imp.size THEN VpSetUp(g, size) ELSE {g}

\* With an importer there is a processor for the size of the surface.
VpReady(g, size) ==
  IF "vp" \notin g.imp.held THEN VpSetUp(g, size)
  ELSE IF size # g.imp.size THEN VpSetUp(vp_clear(g), size)
  ELSE {g}

\* The slot is allocated before anything can be latched in it.
WithSlot(g) == IF g.imp = None THEN [g EXCEPT !.imp = EmptyImport] ELSE g

\* The texture of one slice is blitted into the shared texture, which OBS opens;
\* the view of the slice is released whether or not the blit succeeds.
zc_hw_import_d3d11_slice(g, size, surface) ==
  IF g.imp # None /\ g.imp.unavailable THEN {Failed(g)}
  ELSE IF surface = "absent" THEN {Failed(g)}
  ELSE IF surface = "not NV12"
    THEN {[Failed(WithSlot(g)) EXCEPT !.imp.unavailable = TRUE]}
  ELSE IF surface = "slice out of range" THEN {Failed(WithSlot(g))}
  ELSE LET ready == VpReady(WithSlot(g), size)
       IN ready \cup {Failed(h) : h \in ready}

\* The views of the planes are unregistered with the context current, then the
\* context is destroyed.  The push is not tested.
cuda_clear(g) ==
  IF g.imp.ctx = None THEN {ReleaseHeld(g)}
  ELSE LET c == g.imp.ctx
           Clear(pushed) ==
             LET in == IF pushed THEN [g EXCEPT !.stack = cuCtxPushCurrent(@, c)] ELSE g
                 used == IF {"y_res", "uv_res"} \cap g.imp.held = {} THEN in
                         ELSE Interop(in, "unregister", c, pushed)
             IN ReleaseHeld([used EXCEPT !.stack = cuCtxDestroy(cuCtxPopCurrent(@), c)])
       IN {Clear(pushed) : pushed \in BOOLEAN}

\* How many objects there are when a shader cannot be compiled or created: none
\* of the shaders, or the vertex shader.
cuda_compile_shaders == 9..10

\* cuCtxCreate() has made a context.
Created(g, c) ==
  [g EXCEPT !.imp.ctx = c, !.made = @ \cup {c}, !.stack = cuCtxPushCurrent(@, c)]

\* The context is pushed and popped once more around the registration of the
\* planes.
Registered(g, c, pushed) ==
  LET in == IF pushed THEN [g EXCEPT !.stack = cuCtxPushCurrent(@, c)] ELSE g
  IN [Interop(in, "register", c, pushed) EXCEPT !.stack = cuCtxPopCurrent(@)]

\* The context is created between the D3D11 context and the textures.
cuda_setup(g, size) ==
  LET Made(n) == Acquire(g, Prefix(CudaObjects, n))
      free == Contexts \ g.made
  IN {Failed(Made(n)) : n \in 1..2}
     \cup {Failed(Created(Made(n), c)) :
             n \in 3..9 \cup cuda_compile_shaders \cup 11..12, c \in free}
     \cup {Failed(Registered(Created(Made(n), c), c, pushed)) :
             n \in 13..14, c \in free, pushed \in BOOLEAN}
     \cup {[Registered(Created(Made(15), c), c, pushed) EXCEPT !.imp.size = size] :
             c \in free, pushed \in BOOLEAN}

\* Mutant: the context that cuda_setup() left current is taken for the right one.
cuda_copy_planes_unpushed(g) ==
  {Failed(Interop(g, "copy", g.imp.ctx, TRUE)), Interop(g, "copy", g.imp.ctx, TRUE)}

\* Both planes are mapped, copied and unmapped with the context current; any of
\* these calls may fail.
cuda_copy_planes(g) ==
  LET c == g.imp.ctx
      in == [g EXCEPT !.stack = cuCtxPushCurrent(@, c)]
      out == [Interop(in, "copy", c, TRUE) EXCEPT !.stack = cuCtxPopCurrent(@)]
  IN {Failed(g), Failed(out), out}

\* A frame in CUDA memory.  The planes are copied and drawn into the shared
\* texture, which OBS opens.
zc_hw_cuda_import_frame(g, size, frame) ==
  IF g.imp # None /\ g.imp.unavailable THEN {Failed(g)}
  ELSE IF frame = "no OBS device"
    THEN {IF g.imp = None THEN Failed(g) ELSE [Failed(g) EXCEPT !.imp.unavailable = TRUE]}
  ELSE IF frame \in {"planes absent", "odd size"} THEN {Failed(g)}
  ELSE LET h == WithSlot(g)
           ready == IF h.imp.size = size THEN {h}
                    ELSE LET setups == UNION {cuda_setup(k, size) : k \in cuda_clear(h)}
                         IN Succeeded(setups)
                            \cup UNION {cuda_clear(k) : k \in GivenUp(setups)}
           copied == UNION {cuda_copy_planes(k) : k \in {r \in ready : r.ok}}
       IN {r \in ready : ~r.ok} \cup copied \cup {Failed(k) : k \in copied}

\* The importer of a decoder is cleared and deleted.
ImportFreed(d, t) ==
  IF dec[d].imp = None THEN {World(d, t)}
  ELSE IF dec[d].backend = "cuda" THEN cuda_clear(World(d, t))
  ELSE {vp_clear(World(d, t))}

\* Only the thread's stack and the drivers are affected.
Apply(d, t, g) ==
  /\ alive' = [alive EXCEPT ![d] = g.alive]
  /\ stack' = [stack EXCEPT ![t] = g.stack]
  /\ made' = g.made
  /\ calls' = g.calls

(***************************************************************************)
(* The decoder.                                                             *)
(***************************************************************************)

\* References to the device context that a decoder's own objects hold.
Holds(ff) == Cardinality(ff \cap {"hw_device_ctx", "avctx", Pool})

\* The surface pool is made for a D3D11 decoder of a known size.  The reference
\* handed to av_hwframe_ctx_alloc() stays with the caller, who drops it.
WantsPool(backend, size) == backend = "d3d11" /\ size # Unknown

\* A device context on the adapter of OBS, or for D3D11 on a private device if
\* that of OBS cannot be bound.  CUDA without a matching device is refused.
DeviceMatches(backend, device) == backend = "cuda" => device >= 0

\* The device a decoder is made for, given the state of the CUDA driver.
DeviceFor(backend, driver, answering) ==
  IF backend = "cuda" /\ driver = "loaded"
  THEN zc_hw_cuda_device_for_d3d11(answering) ELSE -1

\* A decoder has opened with the objects ff of its own.
OpensWith(d, backend, device, ff) ==
  /\ dec' = [dec EXCEPT ![d] =
       [backend |-> backend, ff |-> ff, cuda_device |-> device,
        import_unsupported |-> FALSE, imp |-> None]]
  /\ alive' = [alive EXCEPT ![d] =
       [o \in Objects |-> @[o] + IF o \in ff THEN 1 ELSE 0]]

\* The decoder opened, or an object could not be made and ffmpeg_destroy()
\* released those before it.
zc_hw_ffmpeg_create(d, backend, size) ==
  /\ dec[d] = None
  /\ WantsPool(backend, size) => pools[d] < MaxPools
  /\ api' \in IF backend = "cuda" THEN zc_cuda_api_get(api) ELSE {api}
  /\ \E answering \in SUBSET DOMAIN Luids :
       LET device == DeviceFor(backend, api', answering)
           pooled == IF WantsPool(backend, size) THEN 1 ELSE 0
       IN \/ \* no device, no codec context or no frame
             UNCHANGED <<dec, alive, devRef, pools>>
          \/ \* avcodec_open2() failed
             /\ DeviceMatches(backend, device)
             /\ pools' = [pools EXCEPT ![d] = @ + pooled]
             /\ devRef' = [devRef EXCEPT ![d] = @ + pooled]
             /\ UNCHANGED <<dec, alive>>
          \/ \E pool \in IF pooled = 1 THEN {{}, {Pool}} ELSE {{}} :
               LET ff == ToSet(AvObjects) \cup pool
               IN /\ DeviceMatches(backend, device)
                  /\ OpensWith(d, backend, device, ff)
                  /\ pools' = [pools EXCEPT ![d] = @ + pooled]
                  /\ devRef' = [devRef EXCEPT ![d] = @ + Holds(ff) + pooled]
  /\ calls' = {}
  /\ UNCHANGED <<made, stack>>

\* One frame on the render thread.  A failure is final for the decoder.  (Frames
\* of another format are refused and change nothing.)
ffmpeg_import(d, size) ==
  /\ dec[d] # None
  /\ ~dec[d].import_unsupported
  /\ \E g \in IF dec[d].backend = "d3d11"
              THEN UNION {zc_hw_import_d3d11_slice(World(d, Render), size, s) :
                            s \in {"good", "absent", "not NV12", "slice out of range"}}
              ELSE UNION {zc_hw_cuda_import_frame(World(d, Render), size, f) :
                            f \in {"good", "no OBS device", "planes absent", "odd size"}} :
       /\ Apply(d, Render, g)
       /\ dec' = [dec EXCEPT ![d].imp = g.imp, ![d].import_unsupported = ~g.ok]
  /\ UNCHANGED <<devRef, pools, api>>

\* The source replaces or drops the decoder, on whichever thread it does so.
ffmpeg_destroy(d, t) ==
  /\ dec[d] # None
  /\ \E g \in ImportFreed(d, t) :
       LET ff == dec[d].ff
       IN /\ stack' = [stack EXCEPT ![t] = g.stack]
          /\ made' = g.made
          /\ calls' = g.calls
          /\ alive' = [alive EXCEPT ![d] =
               [o \in Objects |-> g.alive[o] - IF o \in ff THEN 1 ELSE 0]]
          /\ devRef' = [devRef EXCEPT ![d] = @ - Holds(ff)]
  /\ dec' = [dec EXCEPT ![d] = None]
  /\ UNCHANGED <<pools, api>>

Next ==
  \E d \in Decoders :
    \/ \E backend \in {"d3d11", "cuda"}, size \in Sizes \cup {Unknown} :
         zc_hw_ffmpeg_create(d, backend, size)
    \/ \E size \in Sizes : ffmpeg_import(d, size)
    \/ \E t \in Threads : ffmpeg_destroy(d, t)

Spec == Init /\ [][Next]_vars

(***************************************************************************)
(* Properties.                                                             *)
(***************************************************************************)

\* The objects a decoder points to.
Held(d) ==
  IF dec[d] = None THEN {}
  ELSE dec[d].ff \cup IF dec[d].imp = None THEN {} ELSE dec[d].imp.held

\* Between two steps every object that the drivers keep for a decoder is one it
\* points to, and there is one of each: setups that fail at any call, frames
\* that change their size and decoders that are destroyed on any thread lose
\* nothing and release nothing twice.  An importer is whole or empty.  The
\* references to the device context are those of the decoder's objects and one
\* for every surface pool asked for, which nothing releases.
EverythingOwned ==
  \A d \in Decoders :
    /\ \A o \in Objects : alive[d][o] = IF o \in Held(d) THEN 1 ELSE 0
    /\ Held(d) \cap (ToSet(VpObjects) \cup ToSet(CudaObjects))
         \in {{}, ToSet(VpObjects), ToSet(CudaObjects)}
    /\ devRef[d] = pools[d] + IF dec[d] = None THEN 0 ELSE Holds(dec[d].ff)

\* Every interop call of an importer is made with its own context current,
\* whatever contexts other decoders have left on the stack of the thread,
\* destroyed ones among them.  Only cuda_clear() goes on when its push failed.
OwnContextCurrent ==
  \A c \in calls :
    c.current = c.own \/ (c.op = "unregister" /\ ~c.pushed)

\* "The ref is balanced": the comment of zc_hw_ffmpeg_create() says that the
\* reference to the device of OBS goes with the device context.  A destroyed
\* decoder that asked for a surface pool leaves a reference to its context.
DeviceReleased == \A d \in Decoders : dec[d] = None => devRef[d] = 0

\* "cuda_setup() popped this importer's context again": between two frames no
\* context is current.  The push of cuCtxCreate() is never undone on the render
\* thread when the decoder is destroyed on another one.
StackEmpty == \A t \in Threads : stack[t] = <<>>
=============================================================================

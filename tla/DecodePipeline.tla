---------------------------- MODULE DecodePipeline ----------------------------
(***************************************************************************)
(* From packet to picture: onVideoData, onMeta, outputVideo, createDecoder, *)
(* installDecoder and videoRender of src/zc_source.cpp, with the parts of  *)
(* reconnectNow, start and stop that touch decoders and frames.            *)
(*                                                                         *)
(* Three threads.  R is the receive thread of the current connection, G    *)
(* the libobs video thread (it renders with the graphics context held, and *)
(* runs update(), hence stop()), T the reconnect thread.  SourceLifecycle  *)
(* is about how R and T come and go; here a connection has one R, and      *)
(* stop() goes on once R and T are idle.                                   *)
(*                                                                         *)
(* decoderMutex_ and, outside videoRender(), frameMutex_ only guard short  *)
(* sections without further blocking calls: each is one action.  The       *)
(* graphics context and lifecycleMutex_ are held across several: gfx, and  *)
(* Lifecycle below.  A packet that the wait-for-key-frame setting drops is *)
(* a stuttering step.                                                      *)
(***************************************************************************)
EXTENDS Naturals, FiniteSets

CONSTANTS
  Decs,    \* identities of zc_hw_decoder objects
  Frames,  \* identities of AVFrame references handed out by decode()
  Metas,   \* what metadata may announce: pairs of a codec and a size
  Windows, \* the build: _WIN32 decodes with the graphics context held
  None

ASSUME WindowsIsBoolean == Windows \in BOOLEAN

ASSUME NoneIsNew == None \notin Decs \cup Frames \cup {"G"}

Threads == {"R", "G", "T"}

VARIABLES
  pc,
  gfx,        \* holder of the graphics context
  running,    \* running_
  stopping,   \* stopping_
  up,         \* R exists: it was started and not joined since
  lost,       \* a connection was lost since the source was started
  decoder,    \* decoder_
  dec,        \* what each decoder object is, "free" if it does not exist
  fresh,      \* a thread's decoder that is created but not installed
  old,        \* a thread's decoder that is replaced but not destroyed
  pending,    \* pending_ (hasPending_)
  drawn,      \* drawn_
  dead,       \* a thread's frame that is dropped but not released
  out,        \* R's frame between decode() and outputVideo()
  frames,     \* AVFrame references that exist
  hasCpu,     \* hasCpuFrame_
  shown,      \* what the last render drew
  force,      \* forceSoftware_
  backend,    \* backend_
  requested,  \* requestedBackend_, resolved for this machine
  codec,      \* codec_
  size,       \* metaW_, metaH_
  bitKnown, streamTen, decTen,   \* bitDepthKnown_, streamTenBit_, decoderTenBit_
  rebuild,    \* R's arguments of the rebuild in progress, if any
  gcodec      \* G's copy of codec_ in the import-failure fallback

conn  == <<running, stopping, up, lost>>
decs  == <<decoder, dec, fresh, old>>
pics  == <<pending, drawn, dead, out, frames, hasCpu, shown>>
facts == <<force, backend, requested, codec, size, bitKnown, streamTen, decTen>>
args  == <<rebuild, gcodec>>
vars  == <<pc, gfx, conn, decs, pics, facts, args>>

Backends == {"hw", "sw"}

Codecs == {m[1] : m \in Metas}   \* zc_codec_id
Sizes  == {m[2] : m \in Metas}   \* coded dimensions

Free == [kind |-> "free"]

\* A hardware decoder is built for a codec, a size and a depth, the software
\* decoder for a codec.
DecoderOf(k, c, s, ten) ==
  IF k = "hw" THEN [kind |-> "hw", codec |-> c, size |-> s, ten |-> ten]
              ELSE [kind |-> "sw", codec |-> c]

Decoders ==
  [kind : {"hw"}, codec : Codecs, size : Sizes, ten : BOOLEAN]
    \cup [kind : {"sw"}, codec : Codecs]

\* A decoded frame: an AVFrame reference of its own, or a pointer to the
\* planes inside the software decoder that produced it.
NoFrame == [kind |-> "none"]
GpuFrame(f) == [kind |-> "gpu", frame |-> f]
CpuFrame(d) == [kind |-> "cpu", dec |-> d]

NoRebuild == [next |-> "none"]

Goto(p, l) == pc' = [pc EXCEPT ![p] = l]

Init ==
  /\ pc = [p \in Threads |-> "idle"]
  /\ gfx = None
  /\ running = TRUE
  /\ stopping = FALSE
  /\ up = TRUE
  /\ lost = FALSE
  /\ decoder = None
  /\ dec = [d \in Decs |-> Free]
  /\ fresh = [p \in Threads |-> None]
  /\ old = [p \in Threads |-> None]
  /\ pending = None
  /\ drawn = None
  /\ dead = [p \in Threads |-> None]
  /\ out = NoFrame
  /\ frames = {}
  /\ hasCpu = FALSE
  /\ shown = "none"
  /\ force = FALSE
  /\ backend = "sw"
  /\ requested \in Backends
  /\ codec \in Codecs
  /\ size \in Sizes
  /\ bitKnown = FALSE
  /\ streamTen = FALSE
  /\ decTen = FALSE
  /\ rebuild = NoRebuild
  /\ gcodec = None

------------------------------------------------------------------------------
(* Steps that several threads share.                                       *)

\* The graphics context is recursive.
HasGfx(p) == gfx \in {None, p}

\* release_frame_direct() of a dropped frame, inside the graphics context.
Release(p, l) ==
  /\ dead[p] # None => HasGfx(p)
  /\ frames' = frames \ {dead[p]}
  /\ dead' = [dead EXCEPT ![p] = None]
  /\ Goto(p, l)
  /\ UNCHANGED <<gfx, conn, decs, pending, drawn, out, hasCpu, shown, facts, args>>

\* Take the undrawn frame out of the slot, under frameMutex_.
Drop(p, l) ==
  /\ dead' = [dead EXCEPT ![p] = pending]
  /\ pending' = None
  /\ Goto(p, l)
  /\ UNCHANGED <<gfx, conn, decs, drawn, out, frames, hasCpu, shown, facts, args>>

\* zc_hw_decoder_create() inside the graphics context: hardware when asked
\* for and possible, otherwise software, otherwise nothing.
Create(p, sw, c, s, ten) ==
  /\ HasGfx(p)
  /\ \/ UNCHANGED <<dec, fresh>>
     \/ \E d \in Decs, k \in (IF sw THEN {"sw"} ELSE {requested, "sw"}) :
          /\ dec[d] = Free
          /\ dec' = [dec EXCEPT ![d] = DecoderOf(k, c, s, ten)]
          /\ fresh' = [fresh EXCEPT ![p] = d]

\* createDecoder() records the backend it tried, not the one it got.
Record(p, sw, l) ==
  /\ backend' = IF sw THEN "sw" ELSE requested
  /\ Goto(p, l)
  /\ UNCHANGED <<gfx, conn, decs, pics, force, requested, codec, size,
                 bitKnown, streamTen, decTen, args>>

\* Mutant: the previous decoder is dropped, not destroyed.
SwapForgetsOld(p, l) ==
  /\ decoder' = fresh[p]
  /\ fresh' = [fresh EXCEPT ![p] = None]
  /\ Goto(p, l)
  /\ UNCHANGED <<gfx, conn, dec, old, pics, facts, args>>

\* installDecoder(): swap under decoderMutex_ ...
Swap(p, l) ==
  /\ old' = [old EXCEPT ![p] = decoder]
  /\ decoder' = fresh[p]
  /\ fresh' = [fresh EXCEPT ![p] = None]
  /\ Goto(p, l)
  /\ UNCHANGED <<gfx, conn, dec, pics, facts, args>>

\* ... then destroy the previous decoder inside the graphics context.
Destroy(p, l) ==
  /\ old[p] # None => HasGfx(p)
  /\ dec' = [d \in Decs |-> IF d = old[p] THEN Free ELSE dec[d]]
  /\ old' = [old EXCEPT ![p] = None]
  /\ Goto(p, l)
  /\ UNCHANGED <<gfx, conn, decoder, fresh, pics, facts>>

------------------------------------------------------------------------------
(* R: onMeta() and onVideoData().                                          *)

\* Mutant: a new size does not rebuild the decoder.
MetaIgnoresSize(c, s) ==
  /\ pc["R"] = "idle"
  /\ up
  /\ size' = s
  /\ IF decoder = None \/ c # codec \/ (force /\ backend # "sw")
       THEN /\ rebuild' = [sw |-> force, ten |-> bitKnown /\ streamTen,
                           codec |-> c, size |-> s, next |-> "idle"]
            /\ Goto("R", "drop")
       ELSE UNCHANGED <<rebuild, pc>>
  /\ UNCHANGED <<gfx, conn, decs, pics, force, backend, requested, codec,
                 bitKnown, streamTen, decTen, gcodec>>

\* onMeta(): decide on a rebuild from what decoderMutex_ protects.
Meta(c, s) ==
  /\ pc["R"] = "idle"
  /\ up
  /\ size' = s
  /\ IF decoder = None \/ c # codec \/ s # size \/ (force /\ backend # "sw")
       THEN /\ rebuild' = [sw |-> force, ten |-> bitKnown /\ streamTen,
                           codec |-> c, size |-> s, next |-> "idle"]
            /\ Goto("R", "drop")
       ELSE UNCHANGED <<rebuild, pc>>
  /\ UNCHANGED <<gfx, conn, decs, pics, force, backend, requested, codec,
                 bitKnown, streamTen, decTen, gcodec>>

\* onVideoData(): sniff the SPS while the depth is unknown, then compare the
\* depth of the stream with that of the decoder.
VideoData(sps) ==
  /\ pc["R"] = "idle"
  /\ up
  /\ running
  /\ LET sniffed == decoder # None /\ ~bitKnown /\ sps # "none"
     IN  /\ bitKnown' = (bitKnown \/ sniffed)
         /\ streamTen' = IF sniffed THEN sps = "10" ELSE streamTen
  /\ IF bitKnown' /\ decoder # None /\ backend # "sw" /\ decTen # streamTen'
       THEN /\ rebuild' = [sw |-> FALSE, ten |-> streamTen', codec |-> codec,
                           size |-> size, next |-> "decode"]
            /\ Goto("R", "drop")
       ELSE Goto("R", "decode") /\ UNCHANGED rebuild
  /\ UNCHANGED <<gfx, conn, decs, pics, force, backend, requested, codec,
                 size, decTen, gcodec>>

\* Mutant: a frame of the old decoder stays pending during the rebuild.
RebuildDropKeeps ==
  /\ pc["R"] = "drop"
  /\ Goto("R", "release")
  /\ UNCHANGED <<gfx, conn, decs, pics, facts, args>>

RebuildDrop == pc["R"] = "drop" /\ Drop("R", "release")

RebuildRelease == pc["R"] = "release" /\ Release("R", "create")

\* if (running_) fresh = createDecoder(...)
RebuildCreate ==
  /\ pc["R"] = "create"
  /\ IF running
       THEN Create("R", rebuild.sw, rebuild.codec, rebuild.size, rebuild.ten)
            /\ Goto("R", "record")
       ELSE Goto("R", "set") /\ UNCHANGED <<dec, fresh>>
  /\ UNCHANGED <<gfx, conn, decoder, old, pics, facts, args>>

RebuildRecord == pc["R"] = "record" /\ Record("R", rebuild.sw, "set")

RebuildSet ==
  /\ pc["R"] = "set"
  /\ codec' = rebuild.codec
  /\ decTen' = rebuild.ten
  /\ Goto("R", "swap")
  /\ UNCHANGED <<gfx, conn, decs, pics, force, backend, requested, size,
                 bitKnown, streamTen, args>>

RebuildSwap == pc["R"] = "swap" /\ Swap("R", "destroy")

RebuildDestroy ==
  /\ pc["R"] = "destroy"
  /\ Destroy("R", rebuild.next)
  /\ rebuild' = NoRebuild
  /\ UNCHANGED gcodec

\* decode() under decoderMutex_; on Windows inside the graphics context.
Decode ==
  /\ pc["R"] = "decode"
  /\ Windows => HasGfx("R")
  /\ \/ /\ out' = NoFrame          \* no decoder, an error, or no picture yet
        /\ Goto("R", "idle")
        /\ UNCHANGED frames
     \/ /\ decoder # None
        /\ dec[decoder].kind = "hw"
        /\ \E f \in Frames \ frames :
             /\ out' = GpuFrame(f)
             /\ frames' = frames \cup {f}
        /\ Goto("R", "output")
     \/ /\ decoder # None
        /\ dec[decoder].kind = "sw"
        /\ out' = CpuFrame(decoder)
        /\ Goto("R", "output")
        /\ UNCHANGED frames
  /\ UNCHANGED <<gfx, conn, decs, pending, drawn, dead, hasCpu, shown, facts, args>>

\* Mutant: the pending frame is overwritten, not released.
OutputVideoOverwrites ==
  /\ pc["R"] = "output"
  /\ IF out.kind = "gpu"
       THEN pending' = out.frame /\ UNCHANGED hasCpu
       ELSE hasCpu' \in BOOLEAN /\ UNCHANGED pending
  /\ out' = NoFrame
  /\ Goto("R", "idle")
  /\ UNCHANGED <<gfx, conn, decs, drawn, dead, frames, shown, facts, args>>

\* outputVideo(): a GPU frame replaces the pending one; a CPU frame is copied
\* and converted, or rejected for its format.
OutputVideo ==
  /\ pc["R"] = "output"
  /\ IF out.kind = "gpu"
       THEN /\ dead' = [dead EXCEPT !["R"] = pending]
            /\ pending' = out.frame
            /\ Goto("R", "stale")
            /\ UNCHANGED hasCpu
       ELSE /\ hasCpu' \in BOOLEAN
            /\ Goto("R", "idle")
            /\ UNCHANGED <<dead, pending>>
  /\ out' = NoFrame
  /\ UNCHANGED <<gfx, conn, decs, drawn, frames, shown, facts, args>>

ReleaseStale == pc["R"] = "stale" /\ Release("R", "idle")

------------------------------------------------------------------------------
(* G: videoRender().                                                       *)

RenderBegin ==
  /\ pc["G"] = "idle"
  /\ gfx = None
  /\ gfx' = "G"
  /\ Goto("G", "frame")
  /\ UNCHANGED <<conn, decs, pics, facts, args>>

\* decoder_->import() may succeed in a hardware decoder only.
Importable == decoder # None /\ dec[decoder].kind = "hw"

\* Mutant: every failed import rebuilds the decoder, not only the first one.
RenderImportAgain(imported) ==
  /\ pc["G"] = "frame"
  /\ pending # None
  /\ imported => Importable
  /\ pending' = None
  /\ IF imported
       THEN /\ frames' = frames \ {drawn}
            /\ drawn' = pending
            /\ Goto("G", "draw")
            /\ UNCHANGED force
       ELSE /\ frames' = frames \ {pending}
            /\ force' = TRUE
            /\ Goto("G", "fbCodec")
            /\ UNCHANGED drawn
  /\ UNCHANGED <<gfx, conn, decs, dead, out, hasCpu, shown, backend,
                 requested, codec, size, bitKnown, streamTen, decTen, args>>

\* The frameMutex_ section with a pending frame.
RenderImport(imported) ==
  /\ pc["G"] = "frame"
  /\ pending # None
  /\ imported => Importable
  /\ pending' = None
  /\ IF imported
       THEN /\ frames' = frames \ {drawn}
            /\ drawn' = pending
            /\ Goto("G", "draw")
            /\ UNCHANGED force
       ELSE /\ frames' = frames \ {pending}
            /\ force' = TRUE
            /\ Goto("G", IF force THEN "draw" ELSE "fbCodec")
            /\ UNCHANGED drawn
  /\ UNCHANGED <<gfx, conn, decs, dead, out, hasCpu, shown, backend,
                 requested, codec, size, bitKnown, streamTen, decTen, args>>

\* ... with a CPU frame: upload it, and drop the GPU picture it supersedes.
RenderCpu ==
  /\ pc["G"] = "frame"
  /\ pending = None
  /\ hasCpu
  /\ hasCpu' = FALSE
  /\ \/ Goto("G", "drawCpu")
        /\ frames' = frames \ {drawn}
        /\ drawn' = None
     \/ Goto("G", "skip")            \* the texture could not be created
        /\ UNCHANGED <<frames, drawn>>
  /\ UNCHANGED <<gfx, conn, decs, pending, dead, out, shown, facts, args>>

\* ... without a new frame.
RenderKeep ==
  /\ pc["G"] = "frame"
  /\ pending = None
  /\ ~hasCpu
  /\ Goto("G", "draw")
  /\ UNCHANGED <<gfx, conn, decs, pics, facts, args>>

RenderDraw ==
  /\ pc["G"] \in {"draw", "drawCpu", "skip"}
  /\ shown' = CASE pc["G"] = "drawCpu" -> "cpu"
                [] pc["G"] = "draw" /\ drawn # None -> "gpu"
                [] OTHER -> "none"
  /\ gfx' = None
  /\ Goto("G", "idle")
  /\ UNCHANGED <<conn, decs, pending, drawn, dead, out, frames, hasCpu, facts, args>>

\* The import-failure fallback, all with the graphics context held.
FallbackCodec ==
  /\ pc["G"] = "fbCodec"
  /\ gcodec' = codec
  /\ Goto("G", IF running THEN "fbCreate" ELSE "fbSwap")
  /\ UNCHANGED <<gfx, conn, decs, pics, facts, rebuild>>

\* The size is that of the last frame, whatever the metadata said.
FallbackCreate ==
  /\ pc["G"] = "fbCreate"
  /\ Create("G", TRUE, gcodec, size, bitKnown /\ streamTen)
  /\ Goto("G", "fbRecord")
  /\ UNCHANGED <<gfx, conn, decoder, old, pics, facts, args>>

FallbackRecord == pc["G"] = "fbRecord" /\ Record("G", TRUE, "fbSwap")

FallbackSwap == pc["G"] = "fbSwap" /\ Swap("G", "fbDestroy")

FallbackDestroy ==
  /\ pc["G"] = "fbDestroy"
  /\ Destroy("G", "skip")
  /\ gcodec' = None
  /\ UNCHANGED rebuild

------------------------------------------------------------------------------
(* T: reconnectNow(), and start() on T.                                    *)

\* The threads inside lifecycleMutex_: teardownConnection() and start().
Lifecycle ==
  {p \in {"T", "G"} : pc[p] \in {"join", "destroy", "reset", "up", "stopWait"}}

\* teardownConnection() clears running_ and waits for R to end.
Disconnect ==
  /\ pc["T"] = "idle"
  /\ running
  /\ Lifecycle = {}
  /\ running' = FALSE
  /\ lost' = TRUE
  /\ Goto("T", "join")
  /\ UNCHANGED <<gfx, stopping, up, decs, pics, facts, args>>

ReconnectJoin ==
  /\ pc["T"] = "join"
  /\ pc["R"] = "idle"
  /\ up' = FALSE
  /\ Goto("T", "check")
  /\ UNCHANGED <<gfx, running, stopping, lost, decs, pics, facts, args>>

ReconnectCheck ==
  /\ pc["T"] = "check"
  /\ Goto("T", IF stopping THEN "idle" ELSE "drop")
  /\ UNCHANGED <<gfx, conn, decs, pics, facts, args>>

ReconnectDrop == pc["T"] = "drop" /\ Drop("T", "release")

ReconnectRelease == pc["T"] = "release" /\ Release("T", "start")

\* start(): installDecoder(nullptr), then the facts about the connection.
StartSwap == pc["T"] = "start" /\ Lifecycle = {} /\ Swap("T", "destroy")

StartDestroy == pc["T"] = "destroy" /\ Destroy("T", "reset") /\ UNCHANGED args

ResetFacts ==
  /\ force' = FALSE
  /\ bitKnown' = FALSE
  /\ streamTen' = FALSE

StartReset ==
  /\ pc["T"] = "reset"
  /\ ResetFacts
  /\ stopping' = FALSE
  /\ Goto("T", "up")
  /\ UNCHANGED <<gfx, running, up, lost, decs, pics, backend, requested, codec, size, decTen, args>>

StartRunning ==
  /\ pc["T"] = "up"
  /\ running' = TRUE
  /\ up' = TRUE
  /\ Goto("T", "idle")
  /\ UNCHANGED <<gfx, stopping, lost, decs, pics, facts, args>>

------------------------------------------------------------------------------
(* G: stop() and start() from update().                                    *)

StopSignal ==
  /\ pc["G"] = "idle"
  /\ stopping' = TRUE
  /\ Goto("G", "stopLock")
  /\ UNCHANGED <<gfx, running, up, lost, decs, pics, facts, args>>

StopTeardown ==
  /\ pc["G"] = "stopLock"
  /\ Lifecycle = {}
  /\ running' = FALSE
  /\ Goto("G", "stopWait")
  /\ UNCHANGED <<gfx, stopping, up, lost, decs, pics, facts, args>>

StopJoinR ==
  /\ pc["G"] = "stopWait"
  /\ pc["R"] = "idle"
  /\ up' = FALSE
  /\ Goto("G", "stopJoin")
  /\ UNCHANGED <<gfx, running, stopping, lost, decs, pics, facts, args>>

\* T joined: the second teardown, in case T has started R again.
StopJoinT ==
  /\ pc["G"] = "stopJoin"
  /\ pc["T"] = "idle"
  /\ running' = FALSE
  /\ Goto("G", "stopRelease")
  /\ UNCHANGED <<gfx, stopping, up, lost, decs, pics, facts, args>>

\* R joined: release the pending and the drawn frame, destroy the decoder,
\* forget the CPU frame.
StopRelease ==
  /\ pc["G"] = "stopRelease"
  /\ pc["R"] = "idle"
  /\ up' = FALSE
  /\ frames' = frames \ {pending, drawn}
  /\ pending' = None
  /\ drawn' = None
  /\ dec' = [d \in Decs |-> IF d = decoder THEN Free ELSE dec[d]]
  /\ decoder' = None
  /\ force' = FALSE
  /\ hasCpu' = FALSE
  /\ shown' = "none"
  /\ Goto("G", "stopped")
  /\ UNCHANGED <<gfx, running, stopping, lost, fresh, old, dead, out, backend, requested,
                 codec, size, bitKnown, streamTen, decTen, args>>

\* update() takes the new settings and starts; there is no decoder to replace.
Restart(b) ==
  /\ pc["G"] = "stopped"
  /\ requested' = b
  /\ ResetFacts
  /\ stopping' = FALSE
  /\ running' = TRUE
  /\ up' = TRUE
  /\ lost' = FALSE
  /\ Goto("G", "idle")
  /\ UNCHANGED <<gfx, decs, pics, backend, codec, size, decTen, args>>

------------------------------------------------------------------------------
Rebuild ==
  \/ RebuildDrop \/ RebuildRelease \/ RebuildCreate \/ RebuildRecord
  \/ RebuildSet \/ RebuildSwap \/ RebuildDestroy

Receive == Rebuild \/ Decode \/ OutputVideo \/ ReleaseStale

Packet ==
  \/ \E m \in Metas : Meta(m[1], m[2])
  \/ \E sps \in {"none", "8", "10"} : VideoData(sps)

Fallback ==
  \/ FallbackCodec \/ FallbackCreate \/ FallbackRecord \/ FallbackSwap
  \/ FallbackDestroy

VideoRender ==
  \/ RenderBegin \/ RenderCpu \/ RenderKeep \/ RenderDraw \/ Fallback
  \/ \E imported \in BOOLEAN : RenderImport(imported)

ReconnectNow ==
  \/ ReconnectJoin \/ ReconnectCheck \/ ReconnectDrop \/ ReconnectRelease \/ StartSwap
  \/ StartDestroy \/ StartReset \/ StartRunning

Update ==
  \/ StopSignal \/ StopTeardown \/ StopJoinR \/ StopJoinT \/ StopRelease
  \/ \E b \in Backends : Restart(b)

Next == Packet \/ Receive \/ VideoRender \/ Disconnect \/ ReconnectNow \/ Update

Spec == Init /\ [][Next]_vars

------------------------------------------------------------------------------
(* Properties.                                                             *)

RPCs == {"idle", "drop", "release", "create", "record", "set", "swap",
         "destroy", "decode", "output", "stale"}
GPCs == {"idle", "frame", "draw", "drawCpu", "skip", "fbCodec", "fbCreate",
         "fbRecord", "fbSwap", "fbDestroy", "stopLock", "stopWait", "stopJoin",
         "stopRelease", "stopped"}
TPCs == {"idle", "join", "check", "drop", "release", "start", "destroy", "reset", "up"}

\* Every variable stays in its range.
TypeOK ==
  /\ pc \in [Threads -> RPCs \cup GPCs \cup TPCs]
  /\ pc["R"] \in RPCs /\ pc["G"] \in GPCs /\ pc["T"] \in TPCs
  /\ gfx \in {None, "G"}
  /\ {running, stopping, up, lost, hasCpu} \subseteq BOOLEAN
  /\ {force, bitKnown, streamTen, decTen} \subseteq BOOLEAN
  /\ decoder \in Decs \cup {None}
  /\ dec \in [Decs -> Decoders \cup {Free}]
  /\ fresh \in [Threads -> Decs \cup {None}]
  /\ old \in [Threads -> Decs \cup {None}]
  /\ {pending, drawn} \subseteq Frames \cup {None}
  /\ dead \in [Threads -> Frames \cup {None}]
  /\ out \in {NoFrame} \cup {GpuFrame(f) : f \in Frames} \cup {CpuFrame(d) : d \in Decs}
  /\ frames \subseteq Frames
  /\ shown \in {"none", "gpu", "cpu"}
  /\ {backend, requested} \subseteq Backends
  /\ codec \in Codecs /\ gcodec \in Codecs \cup {None}
  /\ size \in Sizes
  /\ rebuild \in {NoRebuild} \cup
                 [sw : BOOLEAN, ten : BOOLEAN, codec : Codecs, size : Sizes,
                  next : {"idle", "decode"}]

\* The places that own a decoder, and the one that each refers to.
DecoderSlots == [place : {"decoder"}] \cup [place : {"fresh", "old"}, thread : Threads]
DecoderAt(s) == CASE s.place = "decoder" -> decoder
                  [] s.place = "fresh" -> fresh[s.thread]
                  [] s.place = "old" -> old[s.thread]

\* Every decoder that exists is owned by exactly one place: a swap on one
\* thread against one on another neither leaks a decoder (its device, frames
\* context and textures) nor destroys one twice, and decoder_ never dangles.
DecoderOwnership ==
  \A d \in Decs :
    LET owners == {s \in DecoderSlots : DecoderAt(s) = d}
    IN  IF dec[d] = Free THEN owners = {} ELSE Cardinality(owners) = 1

\* The frames owned by the source: pending_, drawn_, and those between two
\* owners on some thread.
FrameAt(s) == CASE s.place = "pending" -> pending
                [] s.place = "drawn" -> drawn
                [] s.place = "out" -> IF out.kind = "gpu" THEN out.frame ELSE None
                [] s.place = "dead" -> dead[s.thread]
FrameSlots == [place : {"pending", "drawn", "out"}] \cup [place : {"dead"}, thread : Threads]

\* Every AVFrame reference that exists has exactly one owner: none is leaked,
\* released twice, or drawn after its release.
FrameOwnership ==
  \A f \in Frames :
    LET owners == {s \in FrameSlots : FrameAt(s) = f}
    IN  IF f \in frames THEN Cardinality(owners) = 1 ELSE owners = {}

\* The planes of a software frame, which outputVideo() copies after
\* decoderMutex_ was released, belong to a decoder that still exists: no
\* fallback on G can destroy the software decoder R has just used.
CpuFrameAlive == out.kind = "cpu" => dec[out.dec] # Free

\* Between two callbacks, decoder_ was built for the codec the last metadata
\* announced: until a connection is lost, the fallback, which copies codec_
\* and installs its decoder later, never undoes a rebuild of R for another
\* codec.
DecoderMatchesCodec ==
  ~lost /\ pc["R"] = "idle" /\ decoder # None => dec[decoder].codec = codec

\* Between two callbacks, a hardware decoder_ has the codec, size and depth the
\* rebuild decisions of onMeta() and onVideoData() assume it has, across
\* reconnects too.
HardwareMatchesStream ==
  pc["R"] = "idle" /\ decoder # None /\ dec[decoder].kind = "hw" =>
    dec[decoder] = DecoderOf("hw", codec, size, decTen)

\* "every later frame on this connection is decoded by the software backend":
\* once forceSoftware_ is set and the fallback has run, decoder_ is not a
\* hardware decoder.
SoftwareSticks ==
  force /\ pc["R"] = "idle" /\ pc["G"] = "idle" /\ decoder # None
    => dec[decoder].kind = "sw"

\* "the decoder from the previous connection must be destroyed here": when
\* start() has run on T, the new connection begins without a decoder.
ConnectionStartsClean == pc["T"] = "up" => decoder = None

\* "No new frame arrived for this render: keep showing the last decoded
\* picture": a render without a new frame draws if the one before it drew.
PictureKept ==
  [][RenderDraw /\ pc["G"] = "draw" /\ shown # "none" => shown' # "none"]_vars
==============================================================================

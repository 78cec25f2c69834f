------------------------ MODULE DecodePipeline_proofs ------------------------
(***************************************************************************)
(* Theorems about decoders and frames, for any sets of decoders, frames    *)
(* and announced formats.                                                  *)
(***************************************************************************)
EXTENDS DecodePipeline, FiniteSetTheorems, TLAPS

------------------------------------------------------------------------------
(* The inductive invariant, in layers: each one is preserved by a step     *)
(* from a state that satisfies it and the ones above it.                   *)

FallbackPCs == {"fbCodec", "fbCreate", "fbRecord", "fbSwap", "fbDestroy"}
RenderPCs   == {"frame", "draw", "drawCpu", "skip"} \cup FallbackPCs
RebuildPCs  == {"drop", "release", "create", "record", "set", "swap", "destroy"}

\* Who runs when: G renders and falls back with the graphics context, a
\* joined R is idle, T only runs after a loss and finds R joined, and nobody
\* else runs when stop() releases everything.
Control ==
  /\ pc \in [Threads -> RPCs \cup GPCs \cup TPCs]
  /\ pc["R"] \in RPCs /\ pc["G"] \in GPCs /\ pc["T"] \in TPCs
  /\ gfx = IF pc["G"] \in RenderPCs THEN "G" ELSE None
  /\ ~up => pc["R"] = "idle"
  /\ pc["T"] # "idle" => lost
  /\ pc["T"] \notin {"idle", "join"} => ~up
  /\ pc["G"] \in {"stopRelease", "stopped"} => ~running /\ pc["T"] = "idle"
  /\ pc["G"] = "stopped" => ~up
  /\ ~running /\ ~lost => pc["G"] \in {"stopWait", "stopJoin", "stopRelease", "stopped"}
  /\ pc["R"] \in RebuildPCs => rebuild.next \in {"idle", "decode"}

\* The types, apart from those of pc and gfx.
FlagsOK ==
  /\ {running, stopping, up, lost, hasCpu} \subseteq BOOLEAN
  /\ {force, bitKnown, streamTen, decTen} \subseteq BOOLEAN
  /\ shown \in {"none", "gpu", "cpu"}

FactsOK ==
  /\ {backend, requested} \subseteq Backends
  /\ codec \in Codecs /\ gcodec \in Codecs \cup {None}
  /\ size \in Sizes
  /\ rebuild \in {NoRebuild} \cup
                 [sw : BOOLEAN, ten : BOOLEAN, codec : Codecs, size : Sizes,
                  next : {"idle", "decode"}]
  /\ pc["G"] = "fbCreate" => gcodec \in Codecs

DecsOK ==
  /\ decoder \in Decs \cup {None}
  /\ dec \in [Decs -> Decoders \cup {Free}]
  /\ fresh \in [Threads -> Decs \cup {None}]
  /\ old \in [Threads -> Decs \cup {None}]

PicsOK ==
  /\ {pending, drawn} \subseteq Frames \cup {None}
  /\ dead \in [Threads -> Frames \cup {None}]
  /\ out \in {NoFrame} \cup {GpuFrame(f) : f \in Frames} \cup {CpuFrame(d) : d \in Decs}
  /\ frames \subseteq Frames

\* The places that a thread fills and empties are filled only in between.
Places ==
  /\ \A p \in Threads :
       fresh[p] # None => \/ p = "R" /\ pc[p] \in {"record", "set", "swap"}
                          \/ p = "G" /\ pc[p] \in {"fbRecord", "fbSwap"}
  /\ \A p \in Threads :
       old[p] # None => pc[p] = IF p = "G" THEN "fbDestroy" ELSE "destroy"
  /\ \A p \in Threads :
       dead[p] # None => \/ p # "G" /\ pc[p] = "release"
                         \/ p = "R" /\ pc[p] = "stale"
  /\ out # NoFrame => pc["R"] = "output"
  /\ pc["R"] = "output" => out # NoFrame

\* Exactly one place owns a decoder that exists: no two places hold the same
\* one, and a decoder exists when a place holds it.
DecodersApart ==
  /\ \A p \in Threads :
       /\ fresh[p] # None => fresh[p] # decoder
       /\ old[p] # None => old[p] # decoder
  /\ \A p, q \in Threads :
       /\ fresh[p] # None => fresh[p] # old[q]
       /\ p # q /\ fresh[p] # None => fresh[p] # fresh[q]
       /\ p # q /\ old[p] # None => old[p] # old[q]
DecodersHeld ==
  \A d \in Decs :
    dec[d] # Free <=> d = decoder \/ \E p \in Threads : fresh[p] = d \/ old[p] = d

\* The same for frames.
Held == IF out.kind = "gpu" THEN out.frame ELSE None
FramesApart ==
  /\ pending # None => pending # drawn /\ pending # Held
  /\ drawn # None => drawn # Held
  /\ \A p \in Threads : dead[p] # None => dead[p] \notin {pending, drawn, Held}
  /\ \A p, q \in Threads : p # q /\ dead[p] # None => dead[p] # dead[q]
FramesHeld ==
  \A f \in Frames :
    f \in frames <=> f \in {pending, drawn, Held} \/ \E p \in Threads : dead[p] = f

\* Why no fallback starts against a software decoder that R still uses: an
\* undrawn GPU frame next to a software decoder means that the fallback has
\* run already on this connection.  Until the fallback has swapped, decoder_
\* is no software decoder; R cannot create one without the graphics context.
Hard(d) == d # None /\ dec[d].kind = "hw"
Soft(d) == d # None /\ dec[d].kind = "sw"
FallbackOnce ==
  /\ pc["R"] \in {"release", "create", "record", "set", "swap"} => pending = None
  /\ pc["T"] \in {"release", "start", "destroy", "reset", "up"} => pending = None
  /\ pc["T"] \in {"destroy", "reset", "up"} => ~Hard(decoder)
  /\ pc["G"] = "stopped" => pending = None /\ decoder = None
  /\ pc["G"] \in FallbackPCs => fresh["R"] = None /\ ~Hard(fresh["G"])
  /\ pc["G"] \in FallbackPCs \ {"fbDestroy"} => ~Soft(decoder)
  /\ pc["G"] \in FallbackPCs /\ ~force =>
       pending = None /\ out.kind # "gpu" /\ ~Hard(decoder)
  /\ Soft(decoder) /\ ~force => pending = None /\ out.kind # "gpu"
  /\ out.kind = "cpu" => out.dec = decoder /\ Soft(decoder)

\* What a decoder was built for, from the decision to rebuild to the swap.
Built ==
  /\ pc["R"] \in RebuildPCs => rebuild.size = size
  /\ pc["R"] \in {"swap", "destroy"} => codec = rebuild.codec /\ decTen = rebuild.ten
  /\ fresh["R"] # None => dec[fresh["R"]].codec = rebuild.codec
  /\ Hard(fresh["R"]) =>
       dec[fresh["R"]] = DecoderOf("hw", rebuild.codec, size, rebuild.ten)
  /\ ~Hard(fresh["G"])
  /\ Hard(decoder) /\ pc["R"] \notin RebuildPCs \ {"destroy"} =>
       dec[decoder] = DecoderOf("hw", codec, size, decTen)

\* Why the fallback cannot undo a rebuild of R: it holds the graphics context
\* R needs to create a decoder, from before R dropped the pending frame.
CodecFollows ==
  ~lost =>
    /\ pc["G"] \in FallbackPCs => pc["R"] \notin {"record", "set", "swap"}
    /\ pc["G"] \in {"fbCreate", "fbRecord", "fbSwap"} => gcodec = codec
    /\ fresh["G"] # None => dec[fresh["G"]].codec = gcodec
    /\ decoder # None /\ pc["R"] # "swap" => dec[decoder].codec = codec

(* The single actions of Next. *)
ReceiverStep ==
  \/ \E m \in Metas : Meta(m[1], m[2])
  \/ \E sps \in {"none", "8", "10"} : VideoData(sps)
  \/ RebuildDrop \/ RebuildRelease \/ RebuildCreate \/ RebuildRecord
  \/ RebuildSet \/ RebuildSwap \/ RebuildDestroy
  \/ Decode \/ OutputVideo \/ ReleaseStale

RenderStep ==
  \/ RenderBegin \/ RenderCpu \/ RenderKeep \/ RenderDraw
  \/ FallbackCodec \/ FallbackCreate \/ FallbackRecord \/ FallbackSwap
  \/ FallbackDestroy
  \/ \E imported \in BOOLEAN : RenderImport(imported)

ReconnectStep ==
  \/ Disconnect \/ ReconnectJoin \/ ReconnectCheck \/ ReconnectDrop
  \/ ReconnectRelease \/ StartSwap \/ StartDestroy \/ StartReset
  \/ StartRunning

LEMMA NextCases ==
  ASSUME [Next]_vars
  PROVE  UNCHANGED vars \/ ReceiverStep \/ RenderStep \/ ReconnectStep \/ Update
BY DEF Next, Packet, Receive, Rebuild, VideoRender, Fallback, ReconnectNow,
       ReceiverStep, RenderStep, ReconnectStep

------------------------------------------------------------------------------
(* Control.                                                                *)

LEMMA ControlInit == Init => Control
BY DEF Init, Control, Threads, RPCs, GPCs, TPCs, RenderPCs, FallbackPCs, RebuildPCs

LEMMA ControlStep == Control /\ [Next]_vars => Control'
<1> SUFFICES ASSUME Control, [Next]_vars PROVE Control'
  OBVIOUS
<1> USE NoneIsNew DEF Control, Threads, RPCs, GPCs, TPCs, RenderPCs, FallbackPCs, RebuildPCs,
                      Goto, conn, args
<1>1. ASSUME NEW m \in Metas, Meta(m[1], m[2]) PROVE Control'
  BY <1>1 DEF Meta
<1>2. ASSUME NEW sps \in {"none", "8", "10"}, VideoData(sps) PROVE Control'
  BY <1>2 DEF VideoData
<1>3. CASE RebuildDrop
  BY <1>3 DEF RebuildDrop, Drop
<1>4. CASE RebuildRelease
  BY <1>4 DEF RebuildRelease, Release
<1>5. CASE RebuildCreate
  BY <1>5 DEF RebuildCreate, Create
<1>6. CASE RebuildRecord
  BY <1>6 DEF RebuildRecord, Record
<1>7. CASE RebuildSet
  BY <1>7 DEF RebuildSet
<1>8. CASE RebuildSwap
  BY <1>8 DEF RebuildSwap, Swap
<1>9. CASE RebuildDestroy
  BY <1>9 DEF RebuildDestroy, Destroy
<1>10. CASE Decode
  BY <1>10 DEF Decode
<1>11. CASE OutputVideo
  BY <1>11 DEF OutputVideo
<1>12. CASE ReleaseStale
  BY <1>12 DEF ReleaseStale, Release
<1>13. CASE RenderBegin
  BY <1>13 DEF RenderBegin
<1>14. ASSUME NEW imported \in BOOLEAN, RenderImport(imported) PROVE Control'
  BY <1>14 DEF RenderImport
<1>15. CASE RenderCpu
  BY <1>15 DEF RenderCpu
<1>16. CASE RenderKeep
  BY <1>16 DEF RenderKeep
<1>17. CASE RenderDraw
  BY <1>17 DEF RenderDraw
<1>18. CASE FallbackCodec
  BY <1>18 DEF FallbackCodec
<1>19. CASE FallbackCreate
  BY <1>19 DEF FallbackCreate, Create
<1>20. CASE FallbackRecord
  BY <1>20 DEF FallbackRecord, Record
<1>21. CASE FallbackSwap
  BY <1>21 DEF FallbackSwap, Swap
<1>22. CASE FallbackDestroy
  BY <1>22 DEF FallbackDestroy, Destroy
<1>23. CASE Disconnect
  BY <1>23 DEF Disconnect, Lifecycle
<1>24. CASE ReconnectJoin
  BY <1>24 DEF ReconnectJoin
<1>25. CASE ReconnectCheck
  BY <1>25 DEF ReconnectCheck
<1>26. CASE ReconnectDrop
  BY <1>26 DEF ReconnectDrop, Drop
<1>27. CASE ReconnectRelease
  BY <1>27 DEF ReconnectRelease, Release
<1>28. CASE StartSwap
  BY <1>28 DEF StartSwap, Swap, Lifecycle
<1>29. CASE StartDestroy
  BY <1>29 DEF StartDestroy, Destroy
<1>30. CASE StartReset
  BY <1>30 DEF StartReset, ResetFacts
<1>31. CASE StartRunning
  BY <1>31 DEF StartRunning
<1>32. CASE StopSignal
  BY <1>32 DEF StopSignal
<1>33. CASE StopTeardown
  BY <1>33 DEF StopTeardown, Lifecycle
<1>34. CASE StopJoinR
  BY <1>34 DEF StopJoinR
<1>35. CASE StopJoinT
  BY <1>35 DEF StopJoinT
<1>36. CASE StopRelease
  BY <1>36 DEF StopRelease
<1>37. ASSUME NEW b \in Backends, Restart(b) PROVE Control'
  BY <1>37 DEF Restart, ResetFacts
<1>38. CASE UNCHANGED vars
  BY <1>38 DEF vars
<1> HIDE DEF Control, Threads, RPCs, GPCs, TPCs, RenderPCs, FallbackPCs, RebuildPCs,
             Goto, conn, args
<1> QED
  BY <1>1, <1>2, <1>3, <1>4, <1>5, <1>6, <1>7, <1>8, <1>9, <1>10, <1>11, <1>12,
     <1>13, <1>14, <1>15, <1>16, <1>17, <1>18, <1>19, <1>20, <1>21, <1>22,
     <1>23, <1>24, <1>25, <1>26, <1>27, <1>28, <1>29, <1>30, <1>31, <1>32,
     <1>33, <1>34, <1>35, <1>36, <1>37, <1>38, NextCases
  DEF ReceiverStep, RenderStep, ReconnectStep, Update

------------------------------------------------------------------------------
(* Which actions change the decoders, the frames and the facts.            *)

\* Decoders are created, installed and destroyed.
LEMMA DecsCases ==
  ASSUME Control, [Next]_vars
  PROVE  \/ UNCHANGED decs
         \/ RebuildCreate \/ RebuildSwap \/ RebuildDestroy \/ FallbackCreate
         \/ FallbackSwap \/ FallbackDestroy \/ StartSwap \/ StartDestroy
         \/ StopRelease
<1>1. CASE ReceiverStep
  BY <1>1 DEF ReceiverStep, Meta, VideoData, RebuildDrop, RebuildRelease,
              RebuildRecord, RebuildSet, Decode, OutputVideo, ReleaseStale,
              Drop, Release, Record, decs
<1>2. CASE RenderStep
  BY <1>2 DEF RenderStep, RenderBegin, RenderCpu, RenderKeep, RenderDraw,
              FallbackCodec, FallbackRecord, RenderImport, Record, decs
<1>3. CASE ReconnectStep
  BY <1>3 DEF ReconnectStep, Disconnect, ReconnectJoin, ReconnectCheck,
              ReconnectDrop, ReconnectRelease, StartReset, StartRunning, Drop,
              Release, ResetFacts, decs
<1>4. CASE Update
  BY <1>4 DEF Update, StopSignal, StopTeardown, StopJoinR, StopJoinT, Restart,
              ResetFacts, decs
<1>5. CASE UNCHANGED vars
  BY <1>5 DEF vars, decs
<1> QED
  BY <1>1, <1>2, <1>3, <1>4, <1>5, NextCases

\* Frames are handed out, handed on and released.
LEMMA PicsCases ==
  ASSUME Control, [Next]_vars
  PROVE  \/ UNCHANGED <<pending, drawn, dead, out, frames>>
         \/ RebuildDrop \/ RebuildRelease \/ Decode \/ OutputVideo
         \/ ReleaseStale \/ (\E imported \in BOOLEAN : RenderImport(imported))
         \/ RenderCpu \/ ReconnectDrop \/ ReconnectRelease \/ StopRelease
<1>1. CASE ReceiverStep
  BY <1>1 DEF ReceiverStep, Meta, VideoData, RebuildCreate, RebuildRecord,
              RebuildSet, RebuildSwap, RebuildDestroy, Create, Record, Swap,
              Destroy, pics
<1>2. CASE RenderStep
  BY <1>2 DEF RenderStep, RenderBegin, RenderKeep, RenderDraw, FallbackCodec,
              FallbackCreate, FallbackRecord, FallbackSwap, FallbackDestroy,
              Create, Record, Swap, Destroy, pics
<1>3. CASE ReconnectStep
  BY <1>3 DEF ReconnectStep, Disconnect, ReconnectJoin, ReconnectCheck,
              StartSwap, StartDestroy, StartReset, StartRunning, Swap, Destroy,
              ResetFacts, pics
<1>4. CASE Update
  BY <1>4 DEF Update, StopSignal, StopTeardown, StopJoinR, StopJoinT, Restart,
              ResetFacts, pics
<1>5. CASE UNCHANGED vars
  BY <1>5 DEF vars, pics
<1> QED
  BY <1>1, <1>2, <1>3, <1>4, <1>5, NextCases

\* The facts about the stream change.
LEMMA FactsCases ==
  ASSUME Control, [Next]_vars
  PROVE  \/ /\ UNCHANGED <<backend, requested, codec, size, rebuild, gcodec>>
            /\ (pc'["G"] = "fbCreate" => pc["G"] = "fbCreate")
         \/ (\E m \in Metas : Meta(m[1], m[2]))
         \/ (\E sps \in {"none", "8", "10"} : VideoData(sps)) \/ RebuildRecord
         \/ RebuildSet \/ RebuildDestroy \/ FallbackCodec \/ FallbackRecord
         \/ FallbackDestroy \/ (\E b \in Backends : Restart(b))
<1>1. CASE ReceiverStep
  BY <1>1 DEF ReceiverStep, RebuildDrop, RebuildRelease, RebuildCreate,
              RebuildSwap, Decode, OutputVideo, ReleaseStale, Drop, Release,
              Create, Swap, facts, args, Goto, Control, Threads
<1>2. CASE RenderStep
  BY <1>2 DEF RenderStep, RenderBegin, RenderCpu, RenderKeep, RenderDraw,
              FallbackCreate, FallbackSwap, RenderImport, Create, Swap, facts,
              args, Goto, Control, Threads
<1>3. CASE ReconnectStep
  BY <1>3 DEF ReconnectStep, Disconnect, ReconnectJoin, ReconnectCheck,
              ReconnectDrop, ReconnectRelease, StartSwap, StartDestroy,
              StartReset, StartRunning, Drop, Release, Swap, Destroy,
              ResetFacts, facts, args, Goto, Control, Threads
<1>4. CASE Update
  BY <1>4 DEF Update, StopSignal, StopTeardown, StopJoinR, StopJoinT,
              StopRelease, facts, args, Goto, Control, Threads
<1>5. CASE UNCHANGED vars
  BY <1>5 DEF vars, facts, args, Control, Threads
<1> QED
  BY <1>1, <1>2, <1>3, <1>4, <1>5, NextCases

------------------------------------------------------------------------------
(* Types.                                                                  *)

Types == FlagsOK /\ FactsOK /\ DecsOK /\ PicsOK

LEMMA TypesInit == Init => Types
<1> SUFFICES ASSUME Init PROVE Types
  OBVIOUS
<1>1. FlagsOK
  BY DEF Init, FlagsOK
<1>2. FactsOK
  BY DEF Init, FactsOK, Backends, Threads
<1>3. DecsOK
  BY DEF Init, DecsOK
<1>4. PicsOK
  BY DEF Init, PicsOK
<1> QED
  BY <1>1, <1>2, <1>3, <1>4 DEF Types

\* A rebuild in progress has its arguments.
LEMMA RebuildArgs ==
  ASSUME Control, FactsOK, pc["R"] \in RebuildPCs
  PROVE  /\ rebuild.sw \in BOOLEAN /\ rebuild.ten \in BOOLEAN
         /\ rebuild.codec \in Codecs /\ rebuild.size \in Sizes
BY DEF Control, FactsOK, NoRebuild

LEMMA FlagsStep == Control /\ FactsOK /\ FlagsOK /\ [Next]_vars => FlagsOK'
<1> SUFFICES ASSUME Control, FactsOK, FlagsOK, [Next]_vars PROVE FlagsOK'
  OBVIOUS
<1> USE DEF FlagsOK
<1>1. ASSUME NEW m \in Metas, Meta(m[1], m[2]) PROVE FlagsOK'
  BY <1>1 DEF Meta, conn, pics, facts
<1>2. ASSUME NEW sps \in {"none", "8", "10"}, VideoData(sps) PROVE FlagsOK'
  BY <1>2 DEF VideoData, conn, pics, facts
<1>3. CASE RebuildDrop
  BY <1>3 DEF RebuildDrop, Drop, conn, pics, facts
<1>4. CASE RebuildRelease
  BY <1>4 DEF RebuildRelease, Release, conn, pics, facts
<1>5. CASE RebuildCreate
  BY <1>5 DEF RebuildCreate, Create, conn, pics, facts
<1>6. CASE RebuildRecord
  BY <1>6 DEF RebuildRecord, Record, conn, pics, facts
<1>7. CASE RebuildSet
  BY <1>7, RebuildArgs DEF RebuildSet, RebuildPCs, conn, pics, facts
<1>8. CASE RebuildSwap
  BY <1>8 DEF RebuildSwap, Swap, conn, pics, facts
<1>9. CASE RebuildDestroy
  BY <1>9 DEF RebuildDestroy, Destroy, conn, pics, facts
<1>10. CASE Decode
  BY <1>10 DEF Decode, conn, pics, facts
<1>11. CASE OutputVideo
  BY <1>11 DEF OutputVideo, conn, pics, facts
<1>12. CASE ReleaseStale
  BY <1>12 DEF ReleaseStale, Release, conn, pics, facts
<1>13. CASE RenderBegin
  BY <1>13 DEF RenderBegin, conn, pics, facts
<1>14. ASSUME NEW imported \in BOOLEAN, RenderImport(imported) PROVE FlagsOK'
  BY <1>14 DEF RenderImport, conn, pics, facts
<1>15. CASE RenderCpu
  BY <1>15 DEF RenderCpu, conn, pics, facts
<1>16. CASE RenderKeep
  BY <1>16 DEF RenderKeep, conn, pics, facts
<1>17. CASE RenderDraw
  BY <1>17 DEF RenderDraw, conn, pics, facts
<1>18. CASE FallbackCodec
  BY <1>18 DEF FallbackCodec, conn, pics, facts
<1>19. CASE FallbackCreate
  BY <1>19 DEF FallbackCreate, Create, conn, pics, facts
<1>20. CASE FallbackRecord
  BY <1>20 DEF FallbackRecord, Record, conn, pics, facts
<1>21. CASE FallbackSwap
  BY <1>21 DEF FallbackSwap, Swap, conn, pics, facts
<1>22. CASE FallbackDestroy
  BY <1>22 DEF FallbackDestroy, Destroy, conn, pics, facts
<1>23. CASE Disconnect
  BY <1>23 DEF Disconnect, conn, pics, facts
<1>24. CASE ReconnectJoin
  BY <1>24 DEF ReconnectJoin, conn, pics, facts
<1>25. CASE ReconnectCheck
  BY <1>25 DEF ReconnectCheck, conn, pics, facts
<1>26. CASE ReconnectDrop
  BY <1>26 DEF ReconnectDrop, Drop, conn, pics, facts
<1>27. CASE ReconnectRelease
  BY <1>27 DEF ReconnectRelease, Release, conn, pics, facts
<1>28. CASE StartSwap
  BY <1>28 DEF StartSwap, Swap, conn, pics, facts
<1>29. CASE StartDestroy
  BY <1>29 DEF StartDestroy, Destroy, conn, pics, facts
<1>30. CASE StartReset
  BY <1>30 DEF StartReset, ResetFacts, conn, pics, facts
<1>31. CASE StartRunning
  BY <1>31 DEF StartRunning, conn, pics, facts
<1>32. CASE StopSignal
  BY <1>32 DEF StopSignal, conn, pics, facts
<1>33. CASE StopTeardown
  BY <1>33 DEF StopTeardown, conn, pics, facts
<1>34. CASE StopJoinR
  BY <1>34 DEF StopJoinR, conn, pics, facts
<1>35. CASE StopJoinT
  BY <1>35 DEF StopJoinT, conn, pics, facts
<1>36. CASE StopRelease
  BY <1>36 DEF StopRelease, conn, pics, facts
<1>37. ASSUME NEW b \in Backends, Restart(b) PROVE FlagsOK'
  BY <1>37 DEF Restart, ResetFacts, conn, pics, facts
<1>38. CASE UNCHANGED vars
  BY <1>38 DEF vars, conn, pics, facts
<1> HIDE DEF FlagsOK
<1> QED
  BY <1>1, <1>2, <1>3, <1>4, <1>5, <1>6, <1>7, <1>8, <1>9, <1>10, <1>11, <1>12,
     <1>13, <1>14, <1>15, <1>16, <1>17, <1>18, <1>19, <1>20, <1>21, <1>22,
     <1>23, <1>24, <1>25, <1>26, <1>27, <1>28, <1>29, <1>30, <1>31, <1>32,
     <1>33, <1>34, <1>35, <1>36, <1>37, <1>38, NextCases
  DEF ReceiverStep, RenderStep, ReconnectStep, Update

LEMMA FactsStep == Control /\ FlagsOK /\ FactsOK /\ [Next]_vars => FactsOK'
<1> SUFFICES ASSUME Control, FlagsOK, FactsOK, [Next]_vars PROVE FactsOK'
  OBVIOUS
<1> USE DEF FactsOK
<1>1. CASE /\ UNCHANGED <<backend, requested, codec, size, rebuild, gcodec>>
           /\ (pc'["G"] = "fbCreate" => pc["G"] = "fbCreate")
  BY <1>1
<1>2. ASSUME NEW m \in Metas, Meta(m[1], m[2]) PROVE FactsOK'
  <2>1. m[1] \in Codecs /\ m[2] \in Sizes
    BY DEF Codecs, Sizes
  <2> DEFINE r == [sw |-> force, ten |-> bitKnown /\ streamTen,
                   codec |-> m[1], size |-> m[2], next |-> "idle"]
  <2>2. r \in [sw : BOOLEAN, ten : BOOLEAN, codec : Codecs, size : Sizes,
               next : {"idle", "decode"}]
    BY <2>1 DEF FlagsOK
  <2>3. rebuild' \in {rebuild, r} /\ pc'["G"] = pc["G"]
    BY <1>2 DEF Meta, Goto, Control, Threads
  <2> HIDE DEF r
  <2> QED
    BY <1>2, <2>1, <2>2, <2>3 DEF Meta
<1>3. ASSUME NEW sps \in {"none", "8", "10"}, VideoData(sps) PROVE FactsOK'
  <2> DEFINE r == [sw |-> FALSE, ten |-> streamTen', codec |-> codec,
                   size |-> size, next |-> "decode"]
  <2>1. streamTen' \in BOOLEAN
    BY <1>3 DEF VideoData, FlagsOK
  <2>2. r \in [sw : BOOLEAN, ten : BOOLEAN, codec : Codecs, size : Sizes,
               next : {"idle", "decode"}]
    BY <2>1
  <2>3. rebuild' \in {rebuild, r} /\ pc'["G"] = pc["G"]
    BY <1>3 DEF VideoData, Goto, Control, Threads
  <2> HIDE DEF r
  <2> QED
    BY <1>3, <2>2, <2>3 DEF VideoData
<1>4. CASE RebuildRecord
  BY <1>4 DEF RebuildRecord, Record, Goto, Control, Threads, args, Backends
<1>5. CASE RebuildSet
  BY <1>5, RebuildArgs DEF RebuildSet, RebuildPCs, Goto, Control, Threads, args
<1>6. CASE RebuildDestroy
  BY <1>6 DEF RebuildDestroy, Destroy, Goto, Control, Threads, facts
<1>7. CASE FallbackCodec
  BY <1>7 DEF FallbackCodec, facts
<1>8. CASE FallbackRecord
  BY <1>8 DEF FallbackRecord, Record, Goto, Control, Threads, args, Backends
<1>9. CASE FallbackDestroy
  BY <1>9 DEF FallbackDestroy, Destroy, Goto, Control, Threads, facts
<1>10. ASSUME NEW b \in Backends, Restart(b) PROVE FactsOK'
  BY <1>10 DEF Restart, Goto, Control, Threads, args
<1> HIDE DEF FactsOK
<1> QED
  BY <1>1, <1>2, <1>3, <1>4, <1>5, <1>6, <1>7, <1>8, <1>9, <1>10, FactsCases

LEMMA DecoderOfType ==
  ASSUME NEW k \in Backends, NEW c \in Codecs, NEW s \in Sizes, NEW ten \in BOOLEAN
  PROVE  /\ DecoderOf(k, c, s, ten) \in Decoders
         /\ DecoderOf(k, c, s, ten) # Free
         /\ DecoderOf(k, c, s, ten).codec = c
         /\ DecoderOf(k, c, s, ten).kind = k
BY DEF DecoderOf, Decoders, Backends, Free

\* zc_hw_decoder_create() makes at most one new decoder, for its arguments.
LEMMA CreateEffect ==
  ASSUME FactsOK, NEW p \in Threads, NEW sw \in BOOLEAN, NEW c \in Codecs,
         NEW s \in Sizes, NEW ten \in BOOLEAN, Create(p, sw, c, s, ten)
  PROVE  \/ UNCHANGED <<dec, fresh>>
         \/ \E d \in Decs, k \in Backends :
              /\ sw => k = "sw"
              /\ dec[d] = Free
              /\ dec' = [dec EXCEPT ![d] = DecoderOf(k, c, s, ten)]
              /\ fresh' = [fresh EXCEPT ![p] = d]
BY DEF Create, FactsOK, Backends

\* The two threads that create a decoder.
Created(p, k, c, s, ten) ==
  \E d \in Decs :
    /\ dec[d] = Free
    /\ dec' = [dec EXCEPT ![d] = DecoderOf(k, c, s, ten)]
    /\ fresh' = [fresh EXCEPT ![p] = d]

LEMMA RebuildCreateEffect ==
  ASSUME Control, FactsOK, RebuildCreate
  PROVE  /\ UNCHANGED <<decoder, old>>
         /\ \/ UNCHANGED <<dec, fresh>>
            \/ \E k \in Backends :
                 Created("R", k, rebuild.codec, rebuild.size, rebuild.ten)
<1>1. /\ rebuild.sw \in BOOLEAN /\ rebuild.ten \in BOOLEAN
      /\ rebuild.codec \in Codecs /\ rebuild.size \in Sizes
  BY RebuildArgs DEF RebuildCreate, RebuildPCs
<1>2. CASE Create("R", rebuild.sw, rebuild.codec, rebuild.size, rebuild.ten)
  <2> HIDE DEF Create
  <2> QED
    BY <1>1, <1>2, CreateEffect DEF RebuildCreate, Created, Threads
<1>3. CASE UNCHANGED <<dec, fresh>>
  BY <1>3 DEF RebuildCreate
<1> QED
  BY <1>2, <1>3 DEF RebuildCreate

LEMMA FallbackCreateEffect ==
  ASSUME FallbackCreate
  PROVE  /\ UNCHANGED <<decoder, old>>
         /\ \/ UNCHANGED <<dec, fresh>>
            \/ Created("G", "sw", gcodec, size, bitKnown /\ streamTen)
BY DEF FallbackCreate, Create, Created

LEMMA DecsStep ==
  Control /\ FlagsOK /\ FactsOK /\ DecsOK /\ [Next]_vars => DecsOK'
<1> SUFFICES ASSUME Control, FlagsOK, FactsOK, DecsOK, [Next]_vars PROVE DecsOK'
  OBVIOUS
<1> USE DEF DecsOK
<1>1. CASE UNCHANGED decs
  BY <1>1 DEF decs
<1>2. ASSUME NEW p \in Threads, NEW k \in Backends, NEW c \in Codecs,
             NEW s \in Sizes, NEW ten \in BOOLEAN, Created(p, k, c, s, ten),
             UNCHANGED <<decoder, old>>
      PROVE  DecsOK'
  <2> HIDE DEF Decoders
  <2> QED
    BY <1>2, DecoderOfType DEF Created
<1>3. CASE RebuildCreate
  <2>1. /\ rebuild.ten \in BOOLEAN /\ rebuild.codec \in Codecs
        /\ rebuild.size \in Sizes
    BY <1>3, RebuildArgs DEF RebuildCreate, RebuildPCs
  <2> QED
    BY <1>2, <1>3, <2>1, RebuildCreateEffect DEF Threads
<1>4. CASE FallbackCreate
  <2>1. gcodec \in Codecs /\ size \in Sizes /\ (bitKnown /\ streamTen) \in BOOLEAN
    BY <1>4 DEF FallbackCreate, FactsOK
  <2>2. "sw" \in Backends /\ "G" \in Threads
    BY DEF Backends, Threads
  <2> QED
    BY <1>2, <1>4, <2>1, <2>2, FallbackCreateEffect
<1>5. ASSUME NEW p \in Threads, NEW l, Swap(p, l) PROVE DecsOK'
  BY <1>5 DEF Swap
<1>6. ASSUME NEW p \in Threads, NEW l, Destroy(p, l) PROVE DecsOK'
  BY <1>6 DEF Destroy
<1>7. CASE StopRelease
  BY <1>7 DEF StopRelease
<1>8. "R" \in Threads /\ "G" \in Threads /\ "T" \in Threads
  BY DEF Threads
<1> HIDE DEF DecsOK
<1> QED
  BY <1>1, <1>3, <1>4, <1>5, <1>6, <1>7, <1>8, DecsCases
  DEF RebuildSwap, FallbackSwap, StartSwap, RebuildDestroy, FallbackDestroy, StartDestroy

LEMMA PicsStep == DecsOK /\ PicsOK /\ Control /\ [Next]_vars => PicsOK'
<1> SUFFICES ASSUME DecsOK, PicsOK, Control, [Next]_vars PROVE PicsOK'
  OBVIOUS
<1> USE DEF PicsOK
<1>1. CASE UNCHANGED <<pending, drawn, dead, out, frames>>
  BY <1>1
<1>2. ASSUME NEW p \in Threads, NEW l, Drop(p, l) PROVE PicsOK'
  BY <1>2 DEF Drop
<1>3. ASSUME NEW p \in Threads, NEW l, Release(p, l) PROVE PicsOK'
  BY <1>3 DEF Release
<1>4. CASE Decode
  BY <1>4 DEF Decode, DecsOK
<1>5. CASE OutputVideo
  BY <1>5 DEF OutputVideo, GpuFrame, CpuFrame, NoFrame
<1>6. ASSUME NEW imported \in BOOLEAN, RenderImport(imported) PROVE PicsOK'
  BY <1>6 DEF RenderImport
<1>7. CASE RenderCpu
  BY <1>7 DEF RenderCpu
<1>8. CASE StopRelease
  BY <1>8 DEF StopRelease
<1>9. "R" \in Threads /\ "T" \in Threads
  BY DEF Threads
<1> HIDE DEF PicsOK
<1> QED
  BY <1>1, <1>2, <1>3, <1>4, <1>5, <1>6, <1>7, <1>8, <1>9, PicsCases
  DEF RebuildDrop, RebuildRelease, ReleaseStale, ReconnectDrop, ReconnectRelease

LEMMA TypesStep == Control /\ Types /\ [Next]_vars => Types'
BY FlagsStep, FactsStep, DecsStep, PicsStep DEF Types

------------------------------------------------------------------------------
(* Places.                                                                 *)

LEMMA FrameKinds ==
  /\ NoFrame.kind = "none"
  /\ \A x : GpuFrame(x).kind = "gpu" /\ GpuFrame(x).frame = x
  /\ \A x : CpuFrame(x).kind = "cpu" /\ CpuFrame(x).dec = x
BY DEF NoFrame, GpuFrame, CpuFrame


LEMMA PlacesInit == Init => Places
BY DEF Init, Places, NoFrame, Threads

LEMMA PlacesStep == Control /\ Types /\ Places /\ [Next]_vars => Places'
<1> SUFFICES ASSUME Control, Types, Places, [Next]_vars PROVE Places'
  OBVIOUS
<1> USE DEF Control, Types, DecsOK, PicsOK, Places, Threads, Goto, conn, decs, pics
<1>1. ASSUME NEW m \in Metas, Meta(m[1], m[2]) PROVE Places'
  BY <1>1 DEF Meta
<1>2. ASSUME NEW sps \in {"none", "8", "10"}, VideoData(sps) PROVE Places'
  BY <1>2 DEF VideoData
<1>3. CASE RebuildDrop
  BY <1>3 DEF RebuildDrop, Drop
<1>4. CASE RebuildRelease
  BY <1>4 DEF RebuildRelease, Release
<1>5. CASE RebuildCreate
  BY <1>5 DEF RebuildCreate, Create
<1>6. CASE RebuildRecord
  BY <1>6 DEF RebuildRecord, Record
<1>7. CASE RebuildSet
  BY <1>7 DEF RebuildSet
<1>8. CASE RebuildSwap
  BY <1>8 DEF RebuildSwap, Swap
<1>9. CASE RebuildDestroy
  BY <1>9 DEF RebuildDestroy, Destroy, RebuildPCs
<1>10. CASE Decode
  <2>1. \/ out' = NoFrame /\ pc'["R"] = "idle"
        \/ out' # NoFrame /\ pc'["R"] = "output"
    BY <1>10, FrameKinds DEF Decode
  <2> QED
    BY <1>10, <2>1 DEF Decode
<1>11. CASE OutputVideo
  BY <1>11 DEF OutputVideo
<1>12. CASE ReleaseStale
  BY <1>12 DEF ReleaseStale, Release
<1>13. CASE RenderBegin
  BY <1>13 DEF RenderBegin
<1>14. ASSUME NEW imported \in BOOLEAN, RenderImport(imported) PROVE Places'
  BY <1>14 DEF RenderImport
<1>15. CASE RenderCpu
  BY <1>15 DEF RenderCpu
<1>16. CASE RenderKeep
  BY <1>16 DEF RenderKeep
<1>17. CASE RenderDraw
  BY <1>17 DEF RenderDraw
<1>18. CASE FallbackCodec
  BY <1>18 DEF FallbackCodec
<1>19. CASE FallbackCreate
  BY <1>19 DEF FallbackCreate, Create
<1>20. CASE FallbackRecord
  BY <1>20 DEF FallbackRecord, Record
<1>21. CASE FallbackSwap
  BY <1>21 DEF FallbackSwap, Swap
<1>22. CASE FallbackDestroy
  BY <1>22 DEF FallbackDestroy, Destroy
<1>23. CASE Disconnect
  BY <1>23 DEF Disconnect
<1>24. CASE ReconnectJoin
  BY <1>24 DEF ReconnectJoin
<1>25. CASE ReconnectCheck
  BY <1>25 DEF ReconnectCheck
<1>26. CASE ReconnectDrop
  BY <1>26 DEF ReconnectDrop, Drop
<1>27. CASE ReconnectRelease
  BY <1>27 DEF ReconnectRelease, Release
<1>28. CASE StartSwap
  BY <1>28 DEF StartSwap, Swap
<1>29. CASE StartDestroy
  BY <1>29 DEF StartDestroy, Destroy
<1>30. CASE StartReset
  BY <1>30 DEF StartReset, ResetFacts
<1>31. CASE StartRunning
  BY <1>31 DEF StartRunning
<1>32. CASE StopSignal
  BY <1>32 DEF StopSignal
<1>33. CASE StopTeardown
  BY <1>33 DEF StopTeardown
<1>34. CASE StopJoinR
  BY <1>34 DEF StopJoinR
<1>35. CASE StopJoinT
  BY <1>35 DEF StopJoinT
<1>36. CASE StopRelease
  BY <1>36 DEF StopRelease
<1>37. ASSUME NEW b \in Backends, Restart(b) PROVE Places'
  BY <1>37 DEF Restart, ResetFacts
<1>38. CASE UNCHANGED vars
  BY <1>38 DEF vars
<1> HIDE DEF Control, Types, DecsOK, PicsOK, Places, Threads, Goto, conn, decs, pics
<1> QED
  BY <1>1, <1>2, <1>3, <1>4, <1>5, <1>6, <1>7, <1>8, <1>9, <1>10, <1>11, <1>12,
     <1>13, <1>14, <1>15, <1>16, <1>17, <1>18, <1>19, <1>20, <1>21, <1>22,
     <1>23, <1>24, <1>25, <1>26, <1>27, <1>28, <1>29, <1>30, <1>31, <1>32,
     <1>33, <1>34, <1>35, <1>36, <1>37, <1>38, NextCases
  DEF ReceiverStep, RenderStep, ReconnectStep, Update

------------------------------------------------------------------------------
(* Ownership of decoders.                                                  *)

Decoding == DecodersApart /\ DecodersHeld

LEMMA DecodingInit == Init => Decoding
BY NoneIsNew DEF Init, Decoding, DecodersApart, DecodersHeld

\* A new decoder goes to a place that was empty.
LEMMA DecodingCreate ==
  ASSUME Types, Decoding, NEW p \in Threads, fresh[p] = None,
         NEW k \in Backends, NEW c \in Codecs, NEW s \in Sizes, NEW ten \in BOOLEAN,
         Created(p, k, c, s, ten), UNCHANGED <<decoder, old>>
  PROVE  Decoding'
<1>1. PICK d \in Decs : /\ dec[d] = Free
                        /\ dec' = [dec EXCEPT ![d] = DecoderOf(k, c, s, ten)]
                        /\ fresh' = [fresh EXCEPT ![p] = d]
  BY DEF Created
<1>2. d # None /\ DecoderOf(k, c, s, ten) # Free
  BY NoneIsNew, DecoderOfType
<1>3. d # decoder /\ \A q \in Threads : fresh[q] # d /\ old[q] # d
  BY <1>1 DEF Decoding, DecodersHeld
<1> USE DEF Types, DecsOK
<1>4. DecodersApart'
  BY <1>1, <1>2, <1>3 DEF Decoding, DecodersApart
<1>5. DecodersHeld'
  <2>1. fresh'[p] = d /\ dec'[d] # Free
    BY <1>1, <1>2
  <2>2. ASSUME NEW e \in Decs, e # d
        PROVE  /\ dec'[e] = dec[e]
               /\ \A q \in Threads : fresh'[q] = e <=> fresh[q] = e
    BY <1>1, <2>2, NoneIsNew
  <2> QED
    BY <2>1, <2>2 DEF Decoding, DecodersHeld
<1> QED
  BY <1>4, <1>5 DEF Decoding

\* A swap hands one decoder to decoder_ and one from it.
LEMMA DecodingSwap ==
  ASSUME Types, Decoding, NEW p \in Threads, NEW l, old[p] = None, Swap(p, l)
  PROVE  Decoding'
<1> USE DEF Types, DecsOK
<1>1. DecodersApart'
  BY NoneIsNew DEF Decoding, DecodersApart, Swap
<1>2. DecodersHeld'
  BY NoneIsNew DEF Decoding, DecodersHeld, Swap
<1> QED
  BY <1>1, <1>2 DEF Decoding

LEMMA DecodingDestroy ==
  ASSUME Types, Decoding, NEW p \in Threads, NEW l, Destroy(p, l)
  PROVE  Decoding'
<1> USE DEF Types, DecsOK
<1>1. DecodersApart'
  BY NoneIsNew DEF Decoding, DecodersApart, Destroy
<1>2. DecodersHeld'
  BY NoneIsNew DEF Decoding, DecodersApart, DecodersHeld, Destroy
<1> QED
  BY <1>1, <1>2 DEF Decoding

LEMMA DecodingStep == Control /\ Types /\ Places /\ Decoding /\ [Next]_vars => Decoding'
<1> SUFFICES ASSUME Control, Types, Places, Decoding, [Next]_vars PROVE Decoding'
  OBVIOUS
<1>1. CASE UNCHANGED decs
  BY <1>1 DEF Decoding, DecodersApart, DecodersHeld, decs
<1>2. CASE RebuildCreate
  <2>1. fresh["R"] = None
    BY <1>2 DEF RebuildCreate, Places, Threads
  <2>2. /\ rebuild.ten \in BOOLEAN /\ rebuild.codec \in Codecs
        /\ rebuild.size \in Sizes
    BY <1>2, RebuildArgs DEF RebuildCreate, RebuildPCs, Types
  <2>3. CASE UNCHANGED <<dec, fresh>>
    BY <1>2, <2>3, RebuildCreateEffect DEF Types, Decoding, DecodersApart, DecodersHeld
  <2> QED
    BY <1>2, <2>1, <2>2, <2>3, RebuildCreateEffect, DecodingCreate DEF Types, Threads
<1>3. CASE FallbackCreate
  <2>1. fresh["G"] = None
    BY <1>3 DEF FallbackCreate, Places, Threads
  <2>2. gcodec \in Codecs /\ size \in Sizes /\ (bitKnown /\ streamTen) \in BOOLEAN
    BY <1>3 DEF FallbackCreate, FactsOK, Types
  <2>3. CASE UNCHANGED <<dec, fresh>>
    BY <1>3, <2>3, FallbackCreateEffect DEF Decoding, DecodersApart, DecodersHeld
  <2>4. "sw" \in Backends /\ "G" \in Threads
    BY DEF Backends, Threads
  <2> QED
    BY <1>3, <2>1, <2>2, <2>3, <2>4, FallbackCreateEffect, DecodingCreate
<1>4. CASE RebuildSwap
  BY <1>4, DecodingSwap DEF RebuildSwap, Places, Threads
<1>5. CASE FallbackSwap
  BY <1>5, DecodingSwap DEF FallbackSwap, Places, Threads
<1>6. CASE StartSwap
  BY <1>6, DecodingSwap DEF StartSwap, Places, Threads
<1>7. CASE RebuildDestroy \/ FallbackDestroy \/ StartDestroy
  BY <1>7, DecodingDestroy DEF RebuildDestroy, FallbackDestroy, StartDestroy, Threads
<1>8. CASE StopRelease
  BY <1>8, NoneIsNew
  DEF StopRelease, Decoding, DecodersApart, DecodersHeld, Types, DecsOK
<1> QED
  BY <1>1, <1>2, <1>3, <1>4, <1>5, <1>6, <1>7, <1>8, DecsCases

------------------------------------------------------------------------------
(* Ownership of frames.                                                    *)

Framing == FramesApart /\ FramesHeld

LEMMA FramingInit == Init => Framing
BY NoneIsNew DEF Init, Framing, FramesApart, FramesHeld, Held, NoFrame

LEMMA HeldType == PicsOK => Held \in Frames \cup {None}
BY FrameKinds DEF PicsOK, Held

LEMMA FramingDrop ==
  ASSUME Types, Framing, NEW p \in Threads, NEW l, dead[p] = None, Drop(p, l)
  PROVE  Framing'
<1> USE NoneIsNew, HeldType DEF Types, PicsOK
<1>1. Held' = Held
  BY DEF Drop, Held
<1> HIDE DEF Held
<1>2. FramesApart'
  BY <1>1 DEF Framing, FramesApart, Drop
<1>3. FramesHeld'
  BY <1>1 DEF Framing, FramesHeld, Drop
<1> QED
  BY <1>2, <1>3 DEF Framing

LEMMA FramingRelease ==
  ASSUME Types, Framing, NEW p \in Threads, NEW l, Release(p, l)
  PROVE  Framing'
<1> USE NoneIsNew, HeldType DEF Types, PicsOK
<1>1. Held' = Held
  BY DEF Release, Held
<1> HIDE DEF Held
<1>2. FramesApart'
  BY <1>1 DEF Framing, FramesApart, Release
<1>3. FramesHeld'
  BY <1>1 DEF Framing, FramesApart, FramesHeld, Release
<1> QED
  BY <1>2, <1>3 DEF Framing

LEMMA FramingStep == Control /\ Types /\ Places /\ Framing /\ [Next]_vars => Framing'
<1> SUFFICES ASSUME Control, Types, Places, Framing, [Next]_vars PROVE Framing'
  OBVIOUS
<1> USE NoneIsNew, HeldType DEF Types, PicsOK
<1>1. CASE UNCHANGED <<pending, drawn, dead, out, frames>>
  BY <1>1 DEF Framing, FramesApart, FramesHeld, Held
<1>2. CASE RebuildDrop \/ ReconnectDrop
  BY <1>2, FramingDrop DEF RebuildDrop, ReconnectDrop, Places, Threads
<1>3. CASE RebuildRelease \/ ReleaseStale \/ ReconnectRelease
  BY <1>3, FramingRelease DEF RebuildRelease, ReleaseStale, ReconnectRelease, Threads
<1>4. CASE Decode
  <2>1. Held = None
    BY <1>4, FrameKinds DEF Decode, Places, Held
  <2>2. CASE frames' = frames /\ Held' = None
    BY <1>4, <2>1, <2>2 DEF Decode, Framing, FramesApart, FramesHeld
  <2>3. CASE \E f \in Frames \ frames : frames' = frames \cup {f} /\ Held' = f
    <3>1. PICK f \in Frames \ frames : frames' = frames \cup {f} /\ Held' = f
      BY <2>3
    <3>2. /\ f \notin {pending, drawn, None}
          /\ \A q \in Threads : dead[q] # f
      BY DEF Framing, FramesHeld
    <3> HIDE DEF Held
    <3>3. UNCHANGED <<pending, drawn, dead>>
      BY <1>4 DEF Decode
    <3> QED
      BY <2>1, <3>1, <3>2, <3>3 DEF Framing, FramesApart, FramesHeld
  <2> QED
    BY <1>4, <2>2, <2>3, FrameKinds DEF Decode, Held
<1>5. CASE OutputVideo
  <2>1. dead["R"] = None
    BY <1>5 DEF OutputVideo, Places, Threads
  <2>2. Held' = None
    BY <1>5, FrameKinds DEF OutputVideo, Held
  <2>3. CASE out.kind = "gpu"
    <3>1. /\ dead' = [dead EXCEPT !["R"] = pending]
          /\ pending' = Held
          /\ UNCHANGED <<drawn, frames>>
          /\ "R" \in Threads
      BY <1>5, <2>3 DEF OutputVideo, Held, Threads
    <3> HIDE DEF Held
    <3>2. FramesApart'
      BY <2>1, <2>2, <3>1 DEF Framing, FramesApart
    <3>3. FramesHeld'
      BY <2>1, <2>2, <3>1 DEF Framing, FramesHeld
    <3> QED
      BY <3>2, <3>3 DEF Framing
  <2>4. CASE out.kind # "gpu"
    <3>1. Held = None /\ UNCHANGED <<pending, drawn, dead, frames>>
      BY <1>5, <2>4 DEF OutputVideo, Held
    <3> QED
      BY <2>2, <3>1 DEF Framing, FramesApart, FramesHeld
  <2> QED
    BY <2>3, <2>4
<1>6. ASSUME NEW imported \in BOOLEAN, RenderImport(imported) PROVE Framing'
  <2>1. Held' = Held /\ UNCHANGED dead
    BY <1>6 DEF RenderImport, Held
  <2> HIDE DEF Held
  <2>2. FramesApart'
    BY <1>6, <2>1 DEF RenderImport, Framing, FramesApart
  <2>3. FramesHeld'
    BY <1>6, <2>1 DEF RenderImport, Framing, FramesApart, FramesHeld
  <2> QED
    BY <2>2, <2>3 DEF Framing
<1>7. CASE RenderCpu
  <2>1. Held' = Held
    BY <1>7 DEF RenderCpu, Held
  <2> HIDE DEF Held
  <2> QED
    BY <1>7, <2>1 DEF RenderCpu, Framing, FramesApart, FramesHeld
<1>8. CASE StopRelease
  <2>1. Held' = Held
    BY <1>8 DEF StopRelease, Held
  <2> HIDE DEF Held
  <2> QED
    BY <1>8, <2>1 DEF StopRelease, Framing, FramesApart, FramesHeld
<1> QED
  BY <1>1, <1>2, <1>3, <1>4, <1>5, <1>6, <1>7, <1>8, PicsCases

------------------------------------------------------------------------------
(* The software fallback.                                                  *)

\* A decoder keeps what it is while decoder_ or a thread's fresh place owns it.
LEMMA DecodersKept ==
  ASSUME Control, Types, Places, Decoding, [Next]_vars
  PROVE  /\ decoder # None /\ decoder' = decoder => dec'[decoder] = dec[decoder]
         /\ \A p \in Threads : fresh[p] # None => dec'[fresh[p]] = dec[fresh[p]]
<1> DEFINE Kept == /\ decoder # None => dec'[decoder] = dec[decoder]
                   /\ \A p \in Threads : fresh[p] # None => dec'[fresh[p]] = dec[fresh[p]]
<1> USE DEF Types, DecsOK
<1>1. CASE UNCHANGED dec
  BY <1>1
<1>2. ASSUME NEW d \in Decs, NEW new, dec[d] = Free, dec' = [dec EXCEPT ![d] = new]
      PROVE  Kept
  BY <1>2 DEF Decoding, DecodersHeld
<1>3. CASE RebuildCreate
  BY <1>1, <1>2, <1>3, RebuildCreateEffect DEF Created
<1>4. CASE FallbackCreate
  BY <1>1, <1>2, <1>4, FallbackCreateEffect DEF Created
<1>5. ASSUME NEW p \in Threads, NEW l, Destroy(p, l) PROVE Kept
  BY <1>5 DEF Destroy, Decoding, DecodersApart
<1>6. CASE RebuildDestroy \/ FallbackDestroy \/ StartDestroy
  BY <1>5, <1>6 DEF RebuildDestroy, FallbackDestroy, StartDestroy, Threads
<1>7. CASE StopRelease
  BY <1>7 DEF StopRelease, Decoding, DecodersApart
<1> QED
  BY <1>1, <1>3, <1>4, <1>6, <1>7, DecsCases
  DEF RebuildSwap, FallbackSwap, StartSwap, Swap, decs

LEMMA FallbackOnceInit == Init => FallbackOnce
BY DEF Init, FallbackOnce, Soft, Hard, NoFrame, FallbackPCs, Threads

LEMMA FallbackOnceStep ==
  ASSUME Control, Types, Places, Decoding, FallbackOnce, [Next]_vars
  PROVE  FallbackOnce'
<1> USE FrameKinds, DecodersKept
        DEF Control, Types, DecsOK, PicsOK, Places, FallbackOnce, Soft, Hard,
            FallbackPCs, RenderPCs, RebuildPCs, Threads, Goto, conn, decs, pics, facts
<1>1. ASSUME NEW m \in Metas, Meta(m[1], m[2]) PROVE FallbackOnce'
  BY <1>1 DEF Meta
<1>2. ASSUME NEW sps \in {"none", "8", "10"}, VideoData(sps) PROVE FallbackOnce'
  BY <1>2 DEF VideoData
<1>3. CASE RebuildDrop
  BY <1>3 DEF RebuildDrop, Drop
<1>4. CASE RebuildRelease
  BY <1>4 DEF RebuildRelease, Release
<1>5. CASE RebuildCreate
  <2>1. /\ UNCHANGED <<decoder, pending, out, force>>
        /\ pc'["G"] = pc["G"] /\ pc'["T"] = pc["T"]
        /\ pc["R"] = "create" /\ pc'["R"] \in {"record", "set"}
    BY <1>5 DEF RebuildCreate
  <2>2. pc["G"] \in FallbackPCs => UNCHANGED <<dec, fresh>>
    BY <1>5, NoneIsNew DEF RebuildCreate, Create, HasGfx
  <2>3. decoder # None => dec'[decoder] = dec[decoder]
    BY <2>1
  <2> QED
    BY <2>1, <2>2, <2>3
<1>6. CASE RebuildRecord
  BY <1>6 DEF RebuildRecord, Record
<1>7. CASE RebuildSet
  BY <1>7 DEF RebuildSet
<1>8. CASE RebuildSwap
  BY <1>8 DEF RebuildSwap, Swap
<1>9. CASE RebuildDestroy
  BY <1>9 DEF RebuildDestroy, Destroy
<1>10. CASE Decode
  <2>1. /\ UNCHANGED <<decoder, dec, fresh, pending, force>>
        /\ pc'["G"] = pc["G"] /\ pc'["T"] = pc["T"] /\ pc'["R"] \in {"idle", "output"}
    BY <1>10 DEF Decode
  <2>2. CASE out' = NoFrame
    BY <2>1, <2>2
  <2>3. CASE out'.kind = "gpu" /\ decoder # None /\ dec[decoder].kind = "hw"
    BY <2>1, <2>3
  <2>4. CASE out' = CpuFrame(decoder) /\ decoder # None /\ dec[decoder].kind = "sw"
    BY <2>1, <2>4
  <2> QED
    BY <1>10, <2>2, <2>3, <2>4 DEF Decode
<1>11. CASE OutputVideo
  BY <1>11 DEF OutputVideo
<1>12. CASE ReleaseStale
  BY <1>12 DEF ReleaseStale, Release
<1>13. CASE RenderBegin
  BY <1>13 DEF RenderBegin
<1>14. ASSUME NEW imported \in BOOLEAN, RenderImport(imported) PROVE FallbackOnce'
  BY <1>14 DEF RenderImport
<1>15. CASE RenderCpu
  BY <1>15 DEF RenderCpu
<1>16. CASE RenderKeep
  BY <1>16 DEF RenderKeep
<1>17. CASE RenderDraw
  BY <1>17 DEF RenderDraw
<1>18. CASE FallbackCodec
  BY <1>18 DEF FallbackCodec
<1>19. CASE FallbackCreate
  <2>1. /\ UNCHANGED <<decoder, pending, out, force>>
        /\ pc'["R"] = pc["R"] /\ pc'["T"] = pc["T"]
        /\ pc["G"] = "fbCreate" /\ pc'["G"] = "fbRecord"
    BY <1>19 DEF FallbackCreate
  <2>2. fresh'["R"] = fresh["R"]
    BY <1>19 DEF FallbackCreate, Create
  <2>3. ~Hard(fresh["G"])'
    BY <1>19 DEF FallbackCreate, Create, DecoderOf
  <2>4. decoder # None => dec'[decoder] = dec[decoder]
    BY <2>1
  <2> QED
    BY <2>1, <2>2, <2>3, <2>4
<1>20. CASE FallbackRecord
  BY <1>20 DEF FallbackRecord, Record
<1>21. CASE FallbackSwap
  BY <1>21 DEF FallbackSwap, Swap
<1>22. CASE FallbackDestroy
  BY <1>22 DEF FallbackDestroy, Destroy
<1>23. CASE Disconnect
  BY <1>23 DEF Disconnect
<1>24. CASE ReconnectJoin
  BY <1>24 DEF ReconnectJoin
<1>25. CASE ReconnectCheck
  BY <1>25 DEF ReconnectCheck
<1>26. CASE ReconnectDrop
  BY <1>26 DEF ReconnectDrop, Drop
<1>27. CASE ReconnectRelease
  BY <1>27 DEF ReconnectRelease, Release
<1>28. CASE StartSwap
  BY <1>28 DEF StartSwap, Swap
<1>29. CASE StartDestroy
  BY <1>29 DEF StartDestroy, Destroy
<1>30. CASE StartReset
  BY <1>30 DEF StartReset, ResetFacts
<1>31. CASE StartRunning
  BY <1>31 DEF StartRunning
<1>32. CASE StopSignal
  BY <1>32 DEF StopSignal
<1>33. CASE StopTeardown
  BY <1>33 DEF StopTeardown
<1>34. CASE StopJoinR
  BY <1>34 DEF StopJoinR
<1>35. CASE StopJoinT
  BY <1>35 DEF StopJoinT
<1>36. CASE StopRelease
  BY <1>36 DEF StopRelease
<1>37. ASSUME NEW b \in Backends, Restart(b) PROVE FallbackOnce'
  BY <1>37 DEF Restart, ResetFacts
<1>38. CASE UNCHANGED vars
  BY <1>38 DEF vars
<1> HIDE DEF Control, Types, DecsOK, PicsOK, Places, FallbackOnce, Soft, Hard,
             FallbackPCs, RenderPCs, RebuildPCs, Threads, Goto, conn, decs, pics, facts
<1> QED
  BY <1>1, <1>2, <1>3, <1>4, <1>5, <1>6, <1>7, <1>8, <1>9, <1>10, <1>11, <1>12,
     <1>13, <1>14, <1>15, <1>16, <1>17, <1>18, <1>19, <1>20, <1>21, <1>22,
     <1>23, <1>24, <1>25, <1>26, <1>27, <1>28, <1>29, <1>30, <1>31, <1>32,
     <1>33, <1>34, <1>35, <1>36, <1>37, <1>38, NextCases
  DEF ReceiverStep, RenderStep, ReconnectStep, Update

------------------------------------------------------------------------------
(* What decoders are built for.                                            *)

LEMMA BuiltInit == Init => Built
BY DEF Init, Built, Hard, RebuildPCs, Threads

LEMMA BuiltStep ==
  ASSUME Control, Types, Places, Decoding, Built, [Next]_vars
  PROVE  Built'
<1> USE DecodersKept
        DEF Control, Types, FlagsOK, FactsOK, DecsOK, Places, Built, Hard, RebuildPCs,
            Threads, Goto, decs, facts, args
<1>1. ASSUME NEW m \in Metas, Meta(m[1], m[2]) PROVE Built'
  BY <1>1 DEF Meta
<1>2. ASSUME NEW sps \in {"none", "8", "10"}, VideoData(sps) PROVE Built'
  BY <1>2 DEF VideoData
<1>3. CASE RebuildDrop
  BY <1>3 DEF RebuildDrop, Drop
<1>4. CASE RebuildRelease
  BY <1>4 DEF RebuildRelease, Release
<1>5. CASE RebuildCreate
  <2>1. /\ UNCHANGED <<facts, args, decoder>>
        /\ pc["R"] = "create" /\ pc'["R"] \in {"record", "set"} /\ pc'["G"] = pc["G"]
    BY <1>5 DEF RebuildCreate
  <2>2. CASE UNCHANGED <<dec, fresh>>
    BY <2>1, <2>2
  <2>3. ASSUME NEW k \in Backends,
               Created("R", k, rebuild.codec, rebuild.size, rebuild.ten)
        PROVE  Built'
    <3>1. PICK d \in Decs :
            /\ dec' = [dec EXCEPT ![d] = DecoderOf(k, rebuild.codec, rebuild.size, rebuild.ten)]
            /\ fresh' = [fresh EXCEPT !["R"] = d]
      BY <2>3 DEF Created
    <3> DEFINE new == DecoderOf(k, rebuild.codec, rebuild.size, rebuild.ten)
    <3>2. new.codec = rebuild.codec /\ new.kind = k
      BY <1>5, RebuildArgs, DecoderOfType DEF RebuildCreate
    <3>3. fresh'["R"] = d /\ dec'[d] = new /\ fresh'["G"] = fresh["G"]
      BY <3>1
    <3>4. k = "hw" => new = DecoderOf("hw", rebuild.codec, size, rebuild.ten)
      BY <2>1
    <3> HIDE DEF new, DecoderOf
    <3> QED
      BY <2>1, <3>2, <3>3, <3>4
  <2> QED
    BY <1>5, <2>2, <2>3, RebuildCreateEffect
<1>6. CASE RebuildRecord
  BY <1>6 DEF RebuildRecord, Record
<1>7. CASE RebuildSet
  BY <1>7 DEF RebuildSet
<1>8. CASE RebuildSwap
  BY <1>8 DEF RebuildSwap, Swap
<1>9. CASE RebuildDestroy
  BY <1>9 DEF RebuildDestroy, Destroy
<1>10. CASE Decode
  BY <1>10 DEF Decode
<1>11. CASE OutputVideo
  BY <1>11 DEF OutputVideo
<1>12. CASE ReleaseStale
  BY <1>12 DEF ReleaseStale, Release
<1>13. CASE RenderBegin
  BY <1>13 DEF RenderBegin
<1>14. ASSUME NEW imported \in BOOLEAN, RenderImport(imported) PROVE Built'
  BY <1>14 DEF RenderImport
<1>15. CASE RenderCpu
  BY <1>15 DEF RenderCpu
<1>16. CASE RenderKeep
  BY <1>16 DEF RenderKeep
<1>17. CASE RenderDraw
  BY <1>17 DEF RenderDraw
<1>18. CASE FallbackCodec
  BY <1>18 DEF FallbackCodec
<1>19. CASE FallbackCreate
  <2>1. /\ UNCHANGED <<facts, args, decoder>>
        /\ pc'["R"] = pc["R"] /\ fresh'["R"] = fresh["R"]
    BY <1>19 DEF FallbackCreate, Create
  <2>2. ~Hard(fresh["G"])'
    <3>1. CASE UNCHANGED <<dec, fresh>>
      BY <3>1
    <3>2. CASE Created("G", "sw", gcodec, size, bitKnown /\ streamTen)
      <4>1. DecoderOf("sw", gcodec, size, bitKnown /\ streamTen).kind = "sw"
        BY DEF DecoderOf
      <4> QED
        BY <3>2, <4>1 DEF Created
    <3> QED
      BY <1>19, <3>1, <3>2, FallbackCreateEffect
  <2> QED
    BY <2>1, <2>2
<1>20. CASE FallbackRecord
  BY <1>20 DEF FallbackRecord, Record
<1>21. CASE FallbackSwap
  BY <1>21 DEF FallbackSwap, Swap
<1>22. CASE FallbackDestroy
  BY <1>22 DEF FallbackDestroy, Destroy
<1>23. CASE Disconnect
  BY <1>23 DEF Disconnect
<1>24. CASE ReconnectJoin
  BY <1>24 DEF ReconnectJoin
<1>25. CASE ReconnectCheck
  BY <1>25 DEF ReconnectCheck
<1>26. CASE ReconnectDrop
  BY <1>26 DEF ReconnectDrop, Drop
<1>27. CASE ReconnectRelease
  BY <1>27 DEF ReconnectRelease, Release
<1>28. CASE StartSwap
  BY <1>28 DEF StartSwap, Swap
<1>29. CASE StartDestroy
  BY <1>29 DEF StartDestroy, Destroy
<1>30. CASE StartReset
  BY <1>30 DEF StartReset, ResetFacts
<1>31. CASE StartRunning
  BY <1>31 DEF StartRunning
<1>32. CASE StopSignal
  BY <1>32 DEF StopSignal
<1>33. CASE StopTeardown
  BY <1>33 DEF StopTeardown
<1>34. CASE StopJoinR
  BY <1>34 DEF StopJoinR
<1>35. CASE StopJoinT
  BY <1>35 DEF StopJoinT
<1>36. CASE StopRelease
  BY <1>36 DEF StopRelease
<1>37. ASSUME NEW b \in Backends, Restart(b) PROVE Built'
  BY <1>37 DEF Restart, ResetFacts
<1>38. CASE UNCHANGED vars
  BY <1>38 DEF vars
<1> HIDE DEF Control, Types, FlagsOK, FactsOK, DecsOK, Places, Built, Hard, RebuildPCs,
            Threads, Goto, decs, facts, args
<1> QED
  BY <1>1, <1>2, <1>3, <1>4, <1>5, <1>6, <1>7, <1>8, <1>9, <1>10, <1>11, <1>12,
     <1>13, <1>14, <1>15, <1>16, <1>17, <1>18, <1>19, <1>20, <1>21, <1>22,
     <1>23, <1>24, <1>25, <1>26, <1>27, <1>28, <1>29, <1>30, <1>31, <1>32,
     <1>33, <1>34, <1>35, <1>36, <1>37, <1>38, NextCases
  DEF ReceiverStep, RenderStep, ReconnectStep, Update

------------------------------------------------------------------------------
(* The codec of decoder_.                                                  *)

LEMMA CodecFollowsInit == Init => CodecFollows
BY DEF Init, CodecFollows, FallbackPCs, Threads

LEMMA CodecFollowsStep ==
  ASSUME Control, Types, Places, Decoding, FallbackOnce, Built, CodecFollows, [Next]_vars
  PROVE  CodecFollows'
<1> USE DecodersKept
        DEF Control, Types, DecsOK, Places, FallbackOnce, Built, CodecFollows, RebuildPCs,
            FallbackPCs, RenderPCs, Threads, Goto, conn, decs, facts, args
<1>1. ASSUME NEW m \in Metas, Meta(m[1], m[2]) PROVE CodecFollows'
  BY <1>1 DEF Meta
<1>2. ASSUME NEW sps \in {"none", "8", "10"}, VideoData(sps) PROVE CodecFollows'
  BY <1>2 DEF VideoData
<1>3. CASE RebuildDrop
  BY <1>3 DEF RebuildDrop, Drop
<1>4. CASE RebuildRelease
  BY <1>4 DEF RebuildRelease, Release
<1>5. CASE RebuildCreate
  <2>1. /\ UNCHANGED <<facts, args, conn, decoder>>
        /\ pc["R"] = "create" /\ pc'["R"] \in {"record", "set"}
        /\ pc'["G"] = pc["G"] /\ fresh'["G"] = fresh["G"]
    BY <1>5 DEF RebuildCreate, Create
  <2>2. ~lost => pc["G"] \notin FallbackPCs
    BY <1>5, NoneIsNew DEF RebuildCreate, Create, HasGfx
  <2> QED
    BY <2>1, <2>2
<1>6. CASE RebuildRecord
  BY <1>6 DEF RebuildRecord, Record
<1>7. CASE RebuildSet
  BY <1>7 DEF RebuildSet
<1>8. CASE RebuildSwap
  BY <1>8 DEF RebuildSwap, Swap
<1>9. CASE RebuildDestroy
  BY <1>9 DEF RebuildDestroy, Destroy
<1>10. CASE Decode
  BY <1>10 DEF Decode
<1>11. CASE OutputVideo
  BY <1>11 DEF OutputVideo
<1>12. CASE ReleaseStale
  BY <1>12 DEF ReleaseStale, Release
<1>13. CASE RenderBegin
  BY <1>13 DEF RenderBegin
<1>14. ASSUME NEW imported \in BOOLEAN, RenderImport(imported) PROVE CodecFollows'
  BY <1>14 DEF RenderImport
<1>15. CASE RenderCpu
  BY <1>15 DEF RenderCpu
<1>16. CASE RenderKeep
  BY <1>16 DEF RenderKeep
<1>17. CASE RenderDraw
  BY <1>17 DEF RenderDraw
<1>18. CASE FallbackCodec
  BY <1>18 DEF FallbackCodec
<1>19. CASE FallbackCreate
  <2>1. /\ UNCHANGED <<facts, args, conn, decoder>>
        /\ pc'["R"] = pc["R"] /\ pc["G"] = "fbCreate" /\ pc'["G"] = "fbRecord"
        /\ fresh["G"] = None
    BY <1>19 DEF FallbackCreate, Create
  <2>2. fresh'["G"] # None => dec'[fresh'["G"]].codec = gcodec
    <3>1. CASE UNCHANGED <<dec, fresh>>
      BY <2>1, <3>1
    <3>2. CASE Created("G", "sw", gcodec, size, bitKnown /\ streamTen)
      <4>1. DecoderOf("sw", gcodec, size, bitKnown /\ streamTen).codec = gcodec
        BY DEF DecoderOf
      <4> QED
        BY <3>2, <4>1 DEF Created
    <3> QED
      BY <1>19, <3>1, <3>2, FallbackCreateEffect
  <2> QED
    BY <2>1, <2>2
<1>20. CASE FallbackRecord
  BY <1>20 DEF FallbackRecord, Record
<1>21. CASE FallbackSwap
  BY <1>21 DEF FallbackSwap, Swap
<1>22. CASE FallbackDestroy
  BY <1>22 DEF FallbackDestroy, Destroy
<1>23. CASE Disconnect
  BY <1>23 DEF Disconnect
<1>24. CASE ReconnectJoin
  BY <1>24 DEF ReconnectJoin
<1>25. CASE ReconnectCheck
  BY <1>25 DEF ReconnectCheck
<1>26. CASE ReconnectDrop
  BY <1>26 DEF ReconnectDrop, Drop
<1>27. CASE ReconnectRelease
  BY <1>27 DEF ReconnectRelease, Release
<1>28. CASE StartSwap
  BY <1>28 DEF StartSwap, Swap
<1>29. CASE StartDestroy
  BY <1>29 DEF StartDestroy, Destroy
<1>30. CASE StartReset
  BY <1>30 DEF StartReset, ResetFacts
<1>31. CASE StartRunning
  BY <1>31 DEF StartRunning
<1>32. CASE StopSignal
  BY <1>32 DEF StopSignal
<1>33. CASE StopTeardown
  BY <1>33 DEF StopTeardown
<1>34. CASE StopJoinR
  BY <1>34 DEF StopJoinR
<1>35. CASE StopJoinT
  BY <1>35 DEF StopJoinT
<1>36. CASE StopRelease
  BY <1>36 DEF StopRelease
<1>37. ASSUME NEW b \in Backends, Restart(b) PROVE CodecFollows'
  BY <1>37 DEF Restart, ResetFacts
<1>38. CASE UNCHANGED vars
  BY <1>38 DEF vars
<1> HIDE DEF Control, Types, DecsOK, Places, FallbackOnce, Built, CodecFollows, RebuildPCs,
            FallbackPCs, RenderPCs, Threads, Goto, conn, decs, facts, args
<1> QED
  BY <1>1, <1>2, <1>3, <1>4, <1>5, <1>6, <1>7, <1>8, <1>9, <1>10, <1>11, <1>12,
     <1>13, <1>14, <1>15, <1>16, <1>17, <1>18, <1>19, <1>20, <1>21, <1>22,
     <1>23, <1>24, <1>25, <1>26, <1>27, <1>28, <1>29, <1>30, <1>31, <1>32,
     <1>33, <1>34, <1>35, <1>36, <1>37, <1>38, NextCases
  DEF ReceiverStep, RenderStep, ReconnectStep, Update

------------------------------------------------------------------------------
(* The theorems.                                                           *)

Inv ==
  /\ Control /\ Types /\ Places /\ Decoding /\ Framing
  /\ FallbackOnce /\ Built /\ CodecFollows

LEMMA Invariance == Spec => []Inv
<1>1. Init => Inv
  BY ControlInit, TypesInit, PlacesInit, DecodingInit, FramingInit,
     FallbackOnceInit, BuiltInit, CodecFollowsInit
  DEF Inv
<1>2. Inv /\ [Next]_vars => Inv'
  BY ControlStep, TypesStep, PlacesStep, DecodingStep, FramingStep,
     FallbackOnceStep, BuiltStep, CodecFollowsStep
  DEF Inv
<1> QED
  BY <1>1, <1>2, PTL DEF Spec

\* Every variable stays in its range, for any sets of decoders, frames and
\* announced formats.
THEOREM Typing == Spec => []TypeOK
<1>1. Inv => TypeOK
  <2> SUFFICES ASSUME Inv PROVE TypeOK
    OBVIOUS
  <2>1. gfx \in {None, "G"}
    BY DEF Inv, Control
  <2> QED
    BY <2>1 DEF Inv, Control, Types, FlagsOK, FactsOK, DecsOK, PicsOK, TypeOK
<1> QED
  BY <1>1, Invariance, PTL

\* The places that may hold a decoder, one by one.
LEMMA DecoderPlaces ==
  /\ [place |-> "decoder"] \in DecoderSlots
  /\ DecoderAt([place |-> "decoder"]) = decoder
  /\ \A p \in Threads :
       /\ [place |-> "fresh", thread |-> p] \in DecoderSlots
       /\ DecoderAt([place |-> "fresh", thread |-> p]) = fresh[p]
       /\ [place |-> "old", thread |-> p] \in DecoderSlots
       /\ DecoderAt([place |-> "old", thread |-> p]) = old[p]
  /\ \A s \in DecoderSlots :
       \/ s = [place |-> "decoder"]
       \/ \E p \in Threads : s = [place |-> "fresh", thread |-> p]
       \/ \E p \in Threads : s = [place |-> "old", thread |-> p]
BY DEF DecoderSlots, DecoderAt

\* No decoder is leaked or destroyed twice, and decoder_ never dangles, in
\* whatever order R, G and T swap and destroy.
THEOREM DecodersOwned == Spec => []DecoderOwnership
<1>1. Inv => DecoderOwnership
  <2> SUFFICES ASSUME Inv, NEW d \in Decs
               PROVE  LET owners == {s \in DecoderSlots : DecoderAt(s) = d}
                      IN  IF dec[d] = Free THEN owners = {} ELSE Cardinality(owners) = 1
    BY DEF DecoderOwnership
  <2> DEFINE owners == {s \in DecoderSlots : DecoderAt(s) = d}
  <2>1. Decoding /\ d # None
    BY NoneIsNew DEF Inv
  <2> HIDE DEF DecoderSlots, DecoderAt
  <2> DEFINE Fresh(p) == [place |-> "fresh", thread |-> p]
             Old(p)   == [place |-> "old", thread |-> p]
  <2>2. ASSUME NEW s \in owners
        PROVE  \/ s = [place |-> "decoder"] /\ decoder = d
               \/ \E p \in Threads : s = Fresh(p) /\ fresh[p] = d
               \/ \E p \in Threads : s = Old(p) /\ old[p] = d
    <3>1. CASE s = [place |-> "decoder"]
      BY <3>1, DecoderPlaces
    <3>2. ASSUME NEW p \in Threads, s = Fresh(p) PROVE fresh[p] = d
      BY <3>2, DecoderPlaces
    <3>3. ASSUME NEW p \in Threads, s = Old(p) PROVE old[p] = d
      BY <3>3, DecoderPlaces
    <3>4. s \in DecoderSlots
      OBVIOUS
    <3> HIDE DEF owners
    <3> QED
      BY <3>1, <3>2, <3>3, <3>4, DecoderPlaces
  <2>3. /\ decoder = d => [place |-> "decoder"] \in owners
        /\ \A p \in Threads : fresh[p] = d => Fresh(p) \in owners
        /\ \A p \in Threads : old[p] = d => Old(p) \in owners
    BY DecoderPlaces
  <2> HIDE DEF owners, Fresh, Old
  <2>4. ASSUME dec[d] = Free PROVE owners = {}
    BY <2>1, <2>4, <2>2 DEF Decoding, DecodersHeld
  <2>5. ASSUME dec[d] # Free PROVE \E s : owners = {s}
    <3>1. CASE d = decoder
      <4>1. owners = {[place |-> "decoder"]}
        BY <2>1, <2>2, <2>3, <3>1 DEF Decoding, DecodersApart
      <4> QED
        BY <4>1
    <3>2. ASSUME NEW p \in Threads, fresh[p] = d PROVE \E s : owners = {s}
      <4>1. owners = {Fresh(p)}
        BY <2>1, <2>2, <2>3, <3>2 DEF Decoding, DecodersApart
      <4> QED
        BY <4>1
    <3>3. ASSUME NEW p \in Threads, old[p] = d PROVE \E s : owners = {s}
      <4>1. owners = {Old(p)}
        BY <2>1, <2>2, <2>3, <3>3 DEF Decoding, DecodersApart
      <4> QED
        BY <4>1
    <3> QED
      BY <2>1, <2>5, <3>1, <3>2, <3>3 DEF Decoding, DecodersHeld
  <2>6. ASSUME dec[d] # Free PROVE Cardinality(owners) = 1
    BY <2>5, <2>6, FS_Singleton
  <2> QED
    BY <2>4, <2>6 DEF owners
<1> QED
  BY <1>1, Invariance, PTL

\* The places that may hold a frame, one by one.
LEMMA FramePlaces ==
  /\ [place |-> "pending"] \in FrameSlots /\ FrameAt([place |-> "pending"]) = pending
  /\ [place |-> "drawn"] \in FrameSlots /\ FrameAt([place |-> "drawn"]) = drawn
  /\ [place |-> "out"] \in FrameSlots /\ FrameAt([place |-> "out"]) = Held
  /\ \A p \in Threads :
       /\ [place |-> "dead", thread |-> p] \in FrameSlots
       /\ FrameAt([place |-> "dead", thread |-> p]) = dead[p]
  /\ \A s \in FrameSlots :
       \/ s = [place |-> "pending"] \/ s = [place |-> "drawn"] \/ s = [place |-> "out"]
       \/ \E p \in Threads : s = [place |-> "dead", thread |-> p]
BY DEF FrameSlots, FrameAt, Held

\* No AVFrame reference is leaked, released twice or drawn after its release.
THEOREM FramesOwned == Spec => []FrameOwnership
<1>1. Inv => FrameOwnership
  <2> SUFFICES ASSUME Inv, NEW f \in Frames
               PROVE  LET owners == {s \in FrameSlots : FrameAt(s) = f}
                      IN  IF f \in frames THEN Cardinality(owners) = 1 ELSE owners = {}
    BY DEF FrameOwnership
  <2> DEFINE owners == {s \in FrameSlots : FrameAt(s) = f}
  <2>1. Framing /\ f # None
    BY NoneIsNew DEF Inv
  <2> HIDE DEF FrameSlots, FrameAt
  <2>2. ASSUME f \notin frames PROVE owners = {}
    BY <2>1, <2>2, FramePlaces DEF Framing, FramesHeld
  <2>3. ASSUME f \in frames PROVE \E s : owners = {s}
    <3>1. CASE f = pending
      <4>1. owners = {[place |-> "pending"]}
        BY <2>1, <3>1, FramePlaces DEF Framing, FramesApart
      <4> QED
        BY <4>1
    <3>2. CASE f = drawn
      <4>1. owners = {[place |-> "drawn"]}
        BY <2>1, <3>2, FramePlaces DEF Framing, FramesApart
      <4> QED
        BY <4>1
    <3>3. CASE f = Held
      <4>1. owners = {[place |-> "out"]}
        BY <2>1, <3>3, FramePlaces DEF Framing, FramesApart
      <4> QED
        BY <4>1
    <3>4. ASSUME NEW p \in Threads, dead[p] = f PROVE \E s : owners = {s}
      <4>1. owners = {[place |-> "dead", thread |-> p]}
        BY <2>1, <3>4, FramePlaces DEF Framing, FramesApart
      <4> QED
        BY <4>1
    <3> QED
      BY <2>1, <2>3, <3>1, <3>2, <3>3, <3>4 DEF Framing, FramesHeld
  <2>4. ASSUME f \in frames PROVE Cardinality(owners) = 1
    BY <2>3, <2>4, FS_Singleton
  <2> QED
    BY <2>2, <2>4
<1> QED
  BY <1>1, Invariance, PTL

\* outputVideo() never copies planes of a decoder that is gone: a fallback
\* cannot start on G while R holds a frame of a software decoder.
THEOREM PlanesAlive == Spec => []CpuFrameAlive
<1>1. Inv => CpuFrameAlive
  BY DEF Inv, FallbackOnce, Soft, CpuFrameAlive, Free
<1> QED
  BY <1>1, Invariance, PTL

\* The fallback never undoes a rebuild for another codec, until a connection
\* is lost.
THEOREM CodecMatches == Spec => []DecoderMatchesCodec
<1>1. Inv => DecoderMatchesCodec
  BY DEF Inv, CodecFollows, DecoderMatchesCodec
<1> QED
  BY <1>1, Invariance, PTL

\* A hardware decoder_ has the codec, size and depth that the decisions of
\* onMeta() and onVideoData() compare the stream with.
THEOREM HardwareMatches == Spec => []HardwareMatchesStream
<1>1. Inv => HardwareMatchesStream
  BY DEF Inv, Built, Hard, RebuildPCs, HardwareMatchesStream
<1> QED
  BY <1>1, Invariance, PTL
==============================================================================

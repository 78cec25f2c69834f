----------------------------- MODULE MCGpuImport -----------------------------
(* Two decoders and a thread that destroys them besides the render thread.    *)
(* The second CUDA device is the one OBS renders on.                          *)
EXTENDS GpuImport, TLC

CONSTANTS d1, d2, c1, c2, c3

MCDecoders == {d1, d2}
MCContexts == {c1, c2, c3}
MCLuids == <<"integrated", "discrete">>

\* Decoders and contexts are interchangeable.
MCSymmetry == Permutations(MCDecoders) \cup Permutations(MCContexts)
=============================================================================

--------------------------- MODULE MCDecodePipeline ---------------------------
(***************************************************************************)
(* Instance of DecodePipeline for TLC.                                     *)
(***************************************************************************)
EXTENDS DecodePipeline, TLC

CONSTANTS d1, d2, d3, f1, f2, f3

MCDecs   == {d1, d2, d3}
MCFrames == {f1, f2, f3}

\* A change of the codec, one of the size, and one of both.
MCMetas  == {<<"h264", 1>>, <<"h264", 2>>, <<"hevc", 1>>}

\* Decoder objects and frame references are interchangeable.
MCSymmetry == Permutations(MCDecs) \cup Permutations(MCFrames)
==============================================================================

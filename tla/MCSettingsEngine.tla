--------------------------- MODULE MCSettingsEngine ---------------------------
(***************************************************************************)
(* Instance of SettingsEngine for TLC: a key of the first catalog changes  *)
(* both catalogs when it is written, as record_mode does.                  *)
(***************************************************************************)
EXTENDS SettingsEngine, TLC

CONSTANTS k1, k2, k3, c1, c2, v1, v2

MCKeys == {k1, k2, k3}
MCCatalogs == {c1, c2}
MCValues == {v1, v2}
MCSchema == (c1 :> <<k1>>) @@ (c2 :> <<k2, k3>>)
MCReported == (c1 :> {k1}) @@ (c2 :> {k2, k3})
MCTargets == (k1 :> <<c1, c2>>) @@ (k2 :> <<>>) @@ (k3 :> <<>>)
MCPtzKeys == <<k2>>
MCReadOnly == {k3}

\* A camera that lacks the third key.
MCCameras == {(k1 :> v) @@ (k2 :> v) @@ (k3 :> Empty) : v \in MCValues}

MCSymmetry == Permutations(MCValues)
==============================================================================

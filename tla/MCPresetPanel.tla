--------------------------- MODULE MCPresetPanel ---------------------------
(* Two cameras, two pages, two versions of what a slot holds.                 *)
EXTENDS PresetPanel, TLC

CONSTANTS x1, x2

MCCams == {x1, x2}
MCSlots == 0..1

MCSymmetry == Permutations(MCCams)
=============================================================================

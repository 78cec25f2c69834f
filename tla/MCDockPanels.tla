---------------------------- MODULE MCDockPanels ----------------------------
(* A camera with a pan-tilt head and both stream indices, and an older one.  *)
EXTENDS DockPanels

CONSTANTS new, old

MCCams == {new, old}
MCPtzCams == {new}
MCOffers == [c \in MCCams |-> IF c = new THEN Indices ELSE {"stream1"}]
=============================================================================

---------------------------- MODULE MCCameraRail ----------------------------
(* A camera, and the number that OBS appends to the name of a second source. *)
EXTENDS CameraRail

CONSTANTS h1, two

MCHosts == {h1, two}
MCAddresses == {h1}
=============================================================================

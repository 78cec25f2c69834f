--------------------------- MODULE MCHttpTransport ---------------------------
(***************************************************************************)
(* Instance of HttpTransport for TLC.                                      *)
(***************************************************************************)
EXTENDS HttpTransport

CONSTANTS r1, r2, r3

MCReqs == {r1, r2, r3}
==============================================================================

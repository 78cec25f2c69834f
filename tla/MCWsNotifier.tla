----------------------------- MODULE MCWsNotifier -----------------------------
(***************************************************************************)
(* WsNotifier is finite as it is: the instance only fixes its constants.   *)
(***************************************************************************)
EXTENDS WsNotifier
==============================================================================

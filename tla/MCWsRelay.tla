----------------------------- MODULE MCWsRelay -----------------------------
(* Instances of WsRelay for TLC.                                           *)
EXTENDS WsRelay
=============================================================================

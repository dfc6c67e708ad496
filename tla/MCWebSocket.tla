----------------------------- MODULE MCWebSocket -----------------------------
(* Instances of WebSocket for TLC.                                           *)
EXTENDS WebSocket
=============================================================================

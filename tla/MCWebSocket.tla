---------------------------- MODULE MCWebSocket -----------------------------
(* Instances of WebSocket for TLC.                                         *)
EXTENDS WebSocket, TLC
CONSTANTS f1, f2, r1, r2, r3, w1, w2, w3
=============================================================================

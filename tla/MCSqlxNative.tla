---------------------------- MODULE MCSqlxNative ----------------------------
(* Instances of SqlxNative for TLC.                                        *)
EXTENDS SqlxNative, TLC

CONSTANTS p1, p2, t1, t2, t3
=============================================================================

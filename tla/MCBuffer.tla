------------------------------ MODULE MCBuffer ------------------------------
(* Instances of Buffer for TLC.                                            *)
EXTENDS Buffer, TLC
CONSTANTS a, b
=============================================================================

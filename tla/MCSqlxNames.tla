---------------------------- MODULE MCSqlxNames -----------------------------
(* Instances of SqlxNames for TLC: two connect() calls of two services     *)
(* for one name.                                                           *)
EXTENDS SqlxNames, TLC

CONSTANTS c1, c2, g1, g2

MCOpenerOf == [g \in Conns |-> IF g = g2 THEN c2 ELSE c1]
=============================================================================

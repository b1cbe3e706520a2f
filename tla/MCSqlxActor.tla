---------------------------- MODULE MCSqlxActor -----------------------------
(* Instances of SqlxActor for TLC: two services sharing one connection.    *)
EXTENDS SqlxActor, TLC

CONSTANTS c1, c2, r1, r2, k1, k2

\* c1 opens the connection, c2 finds it by name.
TwoClosers == (r1 :> c1) @@ (r2 :> c2) @@ (k1 :> c1) @@ (k2 :> c2)
=============================================================================

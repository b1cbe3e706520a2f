--------------------------- MODULE MCTiberiusActor --------------------------
(* Instances of TiberiusActor for TLC: two services, one connection.       *)
EXTENDS TiberiusActor, TLC

CONSTANTS c1, c2, r1, r2, r3, k1

\* c1 waits for its first request and not for its second; c2 also closes.
FourCalls == (r1 :> c1) @@ (r2 :> c1) @@ (r3 :> c2) @@ (k1 :> c2)
=============================================================================

---------------------------- MODULE MCMongoActor ----------------------------
(* Instances of MongoActor for TLC: two services sharing one connection.   *)
EXTENDS MongoActor, TLC

CONSTANTS c1, c2, r1, r2, r3, k1

\* One waits for its replies, the other does not; c2 also closes.
FourCalls == (r1 :> c1) @@ (r2 :> c1) @@ (r3 :> c2) @@ (k1 :> c2)
=============================================================================

-------------------------- MODULE MCSqlxResponse ---------------------------
(* Instances of SqlxResponse for TLC: two services whose sessions collide, *)
(* a session that is used again, one shard shared by every key.            *)
EXTENDS SqlxResponse, TLC

CONSTANTS o1, o2, r1, r2, r3

\* r1 and r2 reuse one session of o1; r3 is the same session of o2.
MCOwnerOf   == (r1 :> o1) @@ (r2 :> o1) @@ (r3 :> o2)
MCSessionOf == (r1 :> 1) @@ (r2 :> 1) @@ (r3 :> 1)
OneShard    == [k \in Keys |-> "s1"]
============================================================================

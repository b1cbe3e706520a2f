------------------------------ MODULE SqlxFifo ------------------------------
(***************************************************************************)
(* What a named SQLx connection promises its callers about order: accepted *)
(* requests are carried out one by one in the order they were accepted,    *)
(* each once, and the connection reports itself closed only when nothing   *)
(* accepted is left; from then on it accepts nothing.                      *)
(***************************************************************************)
EXTENDS Naturals, Sequences

CONSTANT Requests

VARIABLES
    accepted,   \* requests in the order the queue took them
    served,     \* requests in the order the handler carried them out
    shut        \* the connection has reported that it is closed

fifoVars == <<accepted, served, shut>>

Init == accepted = <<>> /\ served = <<>> /\ shut = FALSE

Accept(r) ==
    /\ ~shut
    /\ \A i \in DOMAIN accepted : accepted[i] # r
    /\ accepted' = Append(accepted, r)
    /\ UNCHANGED <<served, shut>>

Serve ==
    /\ ~shut
    /\ Len(served) < Len(accepted)
    /\ served' = Append(served, accepted[Len(served) + 1])
    /\ UNCHANGED <<accepted, shut>>

Shut ==
    /\ served = accepted
    /\ shut' = TRUE
    /\ UNCHANGED <<accepted, served>>

Next == (\E r \in Requests : Accept(r)) \/ Serve \/ Shut

Spec == Init /\ [][Next]_fifoVars
=============================================================================

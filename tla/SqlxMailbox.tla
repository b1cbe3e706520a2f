---------------------------- MODULE SqlxMailbox ----------------------------
(***************************************************************************)
(* What the SQLx response registry promises about the reply of one         *)
(* asynchronous call: it is opened once, filled at most once, read at most *)
(* once, and the Lua waiter may walk away from it at any moment.           *)
(*                                                                         *)
(* SqlxResponse shows that the sharded, locked registry implements this    *)
(* module; SqlxActor uses its actions for the replies of its calls.        *)
(***************************************************************************)

CONSTANT Calls          \* the calls that may ask for a reply

VARIABLE box            \* box[c]: where the reply of call c stands

Status == {"none", "waiting", "ready", "taken", "abandoned"}

TypeOK == box \in [Calls -> Status]

Init == box = [c \in Calls |-> "none"]

----------------------------------------------------------------------------
Move(c, from, to) ==
    /\ box[c] \in from
    /\ box' = [box EXCEPT ![c] = to]

\* The call registers its lease before it is handed to anyone.
Open(c) == Move(c, {"none"}, "waiting")

\* The answering task publishes; a reply nobody waits for goes nowhere.
Deliver(c) == Move(c, {"waiting"}, "ready")

\* The waiter decodes its reply.
Take(c) == Move(c, {"ready"}, "taken")

\* The lease is closed or collected before the reply was decoded.
Abandon(c) == Move(c, {"waiting", "ready"}, "abandoned")

\* An answering task does what publish does, whatever the waiter did.
Answer(c) ==
    IF box[c] = "waiting" THEN Deliver(c) ELSE UNCHANGED box

Next == \E c \in Calls : Open(c) \/ Deliver(c) \/ Take(c) \/ Abandon(c)

Spec == Init /\ [][Next]_box
============================================================================

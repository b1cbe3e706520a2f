----------------------------- MODULE MongoActor -----------------------------
(***************************************************************************)
(* One named MongoDB connection (lua_mongodb.rs): connect(), the unbounded *)
(* channel in front of database_handler, the request counter, the handles  *)
(* of the services, and the "close" operation, which is an operation like  *)
(* any other until the handler meets it.                                   *)
(*                                                                         *)
(* It differs from the SQLx connection (SqlxActor) in what it does not     *)
(* have: no lease, no closing flag, no deadline, no draining.  The counter *)
(* is incremented after the send, so the handler may be faster than its    *)
(* caller.                                                                 *)
(***************************************************************************)
EXTENDS Integers, Sequences, FiniteSets

CONSTANTS
    Clients,    \* Lua services
    Requests,   \* calls of operators(), each made once
    CloseOps,   \* those whose operation is "close"
    Waited,     \* those with a session: send_result answers them
    ClientOf,   \* the service that makes each of them
    NoReq       \* no request is being carried out

ASSUME MongoAssumption ==
    /\ IsFiniteSet(Requests)
    /\ CloseOps \subseteq Requests /\ Waited \subseteq Requests
    /\ ClientOf \in [Requests -> Clients]
    /\ NoReq \notin Requests

VARIABLES
    conn,       \* where the connection's task stands
    queue,      \* the mpsc channel
    counter,    \* the AtomicI64
    registered, \* DATABASE_CONNECTIONSS holds a Sender of this connection
    handle,     \* handle[c]: service c holds a Sender in a userdata
    call,       \* where each operators() call stands
    stage,      \* where each request stands behind the channel
    cur,        \* the request being carried out, or NoReq
    answer,     \* what became of a request that was carried out
    accepted    \* history: requests in the order the channel took them

mongoVars == <<conn, queue, counter, registered, handle, call, stage, cur,
               answer, accepted>>

MongoTypeOK ==
    /\ conn \in {"none", "dialing", "recv", "running", "answered", "leaving",
                 "gone", "failed"}
    /\ queue \in Seq(Requests)
    /\ counter \in Int
    /\ registered \in BOOLEAN
    /\ handle \in [Clients -> BOOLEAN]
    /\ call \in [Requests -> {"new", "sent", "returned", "refused"}]
    /\ stage \in [Requests -> {"none", "queued", "running", "ended", "closed",
                             "lost"}]
    /\ cur \in Requests \cup {NoReq}
    /\ cur # NoReq <=> conn \in {"running", "answered"}
    /\ answer \in [Requests -> {"none", "ok", "error", "logged"}]
    /\ accepted \in Seq(Requests)

MongoInit ==
    /\ conn = "none" /\ cur = NoReq
    /\ queue = <<>> /\ counter = 0 /\ registered = FALSE
    /\ handle = [c \in Clients |-> FALSE]
    /\ call   = [r \in Requests |-> "new"]
    /\ stage  = [r \in Requests |-> "none"]
    /\ answer = [r \in Requests |-> "none"]
    /\ accepted = <<>>

----------------------------------------------------------------------------
\* connect(): spawn the task; the driver parses the url and makes a client.
Connect ==
    /\ conn = "none"
    /\ conn' = "dialing"
    /\ UNCHANGED <<queue, counter, registered, handle, call, stage, cur,
                   answer, accepted>>

DialFails ==
    /\ conn = "dialing"
    /\ conn' = "failed"
    /\ UNCHANGED <<queue, counter, registered, handle, call, stage, cur,
                   answer, accepted>>

\* Register the name and run the handler.  The task's own Sender lives until
\* the handler returns, so recv() never yields None.
DialSucceeds ==
    /\ conn = "dialing"
    /\ conn' = "recv"
    /\ registered' = TRUE
    /\ UNCHANGED <<queue, counter, handle, call, stage, cur, answer, accepted>>

\* A service is in the middle of operators().
InCall(c) == \E r \in Requests : ClientOf[r] = c /\ call[r] = "sent"

\* find_connection clones the registered Sender; nothing ever removes the
\* entry of a connection that has ended.
FindConnection(c) ==
    /\ registered /\ ~handle[c] /\ ~InCall(c)
    /\ handle' = [handle EXCEPT ![c] = TRUE]
    /\ UNCHANGED <<conn, queue, counter, registered, call, stage, cur, answer,
                   accepted>>

\* __gc of the userdata.
ReleaseHandle(c) ==
    /\ handle[c] /\ ~InCall(c)
    /\ handle' = [handle EXCEPT ![c] = FALSE]
    /\ UNCHANGED <<conn, queue, counter, registered, call, stage, cur, answer,
                   accepted>>

\* A connect() of the same name overwrites the entry.
Replace ==
    /\ registered
    /\ registered' = FALSE
    /\ UNCHANGED <<conn, queue, counter, handle, call, stage, cur, answer,
                   accepted>>

----------------------------------------------------------------------------
\* operators(): an unbounded send, refused only when the receiver is gone.
Send(r) ==
    /\ call[r] = "new" /\ handle[ClientOf[r]] /\ ~InCall(ClientOf[r])
    /\ conn # "gone"
    /\ call' = [call EXCEPT ![r] = "sent"]
    /\ stage' = [stage EXCEPT ![r] = "queued"]
    /\ queue' = Append(queue, r)
    /\ accepted' = Append(accepted, r)
    /\ UNCHANGED <<conn, counter, registered, handle, cur, answer>>

SendFails(r) ==
    /\ call[r] = "new" /\ handle[ClientOf[r]] /\ ~InCall(ClientOf[r])
    /\ conn = "gone"
    /\ call' = [call EXCEPT ![r] = "refused"]
    /\ UNCHANGED <<conn, queue, counter, registered, handle, stage, cur,
                   answer, accepted>>

\* The increment that follows an accepted send.
Count(r) ==
    /\ call[r] = "sent"
    /\ call' = [call EXCEPT ![r] = "returned"]
    /\ counter' = counter + 1
    /\ UNCHANGED <<conn, queue, registered, handle, stage, cur, answer, accepted>>

----------------------------------------------------------------------------
\* rx.recv() yields an operation, which is awaited before the next recv.
Recv ==
    /\ conn = "recv" /\ queue # <<>> /\ Head(queue) \notin CloseOps
    /\ conn' = "running"
    /\ cur' = Head(queue)
    /\ queue' = Tail(queue)
    /\ stage' = [stage EXCEPT ![Head(queue)] = "running"]
    /\ UNCHANGED <<counter, registered, handle, call, answer, accepted>>

\* As if a Close overtook the operations queued before it.
RecvCloseOvertakes ==
    /\ conn = "recv"
    /\ \E i \in DOMAIN queue :
          /\ queue[i] \in CloseOps
          /\ queue' = [j \in 1..(Len(queue) - 1) |->
                         IF j < i THEN queue[j] ELSE queue[j + 1]]
          /\ stage' = [stage EXCEPT ![queue[i]] = "closed"]
    /\ conn' = "leaving"
    /\ UNCHANGED <<counter, registered, handle, call, cur, answer, accepted>>

\* rx.recv() yields Close: the loop is left without the decrement.
RecvClose ==
    /\ conn = "recv" /\ queue # <<>> /\ Head(queue) \in CloseOps
    /\ conn' = "leaving"
    /\ queue' = Tail(queue)
    /\ stage' = [stage EXCEPT ![Head(queue)] = "closed"]
    /\ UNCHANGED <<counter, registered, handle, call, cur, answer,
                   accepted>>

\* send_result: a caller that waits gets the result or the error; without a
\* session the result is dropped and the error logged.
SendResult ==
    /\ conn = "running"
    /\ conn' = "answered"
    /\ \E ok \in BOOLEAN :
          answer' = [answer EXCEPT ![cur] = IF ok THEN "ok"
                                            ELSE IF cur \in Waited THEN "error"
                                            ELSE "logged"]
    /\ UNCHANGED <<queue, counter, registered, handle, call, stage, cur, accepted>>

\* As if an operation without a session were not counted down.
UncountWaited ==
    /\ conn = "answered"
    /\ conn' = "recv"
    /\ counter' = IF cur \in Waited THEN counter - 1 ELSE counter
    /\ stage' = [stage EXCEPT ![cur] = "ended"]
    /\ cur' = NoReq
    /\ UNCHANGED <<queue, registered, handle, call, answer, accepted>>

\* counter.fetch_sub at the end of the loop's body.
Uncount ==
    /\ conn = "answered"
    /\ conn' = "recv"
    /\ counter' = counter - 1
    /\ stage' = [stage EXCEPT ![cur] = "ended"]
    /\ cur' = NoReq
    /\ UNCHANGED <<queue, registered, handle, call, answer, accepted>>

\* The handler returns: the receiver is dropped with all it still holds.
DropReceiver ==
    /\ conn = "leaving"
    /\ conn' = "gone"
    /\ queue' = <<>>
    /\ stage' = [r \in Requests |-> IF stage[r] = "queued" THEN "lost"
                                                           ELSE stage[r]]
    /\ UNCHANGED <<counter, registered, handle, call, cur, answer, accepted>>

----------------------------------------------------------------------------
Handler == Recv \/ RecvClose \/ SendResult \/ Uncount \/ DropReceiver

MongoNext ==
    \/ Connect \/ DialFails \/ DialSucceeds \/ Replace \/ Handler
    \/ \E c \in Clients : FindConnection(c) \/ ReleaseHandle(c)
    \/ \E r \in Requests : Send(r) \/ SendFails(r) \/ Count(r)

MongoSpec == MongoInit /\ [][MongoNext]_mongoVars

----------------------------------------------------------------------------
\* The counter lags behind the channel by the calls between send and
\* fetch_add, and by nothing else: it counts what is queued or carried out,
\* and for ever the Close and what was dropped behind it.
Unpaid  == {r \in Requests : stage[r] \in {"queued", "running", "closed", "lost"}}
Lagging == {r \in Requests : call[r] = "sent"}

CounterLagsByCalls == counter = Cardinality(Unpaid) - Cardinality(Lagging)

\* An accepted operation is lost only if the channel took it after a Close
\* that the handler has met; everything before that Close was finished.
LostOnlyBehindClose ==
    \A i \in DOMAIN accepted :
        stage[accepted[i]] = "lost" =>
            \E j \in 1..(i - 1) :
                /\ stage[accepted[j]] = "closed"
                /\ \A k \in 1..(j - 1) : stage[accepted[k]] = "ended"

=============================================================================

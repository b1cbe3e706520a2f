--------------------------- MODULE TiberiusActor ----------------------------
(***************************************************************************)
(* One named SQL Server connection (lua_tiberius.rs): the bounded channel, *)
(* the counter that is incremented after the send, the handler that        *)
(* retries an operation without a session for as long as it fails, and     *)
(* close(), which competes for room in the channel with everything else.   *)
(*                                                                         *)
(* The connection task keeps a Sender of its own while the handler runs,   *)
(* so the handler ends only when it meets a Close.                         *)
(***************************************************************************)
EXTENDS Integers, Sequences, FiniteSets

CONSTANTS
    Clients,    \* Lua services
    Requests,   \* query, execute and transaction calls, each made once
    Closes,     \* close() calls, each made once
    Waited,     \* the requests with a session
    ClientOf,   \* the service that makes each call
    NoReq,      \* no request is being carried out
    Capacity,   \* of the channel: 100 in the code
    MaxFails    \* bound: failures of one request

Messages == Requests \cup Closes

ASSUME TiberiusAssumption ==
    /\ IsFiniteSet(Requests) /\ IsFiniteSet(Closes)
    /\ Requests \cap Closes = {}
    /\ Waited \subseteq Requests
    /\ ClientOf \in [Messages -> Clients]
    /\ NoReq \notin Requests
    /\ Capacity \in Nat \ {0} /\ MaxFails \in Nat

VARIABLES
    conn,       \* where the connection's task stands
    queue,      \* the mpsc channel
    counter,    \* the AtomicI64 behind stats()
    handle,     \* handle[c]: service c holds a DatabaseConnection userdata
    call,       \* where each native call stands
    stage,      \* where each message stands behind the channel
    cur,        \* the request being carried out, or NoReq
    failed,     \* failed_times
    answer,     \* the message sent to the owner
    told,       \* what M:close() returned to the service
    accepted,   \* history: messages in the order the channel took them
    served      \* history: messages in the order the handler was done with them

hist == <<accepted, served>>
vars == <<conn, queue, counter, handle, call, stage, cur, failed, answer,
          told, hist>>

TypeOK ==
    /\ conn \in {"none", "dialing", "recv", "running", "sleeping", "answered",
                 "leaving", "gone", "failed"}
    /\ queue \in Seq(Messages) /\ Len(queue) <= Capacity
    /\ counter \in Int
    /\ handle \in [Clients -> BOOLEAN]
    /\ call \in [Messages -> {"new", "sent", "returned", "refused"}]
    /\ stage \in [Messages -> {"none", "queued", "running", "ended", "closed",
                              "lost"}]
    /\ cur \in Requests \cup {NoReq}
    /\ cur # NoReq <=> conn \in {"running", "sleeping", "answered"}
    /\ failed \in 0..MaxFails
    /\ answer \in [Requests -> {"none", "ok", "error"}]
    /\ told \in [Closes -> {"none", "nothing"}]
    /\ accepted \in Seq(Messages) /\ served \in Seq(Messages)

Init ==
    /\ conn = "none" /\ cur = NoReq /\ failed = 0
    /\ queue = <<>> /\ counter = 0
    /\ handle = [c \in Clients |-> FALSE]
    /\ call   = [m \in Messages |-> "new"]
    /\ stage  = [m \in Messages |-> "none"]
    /\ answer = [r \in Requests |-> "none"]
    /\ told   = [k \in Closes |-> "none"]
    /\ accepted = <<>> /\ served = <<>>

----------------------------------------------------------------------------
\* connect(): spawn the task, connect within the timeout, register the name.
Connect ==
    /\ conn = "none"
    /\ conn' = "dialing"
    /\ UNCHANGED <<queue, counter, handle, call, stage, cur, failed, answer,
                   told, hist>>

Dialed ==
    /\ conn = "dialing"
    /\ conn' \in {"recv", "failed"}
    /\ UNCHANGED <<queue, counter, handle, call, stage, cur, failed, answer,
                   told, hist>>

\* A service is in the middle of a native call.
InCall(c) == \E r \in Requests : ClientOf[r] = c /\ call[r] = "sent"

\* find_connection: the entry stays, also when the handler has ended.
FindConnection(c) ==
    /\ conn \notin {"none", "dialing", "failed"}
    /\ ~handle[c] /\ ~InCall(c)
    /\ handle' = [handle EXCEPT ![c] = TRUE]
    /\ UNCHANGED <<conn, queue, counter, call, stage, cur, failed, answer,
                   told, hist>>

\* __gc of the userdata.
ReleaseHandle(c) ==
    /\ handle[c] /\ ~InCall(c)
    /\ handle' = [handle EXCEPT ![c] = FALSE]
    /\ UNCHANGED <<conn, queue, counter, call, stage, cur, failed, answer,
                   told, hist>>

----------------------------------------------------------------------------
Issues(m) == /\ call[m] = "new"
             /\ handle[ClientOf[m]] /\ ~InCall(ClientOf[m])

HasRoom == conn # "gone" /\ Len(queue) < Capacity

\* try_send takes a message.
Take(m) ==
    /\ stage' = [stage EXCEPT ![m] = "queued"]
    /\ queue' = Append(queue, m)
    /\ accepted' = Append(accepted, m)

\* query, execute, transaction: accepted, not yet counted ...
Send(r) ==
    /\ Issues(r) /\ HasRoom
    /\ call' = [call EXCEPT ![r] = "sent"]
    /\ Take(r)
    /\ UNCHANGED <<conn, counter, handle, cur, failed, answer, told, served>>

\* ... or refused, full or closed.
SendFails(r) ==
    /\ Issues(r) /\ ~HasRoom
    /\ call' = [call EXCEPT ![r] = "refused"]
    /\ UNCHANGED <<conn, queue, counter, handle, stage, cur, failed, answer,
                   told, hist>>

Count(r) ==
    /\ call[r] = "sent"
    /\ call' = [call EXCEPT ![r] = "returned"]
    /\ counter' = counter + 1
    /\ UNCHANGED <<conn, queue, handle, stage, cur, failed, answer, told, hist>>

\* close(): Close is not counted.
CloseSent(k) ==
    /\ Issues(k) /\ HasRoom
    /\ call' = [call EXCEPT ![k] = "returned"]
    /\ Take(k)
    /\ told' = [told EXCEPT ![k] = "nothing"]
    /\ UNCHANGED <<conn, counter, handle, cur, failed, answer, served>>

\* The native call returns an error table; M:close() passes nothing on.
CloseRefused(k) ==
    /\ Issues(k) /\ ~HasRoom
    /\ call' = [call EXCEPT ![k] = "refused"]
    /\ told' = [told EXCEPT ![k] = "nothing"]
    /\ UNCHANGED <<conn, queue, counter, handle, stage, cur, failed, answer,
                   hist>>

----------------------------------------------------------------------------
RecvClose ==
    /\ conn = "recv" /\ queue # <<>> /\ Head(queue) \in Closes
    /\ conn' = "leaving"
    /\ queue' = Tail(queue)
    /\ stage' = [stage EXCEPT ![Head(queue)] = "closed"]
    /\ served' = Append(served, Head(queue))
    /\ UNCHANGED <<counter, handle, call, cur, failed, answer, told, accepted>>

Recv ==
    /\ conn = "recv" /\ queue # <<>> /\ Head(queue) \in Requests
    /\ conn' = "running"
    /\ cur' = Head(queue)
    /\ failed' = 0
    /\ queue' = Tail(queue)
    /\ stage' = [stage EXCEPT ![Head(queue)] = "running"]
    /\ UNCHANGED <<counter, handle, call, answer, told, hist>>

\* handle_result, Ok: the answer is sent whether or not anyone waits.
Succeeds ==
    /\ conn = "running"
    /\ conn' = "answered"
    /\ answer' = [answer EXCEPT ![cur] = "ok"]
    /\ UNCHANGED <<queue, counter, handle, call, stage, cur, failed, told, hist>>

\* As if every failure were answered and the request given up.
FailsGivesUp ==
    /\ conn = "running"
    /\ answer' = [answer EXCEPT ![cur] = "error"]
    /\ conn' = "answered" /\ UNCHANGED failed
    /\ UNCHANGED <<queue, counter, handle, call, stage, cur, told, hist>>

\* Err: a caller that waits hears of it; otherwise sleep a second and retry.
Fails ==
    /\ conn = "running"
    /\ IF cur \in Waited
         THEN /\ answer' = [answer EXCEPT ![cur] = "error"]
              /\ conn' = "answered" /\ UNCHANGED failed
         ELSE /\ failed < MaxFails /\ failed' = failed + 1
              /\ conn' = "sleeping" /\ UNCHANGED answer
    /\ UNCHANGED <<queue, counter, handle, call, stage, cur, told, hist>>

Wake ==
    /\ conn = "sleeping"
    /\ conn' = "running"
    /\ UNCHANGED <<queue, counter, handle, call, stage, cur, failed, answer,
                   told, hist>>

\* As if a request that had failed before were not counted down.
UncountOnlyUnfailed ==
    /\ conn = "answered"
    /\ conn' = "recv"
    /\ counter' = IF failed = 0 THEN counter - 1 ELSE counter
    /\ stage' = [stage EXCEPT ![cur] = "ended"]
    /\ served' = Append(served, cur)
    /\ cur' = NoReq
    /\ UNCHANGED <<queue, handle, call, failed, answer, told, accepted>>

\* As if the answered request were served again with the next one.
UncountServesTwice ==
    /\ conn = "answered"
    /\ conn' = "recv"
    /\ counter' = counter - 1
    /\ stage' = [stage EXCEPT ![cur] = "ended"]
    /\ served' = Append(served, cur)
    /\ queue' = IF failed > 0 /\ Len(queue) < Capacity THEN <<cur>> \o queue
                                                       ELSE queue
    /\ cur' = NoReq
    /\ UNCHANGED <<handle, call, failed, answer, told, accepted>>

\* The count goes down after the answer was sent.
Uncount ==
    /\ conn = "answered"
    /\ conn' = "recv"
    /\ counter' = counter - 1
    /\ stage' = [stage EXCEPT ![cur] = "ended"]
    /\ served' = Append(served, cur)
    /\ cur' = NoReq
    /\ UNCHANGED <<queue, handle, call, failed, answer, told, accepted>>

\* The handler returns: the receiver is dropped with all it still holds.
DropReceiver ==
    /\ conn = "leaving"
    /\ conn' = "gone"
    /\ queue' = <<>>
    /\ stage' = [m \in Messages |-> IF stage[m] = "queued" THEN "lost"
                                                           ELSE stage[m]]
    /\ UNCHANGED <<counter, handle, call, cur, failed, answer, told, hist>>

----------------------------------------------------------------------------
Handler == \/ RecvClose \/ Recv \/ Succeeds \/ Fails \/ Wake \/ Uncount
           \/ DropReceiver

Next ==
    \/ Connect \/ Dialed \/ Handler
    \/ \E c \in Clients : FindConnection(c) \/ ReleaseHandle(c)
    \/ \E r \in Requests : Send(r) \/ SendFails(r) \/ Count(r)
    \/ \E k \in Closes : CloseSent(k) \/ CloseRefused(k)

Spec == Init /\ [][Next]_vars

----------------------------------------------------------------------------
\* stats() lags behind the channel by the calls between try_send and
\* fetch_add, however often the handler retries; what a Close left in the
\* channel is counted for ever.
Unpaid  == {r \in Requests : stage[r] \in {"queued", "running", "lost"}}
Lagging == {r \in Requests : call[r] = "sent"}

CounterLagsByCalls == counter = Cardinality(Unpaid) - Cardinality(Lagging)

\* "Will retry" holds: a request without a session is never given up, so one
\* that is over was carried out; one that is lost was still in the channel,
\* behind a Close, and had not been tried.
FireAndForgetSucceeds ==
    \A r \in Requests \ Waited :
        /\ stage[r] = "ended" => answer[r] = "ok"
        /\ stage[r] = "lost" => answer[r] = "none"
        /\ answer[r] # "error"

\* Retries overtake nothing: messages are done with in the order in which
\* the channel took them, each once.
Fifo == INSTANCE SqlxFifo WITH Requests <- Messages, shut <- FALSE

ImplementsFifo == Fifo!Spec

\* What sqlserver.lua says of close(): it returns success or an error table,
\* so a service whose Close was refused learns of it.
RefusedCloseIsReported ==
    \A k \in Closes : call[k] = "refused" => told[k] = "error"
=============================================================================

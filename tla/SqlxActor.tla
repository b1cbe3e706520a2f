----------------------------- MODULE SqlxActor ------------------------------
(***************************************************************************)
(* One named SQLx connection (lua_sqlx.rs): the task that connect() spawns *)
(* and that becomes database_handler, the bounded queue in front of it,    *)
(* the request counter, the closing flag, and every call that reaches it - *)
(* connect, query/execute/batch/transaction, close, find_connection, the   *)
(* replacement by a connection of the same name, and the garbage           *)
(* collection of Lua handles.                                              *)
(*                                                                         *)
(* Services are threads, so the steps of a native call that touch shared   *)
(* state (the closing flag, the counter, the queue) interleave with the    *)
(* other services, with the close tasks and with the handler.  The replies *)
(* of the calls are mailboxes (SqlxMailbox, implemented by SqlxResponse).  *)
(* What carrying a request out means is the subject of SqlxExec.           *)
(***************************************************************************)
EXTENDS Naturals, Sequences, FiniteSets

CONSTANTS
    Clients,    \* Lua services that use the connection
    Requests,   \* query/execute/batch/transaction calls, each made once
    Closers,    \* close() calls, each made once
    ClientOf,   \* the service that makes each of them
    Waited,     \* the requests with a session: their caller waits for a reply
    Opener,     \* the service that called connect()
    Opening,    \* names the connect() call
    Replacer,   \* names the Close a same-name connect() sends
    Close,      \* the DatabaseRequest::Close message
    NoReq,      \* no request is being carried out
    Capacity,   \* queue_capacity
    MayPanic    \* whether a driver may panic while it carries out a request

Tasks == Closers \cup {Replacer}
Calls == Waited \cup Closers \cup {Opening}

ASSUME ActorAssumption ==
    /\ IsFiniteSet(Requests) /\ IsFiniteSet(Closers)
    /\ Waited \subseteq Requests
    /\ ClientOf \in [Requests \cup Closers -> Clients]
    /\ Opener \in Clients
    /\ Requests \cap Closers = {}
    /\ Close \notin Requests /\ NoReq \notin Requests
    /\ Opening \notin Requests \cup Closers \cup Clients
    /\ Replacer \notin Closers
    /\ Clients \cap (Closers \cup {Replacer}) = {}
    /\ Capacity \in Nat \ {0}
    /\ MayPanic \in BOOLEAN

VARIABLES
    conn,       \* where the connection's task stands
    queue,      \* the mpsc channel
    rxClosed,   \* rx.close() was called
    counter,    \* the AtomicI64 behind stats()
    closing,    \* the AtomicBool that turns new requests away
    closed,     \* the watch channel: "open", "true" or "dropped"
    registered, \* DATABASE_CONNECTIONS still maps the name to this connection
    handle,     \* handle[c]: service c holds a DatabaseConnection userdata
    finding,    \* finding[c]: find_connection saw the connection not closing
    phase,      \* where each request stands
    cur,        \* the request being carried out, or NoReq
    task,       \* where each task that sends Close stands
    outcome,    \* what a close() call was told
    reply,      \* the mailboxes
    accepted,   \* history: requests in the order the queue took them
    served      \* history: requests in the order they were carried out

chan   == <<queue, rxClosed>>
calls  == <<phase, task, outcome>>
people == <<handle, finding>>
hist   == <<accepted, served>>
vars   == <<conn, chan, counter, closing, closed, registered, people, calls,
            cur, reply, hist>>

Mailbox == INSTANCE SqlxMailbox WITH box <- reply

ConnStates  == {"none", "dialing", "dialed", "recv", "running", "executed",
                "settled", "leaving", "retired", "gone", "failed", "panicked"}
Phases      == {"new", "checked", "counted", "refused", "rejected", "queued",
                "running", "executed", "settled", "done", "lost"}
TaskStates  == {"none", "sending", "parked", "granted", "waiting", "done"}

\* Permits of the channel in use: queued messages and the permit handed to
\* the one parked sender there can be (SingleClose below).
InUse == Len(queue) + (IF \E t \in Tasks : task[t] = "granted" THEN 1 ELSE 0)

TypeOK ==
    /\ conn \in ConnStates
    /\ queue \in Seq(Requests \cup {Close})
    /\ InUse <= Capacity
    /\ rxClosed \in BOOLEAN
    /\ counter \in Nat
    /\ closing \in BOOLEAN
    /\ closed \in {"open", "true", "dropped"}
    /\ registered \in BOOLEAN
    /\ handle \in [Clients -> BOOLEAN]
    /\ finding \in [Clients -> BOOLEAN]
    /\ phase \in [Requests -> Phases]
    /\ cur \in Requests \cup {NoReq}
    /\ task \in [Tasks -> TaskStates]
    /\ outcome \in [Closers -> {"none", "true", "dropped"}]
    /\ Mailbox!TypeOK
    /\ accepted \in Seq(Requests) /\ served \in Seq(Requests)

Init ==
    /\ conn = "none" /\ cur = NoReq
    /\ queue = <<>> /\ rxClosed = FALSE
    /\ counter = 0
    /\ closing = FALSE /\ closed = "open" /\ registered = FALSE
    /\ handle  = [c \in Clients |-> FALSE]
    /\ finding = [c \in Clients |-> FALSE]
    /\ phase   = [r \in Requests |-> "new"]
    /\ task    = [t \in Tasks |-> "none"]
    /\ outcome = [k \in Closers |-> "none"]
    /\ Mailbox!Init
    /\ accepted = <<>> /\ served = <<>>

----------------------------------------------------------------------------
\* The strong Senders: handles, tasks about to send Close, the connect task
\* until it enters the handler, and the handle inside an undelivered reply.
StrongWithRegistry ==
    {c \in Clients : handle[c]} \cup {x \in {Opening} : registered}

Strong ==
    {c \in Clients : handle[c]}
    \cup {t \in Tasks : task[t] \in {"sending", "parked", "granted"}}
    \cup {x \in {Opening} : \/ conn = "dialed"
                            \/ reply[Opening] = "ready" /\ conn # "failed"}

\* The receiver refuses messages: closed by the handler, or dropped with it.
RxDead == rxClosed \/ conn \in {"gone", "panicked"}

Full == InUse >= Capacity

\* A service is a single thread: the request it is in the middle of issuing.
InCall(c) ==
    \/ finding[c]
    \/ \E r \in Requests : /\ ClientOf[r] = c
                           /\ phase[r] \in {"checked", "counted", "refused"}

SetPhase(r, p) == phase' = [phase EXCEPT ![r] = p]
SetTask(t, s)  == task' = [task EXCEPT ![t] = s]

----------------------------------------------------------------------------
\* connect(): register the reply, spawn the task.
Connect ==
    /\ conn = "none"
    /\ conn' = "dialing"
    /\ Mailbox!Open(Opening)
    /\ UNCHANGED <<chan, counter, closing, closed, registered, people, calls,
                   cur, hist>>

\* The one connection attempt failed: only the caller hears of it.
DialFails ==
    /\ conn = "dialing"
    /\ conn' = "failed"
    /\ Mailbox!Answer(Opening)
    /\ UNCHANGED <<chan, counter, closing, closed, registered, people, calls,
                   cur, hist>>

\* Connected: the registry maps the name to the new connection.
DialSucceeds ==
    /\ conn = "dialing"
    /\ conn' = "dialed"
    /\ registered' = TRUE
    /\ UNCHANGED <<chan, counter, closing, closed, people, calls, cur, reply,
                   hist>>

\* Hand the connection to the caller, drop the task's own Sender, run the
\* handler.  An abandoned reply drops the handle it carries.
Announce ==
    /\ conn = "dialed"
    /\ conn' = "recv"
    /\ Mailbox!Answer(Opening)
    /\ UNCHANGED <<chan, counter, closing, closed, registered, people, calls,
                   cur, hist>>

\* The opener decodes its connection.
TakeConnection ==
    /\ ~InCall(Opener) /\ conn # "failed"
    /\ Mailbox!Take(Opening)
    /\ handle' = [handle EXCEPT ![Opener] = TRUE]
    /\ UNCHANGED <<conn, chan, counter, closing, closed, registered, finding,
                   calls, cur, hist>>

\* __gc of a DatabaseConnection userdata.
ReleaseHandle(c) ==
    /\ handle[c] /\ ~InCall(c)
    /\ handle' = [handle EXCEPT ![c] = FALSE]
    /\ UNCHANGED <<conn, chan, counter, closing, closed, registered, finding,
                   calls, cur, reply, hist>>

\* find_connection, first half: a registered connection that is not closing.
FindLook(c) ==
    /\ ~InCall(c) /\ ~handle[c]
    /\ registered /\ ~closing
    /\ finding' = [finding EXCEPT ![c] = TRUE]
    /\ UNCHANGED <<conn, chan, counter, closing, closed, registered, handle,
                   calls, cur, reply, hist>>

\* Second half: the WeakSender upgrades only while a strong Sender exists.
FindUpgrade(c) ==
    /\ finding[c]
    /\ finding' = [finding EXCEPT ![c] = FALSE]
    /\ IF Strong # {}
         THEN handle' = [handle EXCEPT ![c] = TRUE] /\ UNCHANGED registered
         ELSE registered' = FALSE /\ UNCHANGED handle
    /\ UNCHANGED <<conn, chan, counter, closing, closed, calls, cur, reply,
                   hist>>

\* find_connection of a connection that is closing removes its entry.
FindStale(c) ==
    /\ ~InCall(c) /\ registered /\ closing
    /\ registered' = FALSE
    /\ UNCHANGED <<conn, chan, counter, closing, closed, people, calls, cur,
                   reply, hist>>

----------------------------------------------------------------------------
\* query/execute/batch/transaction: the closing flag is read first.
Check(r) ==
    LET c == ClientOf[r] IN
    /\ phase[r] = "new" /\ handle[c] /\ ~InCall(c)
    /\ SetPhase(r, IF closing THEN "rejected" ELSE "checked")
    /\ UNCHANGED <<conn, chan, counter, closing, closed, registered, people,
                   task, outcome, cur, reply, hist>>

\* Register the reply, if one is wanted, and count the request.
Count(r) ==
    /\ phase[r] = "checked"
    /\ SetPhase(r, "counted")
    /\ counter' = counter + 1
    /\ IF r \in Waited THEN Mailbox!Open(r) ELSE UNCHANGED reply
    /\ UNCHANGED <<conn, chan, closing, closed, registered, people, task,
                   outcome, cur, hist>>

\* try_send succeeds: the request is accepted.
CanSend == ~RxDead /\ ~Full

TrySend(r) ==
    /\ phase[r] = "counted" /\ CanSend
    /\ SetPhase(r, "queued")
    /\ queue' = Append(queue, r)
    /\ accepted' = Append(accepted, r)
    /\ UNCHANGED <<conn, rxClosed, counter, closing, closed, registered,
                   people, task, outcome, cur, reply, served>>

\* As if abandon_guard were forgotten on the failure path.
TrySendFailsKeepsLease(r) ==
    /\ phase[r] = "counted" /\ ~CanSend
    /\ SetPhase(r, "refused")
    /\ UNCHANGED <<conn, chan, counter, closing, closed, registered, people,
                   task, outcome, cur, reply, hist>>

\* try_send fails, BUSY or CLOSED: the lease is given up, then the count.
TrySendFails(r) ==
    /\ phase[r] = "counted" /\ ~CanSend
    /\ SetPhase(r, "refused")
    /\ IF r \in Waited THEN Mailbox!Abandon(r) ELSE UNCHANGED reply
    /\ UNCHANGED <<conn, chan, counter, closing, closed, registered, people,
                   task, outcome, cur, hist>>

\* As if the failure path returned without fetch_sub.
UncountForgotten(r) ==
    /\ phase[r] = "refused"
    /\ SetPhase(r, "rejected")
    /\ UNCHANGED <<conn, chan, counter, closing, closed, registered, people,
                   task, outcome, cur, reply, hist>>

Uncount(r) ==
    /\ phase[r] = "refused"
    /\ SetPhase(r, "rejected")
    /\ counter' = counter - 1
    /\ UNCHANGED <<conn, chan, closing, closed, registered, people, task,
                   outcome, cur, reply, hist>>

\* The service that waits for a call's reply.
Waiter(x) == IF x = Opening THEN Opener ELSE ClientOf[x]

\* The waiter decodes a reply, or its lease is closed or collected.
TakeReply(x) ==
    /\ ~InCall(Waiter(x))
    /\ x = Opening => conn = "failed"
    /\ Mailbox!Take(x)
    /\ UNCHANGED <<conn, chan, counter, closing, closed, registered, people,
                   calls, cur, hist>>

Walk(x) ==
    /\ ~InCall(Waiter(x))
    /\ Mailbox!Abandon(x)
    /\ UNCHANGED <<conn, chan, counter, closing, closed, registered, people,
                   calls, cur, hist>>

----------------------------------------------------------------------------
\* close(): the first caller to set the flag sends Close, all callers wait.
AlwaysFirst == TRUE
FirstClose == ~closing

CloseCall(k) ==
    LET c == ClientOf[k] IN
    /\ task[k] = "none" /\ handle[c] /\ ~InCall(c)
    /\ Mailbox!Open(k)
    /\ closing' = TRUE
    /\ SetTask(k, IF FirstClose THEN "sending" ELSE "waiting")
    /\ UNCHANGED <<conn, chan, counter, closed, registered, people, phase,
                   outcome, cur, hist>>

\* A same-name connect() takes the name over and closes this connection.
Replace ==
    /\ registered
    /\ registered' = FALSE
    /\ closing' = TRUE
    /\ IF FirstClose /\ Strong # {} THEN SetTask(Replacer, "sending")
                                    ELSE UNCHANGED task
    /\ UNCHANGED <<conn, chan, counter, closed, people, phase, outcome, cur,
                   reply, hist>>

\* What a task does once its Close is sent or has become pointless.
Sent(t) == IF t = Replacer THEN "done" ELSE "waiting"

\* tx.send(Close).await: at once, or parked until a permit is handed over.
SendClose(t) ==
    /\ task[t] = "sending" /\ CanSend
    /\ queue' = Append(queue, Close)
    /\ SetTask(t, Sent(t))
    /\ UNCHANGED <<conn, rxClosed, counter, closing, closed, registered,
                   people, phase, outcome, cur, reply, hist>>

Park(t) ==
    /\ task[t] = "sending" /\ ~RxDead /\ Full
    /\ SetTask(t, "parked")
    /\ UNCHANGED <<conn, chan, counter, closing, closed, registered, people,
                   phase, outcome, cur, reply, hist>>

SendGranted(t) ==
    /\ task[t] = "granted" /\ ~RxDead
    /\ queue' = Append(queue, Close)
    /\ SetTask(t, Sent(t))
    /\ UNCHANGED <<conn, rxClosed, counter, closing, closed, registered,
                   people, phase, outcome, cur, reply, hist>>

\* The receiver is gone: the send error is ignored.
SendFails(t) ==
    /\ task[t] \in {"sending", "parked", "granted"} /\ RxDead
    /\ SetTask(t, Sent(t))
    /\ UNCHANGED <<conn, chan, counter, closing, closed, registered, people,
                   phase, outcome, cur, reply, hist>>

\* As if the dropped watch::Sender of a dead handler went unnoticed.
CloseAnsweredByHandler(k) ==
    /\ task[k] = "waiting" /\ closed = "true"
    /\ SetTask(k, "done")
    /\ outcome' = [outcome EXCEPT ![k] = closed]
    /\ Mailbox!Answer(k)
    /\ UNCHANGED <<conn, chan, counter, closing, closed, registered, people,
                   phase, cur, hist>>

\* wait_for(closed): Closed, or WorkerCrashed when the handler was dropped.
CloseAnswered(k) ==
    /\ task[k] = "waiting" /\ closed # "open"
    /\ SetTask(k, "done")
    /\ outcome' = [outcome EXCEPT ![k] = closed]
    /\ Mailbox!Answer(k)
    /\ UNCHANGED <<conn, chan, counter, closing, closed, registered, people,
                   phase, cur, hist>>

----------------------------------------------------------------------------
\* A permit that recv frees goes to the parked sender first (tokio, external).
HandOver == task' = [t \in Tasks |-> IF task[t] = "parked" THEN "granted"
                                                           ELSE task[t]]

\* Leaving the loop at once, with the queue undrained.
RecvCloseLeaves ==
    /\ conn = "recv" /\ queue # <<>> /\ Head(queue) = Close
    /\ queue' = Tail(queue)
    /\ rxClosed' = TRUE
    /\ conn' = "leaving"
    /\ HandOver
    /\ UNCHANGED <<counter, closing, closed, registered, people, phase,
                   outcome, cur, reply, hist>>

\* rx.recv() yields Close: stop later sends, go on with what was accepted.
RecvClose ==
    /\ conn = "recv" /\ queue # <<>> /\ Head(queue) = Close
    /\ queue' = Tail(queue)
    /\ rxClosed' = TRUE
    /\ HandOver
    /\ UNCHANGED <<conn, counter, closing, closed, registered, people, phase,
                   outcome, cur, reply, hist>>

\* rx.recv() yields a request: it is carried out before the next recv.
Recv ==
    /\ conn = "recv" /\ queue # <<>> /\ Head(queue) # Close
    /\ queue' = Tail(queue)
    /\ cur' = Head(queue)
    /\ SetPhase(Head(queue), "running")
    /\ conn' = "running"
    /\ HandOver
    /\ UNCHANGED <<rxClosed, counter, closing, closed, registered, people,
                   outcome, reply, hist>>

\* The request is carried out, or fails, within its deadline (SqlxExec).
Execute ==
    /\ conn = "running"
    /\ conn' = "executed"
    /\ SetPhase(cur, "executed")
    /\ served' = Append(served, cur)
    /\ UNCHANGED <<chan, counter, closing, closed, registered, people, task,
                   outcome, cur, reply, accepted>>

\* finish_request: the count first, then the log line or the reply.
Settle ==
    /\ conn = "executed"
    /\ conn' = "settled"
    /\ SetPhase(cur, "settled")
    /\ counter' = counter - 1
    /\ UNCHANGED <<chan, closing, closed, registered, people, task, outcome,
                   cur, reply, hist>>

Respond ==
    /\ conn = "settled"
    /\ conn' = "recv"
    /\ SetPhase(cur, "done")
    /\ cur' = NoReq
    /\ IF cur \in Waited THEN Mailbox!Answer(cur) ELSE UNCHANGED reply
    /\ UNCHANGED <<chan, counter, closing, closed, registered, people, task,
                   outcome, hist>>

\* A panicking driver unwinds the task: the receiver goes with its queue.
Panic ==
    /\ MayPanic /\ conn = "running"
    /\ conn' = "panicked"
    /\ cur' = NoReq
    /\ queue' = <<>>
    /\ closed' = "dropped"
    /\ phase' = [r \in Requests |-> IF phase[r] \in {"queued", "running"}
                                      THEN "lost" ELSE phase[r]]
    /\ UNCHANGED <<rxClosed, counter, closing, registered, people, task,
                   outcome, reply, hist>>

\* recv() yields None: closed and drained, or no Sender is left.
LoopEnds ==
    /\ conn = "recv" /\ InUse = 0
    /\ rxClosed \/ Strong = {}
    /\ conn' = "leaving"
    /\ UNCHANGED <<chan, counter, closing, closed, registered, people, calls,
                   cur, reply, hist>>

\* Close the physical connection, remove the registry entry if it is ours.
Retire ==
    /\ conn = "leaving"
    /\ conn' = "retired"
    /\ registered' = FALSE
    /\ UNCHANGED <<chan, counter, closing, closed, people, calls, cur, reply,
                   hist>>

Signal ==
    /\ conn = "retired"
    /\ conn' = "gone"
    /\ closed' = "true"
    /\ UNCHANGED <<chan, counter, closing, registered, people, calls, cur,
                   reply, hist>>

----------------------------------------------------------------------------
Handler == \/ Announce \/ RecvClose \/ Recv \/ Execute \/ Settle \/ Respond
           \/ LoopEnds \/ Retire \/ Signal

Dial == DialFails \/ DialSucceeds

InCallStep(r) == Count(r) \/ TrySend(r) \/ TrySendFails(r) \/ Uncount(r)

CloseTask(t) == \/ SendClose(t) \/ Park(t) \/ SendGranted(t) \/ SendFails(t)
                \/ t \in Closers /\ CloseAnswered(t)

Next ==
    \/ Connect \/ Dial \/ TakeConnection \/ Handler \/ Panic \/ Replace
    \/ \E c \in Clients : \/ ReleaseHandle(c) \/ FindLook(c)
                          \/ FindUpgrade(c) \/ FindStale(c)
    \/ \E r \in Requests : Check(r) \/ InCallStep(r)
    \/ \E k \in Closers : CloseCall(k)
    \/ \E t \in Tasks : CloseTask(t)
    \/ \E x \in Calls : TakeReply(x) \/ Walk(x)

Spec == Init /\ [][Next]_vars

\* tokio polls its tasks, a native call runs to its end, every await of the
\* handler is bounded by request_timeout.  Nothing is assumed of the services:
\* whether they issue, wait, walk away or ever drop a handle.
Fairness ==
    /\ WF_vars(Handler) /\ WF_vars(Dial)
    /\ \A r \in Requests : WF_vars(InCallStep(r))
    /\ \A c \in Clients : WF_vars(FindUpgrade(c))
    /\ \A t \in Tasks : WF_vars(CloseTask(t))

FairSpec == Spec /\ Fairness

----------------------------------------------------------------------------
\* Requests whose increment of the counter is not yet paid back.
Pending == {r \in Requests :
              phase[r] \in {"counted", "refused", "queued", "running",
                            "executed", "lost"}}

\* stats() never misses work: the counter is exactly the number of requests
\* being submitted, queued or carried out, across every interleaving of
\* fetch_add/try_send/fetch_sub with the handler's fetch_sub.
CounterIsPending == counter = Cardinality(Pending)

\* The Close message is sent at most once in the life of a connection, by
\* whoever sets the closing flag first: close() or a same-name replacement.
Sending(t) == task[t] \in {"sending", "parked", "granted"}
CloseAt(i) == i \in DOMAIN queue /\ queue[i] = Close

SingleClose ==
    /\ \A t, u \in Tasks : Sending(t) /\ Sending(u) => t = u
    /\ \A i, j \in DOMAIN queue : CloseAt(i) /\ CloseAt(j) => i = j
    /\ (\E t \in Tasks : Sending(t)) =>
          ~rxClosed /\ \A i \in DOMAIN queue : ~CloseAt(i)
    /\ rxClosed => \A i \in DOMAIN queue : ~CloseAt(i)

\* Closed means drained: when the watch says so, and so whenever a close()
\* call is answered Closed, everything the queue accepted - also behind the
\* Close message - has been carried out and answered.
Unfinished == {"queued", "running", "executed", "settled", "lost"}

ClosedIsDrained ==
    /\ closed = "true" =>
          queue = <<>> /\ \A r \in Requests : phase[r] \notin Unfinished
    /\ \A k \in Closers : outcome[k] = "true" => closed = "true"

\* A reply is never early, doubled or left behind: it becomes readable only
\* once its request is finished and uncounted, it waits exactly as long as
\* the request is under way, and a refused submission leaves no waiter.
RepliesMatchPhases ==
    \A r \in Waited :
        /\ phase[r] \in {"new", "checked"} => reply[r] = "none"
        /\ phase[r] = "rejected" => reply[r] \in {"none", "abandoned"}
        /\ reply[r] \in {"ready", "taken"} => phase[r] = "done"
        /\ reply[r] = "waiting" => phase[r] \in {"counted", "lost"} \cup Unfinished

\* The connection keeps the promise of SqlxFifo: accepted requests are
\* carried out in order of acceptance, each once, none after Closed.
Fifo == INSTANCE SqlxFifo WITH shut <- (closed = "true")

ImplementsFifo == Fifo!Spec

\* Every accepted request is carried out and finished, whoever closes,
\* replaces or abandons the connection meanwhile; only a driver that panics
\* takes the requests it finds in the queue with it.
AcceptedFinish ==
    \A r \in Requests : phase[r] = "queued" ~> phase[r] \in {"done", "lost"}

\* Every close() call is answered, the first and the repeated ones, also
\* when the queue is full or the handler dies before it reads Close.
ClosersAnswered ==
    \A k \in Closers : task[k] # "none" ~> task[k] = "done"

\* A connection nobody can reach any more closes itself: handles collected,
\* connect() abandoned, and the registry holding only a weak reference.
Unreachable ==
    /\ \A c \in Clients : ~handle[c] /\ ~finding[c]
    /\ \A t \in Tasks : ~Sending(t)
    /\ reply[Opening] \in {"taken", "abandoned"}

UnreachableRetires == (conn = "recv" /\ Unreachable) ~>
    conn \in {"gone", "panicked"}
=============================================================================

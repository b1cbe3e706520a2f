----------------------------- MODULE SqlxNames ------------------------------
(***************************************************************************)
(* The generations of one SQLx connection name (lua_sqlx.rs): connect()    *)
(* calls that race for the name, the entry of DATABASE_CONNECTIONS, the    *)
(* takeover, find_connection and its removal of stale entries, the close   *)
(* calls and the removal of the entry by the handler.                      *)
(*                                                                         *)
(* A connection is the connect() call that opened it, which is also its    *)
(* Arc identity.  The queue of one connection, the order in it and the     *)
(* answers are the subject of SqlxActor; here a queue is the number of     *)
(* requests counted in it and where its one Close message stands.          *)
(***************************************************************************)
EXTENDS Naturals

CONSTANTS
    Conns,      \* connect() calls for the name, each made once
    Clients,    \* Lua services
    OpenerOf,   \* the service that makes each of the calls
    NoConn,     \* no connection
    MaxWork     \* bound: requests accepted by all connections together

ASSUME NamesAssumption ==
    /\ OpenerOf \in [Conns -> Clients]
    /\ NoConn \notin Conns
    /\ MaxWork \in Nat

VARIABLES
    entry,      \* what DATABASE_CONNECTIONS holds under the name
    life,       \* where each connection's task stands
    prev,       \* prev[g]: what the insert of g returned, not yet dealt with
    closing,    \* the AtomicBool of each connection
    closeMsg,   \* the Close message of each connection
    work,       \* its counter: requests accepted and not finished
    issued,     \* history: how many requests were accepted
    handles,    \* handles[c]: the DatabaseConnection userdata service c holds,
                \* or has in an answer it has not decoded yet
    call,       \* the native call each service is in the middle of
    latest      \* history: the connection inserted last

task   == <<life, prev>>
conn   == <<closing, closeMsg, work, issued>>
lua    == <<handles, call>>
vars   == <<entry, task, conn, lua, latest>>

Idle == [at |-> "idle", conn |-> NoConn]
In(at, g) == [at |-> at, conn |-> g]
Enters(c, at, g) == call' = [call EXCEPT ![c] = In(at, g)]
Leaves(c) == call' = [call EXCEPT ![c] = Idle]

Init ==
    /\ entry = NoConn /\ latest = NoConn
    /\ life     = [g \in Conns |-> "none"]
    /\ prev     = [g \in Conns |-> NoConn]
    /\ closing  = [g \in Conns |-> FALSE]
    /\ closeMsg = [g \in Conns |-> "none"]
    /\ work     = [g \in Conns |-> 0]
    /\ issued   = 0
    /\ handles  = [c \in Clients |-> {}]
    /\ call     = [c \in Clients |-> Idle]

\* Somebody holds a strong Sender: a handle, the task that is to send Close,
\* the connect task until it enters the handler.
Reachable(g) ==
    \/ \E c \in Clients : g \in handles[c]
    \/ closeMsg[g] = "sending"
    \/ life[g] \in {"inserted", "swapped"}

\* remove_if with ptr_eq: an entry is only removed for its own connection.
RemoveAnyway(g) == entry' = NoConn
Remove(g) == entry' = IF entry = g THEN NoConn ELSE entry

\* The flag is swapped; whoever is first sends the Close message.
Send(g) ==
    /\ closing' = [closing EXCEPT ![g] = TRUE]
    /\ closeMsg' = IF closing[g] THEN closeMsg
                                 ELSE [closeMsg EXCEPT ![g] = "sending"]

----------------------------------------------------------------------------
Connect(g) ==
    /\ life[g] = "none" /\ call[OpenerOf[g]] = Idle
    /\ life' = [life EXCEPT ![g] = "dialing"]
    /\ UNCHANGED <<entry, prev, conn, lua, latest>>

DialFails(g) ==
    /\ life[g] = "dialing"
    /\ life' = [life EXCEPT ![g] = "failed"]
    /\ UNCHANGED <<entry, prev, conn, lua, latest>>

\* The new connection takes the name, and gets the one that had it.
Insert(g) ==
    /\ life[g] = "dialing"
    /\ life' = [life EXCEPT ![g] = "inserted"]
    /\ prev' = [prev EXCEPT ![g] = entry]
    /\ entry' = g /\ latest' = g
    /\ UNCHANGED <<conn, lua>>

\* As if the weak Sender of the previous connection were never upgraded.
SwapOnly(g) ==
    /\ life[g] = "inserted"
    /\ life' = [life EXCEPT ![g] = "swapped"]
    /\ prev' = [prev EXCEPT ![g] = NoConn]
    /\ closing' = [h \in Conns |-> closing[h] \/ h = prev[g]]
    /\ UNCHANGED <<entry, closeMsg, work, issued, lua, latest>>

\* As if a connection that had the name were left to itself.
SwapForgotten(g) ==
    /\ life[g] = "inserted"
    /\ life' = [life EXCEPT ![g] = "swapped"]
    /\ prev' = [prev EXCEPT ![g] = NoConn]
    /\ UNCHANGED <<entry, conn, lua, latest>>

\* The previous connection is told to close, if anybody still holds it.
Swap(g) ==
    /\ life[g] = "inserted"
    /\ life' = [life EXCEPT ![g] = "swapped"]
    /\ prev' = [prev EXCEPT ![g] = NoConn]
    /\ IF prev[g] = NoConn
         THEN UNCHANGED <<closing, closeMsg>>
         ELSE IF Reachable(prev[g])
           THEN Send(prev[g])
           ELSE closing' = [closing EXCEPT ![prev[g]] = TRUE] /\ UNCHANGED closeMsg
    /\ UNCHANGED <<entry, work, issued, lua, latest>>

\* The answer carries a handle; the task drops its own Sender.
Announce(g) ==
    /\ life[g] = "swapped"
    /\ life' = [life EXCEPT ![g] = "open"]
    /\ handles' = [handles EXCEPT ![OpenerOf[g]] = @ \cup {g}]
    /\ UNCHANGED <<entry, prev, conn, call, latest>>

\* __gc of a DatabaseConnection, or of the lease of the unread answer.
Release(c, g) ==
    /\ g \in handles[c] /\ call[c] = Idle
    /\ handles' = [handles EXCEPT ![c] = @ \ {g}]
    /\ UNCHANGED <<entry, task, conn, call, latest>>

----------------------------------------------------------------------------
\* find_connection: clone the entry, look at its flag and upgrade its Sender
\* (a flag set in between changes nothing for the service, which may as well
\* have been given the handle before), and remove the entry when either says
\* that the connection is over.
Look(c) ==
    /\ call[c] = Idle /\ entry # NoConn
    /\ Enters(c, "looked", entry)
    /\ UNCHANGED <<entry, task, conn, handles, latest>>

Upgrade(c) ==
    LET g == call[c].conn IN
    /\ call[c].at = "looked"
    /\ IF ~closing[g] /\ Reachable(g)
         THEN handles' = [handles EXCEPT ![c] = @ \cup {g}] /\ Leaves(c)
         ELSE Enters(c, "stale", g) /\ UNCHANGED handles
    /\ UNCHANGED <<entry, task, conn, latest>>

RemoveStale(c) ==
    /\ call[c].at = "stale"
    /\ Remove(call[c].conn)
    /\ Leaves(c)
    /\ UNCHANGED <<task, conn, handles, latest>>

\* A request: the flag first, then try_send, which may find the queue full
\* or its receiver closed.
Check(c, g) ==
    /\ g \in handles[c] /\ call[c] = Idle
    /\ ~closing[g] /\ issued < MaxWork
    /\ Enters(c, "checked", g)
    /\ UNCHANGED <<entry, task, conn, handles, latest>>

TrySend(c) ==
    LET g == call[c].conn IN
    /\ call[c].at = "checked"
    /\ Leaves(c)
    /\ \/ /\ closeMsg[g] # "received" /\ issued < MaxWork
          /\ work' = [work EXCEPT ![g] = @ + 1]
          /\ issued' = issued + 1
       \/ UNCHANGED <<work, issued>>
    /\ UNCHANGED <<entry, task, closing, closeMsg, handles, latest>>

CloseCall(c, g) ==
    /\ g \in handles[c] /\ call[c] = Idle
    /\ Send(g)
    /\ UNCHANGED <<entry, task, work, issued, lua, latest>>

\* The spawned task gets its Close into the queue and drops its Sender.
CloseSent(g) ==
    /\ closeMsg[g] = "sending"
    /\ closeMsg' = [closeMsg EXCEPT ![g] = "queued"]
    /\ UNCHANGED <<entry, task, closing, work, issued, lua, latest>>

----------------------------------------------------------------------------
RecvClose(g) ==
    /\ life[g] = "open" /\ closeMsg[g] = "queued"
    /\ closeMsg' = [closeMsg EXCEPT ![g] = "received"]
    /\ UNCHANGED <<entry, task, closing, work, issued, lua, latest>>

Serve(g) ==
    /\ life[g] = "open" /\ work[g] > 0
    /\ work' = [work EXCEPT ![g] = @ - 1]
    /\ UNCHANGED <<entry, task, closing, closeMsg, issued, lua, latest>>

LoopEnds(g) ==
    /\ life[g] = "open" /\ work[g] = 0 /\ closeMsg[g] # "queued"
    /\ closeMsg[g] = "received" \/ ~Reachable(g)
    /\ life' = [life EXCEPT ![g] = "leaving"]
    /\ UNCHANGED <<entry, prev, conn, lua, latest>>

\* After the physical close, which other connections do not wait for.
Retire(g) ==
    /\ life[g] = "leaving"
    /\ life' = [life EXCEPT ![g] = "gone"]
    /\ Remove(g)
    /\ UNCHANGED <<prev, conn, lua, latest>>

ConnectTask(g) == DialFails(g) \/ Insert(g) \/ Swap(g) \/ Announce(g)
Handler(g) == RecvClose(g) \/ Serve(g) \/ LoopEnds(g) \/ Retire(g)
InCall(c) == Upgrade(c) \/ RemoveStale(c) \/ TrySend(c)

Next ==
    \/ \E g \in Conns : \/ Connect(g) \/ ConnectTask(g)
                        \/ CloseSent(g) \/ Handler(g)
    \/ \E c \in Clients : Look(c) \/ InCall(c)
    \/ \E c \in Clients, g \in Conns :
          Release(c, g) \/ Check(c, g) \/ CloseCall(c, g)

Spec == Init /\ [][Next]_vars

\* tokio polls the spawned tasks, native calls run to their end; nothing is
\* assumed of the services.
Fairness ==
    /\ \A g \in Conns : /\ WF_vars(ConnectTask(g)) /\ WF_vars(Handler(g))
                        /\ WF_vars(CloseSent(g))
    /\ \A c \in Clients : WF_vars(InCall(c))

FairSpec == Spec /\ Fairness

----------------------------------------------------------------------------
\* The connection that took the name last is found under it for as long as
\* it takes requests, although older generations retire, and find_connection
\* calls that looked at an older entry remove it, after the takeover.
LatestIsFound ==
    latest # NoConn /\ ~closing[latest] /\ Reachable(latest) => entry = latest

\* A name never has two generations that take requests: every connection but
\* the last is closing, about to be told so by its successor, or unreachable.
Opened == {g \in Conns : life[g] \notin {"none", "dialing", "failed"}}

OneGeneration ==
    \A g \in Opened \ {latest} :
        closing[g] \/ ~Reachable(g) \/ \E h \in Conns : prev[h] = g

\* What stats() and find_connection no longer show comes to its end, its
\* requests served, although services keep their handles to it: a takeover
\* or a removed entry leaves no connection behind.
UnfoundEnds == \A g \in Conns : (g \in Opened /\ entry # g) ~> life[g] = "gone"
=============================================================================

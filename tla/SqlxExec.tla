------------------------------ MODULE SqlxExec ------------------------------
(***************************************************************************)
(* How database_handler carries one request out (lua_sqlx.rs): the         *)
(* cooldown check, the reconnection, the phases of a query, execute, batch *)
(* or transaction up to its answer, the request deadline that may fall     *)
(* into any await, the classification of the failure, the decision to drop *)
(* the physical connection, and the log gate of fire-and-forget requests.  *)
(* The queue in front of the handler is the subject of SqlxActor: here any *)
(* request not yet received may be the next one.                           *)
(*                                                                         *)
(* The database (external) answers, fails, loses the link or stays silent; *)
(* wire records what of an unfinished exchange its connection still holds. *)
(***************************************************************************)
EXTENDS SqlxRetry

CONSTANTS
    Requests,       \* the requests, each received once
    NoReq,
    KindOf,         \* "query", "execute", "batch" or "transaction"
    StatementsOf,   \* how many statements the request holds
    Waited,         \* the requests whose caller waits for the answer
    MaxNow          \* bound: the last tick of the clock

ASSUME ExecAssumption ==
    /\ NoReq \notin Requests
    /\ KindOf \in [Requests -> {"query", "execute", "batch", "transaction"}]
    /\ StatementsOf \in [Requests -> Nat]
    /\ \A r \in Requests : KindOf[r] # "transaction" => StatementsOf[r] = 1
    /\ Waited \subseteq Requests
    /\ MaxNow \in Nat

VARIABLES
    pc,         \* where the handler stands
    op,         \* the request it carries out, or NoReq
    backend,    \* the Option<DatabaseBackend>: "none" or "open"
    wire,       \* what the open connection holds of an unfinished exchange
    started,    \* execution_started
    next,       \* the transaction statement to bind next
    resp,       \* the response so far
    before,     \* it was turned into its ...BeforeExecution form
    backoff,    \* the ReconnectBackoff
    gate,       \* the ConnectionLogGate
    now,        \* the clock
    sent,       \* history: statements of a request handed to the database
    durable,    \* history: does the database keep what the request wrote?
    answer,     \* history: what each caller was told
    failures,   \* history: connect failures of fire-and-forget requests
    logged      \* history: connect failures the log accounts for

request == <<op, started, next, resp, before>>
policy  == <<backoff, gate, now>>
ghosts  == <<sent, durable, answer, failures, logged>>
vars    == <<pc, request, backend, wire, policy, ghosts>>

Awaiting == {"run", "begin", "stmt", "rollback", "commit"}
PCs == {"recv", "dial", "ready", "bind", "stmtbind", "classify", "finish"}
         \cup Awaiting

Errors    == {"error_local", "error_db", "error_conn"}
Responses == {"none", "ok", "timeout", "disconnected", "row_limit",
              "connect_failed", "cooldown"} \cup Errors

\* What may be left on a connection: an open transaction, an unfinished
\* exchange, or nobody at the other end.
Leftovers == {"txn", "inflight", "broken"}
Clean     == {}

TypeOK ==
    /\ pc \in PCs
    /\ op \in Requests \cup {NoReq}
    /\ backend \in {"none", "open"}
    /\ wire \in SUBSET Leftovers
    /\ started \in BOOLEAN /\ before \in BOOLEAN
    /\ next \in Nat \ {0}
    /\ resp \in Responses
    /\ backoff \in Backoffs
    /\ gate \in Gates
    /\ now \in Nat
    /\ sent \in [Requests -> Nat]
    /\ durable \in [Requests -> {"no", "maybe", "yes"}]
    /\ answer \in [Requests -> [tag : Responses, before : BOOLEAN]]
    /\ failures \in Nat /\ logged \in Nat

Unanswered == [tag |-> "none", before |-> FALSE]

\* connect() hands the handler an open connection.
Init ==
    /\ pc = "recv" /\ op = NoReq
    /\ backend = "open" /\ wire = Clean
    /\ started = FALSE /\ next = 1 /\ resp = "none" /\ before = FALSE
    /\ backoff = NoBackoff /\ gate = NewGate /\ now = 0
    /\ sent = [r \in Requests |-> 0]
    /\ durable = [r \in Requests |-> "no"]
    /\ answer = [r \in Requests |-> Unanswered]
    /\ failures = 0 /\ logged = 0

----------------------------------------------------------------------------
\* The exchange on the wire begins, or comes to its end.
Begins == wire' = wire \cup {"inflight"}
Ends   == wire' = wire \ {"inflight"}
Breaks == wire' = wire \cup {"broken"}

Respond(tag) == resp' = tag /\ pc' = "classify"
Keeps(verdict) == durable' = [durable EXCEPT ![op] = verdict]

Tick ==
    /\ now < MaxNow
    /\ now' = now + 1
    /\ UNCHANGED <<pc, request, backend, wire, backoff, gate, ghosts>>

\* rx.recv(): without a connection a request inside the cooldown fails at
\* once; otherwise the request gets its own phase flags.
Receive(r) ==
    /\ pc = "recv" /\ answer[r] = Unanswered
    /\ op' = r
    /\ started' = FALSE /\ next' = 1 /\ before' = FALSE
    /\ IF backend = "none" /\ RetryAfterMs(backoff, now) > 0
         THEN resp' = "cooldown" /\ pc' = "finish"
         ELSE /\ resp' = "none"
              /\ pc' = IF backend = "none" THEN "dial" ELSE "ready"
    /\ UNCHANGED <<backend, wire, policy, ghosts>>

DialOk ==
    /\ pc = "dial"
    /\ backend' = "open" /\ wire' = Clean
    /\ pc' = "ready"
    /\ UNCHANGED <<request, policy, ghosts>>

\* Refused, connect_timeout, or the request deadline inside the handshake.
DialFails ==
    /\ pc = "dial"
    /\ backoff' = Failed(backoff, now)
    /\ resp' = "connect_failed" /\ pc' = "finish"
    /\ UNCHANGED <<op, started, next, before, backend, wire, gate, now, ghosts>>

\* connecting = false; reconnect.reset(); then the operation by its kind.
Ready ==
    /\ pc = "ready"
    /\ backoff' = NoBackoff
    /\ IF KindOf[op] = "transaction" THEN pc' = "begin" /\ Begins
                                     ELSE pc' = "bind" /\ UNCHANGED wire
    /\ UNCHANGED <<request, backend, gate, now, ghosts>>

----------------------------------------------------------------------------
\* query and execute bind their arguments locally; a batch has none.
BindFails ==
    /\ pc = "bind" /\ KindOf[op] # "batch"
    /\ Respond("error_local")
    /\ UNCHANGED <<op, started, next, before, backend, wire, policy, ghosts>>

\* The flag is set before the statement is first polled.
MarksNothing == UNCHANGED started
Marks == started' = TRUE

Submit ==
    /\ Marks
    /\ sent' = [sent EXCEPT ![op] = @ + 1]
    /\ Begins

Run ==
    /\ pc = "bind"
    /\ Submit
    /\ pc' = "run"
    /\ UNCHANGED <<op, next, resp, before, backend, policy, durable, answer,
                   failures, logged>>

RunOk ==
    /\ pc = "run"
    /\ Ends /\ Keeps("yes") /\ Respond("ok")
    /\ UNCHANGED <<op, started, next, before, backend, policy, sent, answer,
                   failures, logged>>

\* A database error undoes one statement; a batch may have run some before.
RunDbError ==
    /\ pc = "run"
    /\ IF KindOf[op] = "batch" THEN Keeps("maybe") ELSE UNCHANGED durable
    /\ Ends /\ Respond("error_db")
    /\ UNCHANGED <<op, started, next, before, backend, policy, sent, answer,
                   failures, logged>>

RunLinkLost ==
    /\ pc = "run"
    /\ Breaks /\ Keeps("maybe") /\ Respond("error_conn")
    /\ UNCHANGED <<op, started, next, before, backend, policy, sent, answer,
                   failures, logged>>

\* One row more than max_rows: the stream is dropped with rows unread.
RowLimit ==
    /\ pc = "run" /\ KindOf[op] = "query"
    /\ Keeps("maybe") /\ Respond("row_limit")
    /\ UNCHANGED <<op, started, next, before, backend, wire, policy, sent,
                   answer, failures, logged>>

----------------------------------------------------------------------------
\* transaction(): BEGIN.
BeginOk ==
    /\ pc = "begin"
    /\ wire' = (wire \ {"inflight"}) \cup {"txn"}
    /\ pc' = "stmtbind"
    /\ UNCHANGED <<request, backend, policy, ghosts>>

BeginFails ==
    /\ pc = "begin"
    /\ \/ Ends /\ Respond("error_db")
       \/ Breaks /\ Respond("error_conn")
    /\ UNCHANGED <<op, started, next, before, backend, policy, ghosts>>

\* The next statement of the list is bound and submitted.
StmtRun ==
    /\ pc = "stmtbind" /\ next <= StatementsOf[op]
    /\ Submit
    /\ pc' = "stmt"
    /\ UNCHANGED <<op, next, resp, before, backend, policy, durable, answer,
                   failures, logged>>

\* A failed statement goes to an awaited ROLLBACK, its error kept in resp.
StmtBindFails ==
    /\ pc = "stmtbind" /\ next <= StatementsOf[op]
    /\ resp' = "error_local" /\ pc' = "rollback" /\ Begins
    /\ UNCHANGED <<op, started, next, before, backend, policy, ghosts>>

StmtOk ==
    /\ pc = "stmt"
    /\ Ends
    /\ next' = next + 1 /\ pc' = "stmtbind"
    /\ UNCHANGED <<op, started, resp, before, backend, policy, ghosts>>

\* Reporting the error at once would leave the ROLLBACK to a later request.
StmtFailsNoRollback ==
    /\ pc = "stmt"
    /\ \/ Respond("error_db") /\ Ends
       \/ Respond("error_conn") /\ Breaks
    /\ UNCHANGED <<op, started, next, before, backend, policy, ghosts>>

StmtFails ==
    /\ pc = "stmt"
    /\ \/ resp' = "error_db" /\ Begins
       \/ resp' = "error_conn" /\ wire' = wire \cup {"broken", "inflight"}
    /\ pc' = "rollback"
    /\ UNCHANGED <<op, started, next, before, backend, policy, ghosts>>

RollbackOk ==
    /\ pc = "rollback" /\ "broken" \notin wire
    /\ wire' = wire \ {"inflight", "txn"}
    /\ pc' = "classify"
    /\ UNCHANGED <<request, backend, policy, ghosts>>

RollbackFails ==
    /\ pc = "rollback"
    /\ Respond("disconnected")
    /\ UNCHANGED <<op, started, next, before, backend, wire, policy, ghosts>>

CommitSent ==
    /\ pc = "stmtbind" /\ next > StatementsOf[op]
    /\ Begins /\ pc' = "commit"
    /\ UNCHANGED <<request, backend, policy, ghosts>>

CommitOk ==
    /\ pc = "commit"
    /\ wire' = wire \ {"inflight", "txn"}
    /\ Keeps("yes") /\ Respond("ok")
    /\ UNCHANGED <<op, started, next, before, backend, policy, sent, answer,
                   failures, logged>>

\* As if COMMIT were followed by a bare question mark.
CommitFailsPlainly ==
    /\ pc = "commit"
    /\ Keeps("maybe") /\ Respond("error_db")
    /\ UNCHANGED <<op, started, next, before, backend, wire, policy, sent,
                   answer, failures, logged>>

CommitFails ==
    /\ pc = "commit"
    /\ Keeps("maybe") /\ Respond("disconnected")
    /\ UNCHANGED <<op, started, next, before, backend, wire, policy, sent,
                   answer, failures, logged>>

----------------------------------------------------------------------------
\* request_timeout drops the operation at whatever await it stands.  A lost
\* connection rolls an uncommitted transaction back in the database.
DeadlineSparesRollback ==
    /\ pc \in Awaiting \ {"rollback"}
    /\ IF pc \in {"run", "commit"} THEN Keeps("maybe") ELSE UNCHANGED durable
    /\ Respond("timeout")
    /\ UNCHANGED <<op, started, next, before, backend, wire, policy, sent,
                   answer, failures, logged>>

Deadline ==
    /\ pc \in Awaiting
    /\ IF pc \in {"run", "commit"} THEN Keeps("maybe") ELSE UNCHANGED durable
    /\ Respond("timeout")
    /\ UNCHANGED <<op, started, next, before, backend, wire, policy, sent,
                   answer, failures, logged>>

\* classify_execution, requires_disconnect.
MarkedBefore(tag, begun) == ~begun /\ tag \in Errors \cup {"timeout"}

RequiresDisconnectNoRows(tag) == tag \in {"timeout", "disconnected", "error_conn"}
RequiresDisconnect(tag) ==
    tag \in {"timeout", "row_limit", "disconnected", "error_conn"}

Classify ==
    /\ pc = "classify"
    /\ before' = MarkedBefore(resp, started)
    /\ backend' = IF RequiresDisconnect(resp) THEN "none" ELSE backend
    /\ wire' = IF RequiresDisconnect(resp) THEN Clean ELSE wire
    /\ pc' = "finish"
    /\ UNCHANGED <<op, started, next, resp, policy, ghosts>>

\* finish_request: the log line of a request nobody waits for passes the gate
\* when it is a connect failure; a waiter gets its answer.
Gated == op \notin Waited /\ resp \in {"connect_failed", "cooldown"}

Finish ==
    /\ pc = "finish"
    /\ answer' = [answer EXCEPT ![op] = [tag |-> resp, before |-> before]]
    /\ IF Gated
         THEN /\ gate' = GateTake(gate, now)
              /\ failures' = failures + 1
              /\ logged' = IF Muted(gate, now) THEN logged
                           ELSE logged + 1 + gate.suppressed
         ELSE UNCHANGED <<gate, failures, logged>>
    /\ op' = NoReq /\ pc' = "recv"
    /\ UNCHANGED <<started, next, resp, before, backend, wire, backoff, now,
                   sent, durable>>

----------------------------------------------------------------------------
\* Steps that wait for nobody.
LocalStep ==
    \/ Ready \/ BindFails \/ Run \/ StmtRun \/ StmtBindFails \/ CommitSent
    \/ Classify \/ Finish

\* What the database may do.
DatabaseStep ==
    \/ DialOk \/ RunOk \/ RunDbError \/ RunLinkLost \/ RowLimit
    \/ BeginOk \/ BeginFails \/ StmtOk \/ StmtFails
    \/ RollbackOk \/ RollbackFails \/ CommitOk \/ CommitFails

Next ==
    \/ Tick \/ LocalStep \/ DatabaseStep \/ DialFails \/ Deadline
    \/ \E r \in Requests : Receive(r)

Spec == Init /\ [][Next]_vars

\* Only timers and the handler itself are relied on, never the database.
FairSpec == Spec /\ WF_vars(LocalStep) /\ WF_vars(DialFails) /\ WF_vars(Deadline)

----------------------------------------------------------------------------
\* What decode() marks not_executed.
NotExecuted(r) ==
    answer[r].before \/ answer[r].tag \in {"connect_failed", "cooldown"}

\* not_executed is a proof, not a guess: an error so marked never belongs to
\* a request of which any statement was handed to the database.
NotExecutedIsTrue == \A r \in Requests : NotExecuted(r) => sent[r] = 0

\* A connection is kept for the next request only when the last one left
\* nothing on it: no open transaction, no unread rows, no cancelled exchange.
CleanReuse == pc \in {"recv", "ready"} /\ backend = "open" => wire = Clean

\* The answer tells what the database did: success means every statement ran
\* and was kept; an outcome nobody knows is told as timeout, lost link, failed
\* commit or row limit and never as not_executed; a plain error means that
\* nothing was kept, except of a batch, which is no transaction.
AnswersAreHonest ==
    \A r \in Requests :
        /\ answer[r].tag = "ok" => durable[r] = "yes" /\ sent[r] = StatementsOf[r]
        /\ answer[r].tag = "error_local" => durable[r] = "no"
        /\ answer[r].tag = "error_db" =>
              durable[r] = "no" \/ (KindOf[r] = "batch" /\ ~NotExecuted(r))
        /\ (durable[r] = "maybe" /\ answer[r] # Unanswered) =>
              \/ sent[r] = 0
              \/ KindOf[r] = "batch" /\ answer[r].tag = "error_db"
              \/ /\ ~NotExecuted(r)
                 /\ answer[r].tag \in {"timeout", "error_conn", "disconnected",
                                       "row_limit"}

\* Only failed connection attempts start the cooldown, and an open
\* connection has none: query timeouts never delay the reconnection.
CooldownNeedsNoConnection ==
    pc = "recv" /\ backend = "open" => backoff = NoBackoff

\* No attempt to connect is made before the retry instant.
CooldownKept ==
    [][pc # "dial" /\ pc' = "dial" => now >= backoff.retryAt]_vars

\* Suppressed log lines are not lost: every fire-and-forget connect failure
\* is either accounted for in the log or still counted by the gate.
FailuresAccountedFor == failures = logged + gate.suppressed

\* A request never keeps the actor: the deadline ends it in every phase,
\* handshake, BEGIN, ROLLBACK and COMMIT included.
RequestsFinish == pc # "recv" ~> pc = "recv"
=============================================================================

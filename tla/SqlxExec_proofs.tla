-------------------------- MODULE SqlxExec_proofs ---------------------------
(***************************************************************************)
(* Safety of SqlxExec for every set of requests, every statement list and  *)
(* every setting of the reconnect policy.  The invariant says, phase by    *)
(* phase, what the wire holds, what has been submitted and what the answer *)
(* under construction claims; each property is a consequence of it.        *)
(* The last part is about the dates and times in the rows that a request   *)
(* brings back: Calendar, for every number of days and micros.             *)
(***************************************************************************)
EXTENDS SqlxExec, Calendar, TLAPS

\* What is on the wire in each phase.
WireInv ==
    /\ pc \in {"ready", "bind"} => wire = Clean
    /\ pc \in {"run", "begin"} => wire = {"inflight"}
    /\ pc = "stmtbind" => wire = {"txn"}
    /\ pc \in {"stmt", "commit"} => wire = {"txn", "inflight"}
    /\ pc = "classify" /\ ~RequiresDisconnect(resp) => wire = Clean
    /\ pc \in {"recv", "finish"} /\ backend = "open" => wire = Clean

\* Which request is under way, and whether there is a connection.
PhaseInv ==
    /\ pc = "recv" <=> op = NoReq
    /\ op \in Requests => answer[op] = Unanswered
    /\ pc = "dial" => backend = "none"
    /\ pc \notin {"recv", "dial", "finish"} => backend = "open"
    /\ pc \in {"bind", "run"} => KindOf[op] # "transaction"
    /\ pc \in {"begin", "stmtbind", "stmt", "rollback", "commit"} =>
          KindOf[op] = "transaction"
    /\ pc \in {"begin", "dial", "ready"} => next = 1
    /\ pc = "rollback" => resp \in Errors
    /\ pc = "classify" => resp \notin {"none", "connect_failed", "cooldown"}
    /\ pc = "finish" => resp # "none"

\* How far the request has been submitted.
SentInv ==
    /\ pc \in {"dial", "ready", "bind", "begin"} => sent[op] = 0 /\ ~started
    /\ pc = "run" => sent[op] = 1 /\ started
    /\ pc = "stmtbind" => sent[op] = next - 1 /\ next <= StatementsOf[op] + 1
    /\ pc = "stmt" => sent[op] = next /\ next <= StatementsOf[op]
    /\ pc = "commit" => sent[op] = next - 1 /\ next = StatementsOf[op] + 1
    /\ pc \notin {"recv", "finish"} /\ sent[op] > 0 => started
    /\ pc \notin {"recv", "classify", "finish"} => durable[op] = "no"
    /\ \A r \in Requests : r # op /\ answer[r] = Unanswered =>
          sent[r] = 0 /\ durable[r] = "no"

\* What an answer (tag, bef) to request r claims about the database.
ClaimsNotExecuted(tag, bef) == bef \/ tag \in {"connect_failed", "cooldown"}

Honest(r, tag, bef) ==
    /\ ClaimsNotExecuted(tag, bef) => sent[r] = 0
    /\ tag = "ok" => durable[r] = "yes" /\ sent[r] = StatementsOf[r]
    /\ tag = "error_local" => durable[r] = "no"
    /\ tag = "error_db" =>
          durable[r] = "no" \/ (KindOf[r] = "batch" /\ ~ClaimsNotExecuted(tag, bef))
    /\ durable[r] = "maybe" =>
          \/ sent[r] = 0
          \/ KindOf[r] = "batch" /\ tag = "error_db"
          \/ /\ ~ClaimsNotExecuted(tag, bef)
             /\ tag \in {"timeout", "error_conn", "disconnected", "row_limit"}

AnswerInv ==
    /\ pc = "classify" => Honest(op, resp, MarkedBefore(resp, started))
    /\ pc = "finish" => Honest(op, resp, before)
    /\ \A r \in Requests : answer[r] # Unanswered =>
          Honest(r, answer[r].tag, answer[r].before)

\* Past Ready there is no backoff; a failed attempt leaves no connection.
BackoffInv ==
    pc \notin {"dial", "ready"} /\ backend = "open" => backoff = NoBackoff

IInv == /\ TypeOK /\ WireInv /\ PhaseInv /\ SentInv /\ AnswerInv /\ BackoffInv
        /\ FailuresAccountedFor

-----------------------------------------------------------------------------
\* The operators of SqlxRetry stay within their types.
LEMMA RetryTypes ==
    /\ NoBackoff \in Backoffs
    /\ \A b \in Backoffs, n \in Nat : Failed(b, n) \in Backoffs
    /\ \A g \in Gates, n \in Nat : GateTake(g, n) \in Gates
<1>1. NoBackoff \in Backoffs
  BY RetryAssumption DEF NoBackoff, Backoffs
<1>2. ASSUME NEW b \in Backoffs, NEW n \in Nat
      PROVE  Failed(b, n) \in Backoffs
  BY RetryAssumption DEF Failed, Doubled, Backoffs
<1>3. ASSUME NEW g \in Gates, NEW n \in Nat
      PROVE  GateTake(g, n) \in Gates
  BY RetryAssumption DEF GateTake, Gates
<1> QED  BY <1>1, <1>2, <1>3

\* A muted gate counts the line it swallows; an open one starts anew.
LEMMA GateCounts ==
    ASSUME NEW g \in Gates, NEW n \in Nat
    PROVE  GateTake(g, n).suppressed = IF Muted(g, n) THEN g.suppressed + 1 ELSE 0
BY DEF GateTake, Gates

\* The clock moves and nothing else does.
LEMMA TickKeeps ==
    ASSUME IInv, Tick
    PROVE  IInv'
<1>1. TypeOK'
  BY DEF IInv, TypeOK, Tick, ghosts, request
<1>2. (WireInv /\ PhaseInv /\ BackoffInv)'
  BY DEF IInv, WireInv, PhaseInv, BackoffInv, Tick, ghosts, request
<1>3. SentInv'
  BY DEF IInv, SentInv, Tick, ghosts, request
<1>4. AnswerInv'
  BY DEF IInv, AnswerInv, Honest, Tick, ghosts, request
<1>5. FailuresAccountedFor'
  BY DEF IInv, FailuresAccountedFor, Tick, ghosts
<1> QED  BY <1>1, <1>2, <1>3, <1>4, <1>5 DEF IInv

\* A request is taken with nothing submitted and nothing answered.
LEMMA ReceiveKeeps ==
    ASSUME IInv, NEW r \in Requests, Receive(r)
    PROVE  IInv'
<1>1. TypeOK'
  <2>1. pc' \in PCs /\ resp' \in Responses
    BY DEF PCs, Responses, Receive
  <2>2. op' = r /\ started' = FALSE /\ before' = FALSE /\ next' = 1
    BY DEF Receive
  <2>3. op' \in Requests \cup {NoReq} /\ next' \in Nat \ {0}
    BY <2>2
  <2>4. started' \in BOOLEAN /\ before' \in BOOLEAN
    BY <2>2
  <2>5. /\ backend' = backend /\ wire' = wire
        /\ backoff' = backoff /\ gate' = gate /\ now' = now
    BY DEF Receive, policy
  <2>6. /\ sent' = sent /\ durable' = durable /\ answer' = answer
        /\ failures' = failures /\ logged' = logged
    BY DEF Receive, ghosts
  <2> QED  BY <2>1, <2>3, <2>4, <2>5, <2>6 DEF IInv, TypeOK
<1>2. (WireInv /\ PhaseInv /\ BackoffInv)'
  BY ExecAssumption DEF IInv, TypeOK, WireInv, PhaseInv, BackoffInv, Receive,
     ghosts
<1>3. SentInv'
  BY ExecAssumption DEF IInv, PhaseInv, SentInv, Receive, ghosts
<1>4. AnswerInv'
  BY ExecAssumption DEF IInv, SentInv, PhaseInv, AnswerInv, Honest, Receive,
     ghosts
<1>5. FailuresAccountedFor'
  BY DEF IInv, FailuresAccountedFor, Receive, ghosts, policy
<1> QED  BY <1>1, <1>2, <1>3, <1>4, <1>5 DEF IInv

\* A connection just opened is clean.
LEMMA DialOkKeeps ==
    ASSUME IInv, DialOk
    PROVE  IInv'
<1>1. TypeOK'
  BY DEF IInv, TypeOK, PCs, DialOk, ghosts, policy, request, Clean
<1>2. (WireInv /\ PhaseInv /\ BackoffInv)'
  BY DEF IInv, WireInv, PhaseInv, BackoffInv, DialOk, ghosts, request
<1>3. SentInv'
  BY DEF IInv, SentInv, DialOk, ghosts, request
<1>4. AnswerInv'
  BY DEF IInv, AnswerInv, Honest, DialOk, ghosts
<1>5. FailuresAccountedFor'
  BY DEF IInv, FailuresAccountedFor, DialOk, ghosts, policy
<1> QED  BY <1>1, <1>2, <1>3, <1>4, <1>5 DEF IInv

\* A failed dial submits nothing and leaves no connection.
LEMMA DialFailsKeeps ==
    ASSUME IInv, DialFails
    PROVE  IInv'
<1>1. TypeOK'
  BY RetryTypes DEF IInv, TypeOK, Responses, PCs, DialFails, ghosts
<1>2. (WireInv /\ PhaseInv /\ BackoffInv)'
  BY DEF IInv, WireInv, PhaseInv, BackoffInv, DialFails, ghosts
<1>3. SentInv'
  BY DEF IInv, SentInv, DialFails, ghosts
<1>4. AnswerInv'
  BY DEF IInv, SentInv, AnswerInv, Honest, DialFails, ghosts
<1>5. FailuresAccountedFor'
  BY DEF IInv, FailuresAccountedFor, DialFails, ghosts
<1> QED  BY <1>1, <1>2, <1>3, <1>4, <1>5 DEF IInv

\* With a connection the backoff is reset before the operation starts.
LEMMA ReadyKeeps ==
    ASSUME IInv, Ready
    PROVE  IInv'
<1>1. TypeOK'
  <2>1. wire' \in SUBSET Leftovers /\ pc' \in PCs
    BY DEF IInv, TypeOK, Leftovers, PCs, Awaiting, Ready, Begins
  <2> QED  BY <2>1, RetryTypes DEF IInv, TypeOK, Ready, request, ghosts
<1>2. (WireInv /\ PhaseInv /\ BackoffInv)'
  BY DEF IInv, WireInv, PhaseInv, BackoffInv, Clean, Ready, ghosts, request,
     Begins
<1>3. SentInv'
  BY DEF IInv, SentInv, Ready, ghosts, request
<1>4. AnswerInv'
  BY DEF IInv, AnswerInv, Honest, Ready, ghosts
<1>5. FailuresAccountedFor'
  BY DEF IInv, FailuresAccountedFor, Ready, ghosts
<1> QED  BY <1>1, <1>2, <1>3, <1>4, <1>5 DEF IInv

\* Parameters that do not bind end a request before it is submitted.
LEMMA BindFailsKeeps ==
    ASSUME IInv, BindFails
    PROVE  IInv'
<1>1. TypeOK'
  BY DEF IInv, TypeOK, Responses, Errors, PCs, BindFails, ghosts, policy,
     Respond
<1>2. (WireInv /\ PhaseInv /\ BackoffInv)'
  BY DEF IInv, WireInv, PhaseInv, BackoffInv, BindFails, ghosts, policy,
     Respond
<1>3. SentInv'
  BY DEF IInv, SentInv, BindFails, ghosts, Respond
<1>4. AnswerInv'
  BY DEF IInv, SentInv, AnswerInv, Honest, BindFails, ghosts, Respond
<1>5. FailuresAccountedFor'
  BY DEF IInv, FailuresAccountedFor, BindFails, ghosts, policy
<1> QED  BY <1>1, <1>2, <1>3, <1>4, <1>5 DEF IInv

\* A statement is marked as started no later than it is submitted.
LEMMA RunKeeps ==
    ASSUME IInv, Run
    PROVE  IInv'
<1>1. TypeOK'
  BY DEF IInv, TypeOK, PhaseInv, Leftovers, PCs, Awaiting, Run, policy,
     Submit, Begins, Marks
<1>2. (WireInv /\ PhaseInv /\ BackoffInv)'
  BY DEF IInv, WireInv, PhaseInv, BackoffInv, Clean, Run, policy, Submit,
     Begins
<1>3. SentInv'
  BY DEF IInv, TypeOK, PhaseInv, SentInv, Run, Submit, Marks
<1>4. AnswerInv'
  BY DEF IInv, PhaseInv, AnswerInv, Honest, Run, Submit
<1>5. FailuresAccountedFor'
  BY DEF IInv, FailuresAccountedFor, Run, policy
<1> QED  BY <1>1, <1>2, <1>3, <1>4, <1>5 DEF IInv

\* An answered statement leaves the connection clean.
LEMMA RunOkKeeps ==
    ASSUME IInv, RunOk
    PROVE  IInv'
<1>1. TypeOK'
  BY DEF IInv, TypeOK, Responses, PCs, RunOk, policy, Respond, Keeps, Ends
<1>2. (WireInv /\ PhaseInv /\ BackoffInv)'
  BY DEF IInv, WireInv, PhaseInv, BackoffInv, Clean, RunOk, policy, Respond,
     Ends
<1>3. SentInv'
  BY DEF IInv, SentInv, RunOk, Respond, Keeps
<1>4. AnswerInv'
  BY ExecAssumption DEF IInv, TypeOK, SentInv, PhaseInv, AnswerInv, Honest,
     ClaimsNotExecuted, MarkedBefore, RunOk, Respond, Keeps
<1>5. FailuresAccountedFor'
  BY DEF IInv, FailuresAccountedFor, RunOk, policy
<1> QED  BY <1>1, <1>2, <1>3, <1>4, <1>5 DEF IInv

\* An error of the database leaves the connection clean.
LEMMA RunDbErrorKeeps ==
    ASSUME IInv, RunDbError
    PROVE  IInv'
<1>1. TypeOK'
  BY DEF IInv, TypeOK, Responses, Errors, PCs, RunDbError, policy, Respond,
     Ends, Keeps
<1>2. (WireInv /\ PhaseInv /\ BackoffInv)'
  BY DEF IInv, WireInv, PhaseInv, BackoffInv, Clean, RunDbError, policy,
     Respond, Ends
<1>3. SentInv'
  BY DEF IInv, TypeOK, SentInv, RunDbError, Respond, Keeps
<1>4. AnswerInv'
  BY DEF IInv, TypeOK, SentInv, PhaseInv, AnswerInv, Honest,
     ClaimsNotExecuted, MarkedBefore, RunDbError, Respond, Keeps
<1>5. FailuresAccountedFor'
  BY DEF IInv, FailuresAccountedFor, RunDbError, policy
<1> QED  BY <1>1, <1>2, <1>3, <1>4, <1>5 DEF IInv

\* A lost link leaves the outcome open and the connection unusable.
LEMMA RunLinkLostKeeps ==
    ASSUME IInv, RunLinkLost
    PROVE  IInv'
<1>1. TypeOK'
  BY DEF IInv, TypeOK, Responses, Errors, Leftovers, PCs, RunLinkLost, policy,
     Respond, Keeps, Breaks
<1>2. (WireInv /\ PhaseInv /\ BackoffInv)'
  BY DEF IInv, WireInv, PhaseInv, BackoffInv, RequiresDisconnect, RunLinkLost,
     policy, Respond
<1>3. SentInv'
  BY DEF IInv, SentInv, RunLinkLost, Respond, Keeps
<1>4. AnswerInv'
  BY DEF IInv, SentInv, PhaseInv, AnswerInv, Honest, ClaimsNotExecuted,
     MarkedBefore, RunLinkLost, Respond, Keeps
<1>5. FailuresAccountedFor'
  BY DEF IInv, FailuresAccountedFor, RunLinkLost, policy
<1> QED  BY <1>1, <1>2, <1>3, <1>4, <1>5 DEF IInv

\* Unread rows stay on a connection that is not kept.
LEMMA RowLimitKeeps ==
    ASSUME IInv, RowLimit
    PROVE  IInv'
<1>1. TypeOK'
  BY DEF IInv, TypeOK, Responses, PCs, RowLimit, policy, Respond, Keeps
<1>2. (WireInv /\ PhaseInv /\ BackoffInv)'
  BY DEF IInv, WireInv, PhaseInv, BackoffInv, RequiresDisconnect, RowLimit,
     policy, Respond
<1>3. SentInv'
  BY DEF IInv, SentInv, RowLimit, Respond, Keeps
<1>4. AnswerInv'
  BY DEF IInv, SentInv, PhaseInv, AnswerInv, Honest, ClaimsNotExecuted,
     MarkedBefore, RowLimit, Respond, Keeps
<1>5. FailuresAccountedFor'
  BY DEF IInv, FailuresAccountedFor, RowLimit, policy
<1> QED  BY <1>1, <1>2, <1>3, <1>4, <1>5 DEF IInv

\* From BEGIN on the connection holds a transaction.
LEMMA BeginOkKeeps ==
    ASSUME IInv, BeginOk
    PROVE  IInv'
<1>1. TypeOK'
  BY DEF IInv, TypeOK, Leftovers, PCs, BeginOk, ghosts, policy, request
<1>2. (WireInv /\ PhaseInv /\ BackoffInv)'
  BY DEF IInv, WireInv, PhaseInv, BackoffInv, BeginOk, ghosts, policy, request
<1>3. SentInv'
  BY ExecAssumption DEF IInv, TypeOK, PhaseInv, SentInv, BeginOk, ghosts,
     request
<1>4. AnswerInv'
  BY DEF IInv, AnswerInv, Honest, BeginOk, ghosts
<1>5. FailuresAccountedFor'
  BY DEF IInv, FailuresAccountedFor, BeginOk, ghosts, policy
<1> QED  BY <1>1, <1>2, <1>3, <1>4, <1>5 DEF IInv

\* A failed BEGIN has submitted no statement.
LEMMA BeginFailsKeeps ==
    ASSUME IInv, BeginFails
    PROVE  IInv'
<1>1. TypeOK'
  <2>1. wire' \in SUBSET Leftovers
    BY DEF IInv, TypeOK, Leftovers, BeginFails, Begins, Ends, Breaks
  <2>2. resp' \in Responses /\ pc' \in PCs
    BY DEF Responses, Errors, PCs, Awaiting, BeginFails, Respond
  <2> QED  BY <2>1, <2>2 DEF IInv, TypeOK, BeginFails, policy, ghosts
<1>2. (WireInv /\ PhaseInv /\ BackoffInv)'
  BY DEF IInv, WireInv, PhaseInv, BackoffInv, Clean, RequiresDisconnect,
     BeginFails, ghosts, policy, Respond, Ends
<1>3. SentInv'
  BY DEF IInv, SentInv, BeginFails, ghosts, Respond
<1>4. AnswerInv'
  BY DEF IInv, SentInv, AnswerInv, Honest, BeginFails, ghosts, Respond
<1>5. FailuresAccountedFor'
  BY DEF IInv, FailuresAccountedFor, BeginFails, ghosts, policy
<1> QED  BY <1>1, <1>2, <1>3, <1>4, <1>5 DEF IInv

\* A statement of a transaction is submitted inside it.
LEMMA StmtRunKeeps ==
    ASSUME IInv, StmtRun
    PROVE  IInv'
<1>1. TypeOK'
  BY DEF IInv, TypeOK, PhaseInv, Leftovers, PCs, Awaiting, StmtRun, policy,
     Submit, Begins, Marks
<1>2. (WireInv /\ PhaseInv /\ BackoffInv)'
  BY DEF IInv, WireInv, PhaseInv, BackoffInv, StmtRun, policy, Submit, Begins
<1>3. SentInv'
  BY DEF IInv, TypeOK, PhaseInv, SentInv, StmtRun, Submit, Marks
<1>4. AnswerInv'
  BY DEF IInv, PhaseInv, AnswerInv, Honest, StmtRun, Submit
<1>5. FailuresAccountedFor'
  BY DEF IInv, FailuresAccountedFor, StmtRun, policy
<1> QED  BY <1>1, <1>2, <1>3, <1>4, <1>5 DEF IInv

\* A statement that does not bind leads to ROLLBACK.
LEMMA StmtBindFailsKeeps ==
    ASSUME IInv, StmtBindFails
    PROVE  IInv'
<1>1. TypeOK'
  BY DEF IInv, TypeOK, Responses, Errors, Leftovers, PCs, Awaiting,
     StmtBindFails, ghosts, policy, Begins
<1>2. (WireInv /\ PhaseInv /\ BackoffInv)'
  BY DEF IInv, WireInv, PhaseInv, BackoffInv, Errors, StmtBindFails, ghosts,
     policy
<1>3. SentInv'
  BY DEF IInv, SentInv, StmtBindFails, ghosts
<1>4. AnswerInv'
  BY DEF IInv, AnswerInv, Honest, StmtBindFails, ghosts
<1>5. FailuresAccountedFor'
  BY DEF IInv, FailuresAccountedFor, StmtBindFails, ghosts, policy
<1> QED  BY <1>1, <1>2, <1>3, <1>4, <1>5 DEF IInv

\* A statement that succeeds leaves the transaction open.
LEMMA StmtOkKeeps ==
    ASSUME IInv, StmtOk
    PROVE  IInv'
<1>1. TypeOK'
  BY DEF IInv, TypeOK, PCs, StmtOk, ghosts, policy, Ends
<1>2. (WireInv /\ PhaseInv /\ BackoffInv)'
  BY DEF IInv, WireInv, PhaseInv, BackoffInv, StmtOk, ghosts, policy, Ends
<1>3. SentInv'
  BY ExecAssumption DEF IInv, TypeOK, PhaseInv, SentInv, StmtOk, ghosts
<1>4. AnswerInv'
  BY DEF IInv, AnswerInv, Honest, StmtOk, ghosts
<1>5. FailuresAccountedFor'
  BY DEF IInv, FailuresAccountedFor, StmtOk, ghosts, policy
<1> QED  BY <1>1, <1>2, <1>3, <1>4, <1>5 DEF IInv

\* A statement that fails leads to ROLLBACK.
LEMMA StmtFailsKeeps ==
    ASSUME IInv, StmtFails
    PROVE  IInv'
<1>1. TypeOK'
  <2>1. wire' \in SUBSET Leftovers
    BY DEF IInv, TypeOK, Leftovers, StmtFails, Begins, Ends, Breaks
  <2>2. resp' \in Responses /\ pc' \in PCs
    BY DEF Responses, Errors, PCs, Awaiting, StmtFails, Respond
  <2> QED  BY <2>1, <2>2 DEF IInv, TypeOK, StmtFails, policy, ghosts
<1>2. (WireInv /\ PhaseInv /\ BackoffInv)'
  BY DEF IInv, WireInv, PhaseInv, BackoffInv, Errors, StmtFails, ghosts,
     policy
<1>3. SentInv'
  BY DEF IInv, SentInv, StmtFails, ghosts
<1>4. AnswerInv'
  BY DEF IInv, AnswerInv, Honest, StmtFails, ghosts
<1>5. FailuresAccountedFor'
  BY DEF IInv, FailuresAccountedFor, StmtFails, ghosts, policy
<1> QED  BY <1>1, <1>2, <1>3, <1>4, <1>5 DEF IInv

\* ROLLBACK leaves the connection clean and nothing kept.
LEMMA RollbackOkKeeps ==
    ASSUME IInv, RollbackOk
    PROVE  IInv'
<1>1. TypeOK'
  BY DEF IInv, TypeOK, PCs, RollbackOk, ghosts, policy, request
<1>2. (WireInv /\ PhaseInv /\ BackoffInv)'
  <2>1. wire' = Clean
    BY DEF IInv, TypeOK, Leftovers, Clean, RollbackOk
  <2> QED  BY <2>1
           DEF IInv, TypeOK, WireInv, PhaseInv, BackoffInv, Errors, RollbackOk,
               request, policy, ghosts
<1>3. SentInv'
  BY DEF IInv, SentInv, RollbackOk, ghosts, request
<1>4. AnswerInv'
  BY DEF IInv, TypeOK, SentInv, PhaseInv, AnswerInv, Honest,
     ClaimsNotExecuted, MarkedBefore, Errors, RollbackOk, ghosts, request
<1>5. FailuresAccountedFor'
  BY DEF IInv, FailuresAccountedFor, RollbackOk, ghosts, policy
<1> QED  BY <1>1, <1>2, <1>3, <1>4, <1>5 DEF IInv

\* After a failed ROLLBACK the connection is not kept.
LEMMA RollbackFailsKeeps ==
    ASSUME IInv, RollbackFails
    PROVE  IInv'
<1>1. TypeOK'
  BY DEF IInv, TypeOK, Responses, PCs, RollbackFails, ghosts, policy, Respond
<1>2. (WireInv /\ PhaseInv /\ BackoffInv)'
  BY DEF IInv, WireInv, PhaseInv, BackoffInv, RequiresDisconnect,
     RollbackFails, ghosts, policy, Respond
<1>3. SentInv'
  BY DEF IInv, SentInv, RollbackFails, ghosts, Respond
<1>4. AnswerInv'
  BY DEF IInv, AnswerInv, Honest, ClaimsNotExecuted, MarkedBefore, Errors,
     RollbackFails, ghosts, Respond
<1>5. FailuresAccountedFor'
  BY DEF IInv, FailuresAccountedFor, RollbackFails, ghosts, policy
<1> QED  BY <1>1, <1>2, <1>3, <1>4, <1>5 DEF IInv

\* COMMIT is submitted after every statement of the transaction.
LEMMA CommitSentKeeps ==
    ASSUME IInv, CommitSent
    PROVE  IInv'
<1>1. TypeOK'
  BY DEF IInv, TypeOK, Leftovers, PCs, Awaiting, CommitSent, ghosts, policy,
     request, Begins
<1>2. (WireInv /\ PhaseInv /\ BackoffInv)'
  BY DEF IInv, WireInv, PhaseInv, BackoffInv, CommitSent, ghosts, policy,
     request, Begins
<1>3. SentInv'
  BY ExecAssumption, SMTT(30) DEF IInv, TypeOK, PhaseInv, SentInv, Unanswered,
     CommitSent, ghosts, policy, request, Begins
<1>4. AnswerInv'
  BY DEF IInv, AnswerInv, Honest, CommitSent, ghosts
<1>5. FailuresAccountedFor'
  BY DEF IInv, FailuresAccountedFor, CommitSent, ghosts, policy
<1> QED  BY <1>1, <1>2, <1>3, <1>4, <1>5 DEF IInv

\* COMMIT leaves the connection clean and everything kept.
LEMMA CommitOkKeeps ==
    ASSUME IInv, CommitOk
    PROVE  IInv'
<1>1. TypeOK'
  BY DEF IInv, TypeOK, Responses, PCs, CommitOk, policy, Respond, Keeps
<1>2. (WireInv /\ PhaseInv /\ BackoffInv)'
  BY DEF IInv, WireInv, PhaseInv, BackoffInv, Clean, CommitOk, policy, Respond
<1>3. SentInv'
  BY DEF IInv, SentInv, CommitOk, Respond, Keeps
<1>4. AnswerInv'
  <2>1. op \in Requests /\ sent[op] = StatementsOf[op]
    BY ExecAssumption DEF IInv, TypeOK, PhaseInv, SentInv, CommitOk
  <2>2. durable'[op] = "yes" /\ sent' = sent /\ resp' = "ok" /\ pc' = "classify"
    BY <2>1 DEF IInv, TypeOK, CommitOk, Respond, Keeps
  <2>3. Honest(op, resp, MarkedBefore(resp, started))'
    BY <2>1, <2>2 DEF Honest, ClaimsNotExecuted, MarkedBefore, Errors, CommitOk
  <2>4. ASSUME NEW s \in Requests, answer[s] # Unanswered
        PROVE  Honest(s, answer[s].tag, answer[s].before)'
    BY <2>4 DEF IInv, TypeOK, AnswerInv, PhaseInv, Honest, CommitOk, Keeps
  <2> QED  BY <2>2, <2>3, <2>4 DEF AnswerInv, CommitOk
<1>5. FailuresAccountedFor'
  BY DEF IInv, FailuresAccountedFor, CommitOk, policy
<1> QED  BY <1>1, <1>2, <1>3, <1>4, <1>5 DEF IInv

\* After a failed COMMIT nobody claims to know the outcome.
LEMMA CommitFailsKeeps ==
    ASSUME IInv, CommitFails
    PROVE  IInv'
<1>1. TypeOK'
  BY DEF IInv, TypeOK, Responses, PCs, CommitFails, policy, Respond, Keeps
<1>2. (WireInv /\ PhaseInv /\ BackoffInv)'
  BY DEF IInv, WireInv, PhaseInv, BackoffInv, RequiresDisconnect, CommitFails,
     policy, Respond
<1>3. SentInv'
  BY DEF IInv, SentInv, CommitFails, Respond, Keeps
<1>4. AnswerInv'
  BY DEF IInv, PhaseInv, AnswerInv, Honest, ClaimsNotExecuted, MarkedBefore,
     Errors, CommitFails, Respond, Keeps
<1>5. FailuresAccountedFor'
  BY DEF IInv, FailuresAccountedFor, CommitFails, policy
<1> QED  BY <1>1, <1>2, <1>3, <1>4, <1>5 DEF IInv

\* A cancelled operation leaves a connection that is not kept.
LEMMA DeadlineKeeps ==
    ASSUME IInv, Deadline
    PROVE  IInv'
<1>1. TypeOK'
  BY DEF IInv, TypeOK, Responses, PCs, Deadline, policy, Respond, Keeps
<1>2. (WireInv /\ PhaseInv /\ BackoffInv)'
  BY DEF IInv, WireInv, PhaseInv, BackoffInv, RequiresDisconnect, Deadline,
     policy, Respond, Awaiting
<1>3. SentInv'
  BY DEF IInv, TypeOK, SentInv, Deadline, Respond, Keeps, Awaiting
<1>4. AnswerInv'
  BY DEF IInv, TypeOK, SentInv, PhaseInv, AnswerInv, Honest,
     ClaimsNotExecuted, MarkedBefore, Deadline, Respond, Keeps, Awaiting
<1>5. FailuresAccountedFor'
  BY DEF IInv, FailuresAccountedFor, Deadline, policy
<1> QED  BY <1>1, <1>2, <1>3, <1>4, <1>5 DEF IInv

\* Only what was not submitted is marked as not executed.
LEMMA ClassifyKeeps ==
    ASSUME IInv, Classify
    PROVE  IInv'
<1>1. TypeOK'
  BY DEF IInv, TypeOK, PCs, Classify, ghosts, policy, Clean, MarkedBefore
<1>2. (WireInv /\ PhaseInv /\ BackoffInv)'
  BY DEF IInv, WireInv, PhaseInv, BackoffInv, Classify, ghosts, policy
<1>3. SentInv'
  BY DEF IInv, SentInv, Classify, ghosts
<1>4. AnswerInv'
  BY DEF IInv, AnswerInv, Honest, Classify, ghosts
<1>5. FailuresAccountedFor'
  BY DEF IInv, FailuresAccountedFor, Classify, ghosts, policy
<1> QED  BY <1>1, <1>2, <1>3, <1>4, <1>5 DEF IInv

\* The answer given is the one that was prepared and checked.
LEMMA FinishKeeps ==
    ASSUME IInv, Finish
    PROVE  IInv'
<1>1. TypeOK'
  <2>1. op \in Requests
    BY DEF IInv, TypeOK, PhaseInv, Finish
  <2>2. answer' \in [Requests -> [tag : Responses, before : BOOLEAN]]
    BY <2>1 DEF IInv, TypeOK, Finish
  <2>3. gate' \in Gates
    BY RetryTypes DEF IInv, TypeOK, Finish
  <2>4. failures' \in Nat /\ logged' \in Nat
    BY DEF IInv, TypeOK, Gates, Finish
  <2> QED  BY <2>2, <2>3, <2>4 DEF IInv, TypeOK, PCs, Finish
<1>2. (WireInv /\ PhaseInv /\ BackoffInv)'
  BY ExecAssumption DEF IInv, WireInv, PhaseInv, BackoffInv, Finish
<1>3. SentInv'
  BY DEF IInv, TypeOK, PhaseInv, SentInv, Unanswered, Finish
<1>4. AnswerInv'
  BY DEF IInv, AnswerInv, Honest, Finish
<1>5. FailuresAccountedFor'
  <2>1. CASE Gated
    BY <2>1, GateCounts DEF IInv, TypeOK, Gates, FailuresAccountedFor, Finish
  <2>2. CASE ~Gated
    BY <2>2 DEF IInv, FailuresAccountedFor, Finish
  <2> QED  BY <2>1, <2>2
<1> QED  BY <1>1, <1>2, <1>3, <1>4, <1>5 DEF IInv

-----------------------------------------------------------------------------
\* The invariant holds before the first request.
LEMMA InitIInv == Init => IInv
<1> SUFFICES ASSUME Init
             PROVE  IInv
  OBVIOUS
<1>1. TypeOK
  <2>1. backoff \in Backoffs /\ gate \in Gates
    BY RetryTypes DEF Init, NewGate, Gates
  <2>2. answer \in [Requests -> [tag : Responses, before : BOOLEAN]]
    BY DEF Init, Unanswered, Responses
  <2>3. sent \in [Requests -> Nat]
        /\ durable \in [Requests -> {"no", "maybe", "yes"}]
    BY DEF Init
  <2>4. started \in BOOLEAN /\ before \in BOOLEAN
    BY DEF Init
  <2>5. pc \in PCs /\ resp \in Responses /\ wire \in SUBSET Leftovers
    BY DEF Init, PCs, Responses, Clean
  <2>6. /\ op = NoReq /\ backend = "open" /\ next = 1 /\ now = 0
        /\ failures = 0 /\ logged = 0
    BY DEF Init
  <2> QED  BY <2>1, <2>2, <2>3, <2>4, <2>5, <2>6 DEF TypeOK
<1>2. WireInv /\ PhaseInv /\ BackoffInv
  BY ExecAssumption DEF Init, WireInv, PhaseInv, BackoffInv
<1>3. SentInv /\ AnswerInv
  BY DEF Init, SentInv, AnswerInv
<1>4. FailuresAccountedFor
  BY DEF Init, FailuresAccountedFor, NewGate
<1> QED  BY <1>1, <1>2, <1>3, <1>4 DEF IInv

\* Every step of the handler, the database and the clock keeps the invariant.
LEMMA StepIInv == IInv /\ [Next]_vars => IInv'
<1> SUFFICES ASSUME IInv, [Next]_vars
             PROVE  IInv'
  OBVIOUS
<1>1. CASE Tick
  BY <1>1, TickKeeps
<1>2. CASE LocalStep
  BY <1>2, ReadyKeeps, BindFailsKeeps, RunKeeps, StmtRunKeeps,
     StmtBindFailsKeeps, CommitSentKeeps, ClassifyKeeps, FinishKeeps
  DEF LocalStep
<1>3. CASE DatabaseStep
  BY <1>3, DialOkKeeps, RunOkKeeps, RunDbErrorKeeps, RunLinkLostKeeps,
     RowLimitKeeps, BeginOkKeeps, BeginFailsKeeps, StmtOkKeeps, StmtFailsKeeps,
     RollbackOkKeeps, RollbackFailsKeeps, CommitOkKeeps, CommitFailsKeeps
  DEF DatabaseStep
<1>4. CASE DialFails
  BY <1>4, DialFailsKeeps
<1>5. CASE Deadline
  BY <1>5, DeadlineKeeps
<1>6. CASE \E r \in Requests : Receive(r)
  BY <1>6, ReceiveKeeps
<1>7. CASE UNCHANGED vars
  BY <1>7
  DEF vars, request, policy, ghosts, IInv, TypeOK, WireInv, PhaseInv, SentInv,
      AnswerInv, BackoffInv, FailuresAccountedFor, Honest
<1> QED  BY <1>1, <1>2, <1>3, <1>4, <1>5, <1>6, <1>7 DEF Next

\* The invariant holds in every reachable state.
LEMMA Invariance == Spec => []IInv
BY InitIInv, StepIInv, PTL DEF Spec

\* The variables of the handler have their types in every reachable state.
THEOREM TypeCorrect == Spec => []TypeOK
<1>1. IInv => TypeOK
  BY DEF IInv
<1> QED  BY Invariance, <1>1, PTL

\* not_executed is only said of requests no statement of which was handed to
\* the database: classify_execution, decode_impl.
THEOREM NotExecutedCorrect == Spec => []NotExecutedIsTrue
<1>1. IInv => NotExecutedIsTrue
  <2> SUFFICES ASSUME IInv, NEW r \in Requests, NotExecuted(r)
               PROVE  sent[r] = 0
    BY DEF NotExecutedIsTrue
  <2>1. answer[r] # Unanswered
    BY DEF NotExecuted, Unanswered
  <2>2. Honest(r, answer[r].tag, answer[r].before)
    BY <2>1 DEF IInv, AnswerInv
  <2> QED  BY <2>2 DEF Honest, ClaimsNotExecuted, NotExecuted
<1> QED  BY Invariance, <1>1, PTL

\* A connection kept for the next request has nothing left on it:
\* requires_disconnect, transaction.
THEOREM ReuseCorrect == Spec => []CleanReuse
<1>1. IInv => CleanReuse
  BY DEF IInv, WireInv, CleanReuse
<1> QED  BY Invariance, <1>1, PTL

\* What the caller is told is what the database did.
THEOREM AnswersCorrect == Spec => []AnswersAreHonest
<1>1. IInv => AnswersAreHonest
  <2> SUFFICES ASSUME IInv, NEW r \in Requests, answer[r] # Unanswered
               PROVE  Honest(r, answer[r].tag, answer[r].before)
    BY DEF AnswersAreHonest, Honest, ClaimsNotExecuted, NotExecuted, Unanswered
  <2> QED  BY DEF IInv, AnswerInv
<1> QED  BY Invariance, <1>1, PTL

\* An open connection has no cooldown: ReconnectBackoff::reset.
THEOREM CooldownOnlyWhenDown == Spec => []CooldownNeedsNoConnection
<1>1. IInv => CooldownNeedsNoConnection
  BY DEF IInv, BackoffInv, CooldownNeedsNoConnection
<1> QED  BY Invariance, <1>1, PTL

\* No connect failure is missing from both the log and the gate's count:
\* ConnectionLogGate::take.
THEOREM LogCorrect == Spec => []FailuresAccountedFor
<1>1. IInv => FailuresAccountedFor
  BY DEF IInv
<1> QED  BY Invariance, <1>1, PTL

\* Rounding the wait up, 0 is reported only when none is left.
LEMMA RoundedUp ==
    ASSUME NEW b \in Backoffs, NEW n \in Nat, ~(RetryAfterMs(b, n) > 0)
    PROVE  n >= b.retryAt
<1> DEFINE left == Remaining(b, n)
           q    == (left + TicksPerMs - 1) \div TicksPerMs
<1>1. b.retryAt \in Nat /\ TicksPerMs \in Nat \ {0}
  BY RetryAssumption DEF Backoffs
<1>2. left \in Nat
  BY <1>1 DEF Remaining
<1>3. q \in Nat /\ left + TicksPerMs - 1 < TicksPerMs * q + TicksPerMs
  BY <1>1, <1>2
<1>4. q = 0
  BY <1>3 DEF RetryAfterMs
<1>5. left = 0
  BY <1>1, <1>2, <1>3, <1>4
<1> QED  BY <1>1, <1>5 DEF Remaining

\* Whatever the delays, nobody dials before the retry instant: the cooldown
\* check of database_handler, failed, retry_after_ms.
THEOREM CooldownIsKept == Spec => CooldownKept
<1> DEFINE Kept == pc # "dial" /\ pc' = "dial" => now >= backoff.retryAt
<1>1. ASSUME IInv, [Next]_vars
      PROVE  [Kept]_vars
  <2> SUFFICES ASSUME pc # "dial", pc' = "dial"
               PROVE  now >= backoff.retryAt
    OBVIOUS
  <2>1. PICK r \in Requests : Receive(r)
    BY <1>1
    DEF Next, Tick, LocalStep, DatabaseStep, Ready, BindFails, Run, StmtRun,
        StmtBindFails, CommitSent, Classify, Finish, DialOk, RunOk, RunDbError,
        RunLinkLost, RowLimit, BeginOk, BeginFails, StmtOk, StmtFails,
        RollbackOk, RollbackFails, CommitOk, CommitFails, DialFails, Deadline,
        Respond, vars
  <2>2. ~(RetryAfterMs(backoff, now) > 0)
    BY <2>1 DEF Receive
  <2> QED  BY <1>1, <2>2, RoundedUp DEF IInv, TypeOK
<1>2. Spec => [][Kept]_vars
  BY <1>1, Invariance, PTL DEF Spec
<1> QED  BY <1>2 DEF CooldownKept
-----------------------------------------------------------------------------
\* CivilDate counts from March: year k of an era starts at YearDays(k), month
\* mp of a year at MarchDays(mp), and only February's length varies.
YearDays(k) == 365 * k + k \div 4 - k \div 100
YearOf(e) == (e - e \div 1460 + e \div 36524 - e \div 146096) \div 365
MarchDays(mp) == (153 * mp + 2) \div 5

\* The last day of year k of an era.
LastDay(k) ==
    IF (k + 1) % 4 = 0 /\ ((k + 1) % 100 # 0 \/ k = 399) THEN 365 ELSE 364

\* Day n of year k of era e.
EraDay(z, e, k, n) ==
    /\ z = 146097 * e + YearDays(k) + n
    /\ 0 <= k /\ k <= 399 /\ 0 <= n /\ n <= LastDay(k)

\* And its date.
FromMarch(e, k, mp, n) ==
    LET month == IF mp < 10 THEN mp + 3 ELSE mp - 9
        year == 400 * e + k + (IF month <= 2 THEN 1 ELSE 0)
    IN [sign |-> Sign(year), year |-> year, month |-> month,
        day |-> n - MarchDays(mp) + 1]

\* The quotient is the one number between these bounds.
LEMMA QuotientIs ==
  ASSUME NEW a \in Int, NEW b \in Int, b > 0, NEW q \in Int,
         b * q <= a, a < b * q + b
  PROVE  a \div b = q
BY SMTT(20)

\* What the quotient is, for a divisor that is not a number.
LEMMA QuotientBounds ==
  ASSUME NEW a \in Int, NEW b \in Int, b > 0
  PROVE  a \div b \in Int /\ b * (a \div b) <= a /\ a < b * (a \div b) + b
BY SMTT(30)

\* And what it leaves.
LEMMA RemainderIs ==
  ASSUME NEW a \in Int, NEW b \in Int, b > 0
  PROVE  a % b = a - b * (a \div b)
BY SMTT(30)

\* The division that finds the year in an era: the three corrections make up
\* for the leap days before it, on every day of every year.
LEMMA YearOfEra ==
  ASSUME NEW k \in Int, 0 <= k, k <= 399, NEW d \in Int, 0 <= d, d <= 365,
         d = 365 => k % 4 = 3 /\ (k % 100 # 99 \/ k = 399)
  PROVE  YearOf(YearDays(k) + d) = k
BY SMTT(60) DEF YearOf, YearDays

\* The division that finds the month in a March year.
LEMMA MonthOfDay ==
  ASSUME NEW mp \in Int, 0 <= mp, mp <= 11, NEW n \in Int,
         MarchDays(mp) <= n, n < MarchDays(mp + 1)
  PROVE  (5 * n + 2) \div 153 = mp
BY SMTT(20) DEF MarchDays

\* So CivilDate gives back the year, month and day that a day was built from.
LEMMA CivilDateOf ==
  ASSUME NEW e \in Int, NEW k \in Int, NEW n \in Int, NEW mp \in Int,
         NEW z \in Int, NEW late, late = z + 730425, EraDay(late, e, k, n),
         0 <= mp, mp <= 11, MarchDays(mp) <= n, n < MarchDays(mp + 1)
  PROVE  CivilDate(z) = FromMarch(e, k, mp, n)
<1> DEFINE doe == YearDays(k) + n
<1>0. /\ z + 730425 = 146097 * e + YearDays(k) + n
      /\ 0 <= k /\ k <= 399 /\ 0 <= n /\ n <= LastDay(k)
  BY SMT DEF EraDay
<1>1. doe \in Int /\ 0 <= doe /\ doe < 146097 /\ 0 <= n /\ n <= 365
  BY <1>0, SMTT(20) DEF YearDays, LastDay
<1>2. n = 365 => k % 4 = 3 /\ (k % 100 # 99 \/ k = 399)
  BY <1>0, SMT DEF LastDay
<1>3. YearOf(doe) = k
  BY <1>0, <1>1, <1>2, YearOfEra, SMT
<1>4. z + 10957 + 719468 = 146097 * e + doe
  BY <1>0, SMT DEF YearDays
<1>5. (z + 10957 + 719468) \div 146097 = e
  BY <1>1, <1>4, QuotientIs, SMT
<1>6. (z + 10957 + 719468) % 146097 = doe
  BY <1>1, <1>4, <1>5, RemainderIs, SMT
<1>7. doe - (365 * k + k \div 4 - k \div 100) = n
  BY SMT DEF YearDays
<1>8. (5 * n + 2) \div 153 = mp
  BY MonthOfDay, SMT
<1> HIDE DEF doe
<1> QED
  BY <1>1, <1>3, <1>5, <1>6, <1>7, <1>8, SMT
     DEF CivilDate, FromMarch, YearOf, MarchDays

-----------------------------------------------------------------------------
\* The calendar, from January and from March.
MarchYear(d) == IF d.month > 2 THEN d.year ELSE d.year - 1
MarchMonth(d) == IF d.month > 2 THEN d.month - 3 ELSE d.month + 9
MarchDay(d) == MarchDays(MarchMonth(d)) + d.day - 1

\* The leap days up to the end of a year's February.
Leaps(y) == y \div 4 - y \div 100 + y \div 400

\* The days before each month of a year.
LEMMA MonthStarts ==
  /\ MonthStart[1] = 0 /\ MonthStart[2] = 31 /\ MonthStart[3] = 59
  /\ MonthStart[4] = 90 /\ MonthStart[5] = 120 /\ MonthStart[6] = 151
  /\ MonthStart[7] = 181 /\ MonthStart[8] = 212 /\ MonthStart[9] = 243
  /\ MonthStart[10] = 273 /\ MonthStart[11] = 304 /\ MonthStart[12] = 334
BY SMT DEF MonthStart

\* The days before the epoch.
LEMMA EpochDay == DaysBefore(Epoch) = 730485
BY MonthStarts, SMT DEF DaysBefore, Epoch, LeapsBefore, LeapDay

\* A leap year adds its day to the next one.
LEMMA LeapsInNextYear ==
  ASSUME NEW y \in Int
  PROVE  LeapsBefore(y + 1) = LeapsBefore(y) + (IF Leap(y) THEN 1 ELSE 0)
BY SMTT(20) DEF LeapsBefore, Leap

\* The leap days before January, and the ones before March.
LEMMA LeapsToMarch ==
  ASSUME NEW y \in Int
  PROVE  LeapsBefore(y + 1) = Leaps(y) + 1
BY SMTT(20) DEF LeapsBefore, Leaps

\* An era has 97 leap days.
LEMMA LeapsOfEra ==
  ASSUME NEW e \in Int, NEW k \in Int, 0 <= k, k <= 399
  PROVE  Leaps(400 * e + k) = 97 * e + k \div 4 - k \div 100
BY SMTT(20) DEF Leaps

\* A March year has 366 days when the next calendar year is a leap year.
LEMMA WithinYear ==
  ASSUME NEW z, NEW e \in Int, NEW k \in Int, NEW n \in Int, EraDay(z, e, k, n)
  PROVE  n <= IF Leap(400 * e + k + 1) THEN 365 ELSE 364
<1>1. 0 <= k /\ k <= 399 /\ n <= LastDay(k)
  BY SMT DEF EraDay
<1>2. /\ Leap(400 * e + k + 1) => LastDay(k) = 365
      /\ ~Leap(400 * e + k + 1) => LastDay(k) = 364
  BY <1>1, SMTT(20) DEF LastDay, Leap
<1> QED BY ONLY <1>1, <1>2, SMT

\* The months from March are the months of the calendar.
LEMMA MarchMonths ==
  ASSUME NEW m \in 1..12
  PROVE  /\ m > 2 => MarchDays(m - 3) = MonthStart[m] - 59
         /\ m <= 2 => MarchDays(m + 9) = MonthStart[m] + 306
BY MonthStarts, SMT DEF MarchDays

\* What a date consists of, and its number as a sum.
LEMMA DateParts ==
  ASSUME NEW d, IsDate(d)
  PROVE  /\ d.year \in Int /\ d.month \in 1..12 /\ d.day \in 1..31
         /\ d.day \in 1..MonthDays(d.year, d.month)
         /\ MonthDays(d.year, d.month) \in Int
         /\ LeapsBefore(d.year) \in Int /\ MonthStart[d.month] \in Int
         /\ LeapDay(d.year, d.month) \in Int
         /\ DayNumber(d) \in Int
         /\ DayNumber(d) = 365 * d.year + LeapsBefore(d.year)
              + MonthStart[d.month] + LeapDay(d.year, d.month) + d.day - 730486
<1>1. /\ d.year \in Int /\ d.month \in 1..12 /\ d.day \in 1..31
      /\ d.day \in 1..MonthDays(d.year, d.month)
      /\ MonthDays(d.year, d.month) \in Int
  BY SMT DEF IsDate, MonthDays
<1>2. /\ LeapsBefore(d.year) \in Int /\ MonthStart[d.month] \in Int
      /\ LeapDay(d.year, d.month) \in Int
  BY <1>1, MonthStarts, SMT DEF LeapsBefore, LeapDay
<1>3. DaysBefore(d) = 365 * d.year + LeapsBefore(d.year) + MonthStart[d.month]
              + LeapDay(d.year, d.month) + d.day - 1
  BY SMT DEF DaysBefore
<1>4. DayNumber(d) = DaysBefore(d) - DaysBefore(Epoch)
  BY SMT DEF DayNumber
<1>5. DayNumber(d) = 365 * d.year + LeapsBefore(d.year) + MonthStart[d.month]
              + LeapDay(d.year, d.month) + d.day - 730486
  BY ONLY <1>1, <1>2, <1>3, <1>4, EpochDay, SMT
<1>6. DayNumber(d) \in Int
  BY ONLY <1>1, <1>2, <1>5, SMT
<1> QED BY <1>1, <1>2, <1>5, <1>6

\* The number of a date, counted from March.
LEMMA DayFromMarch ==
  ASSUME NEW d, IsDate(d)
  PROVE  DayNumber(d) + 730425
           = 365 * MarchYear(d) + Leaps(MarchYear(d)) + MarchDay(d)
<1> DEFINE y == d.year
           m == d.month
<1>1. /\ y \in Int /\ m \in 1..12 /\ d.day \in Int
      /\ LeapsBefore(y) \in Int /\ MonthStart[m] \in Int
  BY DateParts, SMT
<1>2. Leaps(y) \in Int /\ Leaps(y - 1) \in Int
  BY <1>1, SMT DEF Leaps
<1>3. DayNumber(d) = 365 * y + LeapsBefore(y) + MonthStart[m] + LeapDay(y, m)
                       + d.day - 730486
  BY DateParts, SMT
<1>4. /\ MarchYear(d) = IF m > 2 THEN y ELSE y - 1
      /\ MarchDay(d) = MarchDays(IF m > 2 THEN m - 3 ELSE m + 9) + d.day - 1
  BY DEF MarchYear, MarchDay, MarchMonth
<1>5. LeapsBefore(y) = Leaps(y - 1) + 1
  <2>1. y - 1 \in Int /\ (y - 1) + 1 = y
    BY <1>1, SMT
  <2>2. LeapsBefore((y - 1) + 1) = Leaps(y - 1) + 1
    BY ONLY <2>1, LeapsToMarch
  <2> QED BY ONLY <2>1, <2>2
<1>6. Leaps(y) = Leaps(y - 1) + (IF Leap(y) THEN 1 ELSE 0)
  <2>1. LeapsBefore(y + 1) = Leaps(y) + 1
    BY ONLY <1>1, LeapsToMarch
  <2>2. LeapsBefore(y + 1) = LeapsBefore(y) + (IF Leap(y) THEN 1 ELSE 0)
    BY ONLY <1>1, LeapsInNextYear
  <2> QED BY ONLY <1>2, <1>5, <2>1, <2>2, SMT
<1> HIDE DEF y, m
<1>7. CASE m > 2
  <2>1. LeapDay(y, m) = IF Leap(y) THEN 1 ELSE 0
    BY <1>7 DEF LeapDay
  <2>2. MarchDays(m - 3) = MonthStart[m] - 59
    BY <1>1, <1>7, MarchMonths
  <2> QED BY ONLY <1>1, <1>2, <1>3, <1>4, <1>5, <1>6, <1>7, <2>1, <2>2, SMT
<1>8. CASE m <= 2
  <2>1. LeapDay(y, m) = 0
    BY <1>1, <1>8, SMT DEF LeapDay
  <2>2. MarchDays(m + 9) = MonthStart[m] + 306
    BY <1>1, <1>8, MarchMonths
  <2> QED BY ONLY <1>1, <1>2, <1>3, <1>4, <1>5, <1>8, <2>1, <2>2, SMT
<1> QED BY <1>1, <1>7, <1>8, SMT

-----------------------------------------------------------------------------
\* A day of a month lies in its month of the March year, and in that year.
LEMMA DayInMarchMonth ==
  ASSUME NEW y \in Int, NEW m \in 1..12, NEW d \in 1..MonthDays(y, m),
         NEW mp \in Int, mp = IF m > 2 THEN m - 3 ELSE m + 9
  PROVE  /\ 0 <= mp /\ mp <= 11
         /\ MarchDays(mp) \in Int
         /\ MarchDays(mp) <= MarchDays(mp) + d - 1
         /\ MarchDays(mp) + d - 1 < MarchDays(mp + 1)
         /\ m = 2 => MarchDays(mp) + d - 1 <= 365
         /\ m = 2 /\ ~Leap(y) => MarchDays(mp) + d - 1 <= 364
         /\ m # 2 => MarchDays(mp) + d - 1 <= 336
         /\ m = IF mp < 10 THEN mp + 3 ELSE mp - 9
BY SMT DEF MonthDays, MarchDays

\* And a day of a March month is a day of the month.
LEMMA DayInMonth ==
  ASSUME NEW y \in Int, NEW mp \in Int, 0 <= mp, mp <= 11, NEW n \in Int,
         MarchDays(mp) <= n, n < MarchDays(mp + 1),
         n <= IF Leap(y) THEN 365 ELSE 364,
         NEW m, m = IF mp < 10 THEN mp + 3 ELSE mp - 9
  PROVE  m \in 1..12 /\ n - MarchDays(mp) + 1 \in 1..MonthDays(y, m)
BY SMT DEF MonthDays, MarchDays

\* CivilDate reads every date of the calendar off its number.
LEMMA DateRead ==
  ASSUME NEW d, IsDate(d)
  PROVE  CivilDate(DayNumber(d)) = [sign |-> Sign(d.year), year |-> d.year,
                                    month |-> d.month, day |-> d.day]
<1> DEFINE e == MarchYear(d) \div 400
           k == MarchYear(d) - 400 * e
           mp == MarchMonth(d)
           n == MarchDay(d)
<1>1. /\ d.year \in Int /\ d.month \in 1..12 /\ d.day \in Int
      /\ d.day \in 1..MonthDays(d.year, d.month) /\ DayNumber(d) \in Int
  BY DateParts, SMT
<1>2. /\ MarchYear(d) = IF d.month > 2 THEN d.year ELSE d.year - 1
      /\ mp = IF d.month > 2 THEN d.month - 3 ELSE d.month + 9
      /\ n = MarchDays(mp) + d.day - 1
  BY DEF MarchMonth, MarchDay, MarchYear
<1>3. mp \in Int /\ MarchYear(d) \in Int
  BY <1>1, <1>2, SMT
<1>4. e \in Int /\ k \in Int /\ 0 <= k /\ k <= 399 /\ MarchYear(d) = 400 * e + k
  BY <1>3, SMT
<1>5. DayNumber(d) + 730425 = 365 * MarchYear(d) + Leaps(MarchYear(d)) + n
  BY DayFromMarch, SMT
<1> HIDE DEF e, k, mp, n
<1>6. Leaps(MarchYear(d)) = 97 * e + k \div 4 - k \div 100
  BY <1>4, LeapsOfEra, SMT
<1>7. /\ 0 <= mp /\ mp <= 11 /\ MarchDays(mp) <= n /\ n < MarchDays(mp + 1)
      /\ MarchDays(mp) \in Int /\ n \in Int /\ 0 <= n
      /\ d.month = IF mp < 10 THEN mp + 3 ELSE mp - 9
  <2>1. /\ 0 <= mp /\ mp <= 11 /\ MarchDays(mp) <= n /\ n < MarchDays(mp + 1)
        /\ MarchDays(mp) \in Int /\ n \in Int
        /\ d.month = IF mp < 10 THEN mp + 3 ELSE mp - 9
    BY <1>1, <1>2, <1>3, DayInMarchMonth, SMT
  <2>2. 0 <= MarchDays(mp)
    BY <1>3, <2>1, SMT DEF MarchDays
  <2> QED BY ONLY <2>1, <2>2, SMT
<1>8. n <= LastDay(k)
  <2>1. /\ Leap(400 * e + k + 1) => LastDay(k) = 365
        /\ ~Leap(400 * e + k + 1) => LastDay(k) = 364
    BY ONLY <1>4, SMTT(20) DEF LastDay, Leap
  <2>2. d.month = 2 => 400 * e + k + 1 = d.year
    BY <1>1, <1>2, <1>4, SMT
  <2>3. /\ d.month = 2 /\ ~Leap(d.year) => n <= 364
        /\ d.month = 2 => n <= 365
        /\ d.month # 2 => n <= 336
    BY <1>1, <1>2, <1>3, DayInMarchMonth, SMT
  <2> QED BY <1>1, <1>7, <2>1, <2>2, <2>3, SMT
<1> DEFINE late == DayNumber(d) + 730425
<1>9. EraDay(late, e, k, n)
  <2>1. DayNumber(d) + 730425 = 146097 * e + YearDays(k) + n
    BY <1>1, <1>4, <1>5, <1>6, <1>7, SMT DEF YearDays
  <2> QED BY ONLY <2>1, <1>4, <1>7, <1>8, SMT DEF EraDay
<1>10. d.year = 400 * e + k + (IF d.month <= 2 THEN 1 ELSE 0)
  BY ONLY <1>1, <1>2, <1>4, SMT
<1>11. d.day = n - MarchDays(mp) + 1
  BY ONLY <1>1, <1>2, <1>7, SMT
<1>12. late = DayNumber(d) + 730425
  BY SMT
<1> HIDE DEF late
<1>13. CivilDate(DayNumber(d)) = FromMarch(e, k, mp, n)
  BY ONLY <1>1, <1>3, <1>4, <1>7, <1>9, <1>12, CivilDateOf, SMT
<1> QED BY ONLY <1>7, <1>10, <1>11, <1>13, SMT DEF FromMarch

-----------------------------------------------------------------------------
\* A day of an era lies in one of its four centuries, the last of which is a
\* day longer;
LEMMA Century ==
  ASSUME NEW e \in Int, 0 <= e, e <= 146096
  PROVE  \E c \in Int, r \in Int :
           /\ e = 36524 * c + r /\ 0 <= c /\ c <= 3
           /\ 0 <= r /\ r <= 36524 /\ (r = 36524 => c = 3)
<1>1. CASE e = 146096
  <2> WITNESS 3 \in Int, 36524 \in Int
  <2> QED BY <1>1, SMT
<1>2. CASE e # 146096
  <2> DEFINE c == e \div 36524
             r == e - 36524 * c
  <2>1. c \in Int /\ 36524 * c <= e /\ e < 36524 * c + 36524
    BY SMT
  <2>2. r \in Int 
    BY <2>1, SMT
  <2>3. e = 36524 * c + r 
    BY <2>1, SMT
  <2>4. 0 <= r /\ r < 36524
    BY <2>1, SMT
  <2>5. 0 <= c /\ c <= 3
    BY ONLY <2>1, <1>2, e \in Int, 0 <= e, e <= 146096, SMT
  <2> HIDE DEF c, r
  <2> QED BY <2>1, <2>2, <2>3, <2>4, <2>5, SMT
<1> QED BY <1>1, <1>2

\* a day of a century in one of its runs of four years;
LEMMA FourYears ==
  ASSUME NEW r \in Int, 0 <= r, r <= 36524
  PROVE  \E q \in Int, s \in Int :
           r = 1461 * q + s /\ 0 <= q /\ q <= 24 /\ 0 <= s /\ s <= 1460
<1> DEFINE q == r \div 1461
           s == r - 1461 * q
<1>1. q \in Int /\ 1461 * q <= r /\ r < 1461 * q + 1461
  BY SMT
<1>2. s \in Int 
  BY <1>1, SMT
<1>3. r = 1461 * q + s 
  BY <1>1, SMT
<1>4. 0 <= s /\ s < 1461
  BY <1>1, SMT
<1>5. 0 <= q /\ q <= 24
  BY <1>1, SMT
<1> HIDE DEF q, s
<1> QED BY <1>1, <1>2, <1>3, <1>4, <1>5, SMT

\* and a day of those in one of the four, the last of which is a day longer.
LEMMA YearOfFour ==
  ASSUME NEW s \in Int, 0 <= s, s <= 1460
  PROVE  \E t \in Int, d \in Int :
           /\ s = 365 * t + d /\ 0 <= t /\ t <= 3
           /\ 0 <= d /\ d <= 365 /\ (d = 365 => t = 3)
<1>1. CASE s = 1460
  <2> WITNESS 3 \in Int, 365 \in Int
  <2> QED BY <1>1, SMT
<1>2. CASE s # 1460
  <2> DEFINE t == s \div 365
             d == s - 365 * t
  <2>1. t \in Int /\ 365 * t <= s /\ s < 365 * t + 365
    BY SMT
  <2>2. d \in Int 
    BY <2>1, SMT
  <2>3. s = 365 * t + d 
    BY <2>1, SMT
  <2>4. 0 <= d /\ d < 365
    BY <2>1, SMT
  <2>5. 0 <= t /\ t <= 3
    BY <2>1, <1>2, SMT
  <2> HIDE DEF t, d
  <2> QED BY <2>1, <2>2, <2>3, <2>4, <2>5, SMT
<1> QED BY <1>1, <1>2

\* The quotients of a year put together from those.
LEMMA YearsOfEra ==
  ASSUME NEW c \in Int, 0 <= c, c <= 3, NEW q \in Int, 0 <= q, q <= 24,
         NEW t \in Int, 0 <= t, t <= 3
  PROVE  /\ (100 * c + 4 * q + t) \div 4 = 25 * c + q
         /\ (100 * c + 4 * q + t) \div 100 = c
BY SMT

\* So every number is a day of a year of an era.
LEMMA EveryEraDay ==
  ASSUME NEW z \in Int
  PROVE  \E e \in Int, k \in Int, n \in Int : EraDay(z, e, k, n)
<1> DEFINE e == z \div 146097
           r == z - 146097 * e
<1>1. e \in Int /\ 146097 * e <= z /\ z < 146097 * e + 146097
  BY QuotientBounds, SMT
<1>2. r \in Int /\ 0 <= r /\ r <= 146096 /\ z = 146097 * e + r
  BY <1>1, SMT
<1> HIDE DEF e, r
<1>3. PICK c \in Int, x \in Int :
        /\ r = 36524 * c + x /\ 0 <= c /\ c <= 3
        /\ 0 <= x /\ x <= 36524 /\ (x = 36524 => c = 3)
  BY <1>2, Century, SMT
<1>4. PICK q \in Int, s \in Int :
        x = 1461 * q + s /\ 0 <= q /\ q <= 24 /\ 0 <= s /\ s <= 1460
  BY <1>3, FourYears, SMT
<1>5. PICK t \in Int, n \in Int :
        /\ s = 365 * t + n /\ 0 <= t /\ t <= 3
        /\ 0 <= n /\ n <= 365 /\ (n = 365 => t = 3)
  BY <1>4, YearOfFour, SMT
<1> DEFINE k == 100 * c + 4 * q + t
<1>6. k \in Int /\ 0 <= k /\ k <= 399
  BY <1>3, <1>4, <1>5, SMT
<1>7. k \div 4 = 25 * c + q /\ k \div 100 = c
  BY <1>3, <1>4, <1>5, YearsOfEra, SMT
<1>8. YearDays(k) + n = r
  BY ONLY <1>2, <1>3, <1>4, <1>5, <1>6, <1>7, SMT DEF YearDays
<1>9. n <= LastDay(k)
  <2>1. CASE n <= 364
    BY <2>1, <1>5, SMT DEF LastDay
  <2>2. CASE n = 365
    <3>1. t = 3 /\ (q = 24 => c = 3)
      BY <1>3, <1>4, <1>5, <2>2, SMT
    <3>2. (k + 1) % 4 = 0
      BY <3>1, <1>3, <1>4, SMT
    <3>3. q < 24 => (k + 1) % 100 # 0
      BY <3>1, <1>3, <1>4, SMT
    <3>4. q = 24 => k = 399
      BY <3>1, <1>3, <1>4, SMT
    <3>5. q < 24 \/ q = 24
      BY <1>4, SMT
    <3> QED BY <3>2, <3>3, <3>4, <3>5, <2>2, SMT DEF LastDay
  <2> QED BY <2>1, <2>2, <1>5, SMT
<1> HIDE DEF k
<1>10. EraDay(z, e, k, n)
  <2>1. YearDays(k) \in Int
    BY <1>6, SMT DEF YearDays
  <2>2. z = 146097 * e + YearDays(k) + n
    BY ONLY <2>1, <1>1, <1>2, <1>5, <1>6, <1>8, SMT
  <2> QED BY ONLY <2>2, <1>5, <1>6, <1>9, SMT DEF EraDay
<1>11. e \in Int /\ k \in Int /\ n \in Int
  BY <1>1, <1>6, SMT
<1> QED BY ONLY <1>10, <1>11, Zenon

\* Every day of a year lies in a month.
LEMMA MonthFound ==
  ASSUME NEW n \in Int, 0 <= n, n <= 365
  PROVE  \E mp \in Int : /\ 0 <= mp /\ mp <= 11 /\ MarchDays(mp) \in Int
                         /\ MarchDays(mp) <= n /\ n < MarchDays(mp + 1)
<1> WITNESS (5 * n + 2) \div 153 \in Int
<1> QED BY SMTT(20) DEF MarchDays

\* What CivilDate gives for any number is a date, and it has that number.
LEMMA EveryDay ==
  ASSUME NEW z \in Int
  PROVE  IsDate(CivilDate(z)) /\ DayNumber(CivilDate(z)) = z
<1> DEFINE late == z + 730425
<1>1. late \in Int
  BY SMT
<1> HIDE DEF late
<1>2. PICK e \in Int, k \in Int, n \in Int : EraDay(late, e, k, n)
  BY ONLY <1>1, EveryEraDay, Zenon
<1>3. late = z + 730425
  BY SMT DEF late
<1>4. /\ z + 730425 = 146097 * e + YearDays(k) + n
      /\ 0 <= k /\ k <= 399 /\ 0 <= n /\ n <= LastDay(k) /\ n <= 365
  BY <1>2, <1>3, SMT DEF EraDay, LastDay
<1>5. PICK mp \in Int : /\ 0 <= mp /\ mp <= 11 /\ MarchDays(mp) \in Int
                        /\ MarchDays(mp) <= n /\ n < MarchDays(mp + 1)
  BY <1>4, MonthFound, SMT
<1> DEFINE d == CivilDate(z)
           month == IF mp < 10 THEN mp + 3 ELSE mp - 9
           year == 400 * e + k + (IF month <= 2 THEN 1 ELSE 0)
<1>6. d = [sign |-> Sign(year), year |-> year, month |-> month,
           day |-> n - MarchDays(mp) + 1]
  <2>1. CivilDate(z) = FromMarch(e, k, mp, n)
    BY <1>2, <1>3, <1>5, CivilDateOf, SMT
  <2> QED BY ONLY <2>1 DEF FromMarch
<1>7. d.year = year /\ d.month = month /\ d.day = n - MarchDays(mp) + 1
  BY <1>6, SMT
<1>8. month \in Int /\ year \in Int
  BY <1>4, <1>5, SMT
<1> HIDE DEF d
<1>9. IsDate(d)
  <2>1. n <= IF Leap(400 * e + k + 1) THEN 365 ELSE 364
    BY ONLY <1>2, e \in Int, k \in Int, n \in Int, WithinYear, SMT
  <2>2. month = 2 => year = 400 * e + k + 1
    BY <1>4, <1>5, SMT
  <2>3. month # 2 => n <= 336
    BY <1>5, SMT DEF MarchDays
  <2>4. n <= IF Leap(year) THEN 365 ELSE 364
    BY <2>1, <2>2, <2>3, <1>4, <1>8, SMT
  <2>5. month \in 1..12 /\ n - MarchDays(mp) + 1 \in 1..MonthDays(year, month)
    BY <2>4, <1>4, <1>5, <1>8, DayInMonth, SMT
  <2> QED BY <2>5, <1>7, <1>8, SMT DEF IsDate
<1>10. MarchYear(d) = 400 * e + k /\ MarchDay(d) = n
  <2>1. MarchYear(d) = 400 * e + k /\ MarchMonth(d) = mp
    BY <1>4, <1>5, <1>7, SMT DEF MarchYear, MarchMonth
  <2> QED BY <2>1, <1>4, <1>5, <1>7, SMT DEF MarchDay
<1>11. /\ DayNumber(d) \in Int
       /\ DayNumber(d) + 730425 = 365 * (400 * e + k) + Leaps(400 * e + k) + n
  BY <1>9, <1>10, DayFromMarch, DateParts, SMT
<1>12. Leaps(400 * e + k) = 97 * e + k \div 4 - k \div 100
  BY <1>4, LeapsOfEra, SMT
<1>13. DayNumber(d) = z
  <2>1. /\ YearDays(k) \in Int /\ YearDays(k) = 365 * k + k \div 4 - k \div 100
        /\ k \div 4 \in Int /\ k \div 100 \in Int
    BY <1>4, SMT DEF YearDays
  <2> QED
    BY ONLY <2>1, <1>4, <1>11, <1>12, z \in Int, e \in Int, k \in Int,
            n \in Int, SMT
<1> QED BY <1>9, <1>13 DEF d

-----------------------------------------------------------------------------
\* from the end of a month to the start of the next
LEMMA MonthEnds ==
  ASSUME NEW y \in Int, NEW m \in 1..12
  PROVE  /\ m < 12 => MonthStart[m + 1] + LeapDay(y, m + 1)
                        = MonthStart[m] + LeapDay(y, m) + MonthDays(y, m)
         /\ m = 12 => MonthStart[m] + LeapDay(y, m) + MonthDays(y, m)
                        = 365 + (IF Leap(y) THEN 1 ELSE 0)
BY MonthStarts, SMT DEF LeapDay, MonthDays

Tomorrow(d, e) ==
    \/ /\ e.year = d.year /\ e.month = d.month /\ e.day = d.day + 1
       /\ d.day < MonthDays(d.year, d.month)
    \/ /\ d.month < 12 /\ e.year = d.year /\ e.month = d.month + 1 /\ e.day = 1
       /\ d.day = MonthDays(d.year, d.month)
    \/ /\ d.month = 12 /\ e.year = d.year + 1 /\ e.month = 1 /\ e.day = 1
       /\ d.day = 31

\* The date after a date has the next number.
LEMMA TomorrowCounts ==
  ASSUME NEW d, NEW e, IsDate(d), IsDate(e), Tomorrow(d, e)
  PROVE  DayNumber(e) = DayNumber(d) + 1
<1> DEFINE y == d.year
           m == d.month
<1>1. y \in Int /\ m \in 1..12 /\ d.day \in Int /\ MonthDays(y, m) \in Int
      /\ LeapsBefore(y) \in Int /\ MonthStart[m] \in Int /\ LeapDay(y, m) \in Int
      /\ DayNumber(d) = 365 * y + LeapsBefore(y) + MonthStart[m]
                          + LeapDay(y, m) + d.day - 730486
  BY DateParts, SMT
<1>2. DayNumber(e) = 365 * e.year + LeapsBefore(e.year) + MonthStart[e.month]
              + LeapDay(e.year, e.month) + e.day - 730486
      /\ LeapsBefore(e.year) \in Int /\ MonthStart[e.month] \in Int
      /\ LeapDay(e.year, e.month) \in Int
  BY DateParts, SMT
<1>3. \/ /\ e.year = y /\ e.month = m /\ e.day = d.day + 1
      \/ /\ m < 12 /\ e.year = y /\ e.month = m + 1 /\ e.day = 1
         /\ d.day = MonthDays(y, m)
      \/ /\ m = 12 /\ e.year = y + 1 /\ e.month = 1 /\ e.day = 1
         /\ d.day = 31
  BY DEF Tomorrow
<1>4. LeapsBefore(y + 1) = LeapsBefore(y) + (IF Leap(y) THEN 1 ELSE 0)
  BY <1>1, LeapsInNextYear
<1> HIDE DEF y, m
<1>5. CASE e.year = y /\ e.month = m /\ e.day = d.day + 1
  BY ONLY <1>1, <1>2, <1>5, SMT
<1>6. CASE /\ m < 12 /\ e.year = y /\ e.month = m + 1 /\ e.day = 1
           /\ d.day = MonthDays(y, m)
  <2>1. MonthStart[m + 1] + LeapDay(y, m + 1)
          = MonthStart[m] + LeapDay(y, m) + MonthDays(y, m)
    BY ONLY <1>1, <1>6, MonthEnds
  <2> QED BY ONLY <1>1, <1>2, <1>6, <2>1, SMT
<1>7. CASE m = 12 /\ e.year = y + 1 /\ e.month = 1 /\ e.day = 1 /\ d.day = 31
  <2>1. MonthStart[m] + LeapDay(y, m) + MonthDays(y, m)
          = 365 + (IF Leap(y) THEN 1 ELSE 0)
    BY ONLY <1>1, <1>7, MonthEnds
  <2>2. MonthDays(y, m) = 31
    BY ONLY <1>7, SMT DEF MonthDays
  <2>3. MonthStart[1] = 0 /\ LeapDay(y + 1, 1) = 0
    BY MonthStarts, SMT DEF LeapDay
  <2> QED BY ONLY <1>1, <1>2, <1>4, <1>7, <2>1, <2>2, <2>3, SMT
<1> QED BY <1>3, <1>5, <1>6, <1>7

\* What a walk's date looks like.
Dates == [days : Int, year : Int, month : 1..12, day : 1..31]

\* NextDay is a step to that date;
LEMMA NextIsTomorrow ==
  ASSUME NEW d \in Dates, IsDate(d)
  PROVE  /\ NextDay(d) \in Dates /\ IsDate(NextDay(d))
         /\ NextDay(d).days = d.days
         /\ Tomorrow(d, NextDay(d))
<1> DEFINE e == NextDay(d)
<1>1. /\ d.year \in Int /\ d.month \in 1..12
      /\ d.day \in 1..MonthDays(d.year, d.month) /\ d.day \in 1..31
      /\ MonthDays(d.year, d.month) \in Int
  BY DateParts
<1>2. CASE d.day < MonthDays(d.year, d.month)
  <2>1. e = [d EXCEPT !.day = @ + 1]
    BY <1>2 DEF NextDay
  <2>2. d.day + 1 \in 1..31 /\ d.day + 1 \in 1..MonthDays(d.year, d.month)
    BY <1>1, <1>2, SMT DEF MonthDays
  <2>3. e \in Dates /\ e.year = d.year /\ e.month = d.month /\ e.day = d.day + 1
        /\ e.days = d.days
    BY ONLY <2>1, <2>2, d \in Dates DEF Dates
  <2> HIDE DEF e
  <2> QED BY <1>1, <1>2, <2>2, <2>3 DEF IsDate, Tomorrow, e
<1>3. CASE d.day >= MonthDays(d.year, d.month) /\ d.month < 12
  <2>1. e = [d EXCEPT !.day = 1, !.month = @ + 1]
    BY <1>1, <1>3, SMT DEF NextDay
  <2>2. /\ d.month + 1 \in 1..12 /\ 1 \in 1..31
        /\ 1 \in 1..MonthDays(d.year, d.month + 1)
    BY <1>1, <1>3, SMT DEF MonthDays
  <2>3. e \in Dates /\ e.year = d.year /\ e.month = d.month + 1 /\ e.day = 1
        /\ e.days = d.days
    BY ONLY <2>1, <2>2, d \in Dates DEF Dates
  <2>4. d.day = MonthDays(d.year, d.month)
    BY ONLY <1>1, <1>3, SMT
  <2> HIDE DEF e
  <2> QED BY <1>1, <1>3, <2>2, <2>3, <2>4 DEF IsDate, Tomorrow, e
<1>4. CASE d.day >= MonthDays(d.year, d.month) /\ d.month = 12
  <2>1. e = [d EXCEPT !.day = 1, !.month = 1, !.year = @ + 1]
    BY <1>1, <1>4, SMT DEF NextDay
  <2>2. /\ d.year + 1 \in Int /\ 1 \in 1..31 /\ 1 \in 1..12
        /\ 1 \in 1..MonthDays(d.year + 1, 1)
    BY <1>1, <1>4, SMT DEF MonthDays
  <2>3. e \in Dates /\ e.year = d.year + 1 /\ e.month = 1 /\ e.day = 1
        /\ e.days = d.days
    BY ONLY <2>1, <2>2, d \in Dates DEF Dates
  <2>4. d.day = 31
    BY <1>1, <1>4, SMT DEF MonthDays
  <2> HIDE DEF e
  <2> QED BY <1>1, <1>4, <2>2, <2>3, <2>4 DEF IsDate, Tomorrow, e
<1> QED BY ONLY <1>1, <1>2, <1>3, <1>4, SMT

\* and DayBefore is the step back.
LEMMA BeforeIsYesterday ==
  ASSUME NEW d \in Dates, IsDate(d)
  PROVE  /\ DayBefore(d) \in Dates /\ IsDate(DayBefore(d))
         /\ DayBefore(d).days = d.days
         /\ Tomorrow(DayBefore(d), d)
<1> DEFINE e == DayBefore(d)
<1>1. /\ d.year \in Int /\ d.month \in 1..12
      /\ d.day \in 1..MonthDays(d.year, d.month) /\ d.day \in 1..31
      /\ MonthDays(d.year, d.month) \in Int
  BY DateParts
<1>2. CASE d.day > 1
  <2>1. e = [d EXCEPT !.day = @ - 1]
    BY <1>2 DEF DayBefore
  <2>2. /\ d.day - 1 \in 1..31 /\ d.day - 1 \in 1..MonthDays(d.year, d.month)
        /\ d.day - 1 < MonthDays(d.year, d.month) /\ d.day = (d.day - 1) + 1
    BY ONLY <1>1, <1>2, SMT
  <2>3. e \in Dates /\ e.year = d.year /\ e.month = d.month /\ e.day = d.day - 1
        /\ e.days = d.days
    BY ONLY <2>1, <2>2, d \in Dates DEF Dates
  <2> HIDE DEF e
  <2> QED BY <1>1, <1>2, <2>2, <2>3 DEF IsDate, Tomorrow, e
<1>3. CASE d.day = 1 /\ d.month > 1
  <2>1. e = [d EXCEPT !.month = @ - 1, !.day = MonthDays(d.year, d.month - 1)]
    BY <1>1, <1>3, SMT DEF DayBefore
  <2>2. /\ d.month - 1 \in 1..12 /\ d.month - 1 < 12
        /\ d.month = (d.month - 1) + 1
        /\ MonthDays(d.year, d.month - 1) \in 1..31
        /\ MonthDays(d.year, d.month - 1) \in 1..MonthDays(d.year, d.month - 1)
    BY <1>1, <1>3, SMT DEF MonthDays
  <2>3. e \in Dates /\ e.year = d.year /\ e.month = d.month - 1
        /\ e.day = MonthDays(d.year, d.month - 1) /\ e.days = d.days
    BY ONLY <2>1, <2>2, d \in Dates DEF Dates
  <2> HIDE DEF e
  <2> QED BY <1>1, <1>3, <2>2, <2>3 DEF IsDate, Tomorrow, e
<1>4. CASE d.day = 1 /\ d.month = 1
  <2>1. e = [d EXCEPT !.day = 31, !.month = 12, !.year = @ - 1]
    BY <1>1, <1>4, SMT DEF DayBefore
  <2>2. /\ d.year - 1 \in Int /\ d.year = (d.year - 1) + 1
        /\ 31 \in 1..31 /\ 12 \in 1..12
        /\ 31 \in 1..MonthDays(d.year - 1, 12)
    BY <1>1, <1>4, SMT DEF MonthDays
  <2>3. e \in Dates /\ e.year = d.year - 1 /\ e.month = 12 /\ e.day = 31
        /\ e.days = d.days
    BY ONLY <2>1, <2>2, d \in Dates DEF Dates
  <2> HIDE DEF e
  <2> QED BY <1>1, <1>4, <2>2, <2>3 DEF IsDate, Tomorrow, e
<1> QED BY ONLY <1>1, <1>2, <1>3, <1>4, SMT

\* The date under test is one, has its number, and stays clear of the infinities
\* for as long as the walk may go on.
CaseInv ==
    /\ case.what = "date" =>
         /\ case \in [what : {"date"}, on : Dates, step : {-1, 1}, left : Nat]
         /\ IsDate(case.on) /\ case.on.days = DayNumber(case.on)
         /\ MinDays < case.on.days - case.left
         /\ case.on.days + case.left < MaxDays
    /\ case.what = "instant" => case.micros \in Int /\ case.west \in Int

\* The cases that Codecs starts with, those of its other codecs being neither a
\* date nor an instant, and the steps it takes.
Cases == DateCase \/ InstantCase \/ case.what \notin {"date", "instant"}
Tested == Cases /\ [][WalkOn]_case

\* Every case starts with the invariant,
LEMMA CaseStarts == Cases => CaseInv
<1>1. ASSUME NEW a \in Anchors, NEW step \in {-1, 1},
             case = [what |-> "date", on |-> a, step |-> step, left |-> Walk]
      PROVE  CaseInv
  <2>1. /\ a \in Dates /\ IsDate(a) /\ a.days = DayNumber(a) /\ Walk \in Nat
        /\ MinDays < a.days - Walk /\ a.days + Walk < MaxDays
    BY CalendarAssumption DEF Dates
  <2>2. /\ case.what = "date" /\ case.on = a /\ case.left = Walk
        /\ case \in [what : {"date"}, on : Dates, step : {-1, 1}, left : Nat]
    BY ONLY <1>1, <2>1, step \in {-1, 1}
  <2> QED BY ONLY <2>1, <2>2 DEF CaseInv
<1>2. ASSUME NEW m \in Instants, NEW w \in Instants,
             case = [what |-> "instant", micros |-> m, west |-> w]
      PROVE  CaseInv
  <2>1. m \in Int /\ w \in Int
    BY CalendarAssumption
  <2>2. case.what = "instant" /\ case.micros = m /\ case.west = w
    BY ONLY <1>2
  <2> QED BY ONLY <2>1, <2>2 DEF CaseInv
<1>3. case.what \notin {"date", "instant"} => CaseInv
  BY DEF CaseInv
<1> QED BY <1>1, <1>2, <1>3 DEF Cases, DateCase, InstantCase

\* A date is what its year, month and day are.
LEMMA SameDay ==
  ASSUME NEW d, NEW e, e.year = d.year, e.month = d.month, e.day = d.day
  PROVE  (IsDate(e) <=> IsDate(d)) /\ DayNumber(e) = DayNumber(d)
BY Zenon DEF IsDate, DayNumber, DaysBefore

\* and a day's walk keeps it.
LEMMA WalkKeeps == CaseInv /\ WalkOn => CaseInv'
<1> SUFFICES ASSUME CaseInv, WalkOn PROVE CaseInv'
  OBVIOUS
<1> DEFINE on == case.on
           d == IF case.step = 1 THEN NextDay(on) ELSE DayBefore(on)
           new == [d EXCEPT !.days = @ + case.step]
<1>1. /\ case \in [what : {"date"}, on : Dates, step : {-1, 1}, left : Nat]
      /\ IsDate(on) /\ on.days = DayNumber(on) /\ case.left > 0
      /\ MinDays < on.days - case.left /\ on.days + case.left < MaxDays
  BY DEF CaseInv, WalkOn
<1>2. case' = [case EXCEPT !.on = new, !.left = @ - 1]
  BY DEF WalkOn
<1>3. /\ on \in Dates /\ on.days \in Int /\ case.left \in Nat
      /\ case.step \in {-1, 1} /\ case.step \in Int
  BY <1>1 DEF Dates
<1>4. /\ d \in Dates /\ IsDate(d) /\ d.days = on.days
      /\ DayNumber(d) = DayNumber(on) + case.step
  <2>1. CASE case.step = 1
    <3>1. d = NextDay(on)
      BY <2>1
    <3>2. d \in Dates /\ IsDate(d) /\ d.days = on.days /\ Tomorrow(on, d)
      BY ONLY <3>1, <1>1, <1>3, NextIsTomorrow
    <3>3. DayNumber(d) = DayNumber(on) + 1
      BY ONLY <3>2, <1>1, TomorrowCounts
    <3> QED BY ONLY <3>2, <3>3, <2>1
  <2>2. CASE case.step = -1
    <3>1. d = DayBefore(on)
      BY <2>2, SMT
    <3>2. d \in Dates /\ IsDate(d) /\ d.days = on.days /\ Tomorrow(d, on)
      BY ONLY <3>1, <1>1, <1>3, BeforeIsYesterday
    <3>3. DayNumber(on) = DayNumber(d) + 1
      BY ONLY <3>2, <1>1, TomorrowCounts
    <3>4. DayNumber(d) \in Int
      BY ONLY <3>2, DateParts
    <3>5. DayNumber(d) = DayNumber(on) + case.step
      BY ONLY <3>3, <3>4, <2>2, SMT
    <3> QED BY ONLY <3>2, <3>5
  <2> QED BY ONLY <2>1, <2>2, <1>3
<1> HIDE DEF d
<1>5. /\ new \in Dates /\ new.year = d.year /\ new.month = d.month
      /\ new.day = d.day /\ new.days = on.days + case.step
  BY ONLY <1>3, <1>4, SMT DEF Dates
<1> HIDE DEF new
<1>6. IsDate(new) /\ new.days = DayNumber(new)
  BY ONLY <1>1, <1>4, <1>5, SameDay
<1>7. /\ case'.what = "date" /\ case'.on = new /\ case'.left = case.left - 1
      /\ case' \in [what : {"date"}, on : Dates, step : {-1, 1}, left : Nat]
  <2>1. case.left - 1 \in Nat
    BY ONLY <1>1, <1>3, SMT
  <2> QED BY ONLY <1>1, <1>2, <1>5, <2>1
<1>8. /\ MinDays < case'.on.days - case'.left
      /\ case'.on.days + case'.left < MaxDays
  <2>1. MinDays \in Int /\ MaxDays \in Int
    BY CalendarAssumption
  <2> QED BY ONLY <1>1, <1>3, <1>5, <1>7, <2>1, SMT
<1>9. IsDate(case'.on) /\ case'.on.days = DayNumber(case'.on)
  BY ONLY <1>6, <1>7
<1> QED BY ONLY <1>7, <1>8, <1>9 DEF CaseInv

\* So it holds of every case.
LEMMA CaseInvariant == Tested => []CaseInv
<1>1. CaseInv /\ UNCHANGED case => CaseInv'
  BY DEF CaseInv
<1> QED BY <1>1, CaseStarts, WalkKeeps, PTL DEF Tested

\* A date in reach of the walk is written as itself.
LEMMA GregorianHolds == CaseInv => CalendarIsGregorian
<1> SUFFICES ASSUME CaseInv, case.what = "date"
             PROVE  Date(case.on.days) = [sign |-> Sign(case.on.year),
                      year |-> case.on.year, month |-> case.on.month,
                      day |-> case.on.day]
  BY DEF CalendarIsGregorian
<1> DEFINE on == case.on
<1>1. /\ case \in [what : {"date"}, on : Dates, step : {-1, 1}, left : Nat]
      /\ IsDate(on) /\ on.days = DayNumber(on) 
      /\ MinDays < on.days - case.left /\ on.days + case.left < MaxDays
  BY DEF CaseInv
<1>2. on.days \in Int /\ case.left \in Nat /\ MinDays \in Int /\ MaxDays \in Int
  BY <1>1, CalendarAssumption DEF Dates
<1> HIDE DEF on
<1>3. on.days # MinDays /\ on.days # MaxDays
  BY ONLY <1>1, <1>2, SMT
<1>4. Date(on.days) = CivilDate(DayNumber(on))
  BY ONLY <1>1, <1>3, Zenon DEF Date
<1> QED BY ONLY <1>1, <1>4, DateRead, Zenon DEF on

\* Every date that a walk from any known date comes to, however far, is written
\* as the Gregorian calendar has it.
THEOREM DatesCorrect == Tested => []CalendarIsGregorian
BY CaseInvariant, GregorianHolds, PTL

\* n seconds as hours, minutes and seconds
LEMMA Clock ==
  ASSUME NEW n \in Int, 0 <= n
  PROVE  /\ n \div 3600 \in Int /\ (n \div 60) % 60 \in Int /\ n % 60 \in Int
         /\ ((n \div 3600) * 60 + ((n \div 60) % 60)) * 60 + (n % 60) = n
         /\ 0 <= (n \div 60) % 60 /\ (n \div 60) % 60 < 60
         /\ 0 <= n % 60 /\ n % 60 < 60
         /\ 0 <= n \div 3600
         /\ n < 86400 => n \div 3600 < 24
         /\ n <= 86400 /\ n \div 3600 = 24 => n = 86400
<1> DEFINE a == n \div 60
           h == n \div 3600
<1>1. a \in Int /\ 60 * a <= n /\ n < 60 * a + 60
  BY SMT
<1>2. n % 60 = n - 60 * a
  BY RemainderIs, SMT
<1>3. h \in Int /\ 3600 * h <= n /\ n < 3600 * h + 3600
  BY SMT
<1> HIDE DEF a, h
<1>4. 60 * h <= a /\ a < 60 * h + 60
  BY ONLY <1>1, <1>3, n \in Int, SMT
<1>5. a \div 60 = h
  BY ONLY <1>1, <1>3, <1>4, QuotientIs, SMT
<1>6. a % 60 = a - 60 * h
  BY ONLY <1>1, <1>5, RemainderIs, SMT
<1> DEFINE i == a % 60
           s == n % 60
<1> HIDE DEF i, s
<1>7. i \in Int /\ s \in Int /\ i = a - 60 * h /\ s = n - 60 * a
  BY <1>1, <1>2, <1>3, <1>6, SMT DEF i, s
<1>8. /\ (h * 60 + i) * 60 + s = n
      /\ 0 <= i /\ i < 60 /\ 0 <= s /\ s < 60
      /\ 0 <= h
  BY ONLY <1>1, <1>3, <1>4, <1>7, n \in Int, 0 <= n, SMT
<1>9. /\ n < 86400 => h < 24
      /\ n <= 86400 /\ h = 24 => n = 86400
  BY ONLY <1>3, n \in Int, SMT
<1>10. n \div 3600 = h
  BY DEF h
<1>11. (n \div 60) % 60 = i
  BY DEF i, a
<1>12. n % 60 = s
  BY DEF s
<1> QED BY ONLY <1>3, <1>7, <1>8, <1>9, <1>10, <1>11, <1>12, SMT

\* The micros of a day.
LEMMA DayIs ==
    /\ Second \in Int /\ Second > 0
    /\ Day = 86400 * Second /\ Day \in Int /\ Day > 0
BY CalendarAssumption, SMT DEF Day

\* More seconds have more micros.
LEMMA Scaled ==
  ASSUME NEW q \in Int, NEW p \in Int, q <= p
  PROVE  q * Second <= p * Second
<1>1. Second \in Int /\ Second > 0
  BY DayIs
<1>2. Second * (p - q) >= 0
  BY <1>1, SMT
<1> QED BY <1>1, <1>2, SMT

\* A time can be read back, and only the end of the day is in hour 24.
LEMMA TimeRead ==
  ASSUME NEW m \in Int, 0 <= m, m <= Day
  PROVE  LET t == Time(m) IN
         /\ MicrosOf(t) = m
         /\ t.minute < 60 /\ t.second < 60 /\ t.fraction < Second
         /\ t.hour = 24 => m = Day
         /\ m < Day => t.hour < 24
<1> DEFINE t == Time(m)
           q == m \div Second
           f == m % Second
<1>1. Second \in Int /\ Second > 0 /\ Day = 86400 * Second
  BY DayIs
<1>2. q \in Int /\ Second * q <= m /\ m < Second * q + Second
  BY <1>1, QuotientBounds
<1>3. f = m - Second * q
  BY <1>1, RemainderIs
<1>4. m \in 0..Day
  BY DayIs, SMT
<1>5. t = [hour |-> q \div 3600, minute |-> (q \div 60) % 60, second |-> q % 60,
           fraction |-> f]
  BY <1>4 DEF Time
<1>6. /\ t.hour = q \div 3600 /\ t.minute = (q \div 60) % 60
      /\ t.second = q % 60 /\ t.fraction = f
  BY ONLY <1>5
<1> HIDE DEF t, q, f
<1>7. 0 <= q
  <2>1. CASE q <= -1
    <3>1. q * Second <= (-1) * Second
      BY <2>1, <1>2, Scaled, SMT
    <3> QED BY ONLY <3>1, <1>1, <1>2, m \in Int, 0 <= m, SMT
  <2> QED BY <2>1, <1>2, SMT
<1>8. q <= 86400
  <2>1. CASE q >= 86401
    <3>1. 86401 * Second <= q * Second
      BY <2>1, <1>2, Scaled, SMT
    <3> QED BY ONLY <3>1, <1>1, <1>2, m \in Int, m <= Day, SMT
  <2> QED BY <2>1, <1>2, SMT
<1>9. f \in Int /\ f < Second /\ 0 <= f
  BY ONLY <1>1, <1>2, <1>3, m \in Int, SMT
<1>10. MicrosOf(t) = q * Second + f
  <2>1. ((q \div 3600) * 60 + ((q \div 60) % 60)) * 60 + (q % 60) = q
    BY <1>2, <1>7, Clock
  <2> DEFINE h == q \div 3600
             i == (q \div 60) % 60
             s == q % 60
  <2>2. t.hour = h /\ t.minute = i /\ t.second = s /\ t.fraction = f
    BY ONLY <1>6
  <2>4. (h * 60 + i) * 60 + s = q
    BY ONLY <2>1
  <2> HIDE DEF h, i, s
  <2>3. MicrosOf(t) = ((h * 60 + i) * 60 + s) * Second + f
    BY ONLY <2>2, Zenon DEF MicrosOf
  <2> QED BY ONLY <2>4, <2>3, Zenon
<1>11. MicrosOf(t) = m
  BY ONLY <1>10, <1>1, <1>2, <1>3, m \in Int, SMT
<1>12. t.hour = 24 => m = Day
  <2> SUFFICES ASSUME t.hour = 24 PROVE m = Day
    OBVIOUS
  <2>1. q = 86400
    BY <1>2, <1>6, <1>7, <1>8, Clock, SMT
  <2> QED BY ONLY <2>1, <1>1, <1>2, m \in Int, m <= Day, SMT
<1>13. m < Day => t.hour < 24
  <2> SUFFICES ASSUME m < Day PROVE t.hour < 24
    OBVIOUS
  <2>1. q < 86400
    <3>1. CASE q = 86400
      BY ONLY <3>1, <1>1, <1>2, m \in Int, m < Day, SMT
    <3> QED BY <3>1, <1>2, <1>8, SMT
  <2> QED BY <2>1, <1>2, <1>6, <1>7, Clock, SMT
<1>14. t.minute < 60 /\ t.second < 60 /\ t.fraction < Second
  BY <1>2, <1>6, <1>7, <1>9, Clock, SMT
<1> QED BY ONLY <1>11, <1>12, <1>13, <1>14 DEF t

\* So can a timestamp: its date has the number of its day.
LEMMA TimestampRead ==
  ASSUME NEW m \in Int, m \notin {MinMicros, MaxMicros}
  PROVE  LET s == Timestamp(m) IN
         /\ IsDate(s.date) /\ DayNumber(s.date) * Day + MicrosOf(s.time) = m
         /\ s.time.hour < 24
<1> DEFINE s == Timestamp(m)
           q == m \div Day
           r == m % Day
<1>1. s = [date |-> CivilDate(q), time |-> Time(r)]
  BY DEF Timestamp
<1>2. s.date = CivilDate(q) /\ s.time = Time(r)
  BY ONLY <1>1
<1>3. Day \in Int /\ Day > 0
  BY DayIs
<1>4. q \in Int /\ Day * q <= m /\ m < Day * q + Day
  BY <1>3, QuotientBounds
<1>5. r = m - Day * q
  BY <1>3, RemainderIs
<1> HIDE DEF s, q, r
<1>6. r \in Int /\ 0 <= r /\ r < Day /\ r <= Day
  BY ONLY <1>3, <1>4, <1>5, m \in Int, SMT
<1>7. MicrosOf(Time(r)) = r /\ Time(r).hour < 24
  BY ONLY <1>6, TimeRead
<1>8. IsDate(CivilDate(q)) /\ DayNumber(CivilDate(q)) = q
  BY ONLY <1>4, EveryDay
<1>9. q * Day + r = m
  BY ONLY <1>3, <1>4, <1>5, <1>6, m \in Int, SMT
<1> QED BY ONLY <1>2, <1>7, <1>8, <1>9 DEF s

\* TimeTz, its parts named.
Offsets == -57599..57599
Zoned(m, west) ==
    LET offset == IF west < 0 THEN -west ELSE west
    IN [time |-> Time(m), sign |-> IF west > 0 THEN "-" ELSE "+",
        hours |-> offset \div 3600, minutes |-> (offset \div 60) % 60,
        seconds |-> offset % 60]

\* TimeTz in those parts.
LEMMA TimeTzParts ==
  ASSUME NEW m, NEW west
  PROVE  TimeTz(m, west) = IF west \notin Offsets \/ Time(m) = OutOfRange
                             THEN OutOfRange ELSE Zoned(m, west)
BY DEF TimeTz, Zoned, Offsets

\* A time within the day is written as its fields, which is no error.
LEMMA TimeWritten ==
  ASSUME NEW m, m \in 0..Day
  PROVE  Time(m) # OutOfRange
<1> DEFINE seconds == m \div Second
           t == [hour |-> seconds \div 3600, minute |-> (seconds \div 60) % 60,
                 second |-> seconds % 60, fraction |-> m % Second]
<1>1. Time(m) = t
  BY DEF Time
<1>2. "hour" \in DOMAIN t
  OBVIOUS
<1>3. "hour" \notin DOMAIN OutOfRange
  BY DEF OutOfRange
<1> HIDE DEF t
<1> QED BY ONLY <1>1, <1>2, <1>3

\* And so can an offset, its sign turned to the west.
LEMMA OffsetRead ==
  ASSUME NEW m, NEW west \in Int, m \in 0..Day, west \in Offsets
  PROVE  LET z == TimeTz(m, west)
             east == (z.hours * 60 + z.minutes) * 60 + z.seconds
         IN /\ z.time = Time(m) /\ z.minutes < 60 /\ z.seconds < 60
            /\ (IF z.sign = "-" THEN -east ELSE east) = -west
<1> DEFINE z == TimeTz(m, west)
           offset == IF west < 0 THEN -west ELSE west
           sign == IF west > 0 THEN "-" ELSE "+"
           east == (z.hours * 60 + z.minutes) * 60 + z.seconds
<1>1. z = [time |-> Time(m), sign |-> sign,
           hours |-> offset \div 3600, minutes |-> (offset \div 60) % 60,
           seconds |-> offset % 60]
  <2>1. Time(m) # OutOfRange
    BY ONLY m \in 0..Day, TimeWritten, Zenon
  <2>2. TimeTz(m, west) = Zoned(m, west)
    BY ONLY TimeTzParts, <2>1, west \in Offsets, Zenon
  <2> QED BY ONLY <2>2 DEF Zoned
<1>2. /\ z.time = Time(m) /\ z.sign = sign /\ z.hours = offset \div 3600
      /\ z.minutes = (offset \div 60) % 60 /\ z.seconds = offset % 60
  BY ONLY <1>1
<1>3. offset \in Int /\ 0 <= offset
  BY SMT
<1> HIDE DEF z
<1>4. east = offset
  <2> HIDE DEF offset
  <2> QED BY ONLY <1>2, <1>3, Clock
<1>5. (IF z.sign = "-" THEN -offset ELSE offset) = -west
  BY ONLY <1>2, west \in Int, SMT
<1>6. z.minutes < 60 /\ z.seconds < 60
  <2> HIDE DEF offset
  <2> QED BY ONLY <1>2, <1>3, SMT
<1> QED BY ONLY <1>2, <1>4, <1>5, <1>6 DEF z

\* The offsets the code accepts are those of less than 16 hours.
LEMMA WithinSixteenHours ==
  ASSUME NEW w \in Int
  PROVE  -(16 * 3600) < w /\ w < 16 * 3600 <=> w \in Offsets
<1> DEFINE n == 16 * 3600
           a == -57599
           b == 57599
<1>1. n \in Int /\ a = 1 - n /\ b = n - 1
  BY ONLY SMT
<1>2. Offsets = a..b
  BY DEF Offsets
<1> HIDE DEF a, b, n
<1>3. w \in a..b <=> -n < w /\ w < n
  BY ONLY <1>1, w \in Int, SMT
<1>4. w \in Offsets <=> -n < w /\ w < n
  BY ONLY <1>2, <1>3, SMT
<1> QED BY ONLY <1>4, SMT DEF n

\* All of an instant's texts.
LEMMA ReadBackHolds == CaseInv => InstantsReadBack
<1> SUFFICES ASSUME CaseInv, case.what = "instant" PROVE InstantsReadBack
  BY DEF InstantsReadBack
<1> DEFINE m == case.micros
           west == case.west
<1>1. m \in Int /\ west \in Int
  BY DEF CaseInv
<1> HIDE DEF m, west
<1>2. ASSUME m \in 0..Day
      PROVE  /\ MicrosOf(Time(m)) = m
             /\ Time(m).minute < 60 /\ Time(m).second < 60
             /\ Time(m).fraction < Second
             /\ Time(m).hour = 24 => m = Day
  <2>1. 0 <= m /\ m <= Day
    BY <1>2, DayIs, SMT
  <2> QED BY ONLY <1>1, <2>1, TimeRead
<1>3. m \notin 0..Day => Time(m) = OutOfRange
  BY SMT DEF Time
<1>4. m \notin {MinMicros, MaxMicros} =>
         /\ IsDate(Timestamp(m).date)
         /\ DayNumber(Timestamp(m).date) * Day + MicrosOf(Timestamp(m).time) = m
         /\ Timestamp(m).time.hour < 24
  BY ONLY <1>1, TimestampRead
<1> DEFINE near == -(16 * 3600) < west /\ west < 16 * 3600
<1>5. near <=> west \in Offsets
  BY ONLY <1>1, WithinSixteenHours
<1>6. ASSUME m \in 0..Day, near
      PROVE  LET z == TimeTz(m, west)
                 east == (z.hours * 60 + z.minutes) * 60 + z.seconds
             IN /\ z.time = Time(m) /\ z.minutes < 60 /\ z.seconds < 60
                /\ (IF z.sign = "-" THEN -east ELSE east) = -west
  <2> HIDE DEF near
  <2> QED BY ONLY <1>1, <1>5, <1>6, OffsetRead
<1>7. ASSUME ~(m \in 0..Day /\ near) PROVE TimeTz(m, west) = OutOfRange
  <2> HIDE DEF near
  <2> QED BY ONLY <1>3, <1>5, <1>7, TimeTzParts, Zenon
<1>8. /\ IF m \in 0..Day
            THEN /\ MicrosOf(Time(m)) = m
                 /\ Time(m).minute < 60 /\ Time(m).second < 60
                 /\ Time(m).fraction < Second
                 /\ Time(m).hour = 24 => m = Day
            ELSE Time(m) = OutOfRange
      /\ m \notin {MinMicros, MaxMicros} =>
            /\ IsDate(Timestamp(m).date)
            /\ DayNumber(Timestamp(m).date) * Day + MicrosOf(Timestamp(m).time) = m
            /\ Timestamp(m).time.hour < 24
  BY ONLY <1>2, <1>3, <1>4, Zenon
<1>9. IF m \in 0..Day /\ near
        THEN LET z == TimeTz(m, west)
                 east == (z.hours * 60 + z.minutes) * 60 + z.seconds
             IN /\ z.time = Time(m) /\ z.minutes < 60 /\ z.seconds < 60
                /\ (IF z.sign = "-" THEN -east ELSE east) = -west
        ELSE TimeTz(m, west) = OutOfRange
  <2> HIDE DEF near
  <2> QED BY ONLY <1>6, <1>7, Zenon
<1> QED BY ONLY <1>8, <1>9 DEF InstantsReadBack, m, west

\* Every time, timestamp and offset is read back to what it was written for, for
\* every instant and whatever a second is divided into.
THEOREM InstantsCorrect == Tested => []InstantsReadBack
BY CaseInvariant, ReadBackHolds, PTL
=============================================================================

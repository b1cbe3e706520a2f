-------------------------- MODULE SqlxActor_proofs --------------------------
(***************************************************************************)
(* Safety of SqlxActor for every set of services, requests and close()     *)
(* calls and for every queue capacity, with and without a panicking        *)
(* driver, and the proof that it implements SqlxFifo.                      *)
(***************************************************************************)
EXTENDS SqlxActor, FiniteSetTheorems, SequenceTheorems, TLAPS

Busy == {"running", "executed", "settled"}

\* The handler and the request it carries out agree on where they are.
HandlerInv ==
    /\ cur # NoReq => conn \in Busy /\ phase[cur] = conn
    /\ conn \in Busy => cur # NoReq
    /\ \A r \in Requests : phase[r] \in Busy => r = cur
    /\ \A r \in Requests : phase[r] = "lost" => conn = "panicked"

\* The queue holds exactly the queued requests and nothing twice; it is empty
\* once the handler has left its loop.
QueueInv ==
    /\ \A i \in 1..Len(queue) : queue[i] # Close => phase[queue[i]] = "queued"
    /\ \A i, j \in 1..Len(queue) : queue[i] = queue[j] => i = j
    /\ \A r \in Requests : phase[r] = "queued" =>
          \E i \in 1..Len(queue) : queue[i] = r
    /\ conn \in {"leaving", "retired", "gone", "panicked"} => queue = <<>>

\* Who sets the closing flag first is the only one to send Close.
CloseInv ==
    /\ SingleClose
    /\ ~closing => /\ \A t \in Tasks : task[t] = "none"
                   /\ ~rxClosed
                   /\ \A i \in 1..Len(queue) : queue[i] # Close

\* Out of its loop the handler can be reached by nobody any more.
LeavingInv ==
    conn \in {"leaving", "retired", "gone"} => rxClosed \/ Strong = {}

\* A service keeps its handle while it issues a request.
HoldInv ==
    \A r \in Requests : phase[r] \in {"checked", "counted", "refused"} =>
        handle[ClientOf[r]]

\* The watch channel tells how the handler ended.
ClosedInv ==
    /\ closed = "true" <=> conn = "gone"
    /\ closed = "dropped" <=> conn = "panicked"
    /\ \A k \in Closers : outcome[k] = "true" => closed = "true"

\* Replies and phases, with the point between giving up the lease and the
\* count of a refused submission.
RepliesInv ==
    /\ RepliesMatchPhases
    /\ \A r \in Waited : phase[r] = "refused" => reply[r] = "abandoned"

\* Requests the handler has begun to carry out.
Begun == Len(served) + (IF conn = "running" THEN 1 ELSE 0)

\* The queue continues the accepted requests where the handler stands, but for
\* a Close at position p; p is past the end when the queue holds no Close.
Order(p) ==
    /\ \A i \in 1..Len(queue) : queue[i] = Close <=> i = p
    /\ \A i \in 1..Len(queue) : i < p => accepted[Begun + i] = queue[i]
    /\ \A i \in 1..Len(queue) : i > p => accepted[Begun + i - 1] = queue[i]
    /\ Len(accepted) = Begun + Len(queue) - (IF p <= Len(queue) THEN 1 ELSE 0)

OrderInv ==
    conn # "panicked" => /\ \E p \in 1..(Len(queue) + 1) : Order(p)
                         /\ conn = "running" => accepted[Begun] = cur

ServedInv ==
    /\ Len(served) <= Len(accepted)
    /\ \A i \in 1..Len(served) : served[i] = accepted[i]

AcceptedInv ==
    \A i \in 1..Len(accepted) :
        phase[accepted[i]] \in Busy \cup {"queued", "done", "lost"}

IInv == /\ TypeOK /\ HandlerInv /\ QueueInv /\ CloseInv /\ LeavingInv /\ HoldInv
        /\ ClosedInv /\ CounterIsPending /\ RepliesInv
        /\ OrderInv /\ ServedInv /\ AcceptedInv

----------------------------------------------------------------------------
\* What Append and Tail do to the queue, element by element.
Pushed(x) ==
    /\ Len(queue) \in Nat
    /\ Len(queue') = Len(queue) + 1
    /\ \A i \in 1..Len(queue) : queue'[i] = queue[i]
    /\ queue'[Len(queue) + 1] = x
    /\ DOMAIN queue' = 1..Len(queue')

Popped(x) ==
    /\ Len(queue) \in Nat \ {0}
    /\ Len(queue') = Len(queue) - 1
    /\ queue[1] = x
    /\ \A i \in 1..Len(queue') : queue'[i] = queue[i + 1]
    /\ \A i \in 2..Len(queue) : queue'[i - 1] = queue[i]
    /\ DOMAIN queue' = 1..Len(queue')

\* Append puts one element behind the queue.
LEMMA Pushes ==
    ASSUME NEW x \in Requests \cup {Close}, queue' = Append(queue, x),
           queue \in Seq(Requests \cup {Close})
    PROVE  Pushed(x)
BY DEF Pushed

\* Tail moves every element of the queue one place forward.
LEMMA Pops ==
    ASSUME queue' = Tail(queue), queue # <<>>,
           queue \in Seq(Requests \cup {Close})
    PROVE  Popped(Head(queue))
BY DEF Popped

\* What IInv says of the queue, index by index.
LEMMA QueueElements ==
    ASSUME IInv
    PROVE  /\ Len(queue) \in Nat /\ DOMAIN queue = 1..Len(queue)
           /\ \A i \in 1..Len(queue) : queue[i] \in Requests \cup {Close}
           /\ phase \in [Requests -> Phases] /\ task \in [Tasks -> TaskStates]
           /\ Close \notin Requests
BY ActorAssumption DEF IInv, TypeOK

\* While a task or a service can still send, the handler is in its loop.
LEMMA SendersKeepLoop ==
    ASSUME IInv, ~RxDead,
           (\E t \in Tasks : Sending(t)) \/ (\E r \in Requests : phase[r] = "counted")
    PROVE  conn \notin {"leaving", "retired", "gone", "panicked"}
<1>1. Strong # {}
  <2>1. ASSUME NEW t \in Tasks, Sending(t) PROVE Strong # {}
    BY <2>1 DEF Strong, Sending
  <2>2. ASSUME NEW r \in Requests, phase[r] = "counted" PROVE Strong # {}
    <3>1. handle[ClientOf[r]] /\ ClientOf[r] \in Clients
      BY <2>2, ActorAssumption DEF IInv, HoldInv
    <3> QED  BY <3>1 DEF Strong
  <2> QED  BY <2>1, <2>2
<1> QED  BY <1>1 DEF IInv, LeavingInv, RxDead

\* The handler takes a request that is queued.
LEMMA HeadIsQueued ==
    ASSUME IInv, queue # <<>>, Head(queue) # Close
    PROVE  Head(queue) \in Requests /\ phase[Head(queue)] = "queued"
<1>1. 1 \in 1..Len(queue) /\ Head(queue) = queue[1]
  OBVIOUS
<1> QED  BY <1>1, QueueElements DEF IInv, QueueInv

\* A pending request is counted.
LEMMA PendingCounted ==
    ASSUME IInv
    PROVE  /\ IsFiniteSet(Pending)
           /\ \A r \in Pending : counter \in Nat \ {0}
<1>1. IsFiniteSet(Pending)
  BY ActorAssumption, FS_Subset DEF Pending
<1>2. ASSUME NEW r \in Pending PROVE counter \in Nat \ {0}
  <2>1. Cardinality(Pending) # 0
    BY <1>1, <1>2, FS_EmptySet
  <2> QED  BY <2>1 DEF IInv, TypeOK, CounterIsPending
<1> QED  BY <1>1, <1>2

\* The handler and the request it carries out stay in step.
LEMMA HandlerStep ==
    ASSUME IInv, Next
    PROVE  HandlerInv'
<1>1. CASE UNCHANGED <<conn, cur, phase>>
  BY <1>1 DEF IInv, HandlerInv
<1>2. CASE Connect
  BY <1>2 DEF IInv, HandlerInv, Busy, Connect, calls
<1>3. CASE DialFails
  BY <1>3 DEF IInv, HandlerInv, Busy, DialFails, calls
<1>4. CASE DialSucceeds
  BY <1>4 DEF IInv, HandlerInv, Busy, DialSucceeds, calls
<1>5. CASE Announce
  BY <1>5 DEF IInv, HandlerInv, Busy, Announce, calls
<1>6. ASSUME NEW r \in Requests, Check(r) PROVE HandlerInv'
  BY <1>6 DEF IInv, HandlerInv, Busy, Check, SetPhase
<1>7. ASSUME NEW r \in Requests, Count(r) PROVE HandlerInv'
  BY <1>7 DEF IInv, HandlerInv, Busy, Count, SetPhase
<1>8. ASSUME NEW r \in Requests, TrySend(r) PROVE HandlerInv'
  BY <1>8 DEF IInv, HandlerInv, Busy, TrySend, SetPhase
<1>9. ASSUME NEW r \in Requests, TrySendFails(r) PROVE HandlerInv'
  BY <1>9 DEF IInv, HandlerInv, Busy, TrySendFails, SetPhase
<1>10. ASSUME NEW r \in Requests, Uncount(r) PROVE HandlerInv'
  BY <1>10 DEF IInv, HandlerInv, Busy, Uncount, SetPhase
<1>11. CASE Recv
  BY <1>11, ActorAssumption DEF IInv, HandlerInv, Busy, TypeOK, Recv, SetPhase
<1>12. CASE Execute
  BY <1>12 DEF IInv, HandlerInv, Busy, TypeOK, Execute, SetPhase
<1>13. CASE Settle
  BY <1>13 DEF IInv, HandlerInv, Busy, TypeOK, Settle, SetPhase
<1>14. CASE Respond
  BY <1>14 DEF IInv, HandlerInv, Busy, TypeOK, Respond, SetPhase
<1>15. CASE Panic
  BY <1>15 DEF IInv, HandlerInv, Busy, Panic
<1>16. CASE LoopEnds
  BY <1>16 DEF IInv, HandlerInv, Busy, LoopEnds, calls
<1>17. CASE Retire
  BY <1>17 DEF IInv, HandlerInv, Busy, Retire, calls
<1>18. CASE Signal
  BY <1>18 DEF IInv, HandlerInv, Busy, Signal, calls
<1> QED
  BY <1>1, <1>2, <1>3, <1>4, <1>5, <1>6, <1>7, <1>8, <1>9, <1>10, <1>11,
     <1>12, <1>13, <1>14, <1>15, <1>16, <1>17, <1>18 DEF Next, Handler, Dial,
     InCallStep, CloseTask, TakeConnection, ReleaseHandle, FindLook,
     FindUpgrade, FindStale, TakeReply, Walk, CloseCall, Replace, SendClose,
     Park, SendGranted, SendFails, CloseAnswered, RecvClose, chan, calls,
     hist, people

\* The queue stays the set of queued requests, each once.
LEMMA QueueStep ==
    ASSUME IInv, Next
    PROVE  QueueInv'
<1>1. CASE UNCHANGED <<conn, queue, phase>>
  BY <1>1 DEF IInv, QueueInv
<1>2. CASE Connect
  BY <1>2 DEF IInv, QueueInv, Connect, chan, calls
<1>3. CASE DialFails
  BY <1>3 DEF IInv, QueueInv, DialFails, chan, calls
<1>4. CASE DialSucceeds
  BY <1>4 DEF IInv, QueueInv, DialSucceeds, chan, calls
<1>5. CASE Announce
  BY <1>5 DEF IInv, QueueInv, Announce, chan, calls
<1>6. ASSUME NEW r \in Requests, Check(r) PROVE QueueInv'
  BY <1>6 DEF IInv, QueueInv, Check, SetPhase, chan
<1>7. ASSUME NEW r \in Requests, Count(r) PROVE QueueInv'
  BY <1>7 DEF IInv, QueueInv, Count, SetPhase, chan
<1>8. ASSUME NEW r \in Requests, TrySend(r) PROVE QueueInv'
  <2>1. Pushed(r)
    BY <1>8, Pushes DEF IInv, TypeOK, TrySend
  <2>2. phase[r] = "counted" /\ phase' = [phase EXCEPT ![r] = "queued"]
         /\ conn' = conn /\ ~RxDead
    BY <1>8 DEF TrySend, SetPhase, CanSend
  <2>3. QueueInv
    BY DEF IInv
  <2> QED
    BY <2>1, <2>2, <2>3, QueueElements, SendersKeepLoop DEF Pushed, QueueInv
<1>9. ASSUME NEW r \in Requests, TrySendFails(r) PROVE QueueInv'
  BY <1>9 DEF IInv, QueueInv, TrySendFails, SetPhase, chan
<1>10. ASSUME NEW r \in Requests, Uncount(r) PROVE QueueInv'
  BY <1>10 DEF IInv, QueueInv, Uncount, SetPhase, chan
<1>11. ASSUME NEW t \in Tasks, SendClose(t) PROVE QueueInv'
  <2>1. Pushed(Close)
    BY <1>11, Pushes DEF IInv, TypeOK, SendClose
  <2>2. Sending(t) /\ ~RxDead
         /\ phase' = phase /\ conn' = conn
    BY <1>11 DEF SendClose, CanSend, Sending
  <2>3. QueueInv /\ SingleClose
    BY DEF IInv, CloseInv
  <2> QED
    BY <2>1, <2>2, <2>3, SendersKeepLoop DEF Pushed, QueueInv, SingleClose,
       CloseAt
<1>12. ASSUME NEW t \in Tasks, SendGranted(t) PROVE QueueInv'
  <2>1. Pushed(Close)
    BY <1>12, Pushes DEF IInv, TypeOK, SendGranted
  <2>2. Sending(t) /\ ~RxDead
         /\ phase' = phase /\ conn' = conn
    BY <1>12 DEF SendGranted, Sending
  <2>3. QueueInv /\ SingleClose
    BY DEF IInv, CloseInv
  <2> QED
    BY <2>1, <2>2, <2>3, SendersKeepLoop DEF Pushed, QueueInv, SingleClose,
       CloseAt
<1>13. CASE RecvClose
  <2>1. Popped(Head(queue))
    BY <1>13, Pops DEF IInv, TypeOK, RecvClose
  <2>2. conn = "recv" /\ Head(queue) = Close /\ phase' = phase /\ conn' = conn
    BY <1>13 DEF RecvClose
  <2>3. QueueInv
    BY DEF IInv
  <2> QED
    BY <2>1, <2>2, <2>3, QueueElements DEF Popped, QueueInv
<1>14. CASE Recv
  <2>1. Popped(Head(queue))
    BY <1>14, Pops DEF IInv, TypeOK, Recv
  <2>2. /\ Head(queue) # Close /\ conn' = "running"
         /\ phase' = [phase EXCEPT ![Head(queue)] = "running"]
    BY <1>14 DEF Recv, SetPhase
  <2>3. QueueInv
    BY DEF IInv
  <2> QED
    BY <2>1, <2>2, <2>3, QueueElements DEF Popped, QueueInv
<1>15. CASE Execute
  BY <1>15 DEF IInv, HandlerInv, QueueInv, Busy, Execute, SetPhase, chan
<1>16. CASE Settle
  BY <1>16 DEF IInv, HandlerInv, QueueInv, Busy, Settle, SetPhase, chan
<1>17. CASE Respond
  BY <1>17 DEF IInv, HandlerInv, QueueInv, Busy, Respond, SetPhase, chan
<1>18. CASE Panic
  BY <1>18 DEF QueueInv, Panic
<1>19. CASE LoopEnds
  <2>1. queue = <<>>
    <3>1. Len(queue) = 0
      BY <1>19 DEF LoopEnds, InUse
    <3> QED  BY <3>1
  <2>2. conn' = "leaving" /\ UNCHANGED <<queue, phase>>
    BY <1>19 DEF LoopEnds, chan, calls
  <2> QED  BY <2>1, <2>2 DEF IInv, QueueInv
<1>20. CASE Retire
  BY <1>20 DEF IInv, QueueInv, Retire, chan, calls
<1>21. CASE Signal
  BY <1>21 DEF IInv, QueueInv, Signal, chan, calls
<1> QED
  BY <1>1, <1>2, <1>3, <1>4, <1>5, <1>6, <1>7, <1>8, <1>9, <1>10, <1>11,
     <1>12, <1>13, <1>14, <1>15, <1>16, <1>17, <1>18, <1>19, <1>20, <1>21 DEF
     Next, Handler, Dial, InCallStep, CloseTask, TakeConnection,
     ReleaseHandle, FindLook, FindUpgrade, FindStale, TakeReply, Walk,
     CloseCall, Replace, Park, SendFails, CloseAnswered, chan, calls, hist,
     people

\* Close is sent by one task only.
LEMMA CloseStep ==
    ASSUME IInv, Next
    PROVE  CloseInv'
<1>1. CASE UNCHANGED <<closing, queue, task, rxClosed>>
  BY <1>1 DEF IInv, CloseInv, SingleClose, Sending, CloseAt
<1>2. ASSUME NEW r \in Requests, TrySend(r) PROVE CloseInv'
  BY <1>2, ActorAssumption DEF IInv, CloseInv, SingleClose, Sending, CloseAt,
     TrySend
<1>3. ASSUME NEW k \in Closers, CloseCall(k) PROVE CloseInv'
  BY <1>3 DEF IInv, CloseInv, SingleClose, Sending, CloseAt, TypeOK,
     CloseCall, SetTask, FirstClose, chan
<1>4. CASE Replace
  BY <1>4 DEF IInv, CloseInv, SingleClose, Sending, CloseAt, TypeOK, Replace,
     SetTask, FirstClose, chan
<1>5. ASSUME NEW t \in Tasks, SendClose(t) PROVE CloseInv'
  BY <1>5 DEF IInv, CloseInv, SingleClose, Sending, CloseAt, TypeOK,
     SendClose, SetTask, Sent
<1>6. ASSUME NEW t \in Tasks, Park(t) PROVE CloseInv'
  BY <1>6 DEF IInv, CloseInv, SingleClose, Sending, CloseAt, Park, SetTask,
     chan
<1>7. ASSUME NEW t \in Tasks, SendGranted(t) PROVE CloseInv'
  BY <1>7 DEF IInv, CloseInv, SingleClose, Sending, CloseAt, TypeOK,
     SendGranted, SetTask, Sent
<1>8. ASSUME NEW t \in Tasks, SendFails(t) PROVE CloseInv'
  BY <1>8 DEF IInv, CloseInv, SingleClose, Sending, CloseAt, SendFails,
     SetTask, chan
<1>9. ASSUME NEW k \in Closers, CloseAnswered(k) PROVE CloseInv'
  BY <1>9 DEF IInv, CloseInv, SingleClose, Sending, CloseAt, CloseAnswered,
     SetTask, chan
<1>10. CASE RecvClose
  <2>1. Popped(Head(queue))
    BY <1>10, Pops DEF IInv, TypeOK, RecvClose
  <2>2. /\ Head(queue) = Close /\ rxClosed' = TRUE
         /\ closing' = closing
         /\ task' = [t \in Tasks |-> IF task[t] = "parked" THEN "granted"
                                                  ELSE task[t]]
    BY <1>10 DEF RecvClose, HandOver
  <2>3. \A t \in Tasks : /\ Sending(t)' <=> Sending(t)
                         /\ task'[t] = "none" <=> task[t] = "none"
    BY <2>2 DEF Sending
  <2>4. /\ SingleClose /\ QueueInv
        /\ ~closing => /\ \A t \in Tasks : task[t] = "none"
                       /\ ~rxClosed
                       /\ \A i \in 1..Len(queue) : queue[i] # Close
    BY DEF IInv, CloseInv
  <2>5. \A i \in 1..Len(queue') : queue'[i] # Close
    BY <2>1, <2>2, <2>4 DEF Popped, QueueInv
  <2>6. CloseAt(1) /\ 1 \in 1..Len(queue)
    BY <2>1, <2>2 DEF Popped, CloseAt
  <2>7. closing /\ \A t \in Tasks : ~Sending(t)
    BY <2>4, <2>6 DEF SingleClose, CloseAt
  <2>8. SingleClose'
    <3>1. \A t \in Tasks : ~Sending(t)'
      BY <2>3, <2>7
    <3> QED  BY <2>1, <2>5, <3>1 DEF SingleClose, CloseAt, Popped
  <2> QED
    BY <2>2, <2>7, <2>8 DEF CloseInv
<1>11. CASE Recv
  <2>1. Popped(Head(queue))
    BY <1>11, Pops DEF IInv, TypeOK, Recv
  <2>2. /\ Head(queue) # Close /\ rxClosed' = rxClosed
         /\ closing' = closing
         /\ task' = [t \in Tasks |-> IF task[t] = "parked" THEN "granted"
                                                  ELSE task[t]]
    BY <1>11 DEF Recv, HandOver
  <2>3. \A t \in Tasks : /\ Sending(t)' <=> Sending(t)
                         /\ task'[t] = "none" <=> task[t] = "none"
    BY <2>2 DEF Sending
  <2>4. /\ SingleClose /\ QueueInv
        /\ ~closing => /\ \A t \in Tasks : task[t] = "none"
                       /\ ~rxClosed
                       /\ \A i \in 1..Len(queue) : queue[i] # Close
    BY DEF IInv, CloseInv
  <2>5. \A i \in 1..Len(queue') : CloseAt(i)' => CloseAt(i + 1)
    BY <2>1 DEF Popped, CloseAt
  <2>6. ASSUME NEW t \in Tasks, NEW u \in Tasks, Sending(t)', Sending(u)'
        PROVE  t = u
    <3>1. Sending(t) /\ Sending(u)
      BY <2>3, <2>6
    <3> QED  BY <2>4, <3>1 DEF SingleClose
  <2>7. ASSUME NEW i \in DOMAIN queue', NEW j \in DOMAIN queue',
               CloseAt(i)', CloseAt(j)'
        PROVE  i = j
    <3>1. i \in 1..Len(queue') /\ j \in 1..Len(queue')
      BY <2>1 DEF Popped
    <3>2. CloseAt(i + 1) /\ CloseAt(j + 1)
      BY <2>5, <2>7, <3>1
    <3>3. i + 1 = j + 1
      BY <2>4, <3>2 DEF SingleClose, CloseAt
    <3> QED  BY <3>1, <3>3
  <2>8. (\A i \in DOMAIN queue : ~CloseAt(i))
           => \A i \in DOMAIN queue' : ~CloseAt(i)'
    BY <2>1, <2>5 DEF Popped
  <2>9. SingleClose'
    BY <2>2, <2>3, <2>4, <2>6, <2>7, <2>8 DEF SingleClose
  <2>10. ~closing => \A i \in 1..Len(queue') : queue'[i] # Close
    BY <2>1, <2>4 DEF Popped
  <2> QED
    BY <2>2, <2>3, <2>4, <2>9, <2>10 DEF CloseInv
<1>12. CASE Panic
  BY <1>12 DEF IInv, CloseInv, SingleClose, Sending, Panic
<1> QED
  BY <1>1, <1>2, <1>3, <1>4, <1>5, <1>6, <1>7, <1>8, <1>9, <1>10, <1>11, <1>12
     DEF Next, Handler, Dial, InCallStep, CloseTask, Connect, DialFails,
     DialSucceeds, Announce, TakeConnection, ReleaseHandle, FindLook,
     FindUpgrade, FindStale, Check, Count, TrySendFails, Uncount, TakeReply,
     Walk, Execute, Settle, Respond, LoopEnds, Retire, Signal, chan, calls,
     people, hist

\* Nobody new can reach a handler that has left its loop.
LEMMA LeavingStep ==
    ASSUME IInv, Next
    PROVE  LeavingInv'
<1>1. CASE UNCHANGED <<conn, rxClosed, handle, task, reply>>
  BY <1>1 DEF IInv, LeavingInv, Strong
<1>2. CASE Connect
  BY <1>2 DEF LeavingInv, Connect, Mailbox!Open, Mailbox!Move
<1>3. CASE DialFails
  BY <1>3 DEF LeavingInv, DialFails, Mailbox!Answer, Mailbox!Deliver,
     Mailbox!Move
<1>4. CASE DialSucceeds
  BY <1>4 DEF LeavingInv, DialSucceeds
<1>5. CASE Announce
  BY <1>5 DEF LeavingInv, Announce, Mailbox!Answer, Mailbox!Deliver,
     Mailbox!Move
<1>6. CASE TakeConnection
  BY <1>6 DEF IInv, LeavingInv, Strong, TakeConnection, chan, Mailbox!Take,
     Mailbox!Move
<1>7. ASSUME NEW c \in Clients, ReleaseHandle(c) PROVE LeavingInv'
  BY <1>7 DEF IInv, LeavingInv, Strong, ReleaseHandle, chan
<1>8. ASSUME NEW c \in Clients, FindUpgrade(c) PROVE LeavingInv'
  BY <1>8 DEF IInv, LeavingInv, Strong, FindUpgrade, chan, calls
<1>9. ASSUME NEW r \in Requests, Count(r) PROVE LeavingInv'
  BY <1>9 DEF IInv, LeavingInv, Strong, TypeOK, Mailbox!TypeOK, Calls, Count,
     chan, people, Mailbox!Open, Mailbox!Move
<1>10. ASSUME NEW r \in Requests, TrySendFails(r) PROVE LeavingInv'
  BY <1>10 DEF IInv, LeavingInv, Strong, TypeOK, Mailbox!TypeOK, Calls,
     TrySendFails, chan, people, Mailbox!Abandon, Mailbox!Move
<1>11. ASSUME NEW x \in Calls, TakeReply(x) PROVE LeavingInv'
  BY <1>11 DEF IInv, LeavingInv, Strong, TakeReply, chan, calls, people,
     Mailbox!Take, Mailbox!Move
<1>12. ASSUME NEW x \in Calls, Walk(x) PROVE LeavingInv'
  BY <1>12 DEF IInv, LeavingInv, Strong, Walk, chan, calls, people,
     Mailbox!Abandon, Mailbox!Move
<1>13. ASSUME NEW k \in Closers, CloseCall(k) PROVE LeavingInv'
  BY <1>13, ActorAssumption DEF IInv, LeavingInv, Strong, CloseCall, chan,
     Mailbox!Open, Mailbox!Move
<1>14. CASE Replace
  BY <1>14 DEF IInv, LeavingInv, Strong, Replace, chan, people
<1>15. ASSUME NEW t \in Tasks, SendClose(t) PROVE LeavingInv'
  BY <1>15 DEF IInv, LeavingInv, Strong, SendClose
<1>16. ASSUME NEW t \in Tasks, Park(t) PROVE LeavingInv'
  BY <1>16 DEF IInv, LeavingInv, Strong, Park, RxDead
<1>17. ASSUME NEW t \in Tasks, SendGranted(t) PROVE LeavingInv'
  BY <1>17 DEF IInv, LeavingInv, Strong, SendGranted
<1>18. ASSUME NEW t \in Tasks, SendFails(t) PROVE LeavingInv'
  BY <1>18 DEF IInv, LeavingInv, Strong, SendFails, chan
<1>19. ASSUME NEW k \in Closers, CloseAnswered(k) PROVE LeavingInv'
  BY <1>19, ActorAssumption DEF IInv, LeavingInv, Strong, TypeOK,
     Mailbox!TypeOK, Calls, CloseAnswered, SetTask, chan, people,
     Mailbox!Answer, Mailbox!Deliver, Mailbox!Move
<1>20. CASE RecvClose
  BY <1>20 DEF LeavingInv, RecvClose
<1>21. CASE Recv
  BY <1>21 DEF LeavingInv, Recv
<1>22. CASE Execute
  BY <1>22 DEF LeavingInv, Execute
<1>23. CASE Settle
  BY <1>23 DEF LeavingInv, Settle
<1>24. CASE Respond
  BY <1>24 DEF LeavingInv, Respond, Mailbox!Answer, Mailbox!Deliver,
     Mailbox!Move
<1>25. CASE Panic
  BY <1>25 DEF LeavingInv, Panic
<1>26. CASE LoopEnds
  BY <1>26 DEF LeavingInv, Strong, LoopEnds, chan, calls, people
<1>27. CASE Retire
  BY <1>27 DEF IInv, LeavingInv, Strong, Retire, chan, calls, people
<1>28. CASE Signal
  BY <1>28 DEF IInv, LeavingInv, Strong, Signal, chan, calls, people
<1> QED
  BY <1>1, <1>2, <1>3, <1>4, <1>5, <1>6, <1>7, <1>8, <1>9, <1>10, <1>11,
     <1>12, <1>13, <1>14, <1>15, <1>16, <1>17, <1>18, <1>19, <1>20, <1>21,
     <1>22, <1>23, <1>24, <1>25, <1>26, <1>27, <1>28 DEF Next, Handler, Dial,
     InCallStep, CloseTask, FindLook, FindStale, Check, TrySend, Uncount,
     chan, calls, hist, people

\* A handle is not released in the middle of a call.
LEMMA HoldStep ==
    ASSUME IInv, Next
    PROVE  HoldInv'
<1>1. CASE UNCHANGED <<handle, phase>>
  BY <1>1 DEF IInv, HoldInv
<1>2. CASE TakeConnection
  BY <1>2 DEF IInv, HoldInv, TakeConnection, calls
<1>3. ASSUME NEW c \in Clients, ReleaseHandle(c) PROVE HoldInv'
  BY <1>3 DEF IInv, HoldInv, InCall, ReleaseHandle, calls
<1>4. ASSUME NEW c \in Clients, FindUpgrade(c) PROVE HoldInv'
  BY <1>4, ActorAssumption DEF IInv, HoldInv, HandlerInv, TypeOK, FindUpgrade,
     calls
<1>5. ASSUME NEW r \in Requests, Check(r) PROVE HoldInv'
  BY <1>5 DEF IInv, HoldInv, Check, SetPhase, people
<1>6. ASSUME NEW r \in Requests, Count(r) PROVE HoldInv'
  BY <1>6 DEF IInv, HoldInv, Count, SetPhase, people
<1>7. ASSUME NEW r \in Requests, TrySend(r) PROVE HoldInv'
  BY <1>7 DEF IInv, HoldInv, TrySend, SetPhase, people
<1>8. ASSUME NEW r \in Requests, TrySendFails(r) PROVE HoldInv'
  BY <1>8 DEF IInv, HoldInv, TrySendFails, SetPhase, people
<1>9. ASSUME NEW r \in Requests, Uncount(r) PROVE HoldInv'
  BY <1>9 DEF IInv, HoldInv, Uncount, SetPhase, people
<1>10. CASE Recv
  BY <1>10 DEF IInv, HoldInv, Recv, SetPhase, people
<1>11. CASE Execute
  BY <1>11 DEF IInv, HoldInv, Execute, SetPhase, people
<1>12. CASE Settle
  BY <1>12 DEF IInv, HoldInv, Settle, SetPhase, people
<1>13. CASE Respond
  BY <1>13 DEF IInv, HoldInv, Respond, SetPhase, people
<1>14. CASE Panic
  BY <1>14 DEF IInv, HoldInv, Panic, people
<1> QED
  BY <1>1, <1>2, <1>3, <1>4, <1>5, <1>6, <1>7, <1>8, <1>9, <1>10, <1>11,
     <1>12, <1>13, <1>14 DEF Next, Handler, Dial, InCallStep, CloseTask,
     Connect, DialFails, DialSucceeds, Announce, FindLook, FindStale,
     TakeReply, Walk, CloseCall, Replace, SendClose, Park, SendGranted,
     SendFails, CloseAnswered, RecvClose, LoopEnds, Retire, Signal, chan,
     calls, people, hist

\* The watch channel follows the handler.
LEMMA ClosedStep ==
    ASSUME IInv, Next
    PROVE  ClosedInv'
<1>1. CASE UNCHANGED <<closed, conn, outcome>>
  BY <1>1 DEF IInv, ClosedInv
<1>2. CASE Connect
  BY <1>2 DEF IInv, ClosedInv, Connect, calls
<1>3. CASE DialFails
  BY <1>3 DEF IInv, ClosedInv, DialFails, calls
<1>4. CASE DialSucceeds
  BY <1>4 DEF IInv, ClosedInv, DialSucceeds, calls
<1>5. CASE Announce
  BY <1>5 DEF IInv, ClosedInv, Announce, calls
<1>6. ASSUME NEW k \in Closers, CloseAnswered(k) PROVE ClosedInv'
  BY <1>6 DEF IInv, ClosedInv, CloseAnswered
<1>7. CASE Recv
  BY <1>7 DEF IInv, ClosedInv, Recv
<1>8. CASE Execute
  BY <1>8 DEF IInv, ClosedInv, Execute
<1>9. CASE Settle
  BY <1>9 DEF IInv, ClosedInv, Settle
<1>10. CASE Respond
  BY <1>10 DEF IInv, ClosedInv, Respond
<1>11. CASE Panic
  BY <1>11 DEF IInv, ClosedInv, Panic
<1>12. CASE LoopEnds
  BY <1>12 DEF IInv, ClosedInv, LoopEnds, calls
<1>13. CASE Retire
  BY <1>13 DEF IInv, ClosedInv, Retire, calls
<1>14. CASE Signal
  BY <1>14 DEF ClosedInv, Signal
<1> QED
  BY <1>1, <1>2, <1>3, <1>4, <1>5, <1>6, <1>7, <1>8, <1>9, <1>10, <1>11,
     <1>12, <1>13, <1>14 DEF Next, Handler, Dial, InCallStep, CloseTask,
     TakeConnection, ReleaseHandle, FindLook, FindUpgrade, FindStale, Check,
     Count, TrySend, TrySendFails, Uncount, TakeReply, Walk, CloseCall,
     Replace, SendClose, Park, SendGranted, SendFails, RecvClose, chan, calls,
     hist, people

\* Every change of the counter pairs with a change of the pending requests.
LEMMA CounterStep ==
    ASSUME IInv, Next
    PROVE  CounterIsPending'
<1>1. CASE UNCHANGED <<counter, phase>>
  BY <1>1 DEF IInv, CounterIsPending, Pending
<1>2. ASSUME NEW r \in Requests, Check(r) PROVE CounterIsPending'
  BY <1>2 DEF IInv, CounterIsPending, Pending, Check, SetPhase
<1>3. ASSUME NEW r \in Requests, Count(r) PROVE CounterIsPending'
  <2>1. Pending' = Pending \cup {r} /\ r \notin Pending
    BY <1>3 DEF IInv, TypeOK, Pending, Count, SetPhase
  <2> QED
    BY <1>3, <2>1, PendingCounted, FS_AddElement DEF IInv, CounterIsPending,
       Count
<1>4. ASSUME NEW r \in Requests, TrySend(r) PROVE CounterIsPending'
  BY <1>4 DEF IInv, CounterIsPending, Pending, TypeOK, TrySend, SetPhase
<1>5. ASSUME NEW r \in Requests, TrySendFails(r) PROVE CounterIsPending'
  BY <1>5 DEF IInv, CounterIsPending, Pending, TrySendFails, SetPhase
<1>6. ASSUME NEW r \in Requests, Uncount(r) PROVE CounterIsPending'
  <2>1. Pending' = Pending \ {r} /\ r \in Pending
    BY <1>6 DEF IInv, TypeOK, Pending, Uncount, SetPhase
  <2> QED
    BY <1>6, <2>1, PendingCounted, FS_RemoveElement DEF IInv,
       CounterIsPending, Uncount
<1>7. CASE Recv
  <2>1. Pending' = Pending
    BY <1>7, HeadIsQueued DEF Pending, Recv, SetPhase
  <2> QED  BY <1>7, <2>1 DEF IInv, CounterIsPending, Recv
<1>8. CASE Execute
  BY <1>8 DEF IInv, CounterIsPending, Pending, HandlerInv, Busy, TypeOK,
     Execute, SetPhase
<1>9. CASE Settle
  <2>1. Pending' = Pending \ {cur} /\ cur \in Pending
    BY <1>9 DEF IInv, TypeOK, HandlerInv, Busy, Pending, Settle, SetPhase
  <2> QED
    BY <1>9, <2>1, PendingCounted, FS_RemoveElement DEF IInv,
       CounterIsPending, Settle
<1>10. CASE Respond
  BY <1>10 DEF IInv, CounterIsPending, Pending, HandlerInv, Busy, Respond,
     SetPhase
<1>11. CASE Panic
  BY <1>11 DEF IInv, CounterIsPending, Pending, Panic
<1> QED
  BY <1>1, <1>2, <1>3, <1>4, <1>5, <1>6, <1>7, <1>8, <1>9, <1>10, <1>11 DEF
     Next, Handler, Dial, InCallStep, CloseTask, Connect, DialFails,
     DialSucceeds, Announce, TakeConnection, ReleaseHandle, FindLook,
     FindUpgrade, FindStale, TakeReply, Walk, CloseCall, Replace, SendClose,
     Park, SendGranted, SendFails, CloseAnswered, RecvClose, LoopEnds, Retire,
     Signal, chan, calls, people, hist

\* The mailboxes follow the phases of the requests.
LEMMA RepliesStep ==
    ASSUME IInv, Next
    PROVE  RepliesInv'
<1>1. CASE UNCHANGED <<reply, phase>>
  BY <1>1 DEF IInv, RepliesInv, RepliesMatchPhases, Unfinished
<1>2. CASE Connect
  BY <1>2, ActorAssumption DEF IInv, RepliesInv, RepliesMatchPhases,
     Unfinished, Connect, calls, Mailbox!Open, Mailbox!Move
<1>3. CASE DialFails
  BY <1>3, ActorAssumption DEF IInv, RepliesInv, RepliesMatchPhases,
     Unfinished, TypeOK, Mailbox!TypeOK, Calls, DialFails, calls,
     Mailbox!Answer, Mailbox!Deliver, Mailbox!Move
<1>4. CASE Announce
  BY <1>4, ActorAssumption DEF IInv, RepliesInv, RepliesMatchPhases,
     Unfinished, TypeOK, Mailbox!TypeOK, Calls, Announce, calls,
     Mailbox!Answer, Mailbox!Deliver, Mailbox!Move
<1>5. CASE TakeConnection
  BY <1>5 DEF IInv, RepliesInv, RepliesMatchPhases, Unfinished,
     TakeConnection, calls, Mailbox!Take, Mailbox!Move
<1>6. ASSUME NEW r \in Requests, Check(r) PROVE RepliesInv'
  BY <1>6 DEF IInv, RepliesInv, RepliesMatchPhases, Unfinished, Check,
     SetPhase
<1>7. ASSUME NEW r \in Requests, Count(r) PROVE RepliesInv'
  BY <1>7 DEF IInv, RepliesInv, RepliesMatchPhases, Unfinished, TypeOK,
     Mailbox!TypeOK, Calls, Count, SetPhase, Mailbox!Open, Mailbox!Move
<1>8. ASSUME NEW r \in Requests, TrySend(r) PROVE RepliesInv'
  BY <1>8 DEF IInv, RepliesInv, RepliesMatchPhases, Unfinished, TrySend,
     SetPhase
<1>9. ASSUME NEW r \in Requests, TrySendFails(r) PROVE RepliesInv'
  BY <1>9 DEF IInv, RepliesInv, RepliesMatchPhases, Unfinished, TypeOK,
     Mailbox!TypeOK, Calls, TrySendFails, SetPhase, Mailbox!Abandon,
     Mailbox!Move
<1>10. ASSUME NEW r \in Requests, Uncount(r) PROVE RepliesInv'
  BY <1>10 DEF IInv, RepliesInv, RepliesMatchPhases, Unfinished, Uncount,
     SetPhase
<1>11. ASSUME NEW x \in Calls, TakeReply(x) PROVE RepliesInv'
  BY <1>11 DEF IInv, RepliesInv, RepliesMatchPhases, Unfinished, TakeReply,
     calls, Mailbox!Take, Mailbox!Move
<1>12. ASSUME NEW x \in Calls, Walk(x) PROVE RepliesInv'
  BY <1>12 DEF IInv, RepliesInv, RepliesMatchPhases, Unfinished, Walk, calls,
     Mailbox!Abandon, Mailbox!Move
<1>13. ASSUME NEW k \in Closers, CloseCall(k) PROVE RepliesInv'
  BY <1>13, ActorAssumption DEF IInv, RepliesInv, RepliesMatchPhases,
     Unfinished, CloseCall, Mailbox!Open, Mailbox!Move
<1>14. ASSUME NEW k \in Closers, CloseAnswered(k) PROVE RepliesInv'
  BY <1>14, ActorAssumption DEF IInv, RepliesInv, RepliesMatchPhases,
     Unfinished, TypeOK, Mailbox!TypeOK, Calls, CloseAnswered, Mailbox!Answer,
     Mailbox!Deliver, Mailbox!Move
<1>15. CASE Recv
  BY <1>15 DEF IInv, RepliesInv, RepliesMatchPhases, Unfinished, QueueInv,
     Recv, SetPhase
<1>16. CASE Execute
  BY <1>16 DEF IInv, RepliesInv, RepliesMatchPhases, Unfinished, HandlerInv,
     Busy, Execute, SetPhase
<1>17. CASE Settle
  BY <1>17 DEF IInv, RepliesInv, RepliesMatchPhases, Unfinished, HandlerInv,
     Busy, Settle, SetPhase
<1>18. CASE Respond
  BY <1>18 DEF IInv, RepliesInv, RepliesMatchPhases, Unfinished, HandlerInv,
     Busy, TypeOK, Mailbox!TypeOK, Calls, Respond, SetPhase, Mailbox!Answer,
     Mailbox!Deliver, Mailbox!Move
<1>19. CASE Panic
  BY <1>19, ActorAssumption DEF IInv, RepliesInv, RepliesMatchPhases,
     Unfinished, Panic
<1> QED
  BY <1>1, <1>2, <1>3, <1>4, <1>5, <1>6, <1>7, <1>8, <1>9, <1>10, <1>11,
     <1>12, <1>13, <1>14, <1>15, <1>16, <1>17, <1>18, <1>19 DEF Next, Handler,
     Dial, InCallStep, CloseTask, DialSucceeds, ReleaseHandle, FindLook,
     FindUpgrade, FindStale, Replace, SendClose, Park, SendGranted, SendFails,
     RecvClose, LoopEnds, Retire, Signal, chan, calls, people, hist

\* Pushing and popping keep the queue in the order of acceptance.
LEMMA OrderStep ==
    ASSUME IInv, Next
    PROVE  OrderInv'
<1>1. ASSUME UNCHANGED <<queue, accepted, served>>,
            \/ UNCHANGED <<conn, cur>>
            \/ conn \notin {"running", "panicked"} /\ conn' # "running"
     PROVE  OrderInv'

  <2>1. CASE UNCHANGED <<conn, cur>>
    BY <1>1, <2>1 DEF IInv, OrderInv, Order, Begun
  <2>2. CASE conn \notin {"running", "panicked"} /\ conn' # "running"
    BY <1>1, <2>2 DEF IInv, OrderInv, Order, Begun
  <2> QED  BY <1>1, <2>1, <2>2
<1>2. ASSUME NEW r \in Requests, TrySend(r) PROVE OrderInv'
  <2>1. Pushed(r)
    BY <1>2, Pushes DEF IInv, TypeOK, TrySend
  <2>2. /\ ~RxDead /\ UNCHANGED <<conn, cur, served>>
        /\ accepted' = Append(accepted, r)
    BY <1>2 DEF TrySend, CanSend
  <2>3. /\ Len(accepted) \in Nat /\ Len(accepted') = Len(accepted) + 1
        /\ \A i \in 1..Len(accepted) : accepted'[i] = accepted[i]
        /\ accepted'[Len(accepted) + 1] = r
    BY <2>2, AppendProperties
  <2>4. PICK p \in 1..(Len(queue) + 1) : Order(p)
    BY <2>2 DEF IInv, OrderInv, RxDead
  <2>5. Begun' = Begun /\ Begun \in Nat
    BY <2>2 DEF Begun
  <2>6. \A i \in 1..Len(queue') :
            \/ i \in 1..Len(queue) /\ queue'[i] = queue[i]
            \/ i = Len(queue) + 1 /\ queue'[i] = r /\ r # Close
    BY <2>1, QueueElements DEF Pushed
  <2>7. Len(queue) \in Nat /\ Len(queue') = Len(queue) + 1
    BY <2>1 DEF Pushed
  <2>8. conn = "running" => accepted'[Begun] = cur
    BY <2>2, <2>3, <2>4, <2>5, <2>7 DEF IInv, OrderInv, Order, Begun
  <2>9. CASE p = Len(queue) + 1
    <3>1. Len(accepted) = Begun + Len(queue)
      BY <2>4, <2>7, <2>9 DEF Order
    <3>2. \A i \in 1..Len(queue') : queue'[i] = Close <=> i = p + 1
      BY <2>4, <2>6, <2>7, <2>9 DEF Order
    <3>3. ASSUME NEW i \in 1..Len(queue'), i < p + 1
          PROVE  accepted'[Begun' + i] = queue'[i]
      <4>1. CASE i = Len(queue) + 1 /\ queue'[i] = r
        <5>1. Begun' + i = Len(accepted) + 1
          BY <2>5, <2>7, <3>1, <4>1
        <5> QED  BY <2>3, <4>1, <5>1
      <4>2. CASE i \in 1..Len(queue) /\ queue'[i] = queue[i]
        <5>1. accepted[Begun + i] = queue[i]
          BY <2>4, <2>7, <2>9, <4>2 DEF Order
        <5>2. Begun + i \in 1..Len(accepted)
          BY <2>3, <2>5, <2>7, <3>1, <4>2
        <5> QED  BY <2>3, <2>5, <4>2, <5>1, <5>2
      <4> QED  BY <2>6, <3>3, <4>1, <4>2
    <3>4. \A i \in 1..Len(queue') : ~(i > p + 1)
      BY <2>7, <2>9
    <3>5. /\ Len(accepted') = Begun' + Len(queue')
          /\ ~(p + 1 <= Len(queue')) /\ p + 1 \in 1..(Len(queue') + 1)
      BY <2>3, <2>5, <2>7, <2>9, <3>1
    <3>6. Order(p + 1)'
      BY <2>5, <2>7, <3>2, <3>3, <3>4, <3>5 DEF Order
    <3> QED  BY <2>2, <2>5, <2>8, <3>5, <3>6 DEF OrderInv
  <2>10. CASE p <= Len(queue)
    <3>1. Len(accepted) = Begun + Len(queue) - 1
      BY <2>4, <2>7, <2>10 DEF Order
    <3>2. \A i \in 1..Len(queue') : queue'[i] = Close <=> i = p
      BY <2>4, <2>6, <2>7, <2>10 DEF Order
    <3>3. ASSUME NEW i \in 1..Len(queue'), i < p
          PROVE  accepted'[Begun' + i] = queue'[i]
      <4>1. i \in 1..Len(queue) /\ queue'[i] = queue[i]
        BY <2>6, <2>7, <2>10, <3>3
      <4>2. accepted[Begun + i] = queue[i]
        BY <2>4, <3>3, <4>1 DEF Order
      <4>3. Begun + i \in 1..Len(accepted)
        BY <2>3, <2>5, <2>7, <2>10, <3>1, <3>3
      <4> QED  BY <2>3, <2>5, <4>1, <4>2, <4>3
    <3>4. ASSUME NEW i \in 1..Len(queue'), i > p
          PROVE  accepted'[Begun' + i - 1] = queue'[i]
      <4>1. CASE i = Len(queue) + 1 /\ queue'[i] = r
        <5>1. Begun' + i - 1 = Len(accepted) + 1
          BY <2>5, <2>7, <3>1, <4>1
        <5> QED  BY <2>3, <4>1, <5>1
      <4>2. CASE i \in 1..Len(queue) /\ queue'[i] = queue[i]
        <5>1. accepted[Begun + i - 1] = queue[i]
          BY <2>4, <3>4, <4>2 DEF Order
        <5>2. Begun + i - 1 \in 1..Len(accepted)
          BY <2>3, <2>5, <2>7, <3>1, <3>4, <4>2
        <5> QED  BY <2>3, <2>5, <4>2, <5>1, <5>2
      <4> QED  BY <2>6, <4>1, <4>2
    <3>5. /\ Len(accepted') = Begun' + Len(queue') - 1
          /\ p <= Len(queue') /\ p \in 1..(Len(queue') + 1)
      BY <2>3, <2>5, <2>7, <2>10, <3>1
    <3>6. Order(p)'
      BY <2>5, <2>7, <3>2, <3>3, <3>4, <3>5 DEF Order
    <3> QED  BY <2>2, <2>5, <2>8, <3>5, <3>6 DEF OrderInv
  <2> QED  BY <2>4, <2>7, <2>9, <2>10
<1>3. ASSUME NEW t \in Tasks, SendClose(t) PROVE OrderInv'
  <2>1. Pushed(Close)
    BY <1>3, Pushes DEF IInv, TypeOK, SendClose
  <2>2. Sending(t) /\ UNCHANGED <<conn, cur, accepted, served>>
    BY <1>3 DEF Sending, SendClose, hist
  <2>3. \A i \in 1..Len(queue) : queue[i] # Close
    BY <2>2 DEF IInv, CloseInv, SingleClose, CloseAt
  <2>4. SUFFICES ASSUME conn # "panicked" PROVE OrderInv'
    BY <2>2 DEF OrderInv
  <2>5. PICK p \in 1..(Len(queue) + 1) : Order(p)
    BY <2>4 DEF IInv, OrderInv
  <2>6. p = Len(queue) + 1 /\ Begun' = Begun /\ Begun \in Nat
    BY <2>1, <2>2, <2>3, <2>5 DEF Order, Pushed, Begun
  <2>7. Order(p)' /\ p \in 1..(Len(queue') + 1)
    <3>1. \A i \in 1..Len(queue') : queue'[i] = Close <=> i = p
      BY <2>1, <2>2, <2>3, <2>5, <2>6 DEF Order, Pushed
    <3>2. \A i \in 1..Len(queue') : i < p => accepted'[Begun' + i] = queue'[i]
      BY <2>1, <2>2, <2>3, <2>5, <2>6 DEF Order, Pushed
    <3>3. \A i \in 1..Len(queue') : i > p => accepted'[Begun' + i - 1] = queue'[i]
      BY <2>1, <2>2, <2>3, <2>5, <2>6 DEF Order, Pushed
    <3>4. /\ Len(accepted') = Begun' + Len(queue') - (IF p <= Len(queue') THEN 1 ELSE 0)
          /\ p \in 1..(Len(queue') + 1)
      BY <2>1, <2>2, <2>3, <2>5, <2>6 DEF Order, Pushed
    <3> QED  BY <3>1, <3>2, <3>3, <3>4 DEF Order
  <2> QED  BY <2>2, <2>6, <2>7 DEF IInv, OrderInv
<1>4. ASSUME NEW t \in Tasks, SendGranted(t) PROVE OrderInv'
  <2>1. Pushed(Close)
    BY <1>4, Pushes DEF IInv, TypeOK, SendGranted
  <2>2. Sending(t) /\ UNCHANGED <<conn, cur, accepted, served>>
    BY <1>4 DEF Sending, SendGranted, hist
  <2>3. \A i \in 1..Len(queue) : queue[i] # Close
    BY <2>2 DEF IInv, CloseInv, SingleClose, CloseAt
  <2>4. SUFFICES ASSUME conn # "panicked" PROVE OrderInv'
    BY <2>2 DEF OrderInv
  <2>5. PICK p \in 1..(Len(queue) + 1) : Order(p)
    BY <2>4 DEF IInv, OrderInv
  <2>6. p = Len(queue) + 1 /\ Begun' = Begun /\ Begun \in Nat
    BY <2>1, <2>2, <2>3, <2>5 DEF Order, Pushed, Begun
  <2>7. Order(p)' /\ p \in 1..(Len(queue') + 1)
    <3>1. \A i \in 1..Len(queue') : queue'[i] = Close <=> i = p
      BY <2>1, <2>2, <2>3, <2>5, <2>6 DEF Order, Pushed
    <3>2. \A i \in 1..Len(queue') : i < p => accepted'[Begun' + i] = queue'[i]
      BY <2>1, <2>2, <2>3, <2>5, <2>6 DEF Order, Pushed
    <3>3. \A i \in 1..Len(queue') : i > p => accepted'[Begun' + i - 1] = queue'[i]
      BY <2>1, <2>2, <2>3, <2>5, <2>6 DEF Order, Pushed
    <3>4. /\ Len(accepted') = Begun' + Len(queue') - (IF p <= Len(queue') THEN 1 ELSE 0)
          /\ p \in 1..(Len(queue') + 1)
      BY <2>1, <2>2, <2>3, <2>5, <2>6 DEF Order, Pushed
    <3> QED  BY <3>1, <3>2, <3>3, <3>4 DEF Order
  <2> QED  BY <2>2, <2>6, <2>7 DEF IInv, OrderInv
<1>5. CASE RecvClose
  <2>1. Popped(Head(queue))
    BY <1>5, Pops DEF IInv, TypeOK, RecvClose
  <2>2. /\ conn = "recv" /\ conn' = "recv" /\ Head(queue) = Close
        /\ UNCHANGED <<accepted, served>>
    BY <1>5 DEF RecvClose, hist
  <2>3. PICK p \in 1..(Len(queue) + 1) : Order(p)
    BY <2>2 DEF IInv, OrderInv
  <2>4. p = 1 /\ Begun' = Begun /\ Begun \in Nat
    BY <2>1, <2>2, <2>3 DEF Order, Popped, Begun
  <2>5. PICK n \in Nat : n = Len(queue') + 1
    BY <2>1 DEF Popped
  <2>6. Order(n)' /\ n \in 1..(Len(queue') + 1)
    <3>1. \A i \in 1..Len(queue') : queue'[i] = Close <=> i = n
      BY <2>1, <2>2, <2>3, <2>4, <2>5 DEF Order, Popped
    <3>2. \A i \in 1..Len(queue') : i < n => accepted'[Begun' + i] = queue'[i]
      BY <2>1, <2>2, <2>3, <2>4, <2>5 DEF Order, Popped
    <3>3. \A i \in 1..Len(queue') : i > n => accepted'[Begun' + i - 1] = queue'[i]
      BY <2>1, <2>2, <2>3, <2>4, <2>5 DEF Order, Popped
    <3>4. /\ Len(accepted') = Begun' + Len(queue') - (IF n <= Len(queue') THEN 1 ELSE 0)
          /\ n \in 1..(Len(queue') + 1)
      BY <2>1, <2>2, <2>3, <2>4, <2>5 DEF Order, Popped
    <3> QED  BY <3>1, <3>2, <3>3, <3>4 DEF Order
  <2> QED  BY <2>2, <2>5, <2>6 DEF OrderInv
<1>6. CASE Recv
  <2>1. Popped(Head(queue))
    BY <1>6, Pops DEF IInv, TypeOK, Recv
  <2>2. /\ conn = "recv" /\ conn' = "running" /\ Head(queue) # Close
        /\ cur' = Head(queue) /\ UNCHANGED <<accepted, served>>
    BY <1>6 DEF Recv, hist
  <2>3. PICK p \in 1..(Len(queue) + 1) : Order(p)
    BY <2>2 DEF IInv, OrderInv
  <2>4. p # 1 /\ Begun' = Begun + 1 /\ Begun \in Nat
    BY <2>1, <2>2, <2>3 DEF Order, Popped, Begun
  <2>5. Order(p - 1)' /\ p - 1 \in 1..(Len(queue') + 1)
    <3>1. \A i \in 1..Len(queue') : queue'[i] = Close <=> i = (p - 1)
      BY <2>1, <2>2, <2>3, <2>4 DEF Order, Popped
    <3>2. \A i \in 1..Len(queue') : i < (p - 1) => accepted'[Begun' + i] = queue'[i]
      BY <2>1, <2>2, <2>3, <2>4 DEF Order, Popped
    <3>3. \A i \in 1..Len(queue') : i > (p - 1) => accepted'[Begun' + i - 1] = queue'[i]
      BY <2>1, <2>2, <2>3, <2>4 DEF Order, Popped
    <3>4. /\ Len(accepted') = Begun' + Len(queue') - (IF (p - 1) <= Len(queue') THEN 1 ELSE 0)
          /\ (p - 1) \in 1..(Len(queue') + 1)
      BY <2>1, <2>2, <2>3, <2>4 DEF Order, Popped
    <3> QED  BY <3>1, <3>2, <3>3, <3>4 DEF Order
  <2>6. accepted'[Begun'] = cur'
    BY <2>1, <2>2, <2>3, <2>4 DEF Order, Popped
  <2> QED  BY <2>2, <2>5, <2>6 DEF OrderInv
<1>7. CASE Execute
  <2>1. /\ conn = "running" /\ conn' = "executed"
        /\ UNCHANGED <<queue, accepted>> /\ served' = Append(served, cur)
    BY <1>7 DEF Execute, chan
  <2>2. Len(served) \in Nat /\ Len(served') = Len(served) + 1
    BY <1>7, <2>1, AppendProperties
  <2>3. Begun' = Begun
    BY <2>1, <2>2 DEF Begun
  <2> QED  BY <2>1, <2>3 DEF IInv, OrderInv, Order
<1>8. CASE Panic
  <2>1. conn' = "panicked"
    BY <1>8 DEF Panic
  <2> QED  BY <2>1 DEF OrderInv
<1> QED
  BY <1>1, <1>2, <1>3, <1>4, <1>5, <1>6, <1>7, <1>8 DEF Next, Handler, Dial,
     InCallStep, CloseTask, Connect, DialFails, DialSucceeds, Announce,
     TakeConnection, ReleaseHandle, FindLook, FindUpgrade, FindStale, Check,
     Count, TrySendFails, Uncount, TakeReply, Walk, CloseCall, Replace, Park,
     SendFails, CloseAnswered, Settle, Respond, LoopEnds, Retire, Signal,
     chan, calls, people, hist

\* The request being carried out is the next of the accepted ones.
NextToServe ==
    Len(served) < Len(accepted) /\ accepted[Len(served) + 1] = cur

\* The order of the queue says that the handler is at the right one.
LEMMA RunningIsNext ==
    ASSUME IInv, conn = "running"
    PROVE  NextToServe
<1>1. PICK p \in 1..(Len(queue) + 1) : Order(p)
  BY DEF IInv, OrderInv
<1>2. /\ Begun = Len(served) + 1 /\ accepted[Begun] = cur
      /\ Len(served) \in Nat /\ Len(accepted) \in Nat
  BY DEF IInv, OrderInv, Begun
<1>3. Len(served) < Len(accepted)
  BY <1>1, <1>2 DEF Order
<1> QED  BY <1>2, <1>3 DEF NextToServe

\* What is served is what was accepted, in order.
LEMMA ServedStep ==
    ASSUME IInv, Next
    PROVE  ServedInv'
<1>1. CASE UNCHANGED <<accepted, served>>

  BY <1>1 DEF IInv, ServedInv
<1>2. ASSUME NEW r \in Requests, TrySend(r) PROVE ServedInv'
  <2>1. accepted' = Append(accepted, r) /\ served' = served
    BY <1>2 DEF TrySend
  <2>2. /\ Len(accepted) \in Nat /\ Len(accepted') = Len(accepted) + 1
        /\ \A i \in 1..Len(accepted) : accepted'[i] = accepted[i]
        /\ Len(served) \in Nat
    BY <2>1, AppendProperties
  <2> QED  BY <2>1, <2>2 DEF IInv, ServedInv
<1>3. CASE Execute
  <2>1. /\ conn = "running" /\ accepted' = accepted
        /\ served' = Append(served, cur)
    BY <1>3 DEF Execute
  <2>2. cur \in Requests
    BY <2>1 DEF IInv, TypeOK, HandlerInv, Busy
  <2>3. /\ Len(served) \in Nat /\ Len(served') = Len(served) + 1
        /\ \A i \in 1..Len(served) : served'[i] = served[i]
        /\ served'[Len(served) + 1] = cur
    BY <2>1, <2>2, AppendProperties
  <2>4. NextToServe
    BY <2>1, RunningIsNext
  <2> QED  BY <2>1, <2>3, <2>4 DEF IInv, ServedInv, NextToServe
<1> QED
  BY <1>1, <1>2, <1>3 DEF Next, Handler, Dial, InCallStep, CloseTask, Connect,
     DialFails, DialSucceeds, Announce, TakeConnection, ReleaseHandle,
     FindLook, FindUpgrade, FindStale, Check, Count, TrySendFails, Uncount,
     TakeReply, Walk, CloseCall, Replace, SendClose, Park, SendGranted,
     SendFails, CloseAnswered, RecvClose, Recv, Settle, Respond, Panic,
     LoopEnds, Retire, Signal, chan, calls, people, hist

\* Only requests that were accepted are in the order of acceptance.
LEMMA AcceptedStep ==
    ASSUME IInv, Next
    PROVE  AcceptedInv'
<1>1. CASE UNCHANGED <<accepted, phase>>
  BY <1>1 DEF IInv, AcceptedInv
<1>2. ASSUME NEW r \in Requests, Check(r) PROVE AcceptedInv'
  BY <1>2 DEF IInv, AcceptedInv, Busy, Check, SetPhase, hist
<1>3. ASSUME NEW r \in Requests, Count(r) PROVE AcceptedInv'
  BY <1>3 DEF IInv, AcceptedInv, Busy, Count, SetPhase, hist
<1>4. ASSUME NEW r \in Requests, TrySend(r) PROVE AcceptedInv'
  <2>1. /\ accepted' = Append(accepted, r)
        /\ phase' = [phase EXCEPT ![r] = "queued"]
    BY <1>4 DEF TrySend, SetPhase
  <2>2. /\ Len(accepted) \in Nat /\ Len(accepted') = Len(accepted) + 1
        /\ \A i \in 1..Len(accepted) : /\ accepted'[i] = accepted[i]
                                       /\ accepted[i] \in Requests
        /\ accepted'[Len(accepted) + 1] = r
    BY <2>1, AppendProperties DEF IInv, TypeOK
  <2> QED  BY <2>1, <2>2 DEF IInv, AcceptedInv, TypeOK
<1>5. ASSUME NEW r \in Requests, TrySendFails(r) PROVE AcceptedInv'
  BY <1>5 DEF IInv, AcceptedInv, Busy, TrySendFails, SetPhase, hist
<1>6. ASSUME NEW r \in Requests, Uncount(r) PROVE AcceptedInv'
  BY <1>6 DEF IInv, AcceptedInv, Busy, Uncount, SetPhase, hist
<1>7. CASE Recv
  <2>1. /\ Head(queue) \in Requests /\ accepted' = accepted
        /\ phase' = [phase EXCEPT ![Head(queue)] = "running"]
    BY <1>7, HeadIsQueued DEF Recv, SetPhase, hist
  <2>2. \A i \in 1..Len(accepted) : accepted[i] \in Requests
    BY DEF IInv, TypeOK
  <2> QED  BY <2>1, <2>2 DEF IInv, AcceptedInv, Busy
<1>8. CASE Execute
  BY <1>8 DEF IInv, AcceptedInv, Busy, Execute, SetPhase
<1>9. CASE Settle
  BY <1>9 DEF IInv, AcceptedInv, Busy, Settle, SetPhase, hist
<1>10. CASE Respond
  BY <1>10 DEF IInv, AcceptedInv, Respond, SetPhase, hist
<1>11. CASE Panic
  BY <1>11 DEF IInv, AcceptedInv, TypeOK, Panic, hist
<1> QED
  BY <1>1, <1>2, <1>3, <1>4, <1>5, <1>6, <1>7, <1>8, <1>9, <1>10, <1>11 DEF
     Next, Handler, Dial, InCallStep, CloseTask, Connect, DialFails,
     DialSucceeds, Announce, TakeConnection, ReleaseHandle, FindLook,
     FindUpgrade, FindStale, TakeReply, Walk, CloseCall, Replace, SendClose,
     Park, SendGranted, SendFails, CloseAnswered, RecvClose, LoopEnds, Retire,
     Signal, chan, calls, people, hist

\* A handed-over permit never lets the queue outgrow its capacity.
LEMMA CapacityStep ==
    ASSUME IInv, Next
    PROVE  (InUse <= Capacity)'
<1>1. CASE UNCHANGED <<queue, task>>
  BY <1>1 DEF IInv, TypeOK, InUse
<1>2. ASSUME NEW r \in Requests, TrySend(r) PROVE (InUse <= Capacity)'
  BY <1>2, ActorAssumption DEF InUse, TrySend, CanSend, Full
<1>3. ASSUME NEW k \in Closers, CloseCall(k) PROVE (InUse <= Capacity)'
  BY <1>3 DEF IInv, TypeOK, InUse, CloseCall, SetTask, chan
<1>4. CASE Replace
  BY <1>4 DEF IInv, TypeOK, InUse, CloseInv, Replace, SetTask, FirstClose,
     chan
<1>5. ASSUME NEW t \in Tasks, SendClose(t) PROVE (InUse <= Capacity)'
  BY <1>5, ActorAssumption DEF InUse, SendClose, SetTask, Sent, CanSend, Full
<1>6. ASSUME NEW t \in Tasks, Park(t) PROVE (InUse <= Capacity)'
  BY <1>6 DEF IInv, TypeOK, InUse, Park, SetTask, chan
<1>7. ASSUME NEW t \in Tasks, SendGranted(t) PROVE (InUse <= Capacity)'
  BY <1>7 DEF IInv, TypeOK, InUse, CloseInv, SingleClose, Sending,
     SendGranted, SetTask, Sent
<1>8. ASSUME NEW t \in Tasks, SendFails(t) PROVE (InUse <= Capacity)'
  BY <1>8, ActorAssumption DEF IInv, TypeOK, InUse, SendFails, SetTask, Sent,
     chan
<1>9. ASSUME NEW k \in Closers, CloseAnswered(k) PROVE (InUse <= Capacity)'
  BY <1>9 DEF IInv, TypeOK, InUse, CloseAnswered, SetTask, chan
<1>10. CASE RecvClose
  BY <1>10, ActorAssumption DEF IInv, TypeOK, InUse, RecvClose
<1>11. CASE Recv
  BY <1>11, ActorAssumption DEF IInv, TypeOK, InUse, Recv
<1>12. CASE Panic
  BY <1>12, ActorAssumption DEF InUse, Panic
<1> QED
  BY <1>1, <1>2, <1>3, <1>4, <1>5, <1>6, <1>7, <1>8, <1>9, <1>10, <1>11, <1>12
     DEF Next, Handler, Dial, InCallStep, CloseTask, Connect, DialFails,
     DialSucceeds, Announce, TakeConnection, ReleaseHandle, FindLook,
     FindUpgrade, FindStale, Check, Count, TrySendFails, Uncount, TakeReply,
     Walk, Execute, Settle, Respond, LoopEnds, Retire, Signal, chan, calls,
     people, hist

\* Every step keeps the types.
LEMMA TypeStep ==
    ASSUME IInv, Next
    PROVE  TypeOK'
<1>1. CASE UNCHANGED <<conn, queue, rxClosed, counter, closing, closed, registered, handle, finding, phase, cur, task, outcome, reply, accepted, served>>
  BY <1>1, CapacityStep DEF IInv, TypeOK, Mailbox!TypeOK
<1>2. CASE Connect
  BY <1>2, CapacityStep DEF IInv, TypeOK, Mailbox!TypeOK, Mailbox!Status,
     ConnStates, Connect, chan, calls, people, hist, Mailbox!Open,
     Mailbox!Move
<1>3. CASE DialFails
  BY <1>3, CapacityStep DEF IInv, TypeOK, Mailbox!TypeOK, Mailbox!Status,
     ConnStates, DialFails, chan, calls, people, hist, Mailbox!Answer,
     Mailbox!Deliver, Mailbox!Move
<1>4. CASE DialSucceeds
  BY <1>4, CapacityStep DEF IInv, TypeOK, Mailbox!TypeOK, ConnStates,
     DialSucceeds, chan, calls, people, hist
<1>5. CASE Announce
  BY <1>5, CapacityStep DEF IInv, TypeOK, Mailbox!TypeOK, Mailbox!Status,
     ConnStates, Announce, chan, calls, people, hist, Mailbox!Answer,
     Mailbox!Deliver, Mailbox!Move
<1>6. CASE TakeConnection
  BY <1>6, CapacityStep DEF IInv, TypeOK, Mailbox!TypeOK, Mailbox!Status,
     TakeConnection, chan, calls, hist, Mailbox!Take, Mailbox!Move
<1>7. ASSUME NEW c \in Clients, ReleaseHandle(c) PROVE TypeOK'
  BY <1>7, CapacityStep DEF IInv, TypeOK, Mailbox!TypeOK, ReleaseHandle, chan,
     calls, hist
<1>8. ASSUME NEW c \in Clients, FindLook(c) PROVE TypeOK'
  BY <1>8, CapacityStep DEF IInv, TypeOK, Mailbox!TypeOK, FindLook, chan,
     calls, hist
<1>9. ASSUME NEW c \in Clients, FindUpgrade(c) PROVE TypeOK'
  BY <1>9, CapacityStep DEF IInv, TypeOK, Mailbox!TypeOK, FindUpgrade, chan,
     calls, hist
<1>10. ASSUME NEW c \in Clients, FindStale(c) PROVE TypeOK'
  BY <1>10, CapacityStep DEF IInv, TypeOK, Mailbox!TypeOK, FindStale, chan,
     calls, people, hist
<1>11. ASSUME NEW r \in Requests, Check(r) PROVE TypeOK'
  BY <1>11, CapacityStep DEF IInv, TypeOK, Mailbox!TypeOK, Phases, Check,
     SetPhase, chan, people, hist
<1>12. ASSUME NEW r \in Requests, Count(r) PROVE TypeOK'
  BY <1>12, CapacityStep DEF IInv, TypeOK, Mailbox!TypeOK, Mailbox!Status,
     ConnStates, Phases, HandlerInv, Busy, Count, SetPhase, chan, people,
     hist, Mailbox!Open, Mailbox!Move
<1>13. ASSUME NEW r \in Requests, TrySend(r) PROVE TypeOK'
  BY <1>13, CapacityStep DEF IInv, TypeOK, Mailbox!TypeOK, Phases, TrySend,
     SetPhase, people
<1>14. ASSUME NEW r \in Requests, TrySendFails(r) PROVE TypeOK'
  BY <1>14, CapacityStep DEF IInv, TypeOK, Mailbox!TypeOK, Mailbox!Status,
     Phases, TrySendFails, SetPhase, chan, people, hist, Mailbox!Abandon,
     Mailbox!Move
<1>15. ASSUME NEW r \in Requests, Uncount(r) PROVE TypeOK'
  <2>1. counter' \in Nat
    <3>1. r \in Pending
      BY <1>15 DEF Pending, Uncount
    <3> QED  BY <1>15, <3>1, PendingCounted DEF Uncount
  <2> QED
    BY <1>15, <2>1, CapacityStep DEF IInv, TypeOK, Mailbox!TypeOK, Phases,
       Uncount, SetPhase, chan, people, hist
<1>16. ASSUME NEW x \in Calls, TakeReply(x) PROVE TypeOK'
  BY <1>16, CapacityStep DEF IInv, TypeOK, Mailbox!TypeOK, Mailbox!Status,
     TakeReply, chan, calls, people, hist, Mailbox!Take, Mailbox!Move
<1>17. ASSUME NEW x \in Calls, Walk(x) PROVE TypeOK'
  BY <1>17, CapacityStep DEF IInv, TypeOK, Mailbox!TypeOK, Mailbox!Status,
     Walk, chan, calls, people, hist, Mailbox!Abandon, Mailbox!Move
<1>18. ASSUME NEW k \in Closers, CloseCall(k) PROVE TypeOK'
  BY <1>18, CapacityStep DEF IInv, TypeOK, Mailbox!TypeOK, Mailbox!Status,
     TaskStates, CloseCall, SetTask, chan, people, hist, Mailbox!Open,
     Mailbox!Move
<1>19. CASE Replace
  BY <1>19, CapacityStep DEF IInv, TypeOK, Mailbox!TypeOK, TaskStates,
     Replace, SetTask, chan, people, hist
<1>20. ASSUME NEW t \in Tasks, SendClose(t) PROVE TypeOK'
  BY <1>20, CapacityStep DEF IInv, TypeOK, Mailbox!TypeOK, TaskStates,
     SendClose, SetTask, Sent, people, hist
<1>21. ASSUME NEW t \in Tasks, Park(t) PROVE TypeOK'
  BY <1>21, CapacityStep DEF IInv, TypeOK, Mailbox!TypeOK, TaskStates, Park,
     SetTask, chan, people, hist
<1>22. ASSUME NEW t \in Tasks, SendGranted(t) PROVE TypeOK'
  BY <1>22, CapacityStep DEF IInv, TypeOK, Mailbox!TypeOK, TaskStates,
     SendGranted, SetTask, Sent, people, hist
<1>23. ASSUME NEW t \in Tasks, SendFails(t) PROVE TypeOK'
  BY <1>23, CapacityStep DEF IInv, TypeOK, Mailbox!TypeOK, TaskStates,
     SendFails, SetTask, Sent, chan, people, hist
<1>24. ASSUME NEW k \in Closers, CloseAnswered(k) PROVE TypeOK'
  BY <1>24, CapacityStep DEF IInv, TypeOK, Mailbox!TypeOK, Mailbox!Status,
     TaskStates, CloseAnswered, SetTask, chan, people, hist, Mailbox!Answer,
     Mailbox!Deliver, Mailbox!Move
<1>25. CASE RecvClose
  BY <1>25, CapacityStep DEF IInv, TypeOK, Mailbox!TypeOK, TaskStates,
     RecvClose, HandOver, people, hist
<1>26. CASE Recv
  BY <1>26, CapacityStep DEF IInv, TypeOK, Mailbox!TypeOK, ConnStates, Phases,
     TaskStates, Recv, SetPhase, HandOver, people, hist
<1>27. CASE Execute
  BY <1>27, CapacityStep DEF IInv, TypeOK, Mailbox!TypeOK, ConnStates, Phases,
     HandlerInv, Busy, Execute, SetPhase, chan, people
<1>28. CASE Settle
  <2>1. counter' \in Nat
    <3>1. cur \in Pending
      BY <1>28 DEF IInv, TypeOK, HandlerInv, Busy, Pending, Settle
    <3> QED  BY <1>28, <3>1, PendingCounted DEF Settle
  <2> QED
    BY <1>28, <2>1, CapacityStep DEF IInv, TypeOK, Mailbox!TypeOK, ConnStates,
       Phases, Settle, SetPhase, chan, people, hist
<1>29. CASE Respond
  BY <1>29, CapacityStep DEF IInv, TypeOK, Mailbox!TypeOK, Mailbox!Status,
     ConnStates, Phases, Respond, SetPhase, chan, people, hist,
     Mailbox!Answer, Mailbox!Deliver, Mailbox!Move
<1>30. CASE Panic
  BY <1>30, CapacityStep DEF IInv, TypeOK, Mailbox!TypeOK, ConnStates, Phases,
     Panic, people, hist
<1>31. CASE LoopEnds
  BY <1>31, CapacityStep DEF IInv, TypeOK, Mailbox!TypeOK, ConnStates,
     LoopEnds, chan, calls, people, hist
<1>32. CASE Retire
  BY <1>32, CapacityStep DEF IInv, TypeOK, Mailbox!TypeOK, ConnStates, Retire,
     chan, calls, people, hist
<1>33. CASE Signal
  BY <1>33, CapacityStep DEF IInv, TypeOK, Mailbox!TypeOK, ConnStates, Signal,
     chan, calls, people, hist
<1> QED
  BY <1>1, <1>2, <1>3, <1>4, <1>5, <1>6, <1>7, <1>8, <1>9, <1>10, <1>11,
     <1>12, <1>13, <1>14, <1>15, <1>16, <1>17, <1>18, <1>19, <1>20, <1>21,
     <1>22, <1>23, <1>24, <1>25, <1>26, <1>27, <1>28, <1>29, <1>30, <1>31,
     <1>32, <1>33 DEF Next, Handler, Dial, InCallStep, CloseTask

----------------------------------------------------------------------------
\* The invariant holds of a connection that does not exist yet.
LEMMA InitIInv == Init => IInv
<1> SUFFICES ASSUME Init PROVE IInv
  OBVIOUS
<1>1. TypeOK
  <2>1. InUse <= Capacity
    BY ActorAssumption DEF Init, InUse
  <2>2. Mailbox!TypeOK
    BY DEF Init, Mailbox!Init, Mailbox!TypeOK, Mailbox!Status
  <2>3. /\ phase \in [Requests -> Phases] /\ task \in [Tasks -> TaskStates]
        /\ outcome \in [Closers -> {"none", "true", "dropped"}]
    BY DEF Init, Phases, TaskStates
  <2>4. handle \in [Clients -> BOOLEAN] /\ finding \in [Clients -> BOOLEAN]
    BY DEF Init
  <2>5. /\ queue \in Seq(Requests \cup {Close})
        /\ accepted \in Seq(Requests) /\ served \in Seq(Requests)
    BY DEF Init
  <2>6. /\ conn \in ConnStates /\ cur \in Requests \cup {NoReq}
        /\ counter \in Nat /\ closed \in {"open", "true", "dropped"}
    BY DEF Init, ConnStates
  <2>7. rxClosed \in BOOLEAN /\ closing \in BOOLEAN /\ registered \in BOOLEAN
    BY DEF Init
  <2> QED  BY <2>1, <2>2, <2>3, <2>4, <2>5, <2>6, <2>7 DEF TypeOK
<1>2. HandlerInv /\ QueueInv /\ LeavingInv /\ HoldInv /\ ClosedInv
  BY DEF Init, HandlerInv, QueueInv, LeavingInv, HoldInv, ClosedInv, Busy
<1>3. CloseInv
  BY DEF Init, CloseInv, SingleClose, Sending
<1>4. CounterIsPending
  <2>1. Pending = {}
    BY DEF Init, Pending
  <2> QED  BY <2>1, FS_EmptySet DEF Init, CounterIsPending
<1>5. RepliesInv
  BY ActorAssumption DEF Init, RepliesInv, RepliesMatchPhases, Mailbox!Init,
     Calls, Unfinished
<1>6. OrderInv
  <2>1. Order(1) /\ 1 \in 1..(Len(queue) + 1)
    BY DEF Init, Order, Begun
  <2> QED  BY <2>1 DEF Init, OrderInv
<1>7. ServedInv /\ AcceptedInv
  BY DEF Init, ServedInv, AcceptedInv
<1> QED  BY <1>1, <1>2, <1>3, <1>4, <1>5, <1>6, <1>7 DEF IInv

\* Every step of the connection, its callers and its close tasks keeps the
\* invariant.
LEMMA StepIInv == IInv /\ [Next]_vars => IInv'
<1> SUFFICES ASSUME IInv, [Next]_vars PROVE IInv'
  OBVIOUS
<1>1. CASE Next
  BY <1>1, HandlerStep, QueueStep, CloseStep, LeavingStep, HoldStep,
     ClosedStep, CounterStep, RepliesStep, OrderStep, ServedStep,
     AcceptedStep, TypeStep DEF IInv
<1>2. CASE UNCHANGED vars
  <2> USE <1>2 DEF IInv, vars, chan, calls, people, hist
  <2>1. TypeOK'
    BY DEF TypeOK, InUse, Mailbox!TypeOK
  <2>2. HandlerInv' /\ QueueInv' /\ HoldInv' /\ ClosedInv'
    BY DEF HandlerInv, QueueInv, HoldInv, ClosedInv
  <2>3. CloseInv'
    BY DEF CloseInv, SingleClose, Sending, CloseAt
  <2>4. LeavingInv'
    BY DEF LeavingInv, Strong
  <2>5. CounterIsPending' /\ RepliesInv'
    BY DEF CounterIsPending, Pending, RepliesInv, RepliesMatchPhases
  <2>6. OrderInv' /\ ServedInv' /\ AcceptedInv'
    BY DEF OrderInv, Order, Begun, ServedInv, AcceptedInv
  <2> QED  BY <2>1, <2>2, <2>3, <2>4, <2>5, <2>6
<1> QED  BY <1>1, <1>2

\* The invariant holds in every reachable state.
LEMMA Invariance == Spec => []IInv
BY InitIInv, StepIInv, PTL DEF Spec

----------------------------------------------------------------------------
\* Every variable keeps its type, and messages together with a handed-over
\* permit never exceed the capacity of the queue.
THEOREM TypeCorrect == Spec => []TypeOK
<1>1. IInv => TypeOK
  BY DEF IInv
<1> QED  BY <1>1, Invariance, PTL

\* The counter behind stats() is exact in every interleaving of submitting
\* services with the handler: fetch_add before try_send, fetch_sub after a
\* refusal or at the end of a request.
THEOREM CounterCorrect == Spec => []CounterIsPending
<1>1. IInv => CounterIsPending
  BY DEF IInv
<1> QED  BY <1>1, Invariance, PTL

\* Whoever sets the closing flag first is the only one that ever sends Close,
\* and no second Close can follow the one that closed the receiver.
THEOREM SingleCloseCorrect == Spec => []SingleClose
<1>1. IInv => SingleClose
  BY DEF IInv, CloseInv
<1> QED  BY <1>1, Invariance, PTL

\* A connection that reports itself closed has nothing left to carry out.
THEOREM ClosedMeansDrained == Spec => []ClosedIsDrained
<1>1. ASSUME IInv PROVE ClosedIsDrained
  <2>1. closed = "true" => conn = "gone"
    BY <1>1 DEF IInv, ClosedInv
  <2>2. conn = "gone" => queue = <<>>
    BY <1>1 DEF IInv, QueueInv
  <2>3. ASSUME conn = "gone", NEW r \in Requests
        PROVE  phase[r] \notin Unfinished
    <3>1. phase[r] # "queued"
      BY <1>1, <2>2, <2>3 DEF IInv, QueueInv
    <3>2. phase[r] \notin Busy /\ phase[r] # "lost"
      BY <1>1, <2>3, ActorAssumption DEF IInv, HandlerInv, Busy
    <3> QED  BY <3>1, <3>2 DEF Unfinished, Busy
  <2> QED  BY <1>1, <2>1, <2>2, <2>3 DEF IInv, ClosedInv, ClosedIsDrained
<1> QED  BY <1>1, Invariance, PTL

\* The reply of a request is readable only once the request is finished and
\* uncounted, and a refused submission leaves no waiter behind.
THEOREM RepliesCorrect == Spec => []RepliesMatchPhases
<1>1. IInv => RepliesMatchPhases
  BY DEF IInv, RepliesInv
<1> QED  BY <1>1, Invariance, PTL

----------------------------------------------------------------------------
\* What is accepted is neither accepted twice nor after the connection is shut.
LEMMA SendIsAccept ==
    ASSUME IInv, NEW r \in Requests, TrySend(r)
    PROVE  Fifo!Accept(r)
<1>1. closed # "true" /\ UNCHANGED <<closed, served>>
  BY DEF IInv, ClosedInv, TrySend, CanSend, RxDead
<1>2. \A i \in DOMAIN accepted : accepted[i] # r
  <2>1. DOMAIN accepted = 1..Len(accepted)
    OBVIOUS
  <2> QED  BY <2>1 DEF IInv, AcceptedInv, Busy, TrySend
<1> QED  BY <1>1, <1>2 DEF Fifo!Accept, TrySend

\* The handler carries out the oldest accepted request it has not served.
LEMMA ExecuteIsServe ==
    ASSUME IInv, Execute
    PROVE  Fifo!Serve
<1>1. closed # "true" /\ UNCHANGED <<closed, accepted>>
  BY DEF IInv, ClosedInv, Execute
<1> QED  BY <1>1, RunningIsNext DEF NextToServe, Fifo!Serve, Execute

\* The signal is given only when everything accepted has been served.
LEMMA SignalIsShut ==
    ASSUME IInv, Signal
    PROVE  Fifo!Shut
<1>1. conn = "retired" /\ Len(queue) = 0
  BY DEF IInv, QueueInv, Signal
<1>2. PICK p \in 1..(Len(queue) + 1) : Order(p)
  BY <1>1 DEF IInv, OrderInv
<1>3. Len(accepted) = Len(served) /\ Len(served) \in Nat
  BY <1>1, <1>2 DEF Order, Begun
<1>4. served = accepted
  BY <1>3, SeqEqual DEF IInv, TypeOK, ServedInv
<1> QED  BY <1>4 DEF Fifo!Shut, Signal, hist

\* The connection implements SqlxFifo: whatever services, close tasks and the
\* handler do, accepted requests are carried out in the order of acceptance,
\* each once, and none is left or accepted once the connection says Closed.
THEOREM FifoCorrect == Spec => ImplementsFifo
<1>1. Init => Fifo!Init
  BY DEF Init, Fifo!Init
<1>2. IInv /\ [Next]_vars => [Fifo!Next]_(Fifo!fifoVars)
  <2> SUFFICES ASSUME IInv, [Next]_vars, ~(UNCHANGED Fifo!fifoVars)
               PROVE  Fifo!Next
    OBVIOUS
  <2>1. ASSUME NEW r \in Requests, TrySend(r) PROVE Fifo!Next
    BY <2>1, SendIsAccept DEF Fifo!Next
  <2>2. CASE Execute
    BY <2>2, ExecuteIsServe DEF Fifo!Next
  <2>3. CASE Signal
    BY <2>3, SignalIsShut DEF Fifo!Next
  <2>4. CASE Panic
    BY <2>4 DEF IInv, ClosedInv, Panic, hist, Fifo!fifoVars
  <2>5. CASE UNCHANGED <<accepted, served, closed>>
    BY <2>5 DEF Fifo!fifoVars
  <2> QED
    BY <2>1, <2>2, <2>3, <2>4, <2>5 DEF Next, Handler, Dial, InCallStep,
       CloseTask, Connect, DialFails, DialSucceeds, Announce, TakeConnection,
       ReleaseHandle, FindLook, FindUpgrade, FindStale, Check, Count,
       TrySendFails, Uncount, TakeReply, Walk, CloseCall, Replace, SendClose,
       Park, SendGranted, SendFails, CloseAnswered, RecvClose, Recv, Settle,
       Respond, LoopEnds, Retire, chan, calls, people, hist, vars
<1> QED  BY <1>1, <1>2, Invariance, PTL DEF Spec, ImplementsFifo, Fifo!Spec
=============================================================================

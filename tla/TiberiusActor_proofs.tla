------------------------ MODULE TiberiusActor_proofs ------------------------
(***************************************************************************)
(* Safety of TiberiusActor for every set of services, requests and close() *)
(* calls, every capacity of the channel and every bound on the failures of *)
(* a request, and the proof that it implements SqlxFifo.                   *)
(***************************************************************************)
EXTENDS TiberiusActor, FiniteSetTheorems, SequenceTheorems, TLAPS

\* Where a message stands behind the channel, and its call in front of it.
StageInv ==
    /\ \A m \in Messages : stage[m] = "none" <=> call[m] \in {"new", "refused"}
    /\ \A r \in Requests : stage[r] = "running" <=> r = cur
    /\ \A r \in Requests : stage[r] # "closed"
    /\ \A k \in Closes : stage[k] \notin {"running", "ended"}

\* The channel holds exactly the queued messages, each once.
QueueInv ==
    /\ \A i \in 1..Len(queue) : stage[queue[i]] = "queued"
    /\ \A i, j \in 1..Len(queue) : queue[i] = queue[j] => i = j
    /\ \A m \in Messages : stage[m] = "queued" =>
          \E i \in 1..Len(queue) : queue[i] = m

\* A request without a session has no answer before it has succeeded.
AnswerInv ==
    \A r \in Requests \ Waited :
        /\ answer[r] = IF stage[r] = "ended" \/ (r = cur /\ conn = "answered")
                         THEN "ok" ELSE "none"

\* Messages the handler has begun to deal with.
Begun == Len(served) + (IF cur # NoReq THEN 1 ELSE 0)

\* While there is a receiver, the channel continues the accepted messages
\* where the handler stands.
OrderInv ==
    conn # "gone" =>
        /\ Len(accepted) = Begun + Len(queue)
        /\ \A i \in 1..Len(queue) : accepted[Begun + i] = queue[i]
        /\ cur # NoReq => accepted[Begun] = cur

ServedInv ==
    /\ Len(served) <= Len(accepted)
    /\ \A i \in 1..Len(served) : served[i] = accepted[i]

AcceptedInv == \A i \in 1..Len(accepted) : stage[accepted[i]] # "none"

IInv == /\ TypeOK /\ StageInv /\ QueueInv /\ AnswerInv /\ CounterLagsByCalls
        /\ OrderInv /\ ServedInv /\ AcceptedInv

----------------------------------------------------------------------------
\* The steps of services and of the handler.
LEMMA Actions ==
    ASSUME [Next]_vars
    PROVE  \/ Connect
           \/ Dialed
           \/ RecvClose
           \/ Recv
           \/ Succeeds
           \/ Fails
           \/ Wake
           \/ Uncount
           \/ DropReceiver
           \/ \E c \in Clients :
                 \/ FindConnection(c)
                 \/ ReleaseHandle(c)
           \/ \E r \in Requests :
                 \/ Send(r)
                 \/ SendFails(r)
                 \/ Count(r)
           \/ \E k \in Closes :
                 \/ CloseSent(k)
                 \/ CloseRefused(k)
           \/ UNCHANGED vars
BY DEF Next, Handler

\* Requests and close() calls are different messages, and none is NoReq.
LEMMA Kinds ==
    /\ \A r \in Requests : r \in Messages /\ r \notin Closes /\ r # NoReq
    /\ \A k \in Closes : k \in Messages /\ k \notin Requests
    /\ \A m \in Messages : m \in Requests \/ m \in Closes
BY TiberiusAssumption DEF Messages

\* What Append and Tail do to the channel, element by element.
Pushed(x) ==
    /\ queue' \in Seq(Messages) /\ Len(queue') = Len(queue) + 1
    /\ \A i \in 1..Len(queue) : queue'[i] = queue[i]
    /\ queue'[Len(queue) + 1] = x

Popped(x) ==
    /\ queue' \in Seq(Messages)
    /\ Len(queue) \in Nat \ {0} /\ Len(queue') = Len(queue) - 1
    /\ queue[1] = x /\ x \in Messages
    /\ \A i \in 1..Len(queue') : queue'[i] = queue[i + 1]
    /\ \A i \in 2..Len(queue) : queue'[i - 1] = queue[i]

\* Append puts one message behind the channel.
LEMMA Pushes ==
    ASSUME NEW x \in Messages, queue' = Append(queue, x), queue \in Seq(Messages)
    PROVE  Pushed(x)
BY DEF Pushed

\* Tail moves every message of the channel one place forward.
LEMMA Pops ==
    ASSUME queue' = Tail(queue), queue # <<>>, queue \in Seq(Messages)
    PROVE  Popped(Head(queue))
BY DEF Popped

\* The histories grow at their end.
Grows(s, t, x) ==
    /\ Len(s) \in Nat /\ Len(t) = Len(s) + 1
    /\ \A i \in 1..Len(s) : t[i] = s[i]
    /\ t[Len(s) + 1] = x

\* Append makes a history grow by its last element.
LEMMA Appends ==
    ASSUME NEW S, NEW s \in Seq(S), NEW x \in S
    PROVE  Grows(s, Append(s, x), x) /\ Append(s, x) \in Seq(S)
BY DEF Grows

\* The channel's messages, index by index.
LEMMA QueueElements ==
    ASSUME IInv
    PROVE  /\ Len(queue) \in Nat /\ \A i \in 1..Len(queue) : queue[i] \in Messages
           /\ DOMAIN stage = Messages
BY DEF IInv, TypeOK

\* The message at the head of the channel is a queued one.
LEMMA HeadIsQueued ==
    ASSUME IInv, queue # <<>>
    PROVE  /\ Head(queue) \in Messages /\ stage[Head(queue)] = "queued"
           /\ queue \in Seq(Messages) /\ Len(queue) \in Nat \ {0}
<1>1. /\ 1 \in 1..Len(queue) /\ Head(queue) = queue[1] /\ queue[1] \in Messages
      /\ queue \in Seq(Messages) /\ Len(queue) \in Nat \ {0}
  BY DEF IInv, TypeOK
<1> QED  BY <1>1 DEF IInv, QueueInv

\* Every variable keeps its type.
LEMMA TypeStep ==
    ASSUME IInv, [Next]_vars
    PROVE  TypeOK'
<1>1. ASSUME Connect PROVE TypeOK'
  BY <1>1, Kinds, TiberiusAssumption DEF Connect, hist, IInv, TypeOK
<1>2. ASSUME Dialed PROVE TypeOK'
  BY <1>2, Kinds, TiberiusAssumption DEF Dialed, hist, IInv, TypeOK
<1>3. ASSUME NEW c \in Clients, FindConnection(c) PROVE TypeOK'
  BY <1>3, Kinds, TiberiusAssumption DEF FindConnection, hist, IInv, TypeOK
<1>4. ASSUME NEW c \in Clients, ReleaseHandle(c) PROVE TypeOK'
  BY <1>4, Kinds, TiberiusAssumption DEF ReleaseHandle, hist, IInv, TypeOK
<1>5. ASSUME NEW r \in Requests, Send(r) PROVE TypeOK'
  <2>1. Pushed(r) /\ Append(accepted, r) \in Seq(Messages)
    BY <1>5, Kinds, Pushes, Appends DEF Send, Take, IInv, TypeOK
  <2>2. Len(queue') <= Capacity
    BY <1>5, <2>1, TiberiusAssumption DEF Send, HasRoom, Pushed, IInv, TypeOK
  <2> QED
    BY <1>5, <2>1, <2>2, Kinds DEF Send, Take, Pushed, IInv, TypeOK
<1>6. ASSUME NEW r \in Requests, SendFails(r) PROVE TypeOK'
  BY <1>6, Kinds, TiberiusAssumption DEF SendFails, Issues, hist, IInv, TypeOK
<1>7. ASSUME NEW r \in Requests, Count(r) PROVE TypeOK'
  BY <1>7, Kinds, TiberiusAssumption DEF Count, hist, IInv, TypeOK
<1>8. ASSUME NEW k \in Closes, CloseSent(k) PROVE TypeOK'
  <2>1. Pushed(k) /\ Append(accepted, k) \in Seq(Messages)
    BY <1>8, Kinds, Pushes, Appends DEF CloseSent, Take, IInv, TypeOK
  <2>2. Len(queue') <= Capacity
    BY <1>8, <2>1, TiberiusAssumption DEF CloseSent, HasRoom, Pushed, IInv, TypeOK
  <2> QED
    BY <1>8, <2>1, <2>2, Kinds DEF CloseSent, Take, Pushed, IInv, TypeOK
<1>9. ASSUME NEW k \in Closes, CloseRefused(k) PROVE TypeOK'
  BY <1>9, Kinds, TiberiusAssumption
     DEF CloseRefused, Issues, hist, IInv, TypeOK
<1>10. ASSUME RecvClose PROVE TypeOK'
  <2>1. Popped(Head(queue))
    BY <1>10, Pops DEF RecvClose, IInv, TypeOK
  <2>2. Append(served, Head(queue)) \in Seq(Messages)
    BY <2>1, Appends DEF Popped, IInv, TypeOK
  <2>3. Len(queue') <= Capacity
    BY <2>1, TiberiusAssumption DEF Popped, IInv, TypeOK
  <2> QED
    BY <1>10, <2>1, <2>2, <2>3 DEF RecvClose, Popped, IInv, TypeOK
<1>11. ASSUME Recv PROVE TypeOK'
  <2>1. Popped(Head(queue))
    BY <1>11, Pops DEF Recv, IInv, TypeOK
  <2>2. Len(queue') <= Capacity
    BY <2>1, TiberiusAssumption DEF Popped, IInv, TypeOK
  <2> QED
    BY <1>11, <2>1, <2>2, Kinds, TiberiusAssumption
       DEF Recv, hist, Popped, IInv, TypeOK
<1>12. ASSUME Succeeds PROVE TypeOK'
  BY <1>12, Kinds, TiberiusAssumption DEF Succeeds, hist, IInv, TypeOK
<1>13. ASSUME Fails PROVE TypeOK'
  <2>1. cur \in Requests /\ failed \in 0..MaxFails /\ MaxFails \in Nat
    BY <1>13, TiberiusAssumption DEF Fails, IInv, TypeOK
  <2>2. CASE cur \in Waited
    BY <1>13, <2>1, <2>2 DEF Fails, hist, IInv, TypeOK
  <2>3. CASE cur \notin Waited
    <3>1. failed' \in 0..MaxFails /\ conn' = "sleeping" /\ answer' = answer
      BY <1>13, <2>1, <2>3 DEF Fails
    <3> QED  BY <1>13, <2>1, <3>1 DEF Fails, hist, IInv, TypeOK
  <2> QED  BY <2>2, <2>3
<1>14. ASSUME Wake PROVE TypeOK'
  BY <1>14, Kinds, TiberiusAssumption DEF Wake, hist, IInv, TypeOK
<1>15. ASSUME Uncount PROVE TypeOK'
  <2>1. cur \in Requests /\ Append(served, cur) \in Seq(Messages)
    BY <1>15, Kinds, Appends DEF Uncount, IInv, TypeOK
  <2> QED
    BY <1>15, <2>1 DEF Uncount, IInv, TypeOK
<1>16. ASSUME DropReceiver PROVE TypeOK'
  <2>1. <<>> \in Seq(Messages) /\ Len(<<>>) <= Capacity
    BY TiberiusAssumption
  <2> QED
    BY <1>16, <2>1 DEF DropReceiver, hist, IInv, TypeOK
<1>17. ASSUME UNCHANGED <<conn, queue, counter, handle, call, stage, cur, failed,
                           answer, told, accepted, served>>
      PROVE  TypeOK'
  BY <1>17, Kinds, TiberiusAssumption DEF IInv, TypeOK
<1> QED
  BY <1>1, <1>2, <1>3, <1>4, <1>5, <1>6, <1>7, <1>8, <1>9, <1>10, <1>11, <1>12,
     <1>13, <1>14, <1>15, <1>16, <1>17, Actions
     DEF hist, vars

\* Only what was accepted gets behind the channel, and one request runs.
LEMMA StageStep ==
    ASSUME IInv, [Next]_vars
    PROVE  StageInv'
<1>1. ASSUME NEW r \in Requests, Send(r) PROVE StageInv'
  BY <1>1, Kinds
     DEF Send, Take, Issues, HasRoom, IInv, TypeOK, StageInv, Messages
<1>2. ASSUME NEW r \in Requests, SendFails(r) PROVE StageInv'
  BY <1>2, Kinds DEF SendFails, Issues, hist, IInv, TypeOK, StageInv, Messages
<1>3. ASSUME NEW r \in Requests, Count(r) PROVE StageInv'
  BY <1>3, Kinds DEF Count, hist, IInv, TypeOK, StageInv, Messages
<1>4. ASSUME NEW k \in Closes, CloseSent(k) PROVE StageInv'
  BY <1>4, Kinds
     DEF CloseSent, Take, Issues, HasRoom, IInv, TypeOK, StageInv, Messages
<1>5. ASSUME NEW k \in Closes, CloseRefused(k) PROVE StageInv'
  BY <1>5, Kinds
     DEF CloseRefused, Issues, hist, IInv, TypeOK, StageInv, Messages
<1>6. ASSUME RecvClose PROVE StageInv'
  <2>1. Head(queue) \in Closes /\ stage[Head(queue)] = "queued"
    BY <1>6, HeadIsQueued DEF RecvClose
  <2>2. /\ stage' = [stage EXCEPT ![Head(queue)] = "closed"]
        /\ UNCHANGED <<call, cur>>
    BY <1>6 DEF RecvClose
  <2> QED  BY <2>1, <2>2, Kinds DEF IInv, TypeOK, StageInv
<1>7. ASSUME Recv PROVE StageInv'
  <2>1. Head(queue) \in Requests /\ stage[Head(queue)] = "queued"
    BY <1>7, HeadIsQueued DEF Recv
  <2>2. /\ stage' = [stage EXCEPT ![Head(queue)] = "running"]
        /\ cur = NoReq /\ cur' = Head(queue) /\ call' = call
    BY <1>7 DEF Recv, IInv, TypeOK
  <2>3. \A r \in Requests : stage[r] # "running"
    BY <2>2, Kinds DEF IInv, StageInv
  <2>4. \A m \in Messages : stage'[m] = IF m = Head(queue) THEN "running" ELSE stage[m]
    BY <2>2 DEF IInv, TypeOK
  <2>5. cur' = Head(queue) /\ call' = call /\ StageInv
    BY <2>2 DEF IInv
  <2> QED  BY <2>1, <2>3, <2>4, <2>5, Kinds DEF StageInv
<1>8. ASSUME Uncount PROVE StageInv'
  <2>1. cur \in Requests /\ stage[cur] = "running" /\ StageInv
    BY <1>8, Kinds DEF Uncount, IInv, TypeOK, StageInv
  <2>2. cur' = NoReq /\ call' = call
    BY <1>8 DEF Uncount
  <2>3. \A m \in Messages : stage'[m] = IF m = cur THEN "ended" ELSE stage[m]
    BY <1>8 DEF Uncount, IInv, TypeOK
  <2> QED  BY <2>1, <2>2, <2>3, Kinds DEF StageInv
<1>9. ASSUME DropReceiver PROVE StageInv'
  BY <1>9, Kinds DEF DropReceiver, hist, IInv, TypeOK, StageInv, Messages
<1>10. ASSUME UNCHANGED <<stage, call, cur>> PROVE StageInv'
  BY <1>10, Kinds DEF IInv, TypeOK, StageInv, Messages
<1> QED
  BY <1>1, <1>2, <1>3, <1>4, <1>5, <1>6, <1>7, <1>8, <1>9, <1>10, Actions
     DEF Connect, Dialed, FindConnection, ReleaseHandle, Succeeds, Fails, Wake,
         hist, vars

\* A new message behind the channel is the only new queued one.
LEMMA QueuePushed ==
    ASSUME IInv, NEW m \in Messages, Pushed(m), stage[m] = "none",
           stage' = [stage EXCEPT ![m] = "queued"]
    PROVE  QueueInv'
<1>1. /\ QueueInv /\ Len(queue) \in Nat /\ Len(queue') = Len(queue) + 1
      /\ \A i \in 1..Len(queue) : queue[i] \in Messages /\ queue'[i] = queue[i]
      /\ queue'[Len(queue) + 1] = m
  BY QueueElements DEF Pushed, IInv
<1>2. stage'[m] = "queued" /\ \A x \in Messages \ {m} : stage'[x] = stage[x]
  BY QueueElements
<1>3. \A i \in 1..Len(queue) : queue[i] # m
  BY <1>1 DEF QueueInv
<1>4. \A i \in 1..Len(queue') : i \in 1..Len(queue) \/ i = Len(queue) + 1
  BY <1>1
<1>5. ASSUME NEW i \in 1..Len(queue') PROVE stage'[queue'[i]] = "queued"
  <2>1. CASE i \in 1..Len(queue)
    BY <1>1, <1>2, <1>3, <2>1 DEF QueueInv
  <2>2. CASE i = Len(queue) + 1
    BY <1>1, <1>2, <2>2
  <2> QED  BY <1>4, <2>1, <2>2
<1>6. ASSUME NEW i \in 1..Len(queue'), NEW j \in 1..Len(queue'),
             queue'[i] = queue'[j]
      PROVE  i = j
  BY <1>1, <1>3, <1>4, <1>6 DEF QueueInv
<1>7. ASSUME NEW x \in Messages, stage'[x] = "queued"
      PROVE  \E i \in 1..Len(queue') : queue'[i] = x
  <2>1. CASE x = m
    <3>1. Len(queue) + 1 \in 1..Len(queue')
      BY <1>1
    <3> QED  BY <1>1, <2>1, <3>1
  <2>2. CASE x # m
    <3>1. PICK i \in 1..Len(queue) : queue[i] = x
      BY <1>1, <1>2, <1>7, <2>2 DEF QueueInv
    <3>2. i \in 1..Len(queue')
      BY <1>1
    <3> QED  BY <1>1, <3>1, <3>2
  <2> QED  BY <2>1, <2>2
<1> QED  BY <1>5, <1>6, <1>7 DEF QueueInv

\* The message taken from the channel is the only one no longer queued.
LEMMA QueuePopped ==
    ASSUME IInv, NEW m, Popped(m), NEW s, s # "queued",
           stage' = [stage EXCEPT ![m] = s]
    PROVE  QueueInv'
<1>1. /\ QueueInv /\ Len(queue) \in Nat /\ Len(queue') = Len(queue) - 1
      /\ \A i \in 1..Len(queue) : queue[i] \in Messages
      /\ 1 \in 1..Len(queue) /\ queue[1] = m /\ m \in Messages
  BY QueueElements DEF Popped, IInv
<1>2. \A i \in 1..Len(queue') : i + 1 \in 1..Len(queue) /\ queue'[i] = queue[i + 1]
  BY <1>1 DEF Popped
<1>3. stage'[m] # "queued" /\ \A x \in Messages \ {m} : stage'[x] = stage[x]
  BY <1>1, QueueElements
<1>4. ASSUME NEW i \in 1..Len(queue') PROVE stage'[queue'[i]] = "queued"
  <2>1. i + 1 # 1 /\ i + 1 \in 1..Len(queue) /\ queue'[i] = queue[i + 1]
    BY <1>2
  <2>2. queue[i + 1] # m /\ stage[queue[i + 1]] = "queued"
    BY <1>1, <2>1 DEF QueueInv
  <2> QED  BY <1>1, <1>3, <2>1, <2>2
<1>5. ASSUME NEW i \in 1..Len(queue'), NEW j \in 1..Len(queue'),
             queue'[i] = queue'[j]
      PROVE  i = j
  <2>1. i + 1 = j + 1
    BY <1>1, <1>2, <1>5 DEF QueueInv
  <2> QED  BY <2>1
<1>6. ASSUME NEW x \in Messages, stage'[x] = "queued"
      PROVE  \E i \in 1..Len(queue') : queue'[i] = x
  <2>1. x # m /\ stage[x] = "queued"
    BY <1>3, <1>6
  <2>2. PICK i \in 1..Len(queue) : queue[i] = x
    BY <1>1, <2>1 DEF QueueInv
  <2>3. i \in 2..Len(queue) /\ i - 1 \in 1..Len(queue')
    BY <1>1, <2>1, <2>2
  <2>4. queue'[i - 1] = queue[i]
    BY <2>3 DEF Popped
  <2> QED  BY <2>2, <2>3, <2>4
<1> QED  BY <1>4, <1>5, <1>6 DEF QueueInv

\* The channel keeps holding the queued messages.
LEMMA QueueStep ==
    ASSUME IInv, [Next]_vars
    PROVE  QueueInv'
<1>1. ASSUME NEW r \in Requests, Send(r) PROVE QueueInv'
  <2>1. Pushed(r)
    BY <1>1, Kinds, Pushes DEF Send, Take, IInv, TypeOK
  <2>2. stage[r] = "none" /\ stage' = [stage EXCEPT ![r] = "queued"]
    BY <1>1, Kinds DEF Send, Take, Issues, IInv, StageInv
  <2> QED  BY <2>1, <2>2, Kinds, QueuePushed
<1>2. ASSUME NEW k \in Closes, CloseSent(k) PROVE QueueInv'
  <2>1. Pushed(k)
    BY <1>2, Kinds, Pushes DEF CloseSent, Take, IInv, TypeOK
  <2>2. stage[k] = "none" /\ stage' = [stage EXCEPT ![k] = "queued"]
    BY <1>2, Kinds DEF CloseSent, Take, Issues, IInv, StageInv
  <2> QED  BY <2>1, <2>2, Kinds, QueuePushed
<1>3. ASSUME RecvClose PROVE QueueInv'
  <2>1. Popped(Head(queue))
    BY <1>3, Pops DEF RecvClose, IInv, TypeOK
  <2>2. stage' = [stage EXCEPT ![Head(queue)] = "closed"]
    BY <1>3 DEF RecvClose
  <2> QED  BY <2>1, <2>2, QueuePopped
<1>4. ASSUME Recv PROVE QueueInv'
  <2>1. Popped(Head(queue))
    BY <1>4, Pops DEF Recv, IInv, TypeOK
  <2>2. stage' = [stage EXCEPT ![Head(queue)] = "running"]
    BY <1>4 DEF Recv
  <2> QED  BY <2>1, <2>2, QueuePopped
<1>5. ASSUME Uncount PROVE QueueInv'
  <2>1. stage[cur] = "running" /\ cur \in Messages
    BY <1>5, Kinds DEF Uncount, IInv, TypeOK, StageInv
  <2>2. stage' = [stage EXCEPT ![cur] = "ended"] /\ queue' = queue
    BY <1>5 DEF Uncount
  <2> QED  BY <2>1, <2>2 DEF IInv, TypeOK, QueueInv
<1>6. ASSUME DropReceiver PROVE QueueInv'
  BY <1>6, Kinds
     DEF DropReceiver, hist, IInv, TypeOK, StageInv, QueueInv, Messages
<1>7. ASSUME UNCHANGED <<stage, queue>> PROVE QueueInv'
  BY <1>7, Kinds DEF IInv, TypeOK, StageInv, QueueInv, Messages
<1> QED
  BY <1>1, <1>2, <1>3, <1>4, <1>5, <1>6, <1>7, Actions
     DEF Connect, Dialed, FindConnection, ReleaseHandle, SendFails, Count,
         CloseRefused, Succeeds, Fails, Wake, hist, vars

\* A request nobody waits for is answered when it succeeds, and only then.
LEMMA AnswerStep ==
    ASSUME IInv, [Next]_vars
    PROVE  AnswerInv'
<1>1. ASSUME Connect PROVE AnswerInv'
  BY <1>1, Kinds DEF Connect, hist, IInv, TypeOK, StageInv, AnswerInv, Messages
<1>2. ASSUME Dialed PROVE AnswerInv'
  BY <1>2, Kinds DEF Dialed, hist, IInv, TypeOK, StageInv, AnswerInv, Messages
<1>3. ASSUME NEW r \in Requests, Send(r) PROVE AnswerInv'
  BY <1>3, Kinds
     DEF Send, Take, Issues, HasRoom, IInv, TypeOK, StageInv, AnswerInv,
         Messages
<1>4. ASSUME NEW k \in Closes, CloseSent(k) PROVE AnswerInv'
  BY <1>4, Kinds
     DEF CloseSent, Take, Issues, HasRoom, IInv, TypeOK, StageInv, AnswerInv,
         Messages
<1>5. ASSUME RecvClose PROVE AnswerInv'
  BY <1>5, HeadIsQueued, Kinds
     DEF RecvClose, IInv, TypeOK, StageInv, AnswerInv, Messages
<1>6. ASSUME Recv PROVE AnswerInv'
  BY <1>6, HeadIsQueued, Kinds
     DEF Recv, hist, IInv, TypeOK, StageInv, AnswerInv, Messages
<1>7. ASSUME Succeeds PROVE AnswerInv'
  BY <1>7, Kinds
     DEF Succeeds, hist, IInv, TypeOK, StageInv, AnswerInv, Messages
<1>8. ASSUME Fails PROVE AnswerInv'
  BY <1>8, Kinds DEF Fails, hist, IInv, TypeOK, StageInv, AnswerInv, Messages
<1>9. ASSUME Wake PROVE AnswerInv'
  BY <1>9, Kinds DEF Wake, hist, IInv, TypeOK, StageInv, AnswerInv, Messages
<1>10. ASSUME Uncount PROVE AnswerInv'
  BY <1>10, TiberiusAssumption, Kinds
     DEF Uncount, IInv, TypeOK, StageInv, AnswerInv, Messages
<1>11. ASSUME DropReceiver PROVE AnswerInv'
  BY <1>11, Kinds
     DEF DropReceiver, hist, IInv, TypeOK, StageInv, AnswerInv, Messages
<1>12. ASSUME UNCHANGED <<stage, answer, cur, conn>> PROVE AnswerInv'
  BY <1>12, Kinds DEF IInv, TypeOK, StageInv, AnswerInv, Messages
<1> QED
  BY <1>1, <1>2, <1>3, <1>4, <1>5, <1>6, <1>7, <1>8, <1>9, <1>10, <1>11, <1>12,
     Actions
     DEF FindConnection, ReleaseHandle, SendFails, Count, CloseRefused, hist,
         vars

\* The sets behind the counter are finite, and change by one element.
LEMMA CountedFinite ==
    /\ IsFiniteSet(Unpaid) /\ Cardinality(Unpaid) \in Nat
    /\ IsFiniteSet(Lagging) /\ Cardinality(Lagging) \in Nat
<1>1. Unpaid \subseteq Requests /\ Lagging \subseteq Requests
  BY DEF Unpaid, Lagging
<1> QED  BY <1>1, TiberiusAssumption, FS_Subset, FS_CardinalityType

\* A set that gains an element has one more.
LEMMA OneMore ==
    ASSUME NEW S, NEW T, NEW x, IsFiniteSet(S), x \notin S, T = S \cup {x}
    PROVE  Cardinality(T) = Cardinality(S) + 1
BY FS_AddElement

\* A set that loses an element has one less.
LEMMA OneLess ==
    ASSUME NEW S, NEW T, NEW x, IsFiniteSet(S), x \in S, T = S \ {x}
    PROVE  Cardinality(T) = Cardinality(S) - 1
BY FS_RemoveElement

\* The counter follows the channel, late by the calls that have not counted.
LEMMA CounterStep ==
    ASSUME IInv, [Next]_vars
    PROVE  CounterLagsByCalls'
<1>1. ASSUME NEW r \in Requests, Send(r) PROVE CounterLagsByCalls'
  <2>1. /\ stage[r] = "none" /\ call[r] = "new" /\ r \in Messages
        /\ stage' = [stage EXCEPT ![r] = "queued"]
        /\ call' = [call EXCEPT ![r] = "sent"] /\ counter' = counter
    BY <1>1, Kinds DEF Send, Take, Issues, IInv, StageInv
  <2>2. r \notin Unpaid /\ Unpaid' = Unpaid \cup {r}
    BY <2>1, Kinds DEF Unpaid, IInv, TypeOK
  <2>3. r \notin Lagging /\ Lagging' = Lagging \cup {r}
    BY <2>1, Kinds DEF Lagging, IInv, TypeOK
  <2>4. /\ Cardinality(Unpaid') = Cardinality(Unpaid) + 1
        /\ Cardinality(Lagging') = Cardinality(Lagging) + 1
    BY <2>2, <2>3, OneMore, CountedFinite
  <2> QED
    BY <2>1, <2>4, CountedFinite DEF IInv, TypeOK, CounterLagsByCalls
<1>2. ASSUME NEW r \in Requests, SendFails(r) PROVE CounterLagsByCalls'
  <2>1. UNCHANGED <<stage, counter>> /\ Unpaid' = Unpaid
    BY <1>2 DEF SendFails, Unpaid
  <2>2. Lagging' = Lagging
    BY <1>2, Kinds DEF SendFails, Issues, Lagging, IInv, TypeOK
  <2> QED  BY <2>1, <2>2 DEF IInv, CounterLagsByCalls
<1>3. ASSUME NEW r \in Requests, Count(r) PROVE CounterLagsByCalls'
  <2>1. /\ call[r] = "sent" /\ call' = [call EXCEPT ![r] = "returned"]
        /\ counter' = counter + 1 /\ Unpaid' = Unpaid
    BY <1>3 DEF Count, Unpaid
  <2>2. r \in Lagging /\ Lagging' = Lagging \ {r}
    BY <2>1, Kinds DEF Lagging, IInv, TypeOK
  <2>3. Cardinality(Lagging') = Cardinality(Lagging) - 1
    BY <2>2, OneLess, CountedFinite
  <2> QED
    BY <2>1, <2>3, CountedFinite DEF IInv, TypeOK, CounterLagsByCalls
<1>4. ASSUME NEW k \in Closes, CloseSent(k) PROVE CounterLagsByCalls'
  <2>1. Unpaid' = Unpaid /\ Lagging' = Lagging /\ counter' = counter
    BY <1>4, Kinds DEF CloseSent, Take, Unpaid, Lagging, IInv, TypeOK
  <2> QED  BY <2>1 DEF IInv, CounterLagsByCalls
<1>5. ASSUME NEW k \in Closes, CloseRefused(k) PROVE CounterLagsByCalls'
  <2>1. Unpaid' = Unpaid /\ Lagging' = Lagging /\ counter' = counter
    BY <1>5, Kinds DEF CloseRefused, Unpaid, Lagging, IInv, TypeOK
  <2> QED  BY <2>1 DEF IInv, CounterLagsByCalls
<1>6. ASSUME RecvClose PROVE CounterLagsByCalls'
  <2>1. Unpaid' = Unpaid /\ Lagging' = Lagging /\ counter' = counter
    BY <1>6, Kinds DEF RecvClose, Unpaid, Lagging, IInv, TypeOK
  <2> QED  BY <2>1 DEF IInv, CounterLagsByCalls
<1>7. ASSUME Recv PROVE CounterLagsByCalls'
  <2>1. stage[Head(queue)] = "queued" /\ Head(queue) \in Messages
    BY <1>7, HeadIsQueued DEF Recv
  <2>2. Unpaid' = Unpaid /\ Lagging' = Lagging /\ counter' = counter
    BY <1>7, <2>1, Kinds DEF Recv, Unpaid, Lagging, IInv, TypeOK
  <2> QED  BY <2>2 DEF IInv, CounterLagsByCalls
<1>8. ASSUME Uncount PROVE CounterLagsByCalls'
  <2>1. /\ cur \in Requests /\ stage[cur] = "running"
        /\ stage' = [stage EXCEPT ![cur] = "ended"]
        /\ counter' = counter - 1 /\ Lagging' = Lagging
    BY <1>8, Kinds DEF Uncount, Lagging, IInv, TypeOK, StageInv
  <2>2. cur \in Unpaid /\ Unpaid' = Unpaid \ {cur}
    BY <2>1, Kinds DEF Unpaid, IInv, TypeOK
  <2>3. Cardinality(Unpaid') = Cardinality(Unpaid) - 1
    BY <2>2, OneLess, CountedFinite
  <2> QED
    BY <2>1, <2>3, CountedFinite DEF IInv, TypeOK, CounterLagsByCalls
<1>9. ASSUME DropReceiver PROVE CounterLagsByCalls'
  <2>1. Unpaid' = Unpaid /\ Lagging' = Lagging /\ counter' = counter
    BY <1>9, Kinds DEF DropReceiver, Unpaid, Lagging, IInv, TypeOK
  <2> QED  BY <2>1 DEF IInv, CounterLagsByCalls
<1>10. ASSUME UNCHANGED <<stage, call, counter>> PROVE CounterLagsByCalls'
  BY <1>10, Kinds
     DEF IInv, TypeOK, StageInv, CounterLagsByCalls, Unpaid, Lagging
<1> QED
  BY <1>1, <1>2, <1>3, <1>4, <1>5, <1>6, <1>7, <1>8, <1>9, <1>10, Actions
     DEF Connect, Dialed, FindConnection, ReleaseHandle, Succeeds, Fails, Wake,
         hist, vars

\* A message that is taken comes last in the channel and in what was accepted.
LEMMA OrderPushed ==
    ASSUME IInv, NEW m, Pushed(m), Grows(accepted, accepted', m),
           UNCHANGED <<conn, cur, served>>
    PROVE  OrderInv'
<1>1. /\ Len(served) \in Nat /\ Len(queue) \in Nat /\ Len(accepted) \in Nat
      /\ OrderInv
  BY DEF IInv, TypeOK
<1>2. Begun \in Nat /\ Begun' = Begun
  BY <1>1 DEF Begun
<1>3. ASSUME conn # "gone" PROVE OrderInv'
  <2>1. /\ Len(accepted) = Begun + Len(queue)
        /\ \A i \in 1..Len(queue) : accepted[Begun + i] = queue[i]
        /\ cur # NoReq => accepted[Begun] = cur
    BY <1>1, <1>3 DEF OrderInv
  <2>2. Len(accepted') = Begun + Len(queue')
    BY <1>1, <1>2, <2>1 DEF Pushed, Grows
  <2>3. ASSUME NEW i \in 1..Len(queue') PROVE accepted'[Begun + i] = queue'[i]
    <3>1. CASE i = Len(queue) + 1
      <4>1. Begun + i = Len(accepted) + 1
        BY <1>1, <1>2, <2>1, <3>1
      <4> QED  BY <3>1, <4>1 DEF Pushed, Grows
    <3>2. CASE i # Len(queue) + 1
      <4>1. i \in 1..Len(queue) /\ Begun + i \in 1..Len(accepted)
        BY <1>1, <1>2, <2>1, <3>2 DEF Pushed
      <4> QED  BY <2>1, <4>1 DEF Pushed, Grows
    <3> QED  BY <3>1, <3>2
  <2>4. ASSUME cur # NoReq PROVE accepted'[Begun] = cur
    <3>1. Begun \in 1..Len(accepted)
      BY <1>1, <1>2, <2>1, <2>4 DEF Begun
    <3> QED  BY <2>1, <2>4, <3>1 DEF Grows
  <2> QED  BY <1>2, <2>2, <2>3, <2>4 DEF OrderInv
<1> QED  BY <1>3 DEF OrderInv

\* A message taken from the channel is the next one the handler begins.
LEMMA OrderPopped ==
    ASSUME IInv, NEW m, Popped(m), cur = NoReq, conn # "gone", Begun \in Nat,
           Begun' = Begun + 1, accepted' = accepted, cur' \in {NoReq, m}
    PROVE  OrderInv'
<1>1. /\ Len(accepted) = Begun + Len(queue)
      /\ \A i \in 1..Len(queue) : accepted[Begun + i] = queue[i]
  BY DEF IInv, OrderInv
<1>2. Len(queue) \in Nat \ {0} /\ Len(queue') = Len(queue) - 1 /\ queue[1] = m
  BY DEF Popped
<1>3. Len(accepted) = Begun' + Len(queue')
  BY <1>1, <1>2
<1>4. ASSUME NEW i \in 1..Len(queue') PROVE accepted[Begun' + i] = queue'[i]
  <2>1. i + 1 \in 1..Len(queue) /\ Begun' + i = Begun + (i + 1)
    BY <1>2
  <2>2. queue'[i] = queue[i + 1]
    BY DEF Popped
  <2> QED  BY <1>1, <2>1, <2>2
<1>5. accepted[Begun'] = m
  <2>1. 1 \in 1..Len(queue)
    BY <1>2
  <2> QED  BY <1>1, <1>2, <2>1
<1> QED  BY <1>3, <1>4, <1>5 DEF OrderInv

\* The channel continues the accepted messages.
LEMMA OrderStep ==
    ASSUME IInv, [Next]_vars
    PROVE  OrderInv'
<1>1. ASSUME Connect PROVE OrderInv'
  BY <1>1 DEF Connect, hist, IInv, TypeOK, OrderInv, Begun
<1>2. ASSUME Dialed PROVE OrderInv'
  BY <1>2 DEF Dialed, hist, IInv, TypeOK, OrderInv, Begun
<1>3. ASSUME NEW r \in Requests, Send(r) PROVE OrderInv'
  <2>1. Pushed(r) /\ Grows(accepted, accepted', r)
    BY <1>3, Kinds, Pushes, Appends DEF Send, Take, IInv, TypeOK
  <2>2. UNCHANGED <<conn, cur, served>>
    BY <1>3 DEF Send
  <2> QED  BY <2>1, <2>2, OrderPushed
<1>4. ASSUME NEW k \in Closes, CloseSent(k) PROVE OrderInv'
  <2>1. Pushed(k) /\ Grows(accepted, accepted', k)
    BY <1>4, Kinds, Pushes, Appends DEF CloseSent, Take, IInv, TypeOK
  <2>2. UNCHANGED <<conn, cur, served>>
    BY <1>4 DEF CloseSent
  <2> QED  BY <2>1, <2>2, OrderPushed
<1>5. ASSUME RecvClose PROVE OrderInv'
  <2>1. Popped(Head(queue)) /\ Grows(served, served', Head(queue))
    BY <1>5, HeadIsQueued, Pops, Appends DEF RecvClose, IInv, TypeOK
  <2>2. cur = NoReq /\ cur' = NoReq /\ accepted' = accepted /\ conn # "gone"
    BY <1>5 DEF RecvClose, IInv, TypeOK
  <2>3. Begun \in Nat /\ Begun' = Begun + 1
    BY <2>1, <2>2 DEF Begun, Grows
  <2> QED  BY <2>1, <2>2, <2>3, OrderPopped
<1>6. ASSUME Recv PROVE OrderInv'
  <2>1. Popped(Head(queue)) /\ Len(served) \in Nat
    BY <1>6, Pops DEF Recv, IInv, TypeOK
  <2>2. /\ cur = NoReq /\ cur' = Head(queue) /\ cur' # NoReq /\ conn # "gone"
        /\ UNCHANGED <<accepted, served>>
    BY <1>6, Kinds DEF Recv, hist, IInv, TypeOK
  <2>3. Begun \in Nat /\ Begun' = Begun + 1
    BY <2>1, <2>2 DEF Begun
  <2> QED  BY <2>1, <2>2, <2>3, OrderPopped
<1>7. ASSUME Succeeds PROVE OrderInv'
  BY <1>7 DEF Succeeds, hist, IInv, TypeOK, OrderInv, Begun
<1>8. ASSUME Fails PROVE OrderInv'
  BY <1>8 DEF Fails, hist, IInv, TypeOK, OrderInv, Begun
<1>9. ASSUME Wake PROVE OrderInv'
  BY <1>9 DEF Wake, hist, IInv, TypeOK, OrderInv, Begun
<1>10. ASSUME Uncount PROVE OrderInv'
  <2>1. cur \in Requests /\ cur # NoReq /\ Grows(served, served', cur)
    BY <1>10, Kinds, Appends DEF Uncount, IInv, TypeOK
  <2>2. cur' = NoReq /\ UNCHANGED <<queue, accepted>> /\ conn # "gone"
    BY <1>10 DEF Uncount
  <2> QED  BY <2>1, <2>2 DEF Grows, IInv, OrderInv, Begun
<1>11. ASSUME DropReceiver PROVE OrderInv'
  BY <1>11 DEF DropReceiver, hist, IInv, TypeOK, OrderInv, Begun
<1>12. ASSUME UNCHANGED <<conn, queue, cur, accepted, served>> PROVE OrderInv'
  BY <1>12 DEF IInv, TypeOK, OrderInv, Begun
<1> QED
  BY <1>1, <1>2, <1>3, <1>4, <1>5, <1>6, <1>7, <1>8, <1>9, <1>10, <1>11, <1>12,
     Actions
     DEF FindConnection, ReleaseHandle, SendFails, Count, CloseRefused, hist,
         vars

\* The next message served is the next one accepted.
LEMMA NextToServe ==
    ASSUME IInv, NEW m \in Messages, conn # "gone",
           \/ cur = NoReq /\ queue # <<>> /\ m = Head(queue)
           \/ cur # NoReq /\ m = cur
    PROVE  /\ Len(served) \in Nat /\ Len(served) < Len(accepted)
           /\ accepted[Len(served) + 1] = m
<1>1. Len(served) \in Nat /\ Len(queue) \in Nat
  BY DEF IInv, TypeOK
<1>2. CASE cur = NoReq /\ queue # <<>> /\ m = Head(queue)
  <2>1. Len(queue) > 0 /\ m = queue[1]
    BY <1>2 DEF IInv, TypeOK
  <2> QED  BY <1>1, <1>2, <2>1 DEF IInv, OrderInv, Begun
<1>3. CASE cur # NoReq /\ m = cur
  BY <1>1, <1>3 DEF IInv, OrderInv, Begun
<1> QED  BY <1>2, <1>3

\* What has been served is a prefix of what was accepted.
LEMMA ServedStep ==
    ASSUME IInv, [Next]_vars
    PROVE  ServedInv'
<1>1. ASSUME NEW r \in Requests, Send(r) PROVE ServedInv'
  <2>1. Grows(accepted, accepted', r) /\ served' = served /\ Len(served) \in Nat
    BY <1>1, Kinds, Appends DEF Send, Take, IInv, TypeOK
  <2> QED  BY <2>1 DEF Grows, IInv, ServedInv
<1>2. ASSUME NEW k \in Closes, CloseSent(k) PROVE ServedInv'
  <2>1. Grows(accepted, accepted', k) /\ served' = served /\ Len(served) \in Nat
    BY <1>2, Kinds, Appends DEF CloseSent, Take, IInv, TypeOK
  <2> QED  BY <2>1 DEF Grows, IInv, ServedInv
<1>3. ASSUME RecvClose PROVE ServedInv'
  <2>1. /\ Head(queue) \in Messages /\ accepted' = accepted
        /\ Grows(served, served', Head(queue))
    BY <1>3, Kinds, HeadIsQueued, Appends DEF RecvClose, IInv, TypeOK
  <2>2. Len(served) < Len(accepted) /\ accepted[Len(served) + 1] = Head(queue)
    BY <1>3, <2>1, NextToServe DEF RecvClose, IInv, TypeOK
  <2>3. Len(accepted) \in Nat
    BY DEF IInv, TypeOK
  <2> QED  BY <2>1, <2>2, <2>3 DEF Grows, IInv, ServedInv
<1>4. ASSUME Uncount PROVE ServedInv'
  <2>1. cur \in Messages /\ Grows(served, served', cur) /\ accepted' = accepted
    BY <1>4, Kinds, HeadIsQueued, Appends DEF Uncount, IInv, TypeOK
  <2>2. Len(served) < Len(accepted) /\ accepted[Len(served) + 1] = cur
    BY <1>4, <2>1, NextToServe DEF Uncount, IInv, TypeOK
  <2>3. Len(accepted) \in Nat
    BY DEF IInv, TypeOK
  <2> QED  BY <2>1, <2>2, <2>3 DEF Grows, IInv, ServedInv
<1>5. ASSUME UNCHANGED <<accepted, served>> PROVE ServedInv'
  BY <1>5 DEF IInv, TypeOK, ServedInv
<1> QED
  BY <1>1, <1>2, <1>3, <1>4, <1>5, Actions
     DEF Connect, Dialed, FindConnection, ReleaseHandle, SendFails, Count,
         CloseRefused, Recv, Succeeds, Fails, Wake, DropReceiver, hist, vars

\* Whatever was accepted is known behind the channel.
LEMMA AcceptedStep ==
    ASSUME IInv, [Next]_vars
    PROVE  AcceptedInv'
<1>1. ASSUME NEW r \in Requests, Send(r) PROVE AcceptedInv'
  <2>1. Grows(accepted, accepted', r) /\ r \in Messages
    BY <1>1, Kinds, Appends DEF Send, Take, IInv, TypeOK
  <2>2. stage' = [stage EXCEPT ![r] = "queued"]
    BY <1>1 DEF Send, Take
  <2>3. \A i \in 1..Len(accepted) : accepted[i] \in Messages
    BY DEF IInv, TypeOK
  <2> QED  BY <2>1, <2>2, <2>3 DEF Grows, IInv, TypeOK, AcceptedInv
<1>2. ASSUME NEW k \in Closes, CloseSent(k) PROVE AcceptedInv'
  <2>1. Grows(accepted, accepted', k) /\ k \in Messages
    BY <1>2, Kinds, Appends DEF CloseSent, Take, IInv, TypeOK
  <2>2. stage' = [stage EXCEPT ![k] = "queued"]
    BY <1>2 DEF CloseSent, Take
  <2>3. \A i \in 1..Len(accepted) : accepted[i] \in Messages
    BY DEF IInv, TypeOK
  <2> QED  BY <2>1, <2>2, <2>3 DEF Grows, IInv, TypeOK, AcceptedInv
<1>3. ASSUME RecvClose PROVE AcceptedInv'
  <2>1. \A m \in Messages : stage[m] # "none" => stage'[m] # "none"
    BY <1>3 DEF RecvClose, IInv, TypeOK
  <2>2. accepted' = accepted /\ \A i \in 1..Len(accepted) : accepted[i] \in Messages
    BY <1>3 DEF RecvClose, hist, IInv, TypeOK
  <2> QED  BY <2>1, <2>2 DEF IInv, AcceptedInv
<1>4. ASSUME Recv PROVE AcceptedInv'
  <2>1. \A m \in Messages : stage[m] # "none" => stage'[m] # "none"
    BY <1>4 DEF Recv, IInv, TypeOK
  <2>2. accepted' = accepted /\ \A i \in 1..Len(accepted) : accepted[i] \in Messages
    BY <1>4 DEF Recv, hist, IInv, TypeOK
  <2> QED  BY <2>1, <2>2 DEF IInv, AcceptedInv
<1>5. ASSUME Uncount PROVE AcceptedInv'
  <2>1. \A m \in Messages : stage[m] # "none" => stage'[m] # "none"
    BY <1>5 DEF Uncount, IInv, TypeOK
  <2>2. accepted' = accepted /\ \A i \in 1..Len(accepted) : accepted[i] \in Messages
    BY <1>5 DEF Uncount, hist, IInv, TypeOK
  <2> QED  BY <2>1, <2>2 DEF IInv, AcceptedInv
<1>6. ASSUME DropReceiver PROVE AcceptedInv'
  <2>1. \A m \in Messages : stage[m] # "none" => stage'[m] # "none"
    BY <1>6 DEF DropReceiver, IInv, TypeOK
  <2>2. accepted' = accepted /\ \A i \in 1..Len(accepted) : accepted[i] \in Messages
    BY <1>6 DEF DropReceiver, hist, IInv, TypeOK
  <2> QED  BY <2>1, <2>2 DEF IInv, AcceptedInv
<1>7. ASSUME UNCHANGED <<accepted, stage>> PROVE AcceptedInv'
  BY <1>7 DEF IInv, TypeOK, AcceptedInv
<1> QED
  BY <1>1, <1>2, <1>3, <1>4, <1>5, <1>6, <1>7, Actions
     DEF Connect, Dialed, FindConnection, ReleaseHandle, SendFails, Count,
         CloseRefused, Succeeds, Fails, Wake, hist, vars

----------------------------------------------------------------------------
\* Nothing has been asked of the connection.
LEMMA InitInv == Init => IInv
<1> SUFFICES ASSUME Init PROVE IInv
  OBVIOUS
<1>1. Len(<<>>) = 0 /\ <<>> \in Seq(Messages) /\ <<>> \in Seq(Requests)
  OBVIOUS
<1>2. TypeOK
  BY <1>1, TiberiusAssumption DEF Init, TypeOK
<1>3. StageInv /\ AnswerInv
  BY Kinds, TiberiusAssumption DEF Init, StageInv, AnswerInv
<1>4. QueueInv /\ OrderInv /\ ServedInv /\ AcceptedInv
  BY <1>1 DEF Init, QueueInv, OrderInv, Begun, ServedInv, AcceptedInv
<1>5. CounterLagsByCalls
  <2>1. Unpaid = {} /\ Lagging = {}
    BY Kinds DEF Init, Unpaid, Lagging
  <2> QED  BY <2>1, FS_EmptySet DEF Init, CounterLagsByCalls
<1> QED  BY <1>2, <1>3, <1>4, <1>5 DEF IInv

\* The conjuncts of the inductive invariant, together.
LEMMA StepInv == IInv /\ [Next]_vars => IInv'
BY TypeStep, StageStep, QueueStep, AnswerStep, CounterStep, OrderStep,
   ServedStep, AcceptedStep DEF IInv

\* The inductive invariant holds in every reachable state.
LEMMA Invariance == Spec => []IInv
BY InitInv, StepInv, PTL DEF Spec

\* Every variable of the connection keeps its type.
THEOREM TypeCorrect == Spec => []TypeOK
<1>1. IInv => TypeOK
  BY DEF IInv
<1> QED  BY <1>1, Invariance, PTL

\* The counter behind stats() lags behind the channel by exactly the calls that
\* have sent and not yet counted, whatever fails and however it is retried.
THEOREM CounterCorrect == Spec => []CounterLagsByCalls
<1>1. IInv => CounterLagsByCalls
  BY DEF IInv
<1> QED  BY <1>1, Invariance, PTL

\* A request without a session is never given up: it is over only when it has
\* succeeded, and lost only when it had not been tried (handle_result).
THEOREM RetriesCorrect == Spec => []FireAndForgetSucceeds
<1>1. IInv => FireAndForgetSucceeds
  <2> SUFFICES ASSUME IInv, NEW r \in Requests \ Waited
               PROVE  /\ stage[r] = "ended" => answer[r] = "ok"
                      /\ stage[r] = "lost" => answer[r] = "none"
                      /\ answer[r] # "error"
    BY DEF FireAndForgetSucceeds
  <2>1. r = cur => stage[r] = "running"
    BY Kinds DEF IInv, StageInv
  <2> QED  BY <2>1 DEF IInv, AnswerInv
<1> QED  BY <1>1, Invariance, PTL

----------------------------------------------------------------------------
\* try_send accepts a message that was not accepted before.
LEMMA SendIsAccept ==
    ASSUME IInv, NEW m \in Messages, call[m] = "new", Take(m), served' = served
    PROVE  Fifo!Accept(m)
<1>1. stage[m] = "none"
  BY DEF IInv, StageInv
<1>2. \A i \in DOMAIN accepted : accepted[i] # m
  <2>1. DOMAIN accepted = 1..Len(accepted)
    BY DEF IInv, TypeOK
  <2> QED  BY <1>1, <2>1 DEF IInv, AcceptedInv
<1> QED  BY <1>2 DEF Fifo!Accept, Take

\* The handler is done with messages in the order of acceptance.
LEMMA DoneIsServe ==
    ASSUME IInv, NEW m \in Messages, conn # "gone",
           \/ cur = NoReq /\ queue # <<>> /\ m = Head(queue)
           \/ cur # NoReq /\ m = cur,
           served' = Append(served, m), accepted' = accepted
    PROVE  Fifo!Serve
BY NextToServe DEF Fifo!Serve

\* The connection implements SqlxFifo: retries overtake nothing, and a Close is
\* dealt with in its place.
THEOREM FifoCorrect == Spec => ImplementsFifo
<1>1. Init => Fifo!Init
  BY DEF Init, Fifo!Init
<1>2. IInv /\ [Next]_vars => [Fifo!Next]_(Fifo!fifoVars)
  <2> SUFFICES ASSUME IInv, [Next]_vars, ~(UNCHANGED Fifo!fifoVars)
               PROVE  Fifo!Next
    OBVIOUS
  <2>1. ASSUME NEW r \in Requests, Send(r) PROVE Fifo!Next
    BY <2>1, SendIsAccept, Kinds DEF Send, Issues, Fifo!Next
  <2>2. ASSUME NEW k \in Closes, CloseSent(k) PROVE Fifo!Next
    BY <2>2, SendIsAccept, Kinds DEF CloseSent, Issues, Fifo!Next
  <2>3. ASSUME RecvClose PROVE Fifo!Next
    <3>1. Head(queue) \in Messages /\ conn # "gone" /\ cur = NoReq
      BY <2>3, HeadIsQueued DEF RecvClose, IInv, TypeOK
    <3> QED  BY <2>3, <3>1, DoneIsServe DEF RecvClose, Fifo!Next
  <2>4. ASSUME Uncount PROVE Fifo!Next
    <3>1. cur \in Messages /\ conn # "gone" /\ cur # NoReq
      BY <2>4, Kinds DEF Uncount, IInv, TypeOK
    <3> QED  BY <2>4, <3>1, DoneIsServe DEF Uncount, Fifo!Next
  <2>5. ~UNCHANGED <<accepted, served>>
    BY DEF Fifo!fifoVars
  <2> QED
    BY <2>1, <2>2, <2>3, <2>4, <2>5, Actions
       DEF Connect, Dialed, FindConnection, ReleaseHandle, SendFails, Count,
           CloseRefused, Recv, Succeeds, Fails, Wake, DropReceiver, hist, vars
<1> QED  BY <1>1, <1>2, Invariance, PTL DEF Spec, ImplementsFifo, Fifo!Spec
=============================================================================

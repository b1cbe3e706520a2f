-------------------------- MODULE WebSocket_proofs --------------------------
(***************************************************************************)
(* Safety of WebSocket for every set of frames, reads and writes, every    *)
(* choice of timed reads and closing writes and every capacity of the two  *)
(* channels, and the proof that the read side implements SqlxFifo.         *)
(***************************************************************************)
EXTENDS WebSocket, TLAPS

\* Reads the task has begun to carry out.
Begun == Len(answered) + (IF reading # Nothing THEN 1 ELSE 0)

\* The channel continues the reads that were taken where the task stands, and
\* the reads before it were answered one after the other.
ReadInv ==
    /\ Len(taken) = Begun + Len(readq)
    /\ \A i \in 1..Len(readq) : readq[i] = taken[Begun + i]
    /\ reading # Nothing => reading = taken[Begun]
    /\ \A i \in 1..Len(answered) : answered[i] = taken[i]

\* A read is taken from the channel once.
OnceInv == \A i, j \in 1..Len(taken) : taken[i] = taken[j] => i = j

\* The stream still holds the end of what arrived.
StreamInv ==
    /\ Delivered >= 0
    /\ \A i \in 1..Len(inbox) : inbox[i] = arrived[Delivered + i]

\* Frames, then the failure that closed the reader, then refusals.
AnswerInv ==
    /\ IF closed THEN Len(answered) > Delivered ELSE Len(answered) = Delivered
    /\ \A i \in 1..Len(answered) :
          /\ i <= Delivered => reply[answered[i]] = arrived[i]
          /\ i = Delivered + 1 => reply[answered[i]] \in {"timeout", "error"}
          /\ i > Delivered + 1 => reply[answered[i]] = "closed"

\* Writes the task has begun to send.
Underway == Len(sent) + (IF writing # Nothing THEN 1 ELSE 0)

\* What was sent is the beginning of what was written, and a closing frame
\* is the last one sent.
SentInv ==
    /\ Len(sent) <= Len(written)
    /\ \A i \in 1..Len(sent) : sent[i] = written[i]
    /\ \A i \in 1..Len(sent) : i < Len(sent) => sent[i] \notin Closing

\* While the task lives, its channel continues the writes where it stands and
\* no closing frame went out; when it finished, the last frame was one.
WriterInv ==
    /\ writer # "up" => writing = Nothing /\ writeq = <<>>
    /\ writer = "up" =>
          /\ Len(written) = Underway + Len(writeq)
          /\ \A i \in 1..Len(writeq) : writeq[i] = written[Underway + i]
          /\ writing # Nothing => writing = written[Underway]
          /\ \A i \in 1..Len(sent) : sent[i] \notin Closing
    /\ writer = "finished" => Len(sent) > 0 /\ sent[Len(sent)] \in Closing

\* The inductive invariant.
IInv == /\ TypeOK /\ ReadInv /\ OnceInv /\ StreamInv /\ AnswerInv
        /\ SentInv /\ WriterInv

----------------------------------------------------------------------------
\* The steps of the calls, the peer and the two tasks.
LEMMA Actions ==
    ASSUME [Next]_vars
    PROVE  \/ Connect
           \/ DialFails
           \/ HandleClient
           \/ Hangup
           \/ RecvRead
           \/ RecvClosed
           \/ Deliver
           \/ ReadTimesOut
           \/ ReadFails
           \/ RecvWrite
           \/ WriteSent
           \/ WriteFails
           \/ \E f \in Frames :
                 \/ Arrive(f)
           \/ \E r \in Reads :
                 \/ Read(r)
                 \/ ReadRefused(r)
           \/ \E w \in Writes :
                 \/ Write(w)
                 \/ WriteRefused(w)
           \/ UNCHANGED vars
BY DEF Next, Reader

\* What Append does to a sequence, element by element.
Grows(s, t, x) ==
    /\ Len(s) \in Nat /\ Len(t) = Len(s) + 1
    /\ \A i \in 1..Len(s) : t[i] = s[i]
    /\ t[Len(s) + 1] = x

\* What Tail does to one.
Shrinks(s, t) ==
    /\ Len(s) \in Nat \ {0} /\ Len(t) = Len(s) - 1
    /\ \A i \in 1..Len(t) : t[i] = s[i + 1]

\* Append puts one element at the end.
LEMMA Appends ==
    ASSUME NEW S, NEW s \in Seq(S), NEW x \in S
    PROVE  Grows(s, Append(s, x), x) /\ Append(s, x) \in Seq(S)
BY DEF Grows

\* Tail moves every element one place forward.
LEMMA Tails ==
    ASSUME NEW S, NEW s \in Seq(S), s # <<>>
    PROVE  /\ Shrinks(s, Tail(s)) /\ Tail(s) \in Seq(S)
           /\ Head(s) = s[1] /\ s[1] \in S
BY DEF Shrinks

\* The sequences have lengths, and their elements their types.
LEMMA Elements ==
    ASSUME TypeOK
    PROVE  /\ Len(readq) \in Nat /\ Len(taken) \in Nat /\ Len(answered) \in Nat
           /\ Len(inbox) \in Nat /\ Len(arrived) \in Nat
           /\ Len(writeq) \in Nat /\ Len(written) \in Nat /\ Len(sent) \in Nat
           /\ \A i \in 1..Len(answered) : answered[i] \in Reads
           /\ \A i \in 1..Len(taken) : taken[i] \in Reads
           /\ \A i \in 1..Len(arrived) : arrived[i] \in Frames
BY DEF TypeOK

\* The read that is next to be answered is the first that was not.
NextUp(r) ==
    /\ r \in Reads
    /\ Len(answered) < Len(taken) /\ r = taken[Len(answered) + 1]

\* The read that is being carried out is the next to be answered.
LEMMA ReadingIsNext ==
    ASSUME IInv, reading # Nothing
    PROVE  NextUp(reading)
BY Elements DEF IInv, TypeOK, ReadInv, Begun, NextUp

\* So is the head of the channel while none is carried out.
LEMMA HeadIsNext ==
    ASSUME IInv, reading = Nothing, readq # <<>>
    PROVE  NextUp(Head(readq))
<1>1. readq \in Seq(Reads) /\ Len(readq) \in Nat \ {0} /\ Head(readq) = readq[1]
  BY DEF IInv, TypeOK
<1>2. Head(readq) = taken[Len(answered) + 1] /\ Len(answered) < Len(taken)
  BY <1>1, Elements DEF IInv, ReadInv, Begun
<1> QED  BY <1>1, <1>2 DEF NextUp

\* An answer is added behind the others, and leaves theirs as they were.
LEMMA AnswersStand ==
    ASSUME IInv, NEW r, NEW a, NextUp(r), Answer(r, a)
    PROVE  /\ Grows(answered, answered', r) /\ answered' \in Seq(Reads)
           /\ \A i \in 1..Len(answered) : reply'[answered'[i]] = reply[answered[i]]
           /\ reply'[answered'[Len(answered) + 1]] = a
<1>1. Grows(answered, answered', r) /\ answered' \in Seq(Reads)
  BY Appends DEF Answer, NextUp, IInv, TypeOK
<1>2. reply' = [reply EXCEPT ![r] = a] /\ DOMAIN reply = Reads /\ r \in Reads
  BY DEF Answer, NextUp, IInv, TypeOK
<1>3. ASSUME NEW i \in 1..Len(answered) PROVE answered[i] # r
  <2>1. answered[i] = taken[i] /\ r = taken[Len(answered) + 1]
    BY DEF NextUp, IInv, ReadInv
  <2>2. /\ i \in 1..Len(taken) /\ Len(answered) + 1 \in 1..Len(taken)
        /\ i # Len(answered) + 1
    BY Elements DEF NextUp, IInv
  <2> QED  BY <2>1, <2>2 DEF IInv, OnceInv
<1>4. \A i \in 1..Len(answered) : answered'[i] = answered[i] /\ answered[i] \in Reads
  BY <1>1, Elements DEF Grows, IInv
<1>5. \A i \in 1..Len(answered) : reply'[answered'[i]] = reply[answered[i]]
  BY <1>2, <1>3, <1>4
<1> QED  BY <1>1, <1>2, <1>5 DEF Grows

\* Every variable keeps its type.
LEMMA TypeStep ==
    ASSUME IInv, [Next]_vars
    PROVE  TypeOK'
<1>1. ASSUME Connect PROVE TypeOK'
  BY <1>1, WebSocketAssumption
     DEF Connect, IInv, TypeOK, readSide, writeSide, peerSide
<1>2. ASSUME DialFails PROVE TypeOK'
  BY <1>2, WebSocketAssumption
     DEF DialFails, IInv, TypeOK, readSide, writeSide, peerSide
<1>3. ASSUME HandleClient PROVE TypeOK'
  BY <1>3, WebSocketAssumption
     DEF HandleClient, IInv, TypeOK, readSide, writeSide, peerSide
<1>4. ASSUME Hangup PROVE TypeOK'
  BY <1>4, WebSocketAssumption
     DEF Hangup, IInv, TypeOK, readSide, writeSide, peerSide
<1>5. ASSUME NEW f \in Frames, Arrive(f) PROVE TypeOK'
  <2>1. inbox' \in Seq(Frames) /\ arrived' \in Seq(Frames)
    BY <1>5, Appends DEF Arrive, IInv, TypeOK
  <2> QED  BY <1>5, <2>1 DEF Arrive, IInv, TypeOK, readSide, writeSide
<1>6. ASSUME NEW r \in Reads, Read(r) PROVE TypeOK'
  <2>1. /\ readq' \in Seq(Reads) /\ taken' \in Seq(Reads)
        /\ Len(readq') = Len(readq) + 1
    BY <1>6, Appends DEF Read, Grows, IInv, TypeOK
  <2>2. Len(readq') <= ReadCap
    BY <1>6, <2>1, Elements, WebSocketAssumption DEF Read, ReaderHasRoom, IInv
  <2> QED  BY <1>6, <2>1, <2>2 DEF Read, IInv, TypeOK, writeSide, peerSide
<1>7. ASSUME NEW r \in Reads, ReadRefused(r) PROVE TypeOK'
  BY <1>7, WebSocketAssumption
     DEF ReadRefused, IInv, TypeOK, readSide, writeSide, peerSide
<1>8. ASSUME RecvRead PROVE TypeOK'
  <2>1. /\ readq' \in Seq(Reads) /\ Head(readq) \in Reads
        /\ Len(readq') = Len(readq) - 1
    BY <1>8, Tails DEF RecvRead, Shrinks, IInv, TypeOK
  <2>2. Len(readq') <= ReadCap
    BY <2>1, Elements, WebSocketAssumption DEF IInv, TypeOK
  <2> QED  BY <1>8, <2>1, <2>2 DEF RecvRead, IInv, TypeOK, writeSide, peerSide
<1>9. ASSUME RecvClosed PROVE TypeOK'
  <2>1. /\ readq' \in Seq(Reads) /\ Len(readq') = Len(readq) - 1
    BY <1>9, Tails DEF RecvClosed, Shrinks, IInv, TypeOK
  <2>2. Len(readq') <= ReadCap
    BY <2>1, Elements, WebSocketAssumption DEF IInv, TypeOK
  <2>3. NextUp(Head(readq))
    BY <1>9, HeadIsNext DEF RecvClosed
  <2>4. answered' \in Seq(Reads)
    BY <1>9, <2>3, AnswersStand DEF RecvClosed
  <2>5. reply' \in [Reads -> {"none"} \cup Failures \cup Frames]
    BY <1>9 DEF RecvClosed, Answer, Failures, IInv, TypeOK
  <2> QED
    BY <1>9, <2>1, <2>2, <2>4, <2>5
       DEF RecvClosed, IInv, TypeOK, writeSide, peerSide
<1>10. ASSUME Deliver PROVE TypeOK'
  <2>1. inbox' \in Seq(Frames) /\ Head(inbox) \in Frames
    BY <1>10, Tails DEF Deliver, IInv, TypeOK
  <2>2. answered' \in Seq(Reads)
    BY <1>10, ReadingIsNext, AnswersStand DEF Deliver
  <2>3. reply' \in [Reads -> {"none"} \cup Failures \cup Frames]
    BY <1>10, <2>1 DEF Deliver, Answer, IInv, TypeOK
  <2> QED  BY <1>10, <2>1, <2>2, <2>3 DEF Deliver, IInv, TypeOK, writeSide
<1>11. ASSUME ReadTimesOut PROVE TypeOK'
  <2>1. reading # Nothing
    BY <1>11, WebSocketAssumption DEF ReadTimesOut
  <2>2. answered' \in Seq(Reads)
    BY <1>11, <2>1, ReadingIsNext, AnswersStand DEF ReadTimesOut
  <2>3. reply' \in [Reads -> {"none"} \cup Failures \cup Frames]
    BY <1>11 DEF ReadTimesOut, Answer, Failures, IInv, TypeOK
  <2> QED
    BY <1>11, <2>2, <2>3 DEF ReadTimesOut, IInv, TypeOK, writeSide, peerSide
<1>12. ASSUME ReadFails PROVE TypeOK'
  <2>1. answered' \in Seq(Reads)
    BY <1>12, ReadingIsNext, AnswersStand DEF ReadFails
  <2>2. reply' \in [Reads -> {"none"} \cup Failures \cup Frames]
    BY <1>12 DEF ReadFails, Answer, Failures, IInv, TypeOK
  <2> QED
    BY <1>12, <2>1, <2>2 DEF ReadFails, IInv, TypeOK, writeSide, peerSide
<1>13. ASSUME NEW w \in Writes, Write(w) PROVE TypeOK'
  <2>1. /\ writeq' \in Seq(Writes) /\ written' \in Seq(Writes)
        /\ Len(writeq') = Len(writeq) + 1
    BY <1>13, Appends DEF Write, Grows, IInv, TypeOK
  <2>2. Len(writeq') <= WriteCap
    BY <1>13, <2>1, Elements, WebSocketAssumption DEF Write, WriterHasRoom, IInv
  <2> QED  BY <1>13, <2>1, <2>2 DEF Write, IInv, TypeOK, readSide, peerSide
<1>14. ASSUME NEW w \in Writes, WriteRefused(w) PROVE TypeOK'
  BY <1>14, WebSocketAssumption
     DEF WriteRefused, IInv, TypeOK, readSide, writeSide, peerSide
<1>15. ASSUME RecvWrite PROVE TypeOK'
  <2>1. /\ writeq' \in Seq(Writes) /\ Head(writeq) \in Writes
        /\ Len(writeq') = Len(writeq) - 1
    BY <1>15, Tails DEF RecvWrite, Shrinks, IInv, TypeOK
  <2>2. Len(writeq') <= WriteCap
    BY <2>1, Elements, WebSocketAssumption DEF IInv, TypeOK
  <2> QED  BY <1>15, <2>1, <2>2 DEF RecvWrite, IInv, TypeOK, readSide, peerSide
<1>16. ASSUME WriteSent PROVE TypeOK'
  <2>1. sent' \in Seq(Writes)
    BY <1>16, Appends DEF WriteSent, IInv, TypeOK
  <2>2. <<>> \in Seq(Writes) /\ Len(<<>>) <= WriteCap
    BY WebSocketAssumption
  <2> QED
    BY <1>16, <2>1, <2>2
       DEF WriteSent, WriterEnds, IInv, TypeOK, readSide, peerSide
<1>17. ASSUME WriteFails PROVE TypeOK'
  <2>1. <<>> \in Seq(Writes) /\ Len(<<>>) <= WriteCap
    BY WebSocketAssumption
  <2> QED
    BY <1>17, <2>1 DEF WriteFails, WriterEnds, IInv, TypeOK, readSide, peerSide
<1>18. ASSUME UNCHANGED <<conn, line, inbox, arrived, readq, reading, closed,
                          reply, writeq, writing, writer, refused, taken,
                          answered, written, sent>>
      PROVE  TypeOK'
  BY <1>18, WebSocketAssumption DEF IInv, TypeOK, readSide, writeSide, peerSide
<1> QED
  BY <1>1, <1>2, <1>3, <1>4, <1>5, <1>6, <1>7, <1>8, <1>9, <1>10, <1>11, <1>12,
     <1>13, <1>14, <1>15, <1>16, <1>17, <1>18, Actions
     DEF readSide, writeSide, peerSide, vars

\* The reads keep their order through the channel and the task.
LEMMA ReadStep ==
    ASSUME IInv, [Next]_vars
    PROVE  ReadInv'
<1>1. ASSUME NEW r \in Reads, Read(r) PROVE ReadInv'
  <2>1. Grows(readq, readq', r) /\ Grows(taken, taken', r)
    BY <1>1, Appends DEF Read, IInv, TypeOK
  <2>2. UNCHANGED <<reading, answered>> /\ Len(answered) \in Nat
    BY <1>1, Elements DEF Read, IInv
  <2>3. /\ Begun' = Begun /\ Begun \in Nat /\ Len(taken) = Begun + Len(readq)
        /\ reading # Nothing => Begun \in 1..Len(taken)
        /\ Len(answered) <= Begun
    BY <2>1, <2>2 DEF Begun, Grows, IInv, ReadInv
  <2>4. ASSUME NEW i \in 1..Len(readq') PROVE readq'[i] = taken'[Begun + i]
    <3>1. CASE i = Len(readq) + 1
      BY <2>1, <2>3, <3>1 DEF Grows
    <3>2. CASE i \in 1..Len(readq)
      <4>1. readq[i] = taken[Begun + i] /\ Begun + i \in 1..Len(taken)
        BY <2>3, <3>2 DEF IInv, ReadInv
      <4> QED  BY <2>1, <3>2, <4>1 DEF Grows
    <3> QED  BY <2>1, <3>1, <3>2 DEF Grows
  <2>5. \A i \in 1..Len(answered) : answered[i] = taken'[i]
    BY <2>1, <2>2, <2>3 DEF Grows, IInv, ReadInv
  <2>6. reading # Nothing => reading = taken'[Begun]
    BY <2>1, <2>3 DEF Grows, IInv, ReadInv
  <2>7. Len(taken') = Begun + Len(readq')
    BY <2>1, <2>3 DEF Grows
  <2> QED  BY <2>2, <2>3, <2>4, <2>5, <2>6, <2>7 DEF ReadInv
<1>2. ASSUME RecvRead PROVE ReadInv'
  <2>1. Shrinks(readq, readq') /\ Head(readq) = readq[1] /\ readq[1] \in Reads
    BY <1>2, Tails DEF RecvRead, IInv, TypeOK
  <2>2. /\ UNCHANGED <<taken, answered>> /\ Len(answered) \in Nat
        /\ reading = Nothing /\ reading' = Head(readq) /\ reading' # Nothing
    BY <1>2, <2>1, Elements, WebSocketAssumption DEF RecvRead, IInv
  <2>3. Begun' = Begun + 1 /\ Begun \in Nat
    BY <2>2 DEF Begun
  <2>4. Len(taken) = Begun + Len(readq) /\ readq[1] = taken[Begun + 1]
    BY <2>1 DEF Shrinks, IInv, ReadInv
  <2>5. ASSUME NEW i \in 1..Len(readq')
        PROVE  readq'[i] = taken[(Begun + 1) + i]
    <3>1. readq'[i] = readq[i + 1] /\ i + 1 \in 1..Len(readq)
      BY <2>1 DEF Shrinks
    <3>2. readq[i + 1] = taken[Begun + (i + 1)]
      BY <3>1 DEF IInv, ReadInv
    <3> QED  BY <2>3, <3>1, <3>2
  <2>6. Len(taken) = Begun + 1 + Len(readq')
    BY <2>1, <2>3, <2>4 DEF Shrinks
  <2> QED  BY <2>1, <2>2, <2>3, <2>4, <2>5, <2>6 DEF IInv, ReadInv
<1>3. ASSUME RecvClosed PROVE ReadInv'
  <2>1. Shrinks(readq, readq') /\ Head(readq) = readq[1]
    BY <1>3, Tails DEF RecvClosed, IInv, TypeOK
  <2>2. NextUp(Head(readq))
    BY <1>3, HeadIsNext DEF RecvClosed
  <2>3. Grows(answered, answered', Head(readq))
    BY <1>3, <2>2, AnswersStand DEF RecvClosed
  <2>4. UNCHANGED <<taken, reading>> /\ reading = Nothing
    BY <1>3 DEF RecvClosed
  <2>5. /\ Begun = Len(answered) /\ Begun' = Len(answered) + 1
        /\ Len(answered) \in Nat
    BY <2>3, <2>4 DEF Begun, Grows
  <2>6. ASSUME NEW i \in 1..Len(readq')
        PROVE  readq'[i] = taken[(Len(answered) + 1) + i]
    <3>1. readq'[i] = readq[i + 1] /\ i + 1 \in 1..Len(readq)
      BY <2>1 DEF Shrinks
    <3>2. readq[i + 1] = taken[Len(answered) + (i + 1)]
      BY <2>5, <3>1 DEF IInv, ReadInv
    <3> QED  BY <2>5, <3>1, <3>2
  <2>7. Len(taken) = Len(answered) + 1 + Len(readq')
    BY <2>1, <2>5 DEF Shrinks, IInv, ReadInv
  <2>8. \A i \in 1..Len(answered') : answered'[i] = taken[i]
    BY <2>2, <2>3 DEF Grows, NextUp, IInv, ReadInv
  <2> QED  BY <2>4, <2>5, <2>6, <2>7, <2>8 DEF ReadInv
<1>4. ASSUME Deliver PROVE ReadInv'
  <2>1. reading # Nothing
    BY <1>4, WebSocketAssumption DEF Deliver
  <2>2. NextUp(reading)
    BY <2>1, ReadingIsNext
  <2>3. Grows(answered, answered', reading)
    BY <1>4, <2>2, AnswersStand DEF Deliver
  <2>4. UNCHANGED <<readq, taken>> /\ reading' = Nothing
    BY <1>4 DEF Deliver
  <2>5. Begun' = Begun
    BY <2>1, <2>3, <2>4 DEF Begun, Grows
  <2>6. \A i \in 1..Len(answered') : answered'[i] = taken[i]
    BY <2>2, <2>3 DEF Grows, NextUp, IInv, ReadInv
  <2> QED  BY <2>4, <2>5, <2>6 DEF IInv, ReadInv
<1>5. ASSUME ReadTimesOut PROVE ReadInv'
  <2>1. reading # Nothing
    BY <1>5, WebSocketAssumption DEF ReadTimesOut
  <2>2. NextUp(reading)
    BY <2>1, ReadingIsNext
  <2>3. Grows(answered, answered', reading)
    BY <1>5, <2>2, AnswersStand DEF ReadTimesOut
  <2>4. UNCHANGED <<readq, taken>> /\ reading' = Nothing
    BY <1>5 DEF ReadTimesOut
  <2>5. Begun' = Begun
    BY <2>1, <2>3, <2>4 DEF Begun, Grows
  <2>6. \A i \in 1..Len(answered') : answered'[i] = taken[i]
    BY <2>2, <2>3 DEF Grows, NextUp, IInv, ReadInv
  <2> QED  BY <2>4, <2>5, <2>6 DEF IInv, ReadInv
<1>6. ASSUME ReadFails PROVE ReadInv'
  <2>1. reading # Nothing
    BY <1>6, WebSocketAssumption DEF ReadFails
  <2>2. NextUp(reading)
    BY <2>1, ReadingIsNext
  <2>3. Grows(answered, answered', reading)
    BY <1>6, <2>2, AnswersStand DEF ReadFails
  <2>4. UNCHANGED <<readq, taken>> /\ reading' = Nothing
    BY <1>6 DEF ReadFails
  <2>5. Begun' = Begun
    BY <2>1, <2>3, <2>4 DEF Begun, Grows
  <2>6. \A i \in 1..Len(answered') : answered'[i] = taken[i]
    BY <2>2, <2>3 DEF Grows, NextUp, IInv, ReadInv
  <2> QED  BY <2>4, <2>5, <2>6 DEF IInv, ReadInv
<1>7. ASSUME UNCHANGED <<readq, reading, taken, answered>> PROVE ReadInv'
  BY <1>7 DEF IInv, ReadInv, Begun, readSide
<1> QED
  BY <1>1, <1>2, <1>3, <1>4, <1>5, <1>6, <1>7, Actions
     DEF Connect, DialFails, HandleClient, Hangup, Arrive, ReadRefused, Write,
         WriteRefused, RecvWrite, WriteSent, WriteFails, readSide, writeSide,
         peerSide, vars

\* No read is taken twice.
LEMMA OnceStep ==
    ASSUME IInv, [Next]_vars
    PROVE  OnceInv'
<1>1. ASSUME NEW r \in Reads, Read(r) PROVE OnceInv'
  <2>1. Grows(taken, taken', r)
    BY <1>1, Appends DEF Read, IInv, TypeOK
  <2>2. \A i \in 1..Len(taken) : taken[i] # r
    BY <1>1 DEF Read, NewRead, Contains
  <2> QED  BY <2>1, <2>2 DEF Grows, IInv, OnceInv
<1>2. ASSUME UNCHANGED taken PROVE OnceInv'
  BY <1>2 DEF IInv, OnceInv, readSide
<1> QED
  BY <1>1, <1>2, Actions
     DEF Connect, DialFails, HandleClient, Hangup, Arrive, ReadRefused,
         RecvRead, RecvClosed, Deliver, ReadTimesOut, ReadFails, Write,
         WriteRefused, RecvWrite, WriteSent, WriteFails, readSide, writeSide,
         peerSide, vars

\* Frames come into the stream and out of it in order.
LEMMA StreamStep ==
    ASSUME IInv, [Next]_vars
    PROVE  StreamInv'
<1>1. ASSUME NEW f \in Frames, Arrive(f) PROVE StreamInv'
  <2>1. Grows(inbox, inbox', f) /\ Grows(arrived, arrived', f)
    BY <1>1, Appends DEF Arrive, IInv, TypeOK
  <2>2. Delivered' = Delivered /\ Delivered \in Nat
    BY <2>1 DEF Delivered, Grows, IInv, StreamInv
  <2>3. ASSUME NEW i \in 1..Len(inbox') PROVE inbox'[i] = arrived'[Delivered + i]
    <3>1. CASE i = Len(inbox) + 1
      BY <2>1, <2>2, <3>1 DEF Grows, Delivered
    <3>2. CASE i \in 1..Len(inbox)
      <4>1. inbox[i] = arrived[Delivered + i] /\ Delivered + i \in 1..Len(arrived)
        BY <2>1, <2>2, <3>2 DEF IInv, StreamInv, Delivered, Grows
      <4> QED  BY <2>1, <3>2, <4>1 DEF Grows
    <3> QED  BY <2>1, <3>1, <3>2 DEF Grows
  <2> QED  BY <2>2, <2>3 DEF StreamInv
<1>2. ASSUME Deliver PROVE StreamInv'
  <2>1. Shrinks(inbox, inbox') /\ arrived' = arrived
    BY <1>2, Tails DEF Deliver, IInv, TypeOK
  <2>2. Delivered' = Delivered + 1 /\ Delivered \in Nat
    BY <2>1, Elements DEF Delivered, Shrinks, IInv, StreamInv
  <2>3. ASSUME NEW i \in 1..Len(inbox')
        PROVE  inbox'[i] = arrived[(Delivered + 1) + i]
    <3>1. inbox'[i] = inbox[i + 1] /\ i + 1 \in 1..Len(inbox)
      BY <2>1 DEF Shrinks
    <3>2. inbox[i + 1] = arrived[Delivered + (i + 1)]
      BY <3>1 DEF IInv, StreamInv
    <3> QED  BY <2>2, <3>1, <3>2
  <2> QED  BY <2>1, <2>2, <2>3 DEF StreamInv
<1>3. ASSUME UNCHANGED <<inbox, arrived>> PROVE StreamInv'
  BY <1>3 DEF IInv, StreamInv, Delivered, peerSide
<1> QED
  BY <1>1, <1>2, <1>3, Actions
     DEF Connect, DialFails, HandleClient, Hangup, Read, ReadRefused, RecvRead,
         RecvClosed, ReadTimesOut, ReadFails, Write, WriteRefused, RecvWrite,
         WriteSent, WriteFails, readSide, writeSide, peerSide, vars

\* What AnswersStand says of an answer, in one piece.
Grew(r, a) ==
    /\ Grows(answered, answered', r)
    /\ \A i \in 1..Len(answered) : reply'[answered'[i]] = reply[answered[i]]
    /\ reply'[answered'[Len(answered) + 1]] = a

\* Answers are frames up to the failure, and refusals after it.
LEMMA AnswerStep ==
    ASSUME IInv, [Next]_vars
    PROVE  AnswerInv'
<1>1. ASSUME NEW f \in Frames, Arrive(f) PROVE AnswerInv'
  <2>1. Grows(inbox, inbox', f) /\ Grows(arrived, arrived', f)
    BY <1>1, Appends DEF Arrive, IInv, TypeOK
  <2>2. Delivered' = Delivered /\ Delivered \in Nat /\ Delivered <= Len(arrived)
    BY <2>1 DEF Delivered, Grows, IInv, StreamInv
  <2>3. UNCHANGED <<closed, answered, reply>> /\ Len(answered) \in Nat
    BY <1>1, Elements DEF Arrive, readSide, IInv
  <2>4. \A i \in 1..Len(answered) : i <= Delivered => arrived'[i] = arrived[i]
    BY <2>1, <2>2 DEF Grows
  <2> QED  BY <2>2, <2>3, <2>4 DEF IInv, AnswerInv
<1>2. ASSUME RecvClosed PROVE AnswerInv'
  <2>1. NextUp(Head(readq))
    BY <1>2, HeadIsNext DEF RecvClosed
  <2>2. Grew(Head(readq), "closed")
    BY <1>2, <2>1, AnswersStand DEF RecvClosed, Grew
  <2>3. /\ closed /\ closed' = closed /\ Delivered' = Delivered
        /\ arrived' = arrived
    BY <1>2 DEF RecvClosed, Delivered, peerSide
  <2>4. Len(answered) > Delivered /\ Delivered \in Nat
    BY <2>3, Elements DEF IInv, AnswerInv, StreamInv, Delivered
  <2> QED  BY <2>2, <2>3, <2>4 DEF Grew, Grows, IInv, AnswerInv
<1>3. ASSUME Deliver PROVE AnswerInv'
  <2>1. reading # Nothing /\ ~closed /\ closed' = closed
    BY <1>3 DEF Deliver, IInv, TypeOK
  <2>2. NextUp(reading)
    BY <2>1, ReadingIsNext
  <2>3. Grew(reading, Head(inbox))
    BY <1>3, <2>2, AnswersStand DEF Deliver, Grew
  <2>4. /\ Shrinks(inbox, inbox') /\ arrived' = arrived
        /\ Head(inbox) = inbox[1]
    BY <1>3, Tails DEF Deliver, IInv, TypeOK
  <2>5. Delivered' = Delivered + 1 /\ Delivered \in Nat
    BY <2>4, Elements DEF Delivered, Shrinks, IInv, StreamInv
  <2>6. Head(inbox) = arrived[Delivered + 1]
    BY <2>4 DEF Shrinks, IInv, StreamInv
  <2>7. Len(answered) = Delivered
    BY <2>1 DEF IInv, AnswerInv
  <2> QED
    BY <2>1, <2>3, <2>4, <2>5, <2>6, <2>7 DEF Grew, Grows, IInv, AnswerInv
<1>4. ASSUME ReadTimesOut PROVE AnswerInv'
  <2>1. reading # Nothing /\ ~closed
    BY <1>4, WebSocketAssumption DEF ReadTimesOut, IInv, TypeOK
  <2>2. NextUp(reading)
    BY <2>1, ReadingIsNext
  <2>3. Grew(reading, "timeout")
    BY <1>4, <2>2, AnswersStand DEF ReadTimesOut, Grew
  <2>4. closed' = TRUE /\ Delivered' = Delivered /\ arrived' = arrived
    BY <1>4 DEF ReadTimesOut, Delivered, peerSide
  <2>5. Len(answered) = Delivered
    BY <2>1 DEF IInv, AnswerInv
  <2> QED  BY <2>3, <2>4, <2>5 DEF Grew, Grows, IInv, AnswerInv
<1>5. ASSUME ReadFails PROVE AnswerInv'
  <2>1. reading # Nothing /\ ~closed
    BY <1>5, WebSocketAssumption DEF ReadFails, IInv, TypeOK
  <2>2. NextUp(reading)
    BY <2>1, ReadingIsNext
  <2>3. Grew(reading, "error")
    BY <1>5, <2>2, AnswersStand DEF ReadFails, Grew
  <2>4. closed' = TRUE /\ Delivered' = Delivered /\ arrived' = arrived
    BY <1>5 DEF ReadFails, Delivered, peerSide
  <2>5. Len(answered) = Delivered
    BY <2>1 DEF IInv, AnswerInv
  <2> QED  BY <2>3, <2>4, <2>5 DEF Grew, Grows, IInv, AnswerInv
<1>6. ASSUME UNCHANGED <<inbox, arrived, reply, answered, closed>>
      PROVE  AnswerInv'
  BY <1>6 DEF IInv, AnswerInv, Delivered
<1> QED
  BY <1>1, <1>2, <1>3, <1>4, <1>5, <1>6, Actions
     DEF Connect, DialFails, HandleClient, Hangup, Read, ReadRefused, RecvRead,
         Write, WriteRefused, RecvWrite, WriteSent, WriteFails, readSide,
         writeSide, peerSide, vars

\* What is sent is what was taken, in order.
LEMMA SentStep ==
    ASSUME IInv, [Next]_vars
    PROVE  SentInv'
<1>1. ASSUME NEW w \in Writes, Write(w) PROVE SentInv'
  <2>1. Grows(written, written', w) /\ sent' = sent /\ Len(sent) \in Nat
    BY <1>1, Appends, Elements DEF Write, IInv, TypeOK
  <2> QED  BY <2>1 DEF Grows, IInv, SentInv
<1>2. ASSUME WriteSent PROVE SentInv'
  <2>1. writing \in Writes /\ writing # Nothing /\ writer = "up"
    BY <1>2 DEF WriteSent, IInv, TypeOK, WriterInv
  <2>2. Grows(sent, sent', writing) /\ written' = written
    BY <1>2, <2>1, Appends DEF WriteSent, IInv, TypeOK
  <2>3. Len(sent) + 1 <= Len(written) /\ writing = written[Len(sent) + 1]
    BY <2>1, <2>2, Elements DEF IInv, WriterInv, Underway, Grows
  <2>4. \A i \in 1..Len(sent) : sent[i] \notin Closing
    BY <2>1 DEF IInv, WriterInv
  <2> QED  BY <2>2, <2>3, <2>4 DEF Grows, IInv, SentInv
<1>3. ASSUME UNCHANGED <<written, sent>> PROVE SentInv'
  BY <1>3 DEF IInv, SentInv
<1> QED
  BY <1>1, <1>2, <1>3, Actions
     DEF Connect, DialFails, HandleClient, Hangup, Arrive, Read, ReadRefused,
         RecvRead, RecvClosed, Deliver, ReadTimesOut, ReadFails, WriteRefused,
         RecvWrite, WriteFails, readSide, writeSide, peerSide, vars

\* The writes keep their order through the channel and the task, which ends
\* with the first closing one.
LEMMA WriterStep ==
    ASSUME IInv, [Next]_vars
    PROVE  WriterInv'
<1>1. ASSUME NEW w \in Writes, Write(w) PROVE WriterInv'
  <2>1. Grows(writeq, writeq', w) /\ Grows(written, written', w)
    BY <1>1, Appends DEF Write, IInv, TypeOK
  <2>2. /\ UNCHANGED <<writer, writing, sent>> /\ writer = "up"
        /\ Len(sent) \in Nat
    BY <1>1, Elements DEF Write, WriterHasRoom, IInv
  <2>3. /\ Underway' = Underway /\ Underway \in Nat
        /\ Len(written) = Underway + Len(writeq)
        /\ writing # Nothing => Underway \in 1..Len(written)
    BY <2>1, <2>2 DEF Underway, Grows, IInv, WriterInv
  <2>4. ASSUME NEW i \in 1..Len(writeq') PROVE writeq'[i] = written'[Underway + i]
    <3>1. CASE i = Len(writeq) + 1
      BY <2>1, <2>3, <3>1 DEF Grows
    <3>2. CASE i \in 1..Len(writeq)
      <4>1. writeq[i] = written[Underway + i] /\ Underway + i \in 1..Len(written)
        BY <2>2, <2>3, <3>2 DEF IInv, WriterInv
      <4> QED  BY <2>1, <3>2, <4>1 DEF Grows
    <3> QED  BY <2>1, <3>1, <3>2 DEF Grows
  <2>5. writing # Nothing => writing = written'[Underway]
    BY <2>1, <2>2, <2>3 DEF Grows, IInv, WriterInv
  <2>6. Len(written') = Underway + Len(writeq')
    BY <2>1, <2>3 DEF Grows
  <2> QED  BY <2>2, <2>3, <2>4, <2>5, <2>6 DEF IInv, WriterInv
<1>2. ASSUME RecvWrite PROVE WriterInv'
  <2>1. Shrinks(writeq, writeq') /\ Head(writeq) = writeq[1] /\ writeq[1] \in Writes
    BY <1>2, Tails DEF RecvWrite, IInv, TypeOK
  <2>2. /\ UNCHANGED <<writer, written, sent>> /\ Len(sent) \in Nat
        /\ writing = Nothing /\ writing' = Head(writeq) /\ writing' # Nothing
        /\ writer = "up"
    BY <1>2, <2>1, Elements, WebSocketAssumption DEF RecvWrite, IInv
  <2>3. Underway' = Underway + 1 /\ Underway \in Nat
    BY <2>2 DEF Underway
  <2>4. /\ Len(written) = Underway + Len(writeq)
        /\ writeq[1] = written[Underway + 1]
    BY <2>1, <2>2 DEF Shrinks, IInv, WriterInv
  <2>5. ASSUME NEW i \in 1..Len(writeq')
        PROVE  writeq'[i] = written[(Underway + 1) + i]
    <3>1. writeq'[i] = writeq[i + 1] /\ i + 1 \in 1..Len(writeq)
      BY <2>1 DEF Shrinks
    <3>2. writeq[i + 1] = written[Underway + (i + 1)]
      BY <2>2, <3>1 DEF IInv, WriterInv
    <3> QED  BY <2>3, <3>1, <3>2
  <2>6. Len(written) = Underway + 1 + Len(writeq')
    BY <2>1, <2>3, <2>4 DEF Shrinks
  <2> QED  BY <2>1, <2>2, <2>3, <2>4, <2>5, <2>6 DEF IInv, WriterInv
<1>3. ASSUME WriteSent PROVE WriterInv'
  <2>1. writing \in Writes /\ writing # Nothing /\ writer = "up"
    BY <1>3 DEF WriteSent, IInv, TypeOK, WriterInv
  <2>2. Grows(sent, sent', writing) /\ written' = written /\ writing' = Nothing
    BY <1>3, <2>1, Appends DEF WriteSent, WriterEnds, IInv, TypeOK
  <2>3. CASE writing \in Closing
    <3>1. writer' = "finished" /\ writeq' = <<>>
      BY <1>3, <2>3 DEF WriteSent, WriterEnds
    <3> QED  BY <2>2, <2>3, <3>1 DEF Grows, WriterInv
  <2>4. CASE writing \notin Closing
    <3>1. UNCHANGED <<writer, writeq>>
      BY <1>3, <2>4 DEF WriteSent
    <3>2. Underway' = Underway
      BY <2>1, <2>2 DEF Underway, Grows
    <3>3. \A i \in 1..Len(sent') : sent'[i] \notin Closing
      BY <2>1, <2>2, <2>4 DEF Grows, IInv, WriterInv
    <3> QED  BY <2>1, <2>2, <3>1, <3>2, <3>3 DEF IInv, WriterInv
  <2> QED  BY <2>3, <2>4
<1>4. ASSUME WriteFails PROVE WriterInv'
  BY <1>4 DEF WriteFails, WriterEnds, WriterInv
<1>5. ASSUME UNCHANGED <<writer, writing, writeq, written, sent>>
      PROVE  WriterInv'
  BY <1>5 DEF IInv, WriterInv, Underway
<1> QED
  BY <1>1, <1>2, <1>3, <1>4, <1>5, Actions
     DEF Connect, DialFails, HandleClient, Hangup, Arrive, Read, ReadRefused,
         RecvRead, RecvClosed, Deliver, ReadTimesOut, ReadFails, WriteRefused,
         readSide, writeSide, peerSide, vars

----------------------------------------------------------------------------
\* The invariant holds at the start.
LEMMA InitInv == Init => IInv
<1> SUFFICES ASSUME Init PROVE IInv
  OBVIOUS
<1>1. TypeOK
  <2>1. reply \in [Reads -> {"none"} \cup Failures \cup Frames]
    BY DEF Init
  <2>2. <<>> \in Seq(Frames) /\ <<>> \in Seq(Reads) /\ <<>> \in Seq(Writes)
    OBVIOUS
  <2>3. Len(readq) <= ReadCap /\ Len(writeq) <= WriteCap
    BY WebSocketAssumption DEF Init
  <2> QED  BY <2>1, <2>2, <2>3 DEF Init, TypeOK
<1>2. ReadInv /\ OnceInv /\ StreamInv /\ AnswerInv
  BY DEF Init, ReadInv, OnceInv, StreamInv, AnswerInv, Begun, Delivered
<1>3. SentInv /\ WriterInv
  BY DEF Init, SentInv, WriterInv, Underway
<1> QED  BY <1>1, <1>2, <1>3 DEF IInv

\* Every step keeps it.
LEMMA StepInv == IInv /\ [Next]_vars => IInv'
BY TypeStep, ReadStep, OnceStep, StreamStep, AnswerStep, SentStep, WriterStep
   DEF IInv

\* The inductive invariant holds in every state of every behaviour.
LEMMA Invariance == Spec => []IInv
BY InitInv, StepInv, PTL DEF Spec

\* Every variable keeps its type: neither channel exceeds its capacity, and a
\* closed reader carries out no read.
THEOREM TypeCorrect == Spec => []TypeOK
<1>1. IInv => TypeOK
  BY DEF IInv
<1> QED  BY <1>1, Invariance, PTL

\* The frames that left the stream are the answers of the first reads, in the
\* order of arrival, and no other read has one, whichever reads time out.
THEOREM DeliveryCorrect == Spec => []FramesAreDeliveredInOrder
<1>1. ASSUME IInv PROVE FramesAreDeliveredInOrder
  <2>1. /\ Delivered \in Nat /\ Delivered <= Len(answered)
        /\ Len(answered) \in Nat
        /\ \A i \in 1..Len(inbox) : inbox[i] = arrived[Delivered + i]
    BY <1>1, Elements DEF IInv, StreamInv, AnswerInv, Delivered
  <2>2. \A i \in 1..Delivered : /\ i <= Len(answered)
                                /\ reply[answered[i]] = arrived[i]
    BY <1>1, <2>1 DEF IInv, AnswerInv
  <2>3. ASSUME NEW i \in 1..Len(answered), i > Delivered
        PROVE  reply[answered[i]] \in Failures
    BY <1>1, <2>1, <2>3 DEF IInv, AnswerInv, Failures
  <2>4. Failures \cap Frames = {}
    BY WebSocketAssumption
  <2> QED  BY <2>1, <2>2, <2>3, <2>4 DEF FramesAreDeliveredInOrder
<1> QED  BY <1>1, Invariance, PTL

\* After a read that failed every later one is refused, also one taken after a
\* frame came in that the failed read had waited for.
THEOREM FailureCorrect == Spec => []FailureIsFinal
<1>1. ASSUME IInv PROVE FailureIsFinal
  <2> SUFFICES ASSUME NEW i \in DOMAIN answered, NEW j \in DOMAIN answered,
                      i < j, reply[answered[i]] \in Failures
               PROVE  reply[answered[j]] = "closed"
    BY DEF FailureIsFinal
  <2>1. /\ DOMAIN answered = 1..Len(answered) /\ Len(answered) \in Nat
        /\ Delivered \in Nat /\ Delivered <= Len(arrived)
    BY <1>1, Elements DEF IInv, TypeOK, StreamInv, Delivered
  <2>2. i > Delivered
    <3>1. SUFFICES ASSUME i <= Delivered PROVE FALSE
      BY <2>1
    <3>2. i \in 1..Len(answered) /\ i \in 1..Len(arrived)
      BY <1>1, <2>1, <3>1, Elements DEF IInv
    <3>4. reply[answered[i]] = arrived[i]
      BY <1>1, <3>1, <3>2 DEF IInv, AnswerInv
    <3>3. arrived[i] \in Frames
      BY <1>1, <3>2, Elements DEF IInv
    <3> QED  BY <3>3, <3>4, WebSocketAssumption
  <2>3. j \in 1..Len(answered) /\ j > Delivered + 1
    BY <2>1, <2>2
  <2> QED  BY <1>1, <2>3 DEF IInv, AnswerInv
<1> QED  BY <1>1, Invariance, PTL

\* An element of one of the three parts is an element of the whole.
LEMMA Joined ==
    ASSUME NEW S, NEW s \in Seq(S), NEW x \in S, NEW t \in Seq(S), NEW e,
           \/ \E i \in 1..Len(s) : s[i] = e
           \/ x = e
           \/ \E i \in 1..Len(t) : t[i] = e
    PROVE  Contains(s \o <<x>> \o t, e)
<1> DEFINE u == s \o <<x>>
           v == u \o t
<1>1. /\ Len(s) \in Nat /\ Len(t) \in Nat /\ u \in Seq(S) /\ Len(u) = Len(s) + 1
      /\ \A i \in 1..Len(s) : u[i] = s[i]
      /\ u[Len(s) + 1] = x
  OBVIOUS
<1> HIDE DEF u
<1>2. /\ Len(v) = Len(u) + Len(t)
      /\ \A i \in 1..Len(u) : v[i] = u[i]
      /\ \A i \in 1..Len(t) : v[Len(u) + i] = t[i]
  BY <1>1
<1> HIDE DEF v
<1>3. \E i \in 1..Len(v) : v[i] = e
  <2>1. ASSUME NEW i \in 1..Len(s), s[i] = e PROVE i \in 1..Len(v) /\ v[i] = e
    BY <1>1, <1>2, <2>1
  <2>2. ASSUME x = e PROVE Len(s) + 1 \in 1..Len(v) /\ v[Len(s) + 1] = e
    BY <1>1, <1>2, <2>2
  <2>3. ASSUME NEW i \in 1..Len(t), t[i] = e
        PROVE  Len(u) + i \in 1..Len(v) /\ v[Len(u) + i] = e
    BY <1>1, <1>2, <2>3
  <2> QED  BY <2>1, <2>2, <2>3
<1>4. Contains(v, e)
  BY <1>3 DEF Contains
<1> QED  BY <1>4 DEF u, v

\* A sequence whose elements are another's first ones is a prefix of it.
LEMMA SameStart ==
    ASSUME NEW S, NEW s \in Seq(S), NEW t \in Seq(S), Len(s) <= Len(t),
           \A i \in 1..Len(s) : s[i] = t[i]
    PROVE  IsPrefix(s, t)
<1>1. /\ Len(s) \in Nat /\ Len(t) \in Nat
      /\ DOMAIN s = 1..Len(s) /\ DOMAIN t = 1..Len(t)
  OBVIOUS
<1>2. SubSeq(s, 1, Len(s)) = [i \in 1..Len(s) |-> s[i]]
  BY <1>1
<1>3. SubSeq(t, 1, Len(s)) = [i \in 1..Len(s) |-> t[i]]
  BY <1>1
<1>4. SubSeq(s, 1, Len(s)) = SubSeq(t, 1, Len(s))
  BY <1>2, <1>3
<1> QED  BY <1>4 DEF IsPrefix

\* What goes out is what was taken, in order and up to the first closing frame;
\* what was taken and neither went nor will go is behind such a frame.
THEOREM WritesCorrect == Spec => []WritesEndWithClosing
<1>1. ASSUME IInv PROVE WritesEndWithClosing
  <2>1. /\ sent \in Seq(Writes) /\ written \in Seq(Writes)
        /\ Len(sent) \in Nat /\ Len(written) \in Nat /\ Len(writeq) \in Nat
        /\ DOMAIN sent = 1..Len(sent) /\ DOMAIN written = 1..Len(written)
    BY <1>1 DEF IInv, TypeOK
  <2>2. IsPrefix(sent, written)
    <3>1. Len(sent) <= Len(written) /\ \A i \in 1..Len(sent) : sent[i] = written[i]
      BY <1>1 DEF IInv, SentInv
    <3> QED  BY <2>1, <3>1, SameStart
  <2>3. \A i \in DOMAIN sent : sent[i] \in Closing => i = Len(sent)
    BY <1>1, <2>1 DEF IInv, SentInv
  <2>4. ASSUME writer # "broken", NEW i \in DOMAIN written
        PROVE  \/ Contains(sent \o <<writing>> \o writeq, written[i])
               \/ \E j \in 1..(i - 1) : written[j] \in Closing
    <3> DEFINE S == Writes \cup {Nothing}
    <3>1. sent \in Seq(S) /\ writing \in S /\ writeq \in Seq(S)
      BY <1>1, <2>1 DEF IInv, TypeOK
    <3> HIDE DEF S
    <3>2. CASE i <= Len(sent)
      <4>1. i \in 1..Len(sent) /\ sent[i] = written[i]
        BY <1>1, <2>1, <3>2 DEF IInv, SentInv
      <4> QED  BY <3>1, <4>1, Joined
    <3>3. CASE i > Len(sent) /\ writer = "up"
      <4>1. \/ writing = written[i]
            \/ \E k \in 1..Len(writeq) : writeq[k] = written[i]
        <5>1. /\ Len(written) = Underway + Len(writeq)
              /\ \A k \in 1..Len(writeq) : writeq[k] = written[Underway + k]
              /\ writing # Nothing => writing = written[Underway]
          BY <1>1, <3>3 DEF IInv, WriterInv
        <5>4. Underway \in Nat
          BY <2>1 DEF Underway
        <5>2. CASE i <= Underway
          BY <2>1, <3>3, <5>1, <5>2, <5>4 DEF Underway
        <5>3. CASE i > Underway
          <6>1. i - Underway \in 1..Len(writeq) /\ Underway + (i - Underway) = i
            BY <2>1, <5>1, <5>3, <5>4
          <6> QED  BY <5>1, <6>1
        <5> QED  BY <2>1, <5>2, <5>3, <5>4
      <4> QED  BY <3>1, <4>1, Joined
    <3>4. CASE i > Len(sent) /\ writer = "finished"
      <4>1. Len(sent) > 0 /\ sent[Len(sent)] \in Closing
        BY <1>1, <3>4 DEF IInv, WriterInv
      <4>2. Len(sent) \in 1..(i - 1) /\ sent[Len(sent)] = written[Len(sent)]
        BY <1>1, <2>1, <3>4, <4>1 DEF IInv, SentInv
      <4> QED  BY <4>1, <4>2
    <3>5. writer \in {"up", "finished"}
      BY <1>1, <2>4 DEF IInv, TypeOK
    <3> QED  BY <2>1, <3>2, <3>3, <3>4, <3>5
  <2> QED  BY <2>2, <2>3, <2>4 DEF WritesEndWithClosing
<1> QED  BY <1>1, Invariance, PTL

----------------------------------------------------------------------------
\* Answering the read that is next is a Serve of the abstract queue.
LEMMA AnswerServes ==
    ASSUME IInv, NEW r, NEW a, NextUp(r), Answer(r, a), taken' = taken
    PROVE  Fifo!Serve
<1>1. answered' = Append(answered, taken[Len(answered) + 1])
  BY DEF Answer, NextUp
<1>2. Len(answered) < Len(taken)
  BY DEF NextUp
<1> QED  BY <1>1, <1>2 DEF Fifo!Serve

\* Every step of the connection is a step of the abstract queue or changes
\* nothing there: read() accepts, an answer of whatever kind serves.
LEMMA FifoStep ==
    ASSUME IInv, [Next]_vars
    PROVE  [Fifo!Next]_(Fifo!fifoVars)
<1>1. ASSUME NEW r \in Reads, Read(r) PROVE Fifo!Next
  <2>1. \A i \in DOMAIN taken : taken[i] # r
    <3>1. DOMAIN taken = 1..Len(taken)
      BY DEF IInv, TypeOK
    <3> QED  BY <1>1, <3>1 DEF Read, NewRead, Contains
  <2>2. Fifo!Accept(r)
    BY <1>1, <2>1 DEF Read, Fifo!Accept
  <2> QED  BY <2>2 DEF Fifo!Next
<1>2. ASSUME RecvClosed PROVE Fifo!Next
  <2>1. NextUp(Head(readq)) /\ Answer(Head(readq), "closed") /\ taken' = taken
    BY <1>2, HeadIsNext DEF RecvClosed
  <2> QED  BY <2>1, AnswerServes DEF Fifo!Next
<1>3. ASSUME Deliver PROVE Fifo!Next
  <2>1. NextUp(reading) /\ Answer(reading, Head(inbox)) /\ taken' = taken
    BY <1>3, ReadingIsNext DEF Deliver
  <2> QED  BY <2>1, AnswerServes DEF Fifo!Next
<1>4. ASSUME ReadTimesOut PROVE Fifo!Next
  <2>1. NextUp(reading) /\ Answer(reading, "timeout") /\ taken' = taken
    BY <1>4, ReadingIsNext, WebSocketAssumption DEF ReadTimesOut
  <2> QED  BY <2>1, AnswerServes DEF Fifo!Next
<1>5. ASSUME ReadFails PROVE Fifo!Next
  <2>1. NextUp(reading) /\ Answer(reading, "error") /\ taken' = taken
    BY <1>5, ReadingIsNext DEF ReadFails
  <2> QED  BY <2>1, AnswerServes DEF Fifo!Next
<1>6. ASSUME UNCHANGED <<taken, answered>> PROVE UNCHANGED Fifo!fifoVars
  BY <1>6 DEF Fifo!fifoVars
<1> QED
  BY <1>1, <1>2, <1>3, <1>4, <1>5, <1>6, Actions
     DEF Connect, DialFails, HandleClient, Hangup, Arrive, ReadRefused, RecvRead,
         Write, WriteRefused, RecvWrite, WriteSent, WriteFails, readSide, vars

\* The read side implements the abstract queue: every read the channel took is
\* answered once, in the order they were taken, however each of them ends.
THEOREM FifoCorrect == Spec => ReadsImplementFifo
<1>1. Init => Fifo!Init
  BY DEF Init, Fifo!Init
<1>2. IInv /\ [Next]_vars => [Fifo!Next]_(Fifo!fifoVars)
  BY FifoStep
<1> QED
  BY <1>1, <1>2, Invariance, PTL DEF Spec, ReadsImplementFifo, Fifo!Spec
=============================================================================

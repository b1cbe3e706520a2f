----------------------------- MODULE WebSocket ------------------------------
(***************************************************************************)
(* One WebSocket client connection (lua_websocket.rs): handle_client       *)
(* splits the stream and gives the halves to two tasks, each behind a      *)
(* bounded channel.  The reader answers one read() at a time with the next *)
(* frame of the peer, a timeout or an error; the writer sends what write() *)
(* and close() queued until it meets a closing frame or fails.             *)
(*                                                                         *)
(* NET keeps a Sender of both channels for ever, so neither task meets the *)
(* end of its channel, and the end of one task does not stop the other:    *)
(* try_join! sees only a panic.                                            *)
(***************************************************************************)
EXTENDS Integers, Sequences, SequencesExt

CONSTANTS
    Frames,     \* what the peer sends, each once
    Reads,      \* calls of read(), each made once
    Timed,      \* the reads whose read_timeout is not 0
    Writes,     \* calls of write() and close(), each made once
    Closing,    \* close(), and write() with "c" or "p", which set close
    Nothing,    \* no read, or no write, is being carried out
    ReadCap,    \* of the reader's channel: 1 in the code
    WriteCap    \* of the writer's channel: 100 in the code

\* What a read that gets no frame is answered.
Failures == {"timeout", "error", "closed"}

ASSUME WebSocketAssumption ==
    /\ Frames \cap (Failures \cup {"none"}) = {}
    /\ Timed \subseteq Reads /\ Closing \subseteq Writes
    /\ Nothing \notin Reads \cup Writes
    /\ ReadCap \in Nat \ {0} /\ WriteCap \in Nat \ {0}

VARIABLES
    conn,       \* "none", "dialing", "open" or "failed"
    line,       \* will the peer send more: "up" or "down"
    inbox,      \* frames that arrived and were not read
    readq,      \* the reader's channel
    reading,    \* the read handle_read is carrying out
    closed,     \* the reader's flag
    reply,      \* what each read was answered
    writeq,     \* the writer's channel
    writing,    \* the message handle_write is sending
    writer,     \* "up", "finished" or "broken"
    refused,    \* calls for which try_send failed
    arrived,    \* history: frames in the order the peer sent them
    taken,      \* history: reads in the order the channel took them
    answered,   \* history: reads in the order they were answered
    written,    \* history: writes in the order the channel took them
    sent        \* history: writes in the order they were sent

readSide  == <<readq, reading, closed, reply, taken, answered>>
writeSide == <<writeq, writing, writer, written, sent>>
peerSide  == <<line, inbox, arrived>>
vars == <<conn, refused, readSide, writeSide, peerSide>>

TypeOK ==
    /\ conn \in {"none", "dialing", "open", "failed"}
    /\ line \in {"up", "down"}
    /\ inbox \in Seq(Frames) /\ arrived \in Seq(Frames)
    /\ readq \in Seq(Reads) /\ Len(readq) <= ReadCap
    /\ reading \in Reads \cup {Nothing}
    /\ closed \in BOOLEAN
    /\ closed => reading = Nothing
    /\ reply \in [Reads -> {"none"} \cup Failures \cup Frames]
    /\ writeq \in Seq(Writes) /\ Len(writeq) <= WriteCap
    /\ writing \in Writes \cup {Nothing}
    /\ writer \in {"up", "finished", "broken"}
    /\ refused \subseteq Reads \cup Writes
    /\ taken \in Seq(Reads) /\ answered \in Seq(Reads)
    /\ written \in Seq(Writes) /\ sent \in Seq(Writes)

Init ==
    /\ conn = "none" /\ line = "up"
    /\ inbox = <<>> /\ readq = <<>> /\ writeq = <<>>
    /\ reading = Nothing /\ writing = Nothing
    /\ closed = FALSE /\ writer = "up"
    /\ reply = [r \in Reads |-> "none"]
    /\ refused = {}
    /\ arrived = <<>> /\ taken = <<>> /\ answered = <<>>
    /\ written = <<>> /\ sent = <<>>

----------------------------------------------------------------------------
\* lconnect: spawn the task that dials within the timeout.
Connect ==
    /\ conn = "none"
    /\ conn' = "dialing"
    /\ UNCHANGED <<refused, readSide, writeSide, peerSide>>

DialFails ==
    /\ conn = "dialing"
    /\ conn' = "failed"
    /\ UNCHANGED <<refused, readSide, writeSide, peerSide>>

\* handle_client: make the channels, register the fd, announce it, start
\* both tasks.
HandleClient ==
    /\ conn = "dialing"
    /\ conn' = "open"
    /\ UNCHANGED <<refused, readSide, writeSide, peerSide>>

\* The peer sends a frame.
Arrive(f) ==
    /\ conn = "open" /\ line = "up" /\ ~Contains(arrived, f)
    /\ inbox' = Append(inbox, f)
    /\ arrived' = Append(arrived, f)
    /\ UNCHANGED <<conn, line, refused, readSide, writeSide>>

\* The peer closes, or the transport breaks.
Hangup ==
    /\ conn = "open" /\ line = "up"
    /\ line' = "down"
    /\ UNCHANGED <<conn, inbox, arrived, refused, readSide, writeSide>>

----------------------------------------------------------------------------
NewRead(r) == conn = "open" /\ ~Contains(taken, r) /\ r \notin refused

\* The reader's task never ends, so its channel is full or takes the read.
ReaderHasRoom == Len(readq) < ReadCap

Read(r) ==
    /\ NewRead(r) /\ ReaderHasRoom
    /\ readq' = Append(readq, r)
    /\ taken' = Append(taken, r)
    /\ UNCHANGED <<conn, refused, reading, closed, reply, answered, writeSide,
                   peerSide>>

ReadRefused(r) ==
    /\ NewRead(r) /\ ~ReaderHasRoom
    /\ refused' = refused \cup {r}
    /\ UNCHANGED <<conn, readSide, writeSide, peerSide>>

Answer(r, a) == /\ reply' = [reply EXCEPT ![r] = a]
                /\ answered' = Append(answered, r)

RecvRead ==
    /\ conn = "open" /\ reading = Nothing /\ readq # <<>> /\ ~closed
    /\ reading' = Head(readq)
    /\ readq' = Tail(readq)
    /\ UNCHANGED <<conn, refused, closed, reply, taken, answered, writeSide,
                   peerSide>>

\* As if a read of a closed connection were dropped.
RecvClosedDrops ==
    /\ conn = "open" /\ reading = Nothing /\ readq # <<>> /\ closed
    /\ readq' = Tail(readq)
    /\ UNCHANGED <<conn, refused, reading, closed, reply, taken, answered,
                   writeSide, peerSide>>

\* A read after the first failure is answered without touching the stream.
RecvClosed ==
    /\ conn = "open" /\ reading = Nothing /\ readq # <<>> /\ closed
    /\ Answer(Head(readq), "closed")
    /\ readq' = Tail(readq)
    /\ UNCHANGED <<conn, refused, reading, closed, taken, writeSide, peerSide>>

\* try_next yields a frame.
Deliver ==
    /\ reading # Nothing /\ inbox # <<>>
    /\ Answer(reading, Head(inbox))
    /\ inbox' = Tail(inbox)
    /\ reading' = Nothing
    /\ UNCHANGED <<conn, line, refused, readq, closed, taken, arrived,
                   writeSide>>

\* As if the timer could win against a frame that is there, which is lost.
ReadTimesOutConsumes ==
    /\ reading \in Timed
    /\ inbox' = IF inbox = <<>> THEN inbox ELSE Tail(inbox)
    /\ Answer(reading, "timeout")
    /\ reading' = Nothing
    /\ closed' = TRUE
    /\ UNCHANGED <<conn, line, arrived, refused, readq, taken, writeSide>>

\* As if the read went on after its timeout was reported.
ReadTimesOutGoesOn ==
    /\ reading \in Timed /\ inbox = <<>> /\ line = "up"
    /\ Answer(reading, "timeout")
    /\ UNCHANGED <<conn, refused, readq, reading, closed, taken, writeSide,
                   peerSide>>

\* As if a timeout left the connection readable.
ReadTimesOutStaysOpen ==
    /\ reading \in Timed /\ inbox = <<>> /\ line = "up"
    /\ Answer(reading, "timeout")
    /\ reading' = Nothing
    /\ UNCHANGED <<conn, refused, readq, closed, taken, writeSide, peerSide>>

\* timeout polls the stream first, so the timer wins only while the stream
\* has nothing to say; it closes the reader.
ReadTimesOut ==
    /\ reading \in Timed /\ inbox = <<>> /\ line = "up"
    /\ Answer(reading, "timeout")
    /\ reading' = Nothing
    /\ closed' = TRUE
    /\ UNCHANGED <<conn, refused, readq, taken, writeSide, peerSide>>

\* try_next yields None or an error.
ReadFails ==
    /\ reading # Nothing /\ inbox = <<>> /\ line = "down"
    /\ Answer(reading, "error")
    /\ reading' = Nothing
    /\ closed' = TRUE
    /\ UNCHANGED <<conn, refused, readq, taken, writeSide, peerSide>>

Reader == RecvRead \/ RecvClosed \/ Deliver \/ ReadTimesOut \/ ReadFails

----------------------------------------------------------------------------
NewWrite(w) == conn = "open" /\ ~Contains(written, w) /\ w \notin refused

WriterHasRoom == writer = "up" /\ Len(writeq) < WriteCap

\* lwrite and lclose: true means that the message is in the channel.
Write(w) ==
    /\ NewWrite(w) /\ WriterHasRoom
    /\ writeq' = Append(writeq, w)
    /\ written' = Append(written, w)
    /\ UNCHANGED <<conn, refused, writing, writer, sent, readSide, peerSide>>

WriteRefused(w) ==
    /\ NewWrite(w) /\ ~WriterHasRoom
    /\ refused' = refused \cup {w}
    /\ UNCHANGED <<conn, readSide, writeSide, peerSide>>

RecvWrite ==
    /\ conn = "open" /\ writer = "up" /\ writing = Nothing /\ writeq # <<>>
    /\ writing' = Head(writeq)
    /\ writeq' = Tail(writeq)
    /\ UNCHANGED <<conn, refused, writer, written, sent, readSide, peerSide>>

\* The task returns and drops the receiver with all it still holds.
WriterEnds(how) ==
    /\ writer' = how
    /\ writing' = Nothing
    /\ writeq' = <<>>

\* As if a closing frame did not end the task.
WriteSentGoesOn ==
    /\ writing # Nothing
    /\ sent' = Append(sent, writing)
    /\ writing' = Nothing
    /\ UNCHANGED <<conn, refused, writer, writeq, written, readSide, peerSide>>

\* writer.send returned; a closing message is the task's last.
WriteSent ==
    /\ writing # Nothing
    /\ sent' = Append(sent, writing)
    /\ \/ writing \in Closing /\ WriterEnds("finished")
       \/ /\ writing \notin Closing
          /\ writing' = Nothing /\ UNCHANGED <<writer, writeq>>
    /\ UNCHANGED <<conn, refused, written, readSide, peerSide>>

\* writer.send failed; nobody is told.
WriteFails ==
    /\ writing # Nothing
    /\ WriterEnds("broken")
    /\ UNCHANGED <<conn, refused, written, sent, readSide, peerSide>>

----------------------------------------------------------------------------
Next ==
    \/ Connect \/ DialFails \/ HandleClient \/ Hangup
    \/ \E f \in Frames : Arrive(f)
    \/ \E r \in Reads : Read(r) \/ ReadRefused(r)
    \/ \E w \in Writes : Write(w) \/ WriteRefused(w)
    \/ Reader \/ RecvWrite \/ WriteSent \/ WriteFails

Spec == Init /\ [][Next]_vars

\* tokio polls the reader's task and its timer fires.
FairSpec == Spec /\ WF_vars(Reader)

----------------------------------------------------------------------------
\* Every frame of the peer goes to exactly one read, in the order of arrival:
\* the frames that were taken out of the stream are the answers of as many
\* reads, from the first on, and no later read has one; a timeout that races a
\* frame loses none.
Delivered == Len(arrived) - Len(inbox)

FramesAreDeliveredInOrder ==
    /\ Delivered >= 0
    /\ \A i \in 1..Len(inbox) : inbox[i] = arrived[Delivered + i]
    /\ \A i \in 1..Delivered : i <= Len(answered) /\ reply[answered[i]] = arrived[i]
    /\ \A i \in 1..Len(answered) : i > Delivered => reply[answered[i]] \notin Frames

\* Reads are answered one by one in the order the channel took them, each
\* once, whether by a frame, a timeout, an error or the flag.
Fifo == INSTANCE SqlxFifo WITH Requests <- Reads, accepted <- taken,
                               served <- answered, shut <- FALSE

ReadsImplementFifo == Fifo!Spec

\* A failed read is the last that looks at the stream: after a timeout no
\* later read returns a frame, not even one that arrived in the meantime.
FailureIsFinal ==
    \A i, j \in DOMAIN answered :
        i < j /\ reply[answered[i]] \in Failures =>
            reply[answered[j]] = "closed"

\* What is sent is what the channel took, in order, and nothing follows a
\* closing frame, whatever was queued behind it.  A write that was accepted
\* and is neither sent nor on its way was queued behind such a frame, unless
\* the transport broke.
WritesEndWithClosing ==
    /\ IsPrefix(sent, written)
    /\ \A i \in DOMAIN sent : sent[i] \in Closing => i = Len(sent)
    /\ writer # "broken" =>
          \A i \in DOMAIN written :
              \/ Contains(sent \o <<writing>> \o writeq, written[i])
              \/ \E j \in 1..(i - 1) : written[j] \in Closing

\* A read the channel took is answered, however the peer behaves, unless it
\* or a read taken before it has no timeout.
Unblocked(r) ==
    \E i \in DOMAIN taken :
        taken[i] = r /\ \A j \in 1..i : taken[j] \in Timed

TimedReadIsAnswered == \A r \in Reads : Unblocked(r) ~> reply[r] # "none"
=============================================================================

-------------------------- MODULE SqlxNames_proofs --------------------------
(***************************************************************************)
(* The two safety properties of SqlxNames for every set of connect()       *)
(* calls and services.  Both rest on one fact: a connection that is over   *)
(* for its users, because it is closing or because nobody holds a Sender   *)
(* of it, stays so (OverForGood).  The entry is only ever removed for such *)
(* a connection (Leaving, Stale), which is why the latest one is found;    *)
(* and what an insert finds is the only connection that may still be alive *)
(* beside it, which is why the takeover has to tell nobody else.           *)
(***************************************************************************)
EXTENDS SqlxNames, TLAPS

TypeOK ==
    /\ entry \in Conns \cup {NoConn} /\ latest \in Conns \cup {NoConn}
    /\ life \in [Conns -> {"none", "dialing", "failed", "inserted", "swapped",
                           "open", "leaving", "gone"}]
    /\ prev \in [Conns -> Conns \cup {NoConn}]
    /\ closing \in [Conns -> BOOLEAN]
    /\ closeMsg \in [Conns -> {"none", "sending", "queued", "received"}]
    /\ handles \in [Clients -> SUBSET Conns]
    /\ call \in [Clients -> [at : {"idle", "looked", "stale", "checked"},
                             conn : Conns \cup {NoConn}]]

\* No service gets anything new out of connection g.
Over(g) == closing[g] \/ ~Reachable(g)
Dead == {g \in Conns : Over(g)}

\* Only who has set the flag sends Close.
Flagged == \A g \in Conns : closeMsg[g] # "none" => closing[g]

\* The handler leaves its loop only when the connection is over.
Leaving == \A g \in Conns : life[g] \in {"leaving", "gone"} => Over(g)

\* find_connection removes only what it has seen to be over.
Stale ==
    \A c \in Clients :
        /\ call[c].at \in {"looked", "stale"} => call[c].conn \in Opened
        /\ call[c].at = "stale" => call[c].conn \in Dead

\* What an insert has returned is dealt with before the task goes on.
Replaced ==
    \A g \in Conns : prev[g] # NoConn => life[g] = "inserted" /\ prev[g] \in Opened

\* What the map holds has been inserted.
Inserted ==
    /\ entry # NoConn => entry \in Opened
    /\ latest # NoConn => latest \in Opened

IInv ==
    /\ TypeOK /\ Flagged /\ Leaving /\ Stale /\ Replaced /\ Inserted
    /\ LatestIsFound /\ OneGeneration
----------------------------------------------------------------------------
\* The actions, each with the process that takes it.
LEMMA Actions ==
    ASSUME [Next]_vars
    PROVE  \/ \E g \in Conns : \/ Connect(g) \/ DialFails(g) \/ Insert(g)
                               \/ Swap(g) \/ Announce(g) \/ CloseSent(g)
                               \/ RecvClose(g) \/ Serve(g) \/ LoopEnds(g)
                               \/ Retire(g)
           \/ \E c \in Clients : Look(c) \/ Upgrade(c) \/ RemoveStale(c) \/ TrySend(c)
           \/ \E c \in Clients, g \in Conns :
                 Release(c, g) \/ Check(c, g) \/ CloseCall(c, g)
           \/ UNCHANGED vars
  BY DEF Next, ConnectTask, Handler, InCall

\* Where a connection's flag and Close message are set (Send), the message is
\* sent by the first to set the flag.
LEMMA Sends ==
    ASSUME TypeOK, Flagged, NEW g \in Conns, Send(g)
    PROVE  /\ closing' = [closing EXCEPT ![g] = TRUE]
           /\ closeMsg' \in [Conns -> {"none", "sending", "queued", "received"}]
           /\ \A h \in Conns \ {g} : closeMsg'[h] = closeMsg[h]
           /\ closing'[g]
           /\ \A h \in Conns \ {g} : closing'[h] = closing[h]
  BY DEF Send, TypeOK

\* Every variable keeps its type.
LEMMA TypeStep ==
    ASSUME IInv, [Next]_vars
    PROVE  TypeOK'
  <1> USE DEF IInv
  <1>1. ASSUME NEW g \in Conns, Connect(g) \/ DialFails(g) PROVE TypeOK'
    BY <1>1 DEF TypeOK, Connect, DialFails, conn, lua
  <1>2. ASSUME NEW g \in Conns, Insert(g) PROVE TypeOK'
    BY <1>2 DEF TypeOK, Insert, conn, lua
  <1>3. ASSUME NEW g \in Conns, Swap(g) PROVE TypeOK'
    <2>1. CASE prev[g] = NoConn
      BY <1>3, <2>1 DEF TypeOK, Swap, lua
    <2>2. CASE prev[g] # NoConn /\ Reachable(prev[g])
      <3>1. prev[g] \in Conns /\ Send(prev[g])
        BY <1>3, <2>2 DEF TypeOK, Swap
      <3>2. /\ closing' \in [Conns -> BOOLEAN]
            /\ closeMsg' \in [Conns -> {"none", "sending", "queued", "received"}]
        BY <3>1, Sends DEF TypeOK
      <3> QED
        BY <1>3, <3>2 DEF TypeOK, Swap, lua
    <2>3. CASE prev[g] # NoConn /\ ~Reachable(prev[g])
      BY <1>3, <2>3 DEF TypeOK, Swap, lua
    <2> QED
      BY <2>1, <2>2, <2>3
  <1>4. ASSUME NEW g \in Conns, Announce(g) PROVE TypeOK'
    BY <1>4, NamesAssumption DEF TypeOK, Announce, conn
  <1>5. ASSUME NEW g \in Conns, CloseSent(g) \/ RecvClose(g) PROVE TypeOK'
    BY <1>5 DEF TypeOK, CloseSent, RecvClose, task, lua
  <1>6. ASSUME NEW g \in Conns, Serve(g) PROVE TypeOK'
    BY <1>6 DEF TypeOK, Serve, task, lua
  <1>7. ASSUME NEW g \in Conns, LoopEnds(g) \/ Retire(g) PROVE TypeOK'
    BY <1>7 DEF TypeOK, LoopEnds, Retire, Remove, conn, lua
  <1>8. ASSUME NEW c \in Clients, Look(c) PROVE TypeOK'
    BY <1>8 DEF TypeOK, Look, Enters, In, task, conn
  <1>9. ASSUME NEW c \in Clients, Upgrade(c) PROVE TypeOK'
    BY <1>9 DEF TypeOK, Stale, Opened, Upgrade, Enters, Leaves, In, Idle, task, conn
  <1>10. ASSUME NEW c \in Clients, RemoveStale(c) PROVE TypeOK'
    BY <1>10 DEF TypeOK, RemoveStale, Remove, Leaves, Idle, task, conn
  <1>11. ASSUME NEW c \in Clients, TrySend(c) PROVE TypeOK'
    BY <1>11 DEF TypeOK, TrySend, Leaves, Idle, task
  <1>12. ASSUME NEW c \in Clients, NEW g \in Conns, Release(c, g) \/ Check(c, g)
         PROVE  TypeOK'
    BY <1>12 DEF TypeOK, Release, Check, Enters, In, task, conn
  <1>13. ASSUME NEW c \in Clients, NEW g \in Conns, CloseCall(c, g) PROVE TypeOK'
    <2>1. Send(g)
      BY <1>13 DEF CloseCall
    <2>2. /\ closing' \in [Conns -> BOOLEAN]
          /\ closeMsg' \in [Conns -> {"none", "sending", "queued", "received"}]
      BY <2>1, Sends DEF TypeOK
    <2> QED
      BY <1>13, <2>2 DEF TypeOK, CloseCall, task, lua
  <1>14. ASSUME UNCHANGED vars PROVE TypeOK'
    BY <1>14 DEF TypeOK, vars, task, conn, lua
  <1> QED
    BY <1>1, <1>2, <1>3, <1>4, <1>5, <1>6, <1>7, <1>8, <1>9, <1>10, <1>11,
       <1>12, <1>13, <1>14, Actions

----------------------------------------------------------------------------
\* A step changes one connection's place in its life, and opens one only by
\* an insert.
LEMMA StaysOpened ==
    ASSUME IInv, [Next]_vars, NEW g \in Opened
    PROVE  g \in Opened'
  <1> USE DEF IInv, TypeOK, Opened
  <1>1. ASSUME NEW h \in Conns, \/ Connect(h) \/ DialFails(h) \/ Insert(h)
                                \/ Swap(h) \/ Announce(h)
        PROVE  g \in Opened'
    BY <1>1 DEF Connect, DialFails, Insert, Swap, Announce
  <1>2. ASSUME NEW h \in Conns, LoopEnds(h) \/ Retire(h)
        PROVE  g \in Opened'
    BY <1>2 DEF LoopEnds, Retire
  <1>3. ASSUME UNCHANGED life PROVE g \in Opened'
    BY <1>3
  <1> QED
    BY <1>1, <1>2, <1>3, Actions
       DEF CloseSent, RecvClose, Serve, Look, Upgrade, RemoveStale, TrySend,
           Release, Check, CloseCall, task, vars

\* Nobody who has no Sender of an opened connection comes by one: a Sender is
\* only cloned from another (Announce, CloseCall) or upgraded while there is
\* one (Upgrade, Swap).
LEMMA UnreachableForGood ==
    ASSUME IInv, [Next]_vars, NEW g \in Opened, ~Reachable(g)
    PROVE  ~Reachable(g)'
  <1> USE DEF IInv, TypeOK
  <1>1. /\ g \in Conns /\ \A c \in Clients : g \notin handles[c]
        /\ closeMsg[g] # "sending" /\ life[g] \notin {"inserted", "swapped"}
        /\ life[g] \notin {"none", "dialing", "failed"}
    BY DEF Reachable, Opened
  <1> SUFFICES /\ \A c \in Clients : g \notin handles'[c]
               /\ closeMsg'[g] # "sending"
               /\ life'[g] \notin {"inserted", "swapped"}
    BY DEF Reachable
  <1>2. ASSUME NEW h \in Conns, Connect(h) \/ DialFails(h) \/ Insert(h)
        PROVE  /\ handles' = handles /\ closeMsg' = closeMsg
               /\ life'[g] \notin {"inserted", "swapped"}
    BY <1>1, <1>2 DEF Connect, DialFails, Insert, conn, lua
  <1>3. ASSUME NEW h \in Conns, Swap(h)
        PROVE  /\ handles' = handles /\ closeMsg'[g] = closeMsg[g]
               /\ life'[g] = life[g]
    <2>1. h # g
      BY <1>1, <1>3 DEF Swap
    <2>2. closeMsg'[g] = closeMsg[g]
      <3>1. CASE prev[h] = NoConn \/ ~Reachable(prev[h])
        BY <1>3, <3>1 DEF Swap
      <3>2. CASE prev[h] # NoConn /\ Reachable(prev[h])
        BY <1>1, <1>3, <3>2, Sends DEF Swap
      <3> QED
        BY <3>1, <3>2
    <2> QED
      BY <1>1, <1>3, <2>1, <2>2 DEF Swap, lua
  <1>4. ASSUME NEW h \in Conns, Announce(h)
        PROVE  /\ \A c \in Clients : g \notin handles'[c]
               /\ closeMsg' = closeMsg /\ life'[g] = life[g]
    <2>1. h # g
      BY <1>1, <1>4 DEF Announce
    <2> QED
      BY <1>1, <1>4, <2>1, NamesAssumption DEF Announce, conn
  <1>5. ASSUME NEW h \in Conns, CloseSent(h) \/ RecvClose(h) \/ Serve(h)
        PROVE  /\ handles' = handles /\ closeMsg'[g] # "sending"
               /\ life' = life
    BY <1>1, <1>5 DEF CloseSent, RecvClose, Serve, task, lua
  <1>6. ASSUME NEW h \in Conns, LoopEnds(h) \/ Retire(h)
        PROVE  /\ handles' = handles /\ closeMsg' = closeMsg
               /\ life'[g] \notin {"inserted", "swapped"}
    BY <1>1, <1>6 DEF LoopEnds, Retire, conn, lua
  <1>7. ASSUME NEW c \in Clients, Upgrade(c)
        PROVE  /\ \A d \in Clients : g \notin handles'[d]
               /\ closeMsg' = closeMsg /\ life' = life
    <2>1. CASE ~closing[call[c].conn] /\ Reachable(call[c].conn)
      <3>1. call[c].conn # g
        BY <2>1
      <3> QED
        BY <1>1, <1>7, <2>1, <3>1 DEF Upgrade, task, conn
    <2>2. CASE ~(~closing[call[c].conn] /\ Reachable(call[c].conn))
      BY <1>1, <1>7, <2>2 DEF Upgrade, task, conn
    <2> QED
      BY <2>1, <2>2
  <1>8. ASSUME NEW c \in Clients, Look(c) \/ RemoveStale(c) \/ TrySend(c)
        PROVE  UNCHANGED <<handles, closeMsg, life>>
    BY <1>8 DEF Look, RemoveStale, TrySend, task, conn
  <1>9. ASSUME NEW c \in Clients, NEW h \in Conns, Release(c, h) \/ Check(c, h)
        PROVE  /\ \A d \in Clients : g \notin handles'[d]
               /\ closeMsg' = closeMsg /\ life' = life
    BY <1>1, <1>9 DEF Release, Check, task, conn
  <1>10. ASSUME NEW c \in Clients, NEW h \in Conns, CloseCall(c, h)
         PROVE  /\ handles' = handles /\ closeMsg'[g] = closeMsg[g]
                /\ life' = life
    <2>1. h # g /\ Send(h)
      BY <1>1, <1>10 DEF CloseCall
    <2> QED
      BY <1>1, <1>10, <2>1, Sends DEF CloseCall, task, lua
  <1>11. ASSUME UNCHANGED vars PROVE UNCHANGED <<handles, closeMsg, life>>
    BY <1>11 DEF vars, task, conn, lua
  <1> QED
    BY <1>1, <1>2, <1>3, <1>4, <1>5, <1>6, <1>7, <1>8, <1>9, <1>10, <1>11,
       Actions

\* The flag is never reset.
LEMMA ClosingForGood ==
    ASSUME IInv, [Next]_vars, NEW g \in Conns, closing[g]
    PROVE  closing'[g]
  <1> USE DEF IInv, TypeOK
  <1>1. ASSUME NEW h \in Conns, Swap(h) PROVE closing'[g]
    <2>1. CASE prev[h] = NoConn
      BY <1>1, <2>1 DEF Swap
    <2>2. CASE prev[h] # NoConn /\ ~Reachable(prev[h])
      BY <1>1, <2>2 DEF Swap
    <2>3. CASE prev[h] # NoConn /\ Reachable(prev[h])
      <3>1. prev[h] \in Conns /\ Send(prev[h])
        BY <1>1, <2>3 DEF Swap
      <3> QED
        BY <3>1, Sends
    <2> QED
      BY <2>1, <2>2, <2>3
  <1>2. ASSUME NEW c \in Clients, NEW h \in Conns, CloseCall(c, h)
        PROVE  closing'[g]
    BY <1>2, Sends DEF CloseCall
  <1>3. ASSUME UNCHANGED closing PROVE closing'[g]
    BY <1>3
  <1>4. ASSUME NEW h \in Conns,
               \/ Connect(h) \/ DialFails(h) \/ Insert(h) \/ Announce(h)
               \/ CloseSent(h) \/ RecvClose(h) \/ Serve(h) \/ LoopEnds(h) \/ Retire(h)
        PROVE  closing' = closing
    BY <1>4 DEF Connect, DialFails, Insert, Announce, CloseSent, RecvClose,
                Serve, LoopEnds, Retire, conn
  <1>5. ASSUME NEW c \in Clients, Look(c) \/ Upgrade(c) \/ RemoveStale(c) \/ TrySend(c)
        PROVE  closing' = closing
    BY <1>5 DEF Look, Upgrade, RemoveStale, TrySend, conn
  <1>6. ASSUME NEW c \in Clients, NEW h \in Conns, Release(c, h) \/ Check(c, h)
        PROVE  closing' = closing
    BY <1>6 DEF Release, Check, conn
  <1>7. ASSUME UNCHANGED vars PROVE closing' = closing
    BY <1>7 DEF vars, conn
  <1> QED
    BY <1>1, <1>2, <1>3, <1>4, <1>5, <1>6, <1>7, Actions

\* A connection that is over for its users stays so.
LEMMA OverForGood ==
    ASSUME IInv, [Next]_vars, NEW g \in Opened
    PROVE  /\ g \in Opened'
           /\ Over(g) => Over(g)'
           /\ g \in Dead => g \in Dead'
  <1>1. g \in Conns
    BY DEF Opened
  <1> QED
    BY <1>1, StaysOpened, UnreachableForGood, ClosingForGood DEF Over, Dead

----------------------------------------------------------------------------
\* The flag is set before Close is sent.
LEMMA FlaggedStep ==
    ASSUME IInv, [Next]_vars
    PROVE  Flagged'
  <1> USE DEF IInv, TypeOK, Flagged
  <1>1. ASSUME NEW h \in Conns, Send(h) PROVE Flagged'
    BY <1>1, Sends
  <1>2. ASSUME NEW h \in Conns, Swap(h) PROVE Flagged'
    <2>1. CASE prev[h] # NoConn /\ Reachable(prev[h])
      BY <1>1, <1>2, <2>1 DEF Swap
    <2>2. CASE prev[h] = NoConn
      BY <1>2, <2>2 DEF Swap
    <2>3. CASE prev[h] # NoConn /\ ~Reachable(prev[h])
      BY <1>2, <2>3 DEF Swap
    <2> QED
      BY <2>1, <2>2, <2>3
  <1>3. ASSUME NEW h \in Conns, CloseSent(h) \/ RecvClose(h) PROVE Flagged'
    BY <1>3 DEF CloseSent, RecvClose
  <1>4. ASSUME UNCHANGED <<closing, closeMsg>> PROVE Flagged'
    BY <1>4
  <1>5. ASSUME NEW h \in Conns,
               \/ Connect(h) \/ DialFails(h) \/ Insert(h) \/ Announce(h)
               \/ Serve(h) \/ LoopEnds(h) \/ Retire(h)
        PROVE  UNCHANGED <<closing, closeMsg>>
    BY <1>5 DEF Connect, DialFails, Insert, Announce, Serve, LoopEnds, Retire, conn
  <1>6. ASSUME NEW c \in Clients, Look(c) \/ Upgrade(c) \/ RemoveStale(c) \/ TrySend(c)
        PROVE  UNCHANGED <<closing, closeMsg>>
    BY <1>6 DEF Look, Upgrade, RemoveStale, TrySend, conn
  <1>7. ASSUME NEW c \in Clients, NEW h \in Conns, Release(c, h) \/ Check(c, h)
        PROVE  UNCHANGED <<closing, closeMsg>>
    BY <1>7 DEF Release, Check, conn
  <1>8. ASSUME UNCHANGED vars PROVE UNCHANGED <<closing, closeMsg>>
    BY <1>8 DEF vars, conn
  <1>9. ASSUME NEW c \in Clients, NEW h \in Conns, CloseCall(c, h) PROVE Flagged'
    BY <1>1, <1>9 DEF CloseCall
  <1> QED
    BY <1>2, <1>3, <1>4, <1>5, <1>6, <1>7, <1>8, <1>9, Actions

\* The handler ends after a Close, which came with the flag, or when the last
\* Sender is gone (LoopEnds); what is over then stays over.
LEMMA LeavingStep ==
    ASSUME IInv, [Next]_vars
    PROVE  Leaving'
  <1> USE DEF IInv, TypeOK
  <1> SUFFICES ASSUME NEW g \in Conns, life'[g] \in {"leaving", "gone"}
               PROVE  Over(g)'
    BY DEF Leaving
  <1>1. life[g] \in {"leaving", "gone"} \/ LoopEnds(g)
    <2>1. ASSUME NEW h \in Conns, \/ Connect(h) \/ DialFails(h) \/ Insert(h)
                                  \/ Swap(h) \/ Announce(h)
          PROVE  life[g] \in {"leaving", "gone"}
      BY <2>1 DEF Connect, DialFails, Insert, Swap, Announce
    <2>2. ASSUME NEW h \in Conns, LoopEnds(h) \/ Retire(h)
          PROVE  life[g] \in {"leaving", "gone"} \/ LoopEnds(g)
      <3>1. CASE LoopEnds(h) /\ h # g
        BY <3>1 DEF LoopEnds
      <3>2. CASE LoopEnds(h) /\ h = g
        BY <3>2
      <3>3. CASE Retire(h)
        BY <3>3 DEF Retire
      <3> QED
        BY <2>2, <3>1, <3>2, <3>3
    <2>3. UNCHANGED life => life[g] \in {"leaving", "gone"}
      OBVIOUS
    <2> QED
      BY <2>1, <2>2, <2>3, Actions
         DEF CloseSent, RecvClose, Serve, Look, Upgrade, RemoveStale, TrySend,
             Release, Check, CloseCall, task, vars
  <1>2. Over(g) /\ g \in Opened
    <2>1. CASE life[g] \in {"leaving", "gone"}
      BY <2>1 DEF Leaving, Opened
    <2>2. CASE LoopEnds(g)
      <3>1. life[g] = "open" /\ (closeMsg[g] = "received" \/ ~Reachable(g))
        BY <2>2 DEF LoopEnds
      <3> QED
        BY <3>1 DEF Over, Flagged, Opened
    <2> QED
      BY <1>1, <2>1, <2>2
  <1> QED
    BY <1>2, OverForGood

\* What the map holds has been inserted, and so has what a service has found.
LEMMA InsertedStep ==
    ASSUME IInv, [Next]_vars
    PROVE  Inserted' /\ Replaced'
  <1> USE DEF IInv, TypeOK
  <1>1. ASSUME NEW h \in Conns, Insert(h) PROVE Inserted' /\ Replaced'
    <2>1. h \in Opened'
      BY <1>1 DEF Insert, Opened
    <2>2. entry # NoConn => entry \in Opened'
      BY StaysOpened DEF Inserted
    <2>3. ASSUME NEW g \in Conns, prev'[g] # NoConn
          PROVE  life'[g] = "inserted" /\ prev'[g] \in Opened'
      <3>1. CASE g = h
        BY <1>1, <2>2, <2>3, <3>1 DEF Insert
      <3>2. CASE g # h
        <4>1. prev'[g] = prev[g] /\ life'[g] = life[g]
          BY <1>1, <3>2 DEF Insert
        <4> QED
          BY <2>3, <4>1, StaysOpened DEF Replaced
      <3> QED
        BY <3>1, <3>2
    <2> QED
      BY <1>1, <2>1, <2>3 DEF Insert, Inserted, Replaced
  <1>2. ASSUME latest' = latest, entry' = entry \/ entry' = NoConn
        PROVE  Inserted'
    BY <1>2, StaysOpened DEF Inserted
  <1>3. ASSUME \A g \in Conns : \/ prev'[g] = NoConn
                                \/ prev'[g] = prev[g] /\ life'[g] = life[g]
        PROVE  Replaced'
    <2>1. ASSUME NEW g \in Conns, prev'[g] # NoConn
          PROVE  life'[g] = "inserted" /\ prev'[g] \in Opened'
      <3>1. prev'[g] = prev[g] /\ life'[g] = life[g]
        BY <1>3, <2>1
      <3> QED
        BY <2>1, <3>1, StaysOpened DEF Replaced
    <2> QED
      BY <2>1 DEF Replaced
  <1>4. ASSUME NEW h \in Conns,
               \/ Connect(h) \/ DialFails(h) \/ Announce(h) \/ LoopEnds(h) \/ Retire(h)
        PROVE  Replaced'
    <2>1. ASSUME NEW g \in Conns
          PROVE  prev'[g] = NoConn \/ (prev'[g] = prev[g] /\ life'[g] = life[g])
      <3>1. CASE g = h
        <4>1. life[g] # "inserted"
          BY <1>4, <3>1 DEF Connect, DialFails, Announce, LoopEnds, Retire
        <4>2. prev[g] = NoConn
          BY <4>1 DEF Replaced
        <4>3. prev' = prev
          BY <1>4 DEF Connect, DialFails, Announce, LoopEnds, Retire
        <4> QED
          BY <4>2, <4>3
      <3>2. CASE g # h
        BY <1>4, <3>2 DEF Connect, DialFails, Announce, LoopEnds, Retire
      <3> QED
        BY <3>1, <3>2
    <2> QED
      BY <1>3, <2>1
  <1>5. ASSUME NEW h \in Conns,
               Connect(h) \/ DialFails(h) \/ Announce(h) \/ LoopEnds(h) \/ Swap(h)
        PROVE  latest' = latest /\ entry' = entry
    BY <1>5 DEF Connect, DialFails, Announce, LoopEnds, Swap
  <1>6. ASSUME NEW h \in Conns, Retire(h) PROVE Inserted'
    BY <1>2, <1>6 DEF Retire, Remove
  <1>7. ASSUME NEW h \in Conns, Swap(h) PROVE Replaced'
    BY <1>3, <1>7 DEF Swap
  <1>8. ASSUME NEW h \in Conns, CloseSent(h) \/ RecvClose(h) \/ Serve(h)
        PROVE  UNCHANGED <<entry, latest, task>>
    BY <1>8 DEF CloseSent, RecvClose, Serve
  <1>9. ASSUME NEW c \in Clients, Look(c) \/ Upgrade(c) \/ TrySend(c)
        PROVE  UNCHANGED <<entry, latest, task>>
    BY <1>9 DEF Look, Upgrade, TrySend
  <1>10. ASSUME NEW c \in Clients, RemoveStale(c)
         PROVE  Inserted' /\ UNCHANGED task
    BY <1>2, <1>10 DEF RemoveStale, Remove
  <1>11. ASSUME NEW c \in Clients, NEW h \in Conns,
                Release(c, h) \/ Check(c, h) \/ CloseCall(c, h)
         PROVE  UNCHANGED <<entry, latest, task>>
    BY <1>11 DEF Release, Check, CloseCall
  <1>12. UNCHANGED vars => UNCHANGED <<entry, latest, task>>
    BY DEF vars
  <1>13. UNCHANGED task => Replaced'
    BY <1>3 DEF task
  <1>14. UNCHANGED <<entry, latest, task>> => Inserted' /\ Replaced'
    BY <1>2, <1>13
  <1> QED
    BY <1>1, <1>2, <1>4, <1>5, <1>6, <1>7, <1>8, <1>9, <1>10, <1>11, <1>12,
       <1>13, <1>14, Actions

\* A service that is about to remove an entry has seen that it is over.
LEMMA StaleStep ==
    ASSUME IInv, [Next]_vars
    PROVE  Stale'
  <1> USE DEF IInv, TypeOK
  <1> DEFINE Seen(k) == /\ k.at \in {"looked", "stale"} => k.conn \in Opened'
                        /\ k.at = "stale" => k.conn \in Dead'
  <1>1. \A c \in Clients : Seen(call[c])
    BY OverForGood DEF Stale
  <1> SUFFICES \A d \in Clients : Seen(call'[d])
    BY DEF Stale
  <1>2. UNCHANGED call => \A d \in Clients : Seen(call'[d])
    BY <1>1
  <1>3. Seen(Idle)
    BY DEF Idle
  <1>4. ASSUME NEW c \in Clients, NEW k, Seen(k), call' = [call EXCEPT ![c] = k]
        PROVE  \A d \in Clients : Seen(call'[d])
    <2> HIDE DEF Seen
    <2>1. ASSUME NEW d \in Clients PROVE call'[d] = k \/ call'[d] = call[d]
      BY <1>4
    <2> QED
      BY <1>1, <1>4, <2>1
  <1>5. ASSUME NEW h \in Conns,
               \/ Connect(h) \/ DialFails(h) \/ Insert(h) \/ Swap(h) \/ Announce(h)
               \/ CloseSent(h) \/ RecvClose(h) \/ Serve(h) \/ LoopEnds(h) \/ Retire(h)
        PROVE  UNCHANGED call
    BY <1>5 DEF Connect, DialFails, Insert, Swap, Announce, CloseSent, RecvClose,
                Serve, LoopEnds, Retire, lua
  <1>6. ASSUME NEW c \in Clients, Look(c)
        PROVE  \A d \in Clients : Seen(call'[d])
    <2>1. call' = [call EXCEPT ![c] = In("looked", entry)] /\ entry # NoConn
      BY <1>6 DEF Look, Enters
    <2>2. Seen(In("looked", entry))
      BY <2>1, StaysOpened DEF In, Inserted
    <2> HIDE DEF Seen
    <2> QED
      BY <1>4, <2>1, <2>2
  <1>7. ASSUME NEW c \in Clients, Upgrade(c)
        PROVE  \A d \in Clients : Seen(call'[d])
    <2> DEFINE g == call[c].conn
    <2>1. CASE ~closing[g] /\ Reachable(g)
      <3>1. call' = [call EXCEPT ![c] = Idle]
        BY <1>7, <2>1 DEF Upgrade, Leaves
      <3> HIDE DEF Seen
      <3> QED
        BY <1>3, <1>4, <3>1
    <2>2. CASE ~(~closing[g] /\ Reachable(g))
      <3>1. call' = [call EXCEPT ![c] = In("stale", g)] /\ call[c].at = "looked"
        BY <1>7, <2>2 DEF Upgrade, Enters
      <3>2. g \in Opened /\ g \in Dead
        BY <2>2, <3>1 DEF Over, Dead, Stale, Opened
      <3>3. Seen(In("stale", g))
        BY <3>2, OverForGood DEF In
      <3> HIDE DEF Seen, g
      <3> QED
        BY <1>4, <3>1, <3>3
    <2> QED
      BY <2>1, <2>2
  <1>8. ASSUME NEW c \in Clients, RemoveStale(c) \/ TrySend(c)
        PROVE  call' = [call EXCEPT ![c] = Idle]
    BY <1>8 DEF RemoveStale, TrySend, Leaves
  <1>9. ASSUME NEW c \in Clients, NEW h \in Conns, Check(c, h)
        PROVE  \A d \in Clients : Seen(call'[d])
    <2>1. call' = [call EXCEPT ![c] = In("checked", h)]
      BY <1>9 DEF Check, Enters
    <2>2. Seen(In("checked", h))
      BY DEF In
    <2> HIDE DEF Seen
    <2> QED
      BY <1>4, <2>1, <2>2
  <1>10. ASSUME NEW c \in Clients, NEW h \in Conns, Release(c, h) \/ CloseCall(c, h)
         PROVE  UNCHANGED call
    BY <1>10 DEF Release, CloseCall, lua
  <1>11. UNCHANGED vars => UNCHANGED call
    BY DEF vars, lua
  <1> HIDE DEF Seen
  <1> QED
    BY <1>2, <1>3, <1>4, <1>5, <1>6, <1>7, <1>8, <1>9, <1>10, <1>11, Actions

----------------------------------------------------------------------------
\* The entry changes with an insert, or is removed when its connection is over.
LEMMA EntrySteps ==
    ASSUME IInv, [Next]_vars
    PROVE  \/ \E h \in Conns : Insert(h)
           \/ latest' = latest /\ entry' = entry
           \/ latest' = latest /\ entry \in Dead /\ entry' = NoConn
  <1> USE DEF IInv, TypeOK
  <1>1. ASSUME NEW h \in Conns, Retire(h)
        PROVE  latest' = latest /\ (entry' = entry \/ (entry \in Dead /\ entry' = NoConn))
    BY <1>1 DEF Retire, Remove, Leaving, Dead
  <1>2. ASSUME NEW c \in Clients, RemoveStale(c)
        PROVE  latest' = latest /\ (entry' = entry \/ (entry \in Dead /\ entry' = NoConn))
    BY <1>2 DEF RemoveStale, Remove, Stale
  <1> QED
    BY <1>1, <1>2, Actions
       DEF Connect, DialFails, Swap, Announce, CloseSent, RecvClose, Serve,
           LoopEnds, Look, Upgrade, TrySend, Release, Check, CloseCall, vars

\* Removals spare the latest connection, because they spare the living.
LEMMA LatestStep ==
    ASSUME IInv, [Next]_vars
    PROVE  LatestIsFound'
  <1> USE DEF IInv, TypeOK
  <1>1. CASE \E h \in Conns : Insert(h)
    BY <1>1 DEF Insert, LatestIsFound
  <1>2. CASE latest' = latest /\ (entry' = entry \/ (entry \in Dead /\ entry' = NoConn))
    <2> SUFFICES ASSUME latest # NoConn, latest \notin Dead'
                 PROVE  entry' = latest
      <3>1. latest' = latest /\ latest \in Conns \cup {NoConn}
        BY <1>2
      <3>2. ASSUME latest # NoConn, latest \notin Dead' => entry' = latest
            PROVE  LatestIsFound'
        BY <3>1, <3>2 DEF LatestIsFound, Dead, Over
      <3> QED
        BY <3>1, <3>2 DEF LatestIsFound
    <2>1. latest \in Opened /\ latest \in Conns
      BY DEF Inserted
    <2>2. latest \notin Dead
      BY <2>1, OverForGood
    <2>3. entry = latest
      BY <2>1, <2>2 DEF LatestIsFound, Dead, Over
    <2> QED
      BY <1>2, <2>2, <2>3
  <1> QED
    BY <1>1, <1>2, EntrySteps

\* OneGeneration in terms of Dead.
LEMMA Generations ==
    ASSUME OneGeneration, NEW g \in Opened, g # latest
    PROVE  g \in Dead \/ \E k \in Conns : prev[k] = g
  <1>1. g \in Conns /\ g \in Opened \ {latest}
    BY DEF Opened
  <1>2. closing[g] \/ ~Reachable(g) \/ \E h \in Conns : prev[h] = g
    BY <1>1 DEF OneGeneration
  <1>3. closing[g] \/ ~Reachable(g) => g \in Dead
    BY <1>1 DEF Dead, Over
  <1> QED
    BY <1>2, <1>3

\* Two connect() calls that overlap pass the name on: each tells the one it
\* replaced, and nobody else can still be taking requests.
LEMMA GenerationStep ==
    ASSUME IInv, [Next]_vars
    PROVE  OneGeneration'
  <1> USE DEF IInv, TypeOK
  <1> SUFFICES ASSUME NEW g \in Opened', g # latest'
               PROVE  g \in Dead' \/ \E h \in Conns : prev'[h] = g
    BY DEF OneGeneration, Dead, Over
  <1>0. g \in Conns
    BY DEF Opened
  <1>1. CASE \E h \in Conns : Insert(h)
    <2>1. PICK h \in Conns : Insert(h)
      BY <1>1
    <2>2. g # h /\ g \in Opened /\ prev[h] = NoConn
      BY <2>1 DEF Insert, Opened, Replaced
    <2>3. CASE g = latest
      <3>1. g \in Dead \/ entry = g
        BY <1>0, <2>2, <2>3, NamesAssumption DEF LatestIsFound, Dead, Over
      <3> QED
        BY <2>1, <2>2, <3>1, OverForGood DEF Insert
    <2>4. CASE g # latest
      <3>1. g \in Dead \/ \E k \in Conns : prev[k] = g
        BY <2>2, <2>4, Generations
      <3>2. ASSUME NEW k \in Conns, prev[k] = g PROVE prev'[k] = g
        BY <1>0, <2>1, <2>2, <3>2, NamesAssumption DEF Insert
      <3> QED
        BY <2>2, <3>1, <3>2, OverForGood
    <2> QED
      BY <2>3, <2>4
  <1>2. CASE latest' = latest /\ ~\E h \in Conns : Insert(h)
    <2>1. g \in Opened
      <3>1. ASSUME NEW h \in Conns, \/ Connect(h) \/ DialFails(h) \/ Swap(h) \/ Announce(h)
                                    \/ LoopEnds(h) \/ Retire(h)
            PROVE  g \in Opened
        BY <1>0, <3>1 DEF Connect, DialFails, Swap, Announce, LoopEnds, Retire, Opened
      <3>2. UNCHANGED life => g \in Opened
        BY DEF Opened
      <3> QED
        BY <1>2, <3>1, <3>2, Actions
           DEF CloseSent, RecvClose, Serve, Look, Upgrade, RemoveStale, TrySend,
               Release, Check, CloseCall, task, vars
    <2>2. g \in Dead \/ \E k \in Conns : prev[k] = g
      BY <1>2, <2>1, Generations
    <2>3. ASSUME NEW k \in Conns, prev[k] = g
          PROVE  g \in Dead' \/ prev'[k] = g
      <3>1. CASE Swap(k)
        <4>1. closing'[g]
          <5>1. prev[k] # NoConn
            BY <1>0, <2>3, NamesAssumption
          <5>2. CASE Reachable(prev[k])
            BY <1>0, <2>3, <3>1, <5>1, <5>2, Sends DEF Swap
          <5>3. CASE ~Reachable(prev[k])
            BY <1>0, <2>3, <3>1, <5>1, <5>3 DEF Swap
          <5> QED
            BY <5>2, <5>3
        <4> QED
          BY <1>0, <4>1 DEF Dead, Over
      <3>2. ASSUME NEW h \in Conns, Swap(h), h # k PROVE prev'[k] = g
        BY <2>3, <3>2 DEF Swap
      <3>3. UNCHANGED prev => prev'[k] = g
        BY <2>3
      <3> QED
        BY <1>2, <3>1, <3>2, <3>3, Actions
           DEF Connect, DialFails, Announce, CloseSent, RecvClose, Serve, LoopEnds,
               Retire, Look, Upgrade, RemoveStale, TrySend, Release, Check,
               CloseCall, task, vars
    <2> QED
      BY <2>1, <2>2, <2>3, OverForGood
  <1> QED
    BY <1>1, <1>2, EntrySteps

----------------------------------------------------------------------------
\* The initial state: no entry, no connection.
LEMMA InitInv == Init => IInv
  <1> SUFFICES ASSUME Init PROVE IInv
    OBVIOUS
  <1>1. TypeOK
    BY DEF Init, TypeOK, Idle
  <1>2. Opened = {} /\ \A c \in Clients : call[c].at = "idle"
    BY DEF Init, Opened, Idle
  <1> QED
    BY <1>1, <1>2
       DEF Init, IInv, Flagged, Leaving, Stale, Replaced, Inserted,
           LatestIsFound, OneGeneration

\* The invariant is inductive.
LEMMA StepInv == IInv /\ [Next]_vars => IInv'
  <1> SUFFICES ASSUME IInv, [Next]_vars PROVE IInv'
    OBVIOUS
  <1> QED
    BY TypeStep, FlaggedStep, LeavingStep, StaleStep, InsertedStep, LatestStep,
       GenerationStep DEF IInv

\* Whatever connect() calls, closes, retiring handlers and find_connection
\* calls overlap, the connection that took the name last is found under it
\* for as long as it takes requests.
THEOREM LatestFound == Spec => []LatestIsFound
  <1>1. IInv => LatestIsFound
    BY DEF IInv
  <1> QED
    BY <1>1, InitInv, StepInv, PTL DEF Spec

\* Of all connections ever opened under a name at most the last one goes on
\* taking requests without having been told, or being about to be told, to
\* close.
THEOREM SingleGeneration == Spec => []OneGeneration
  <1>1. IInv => OneGeneration
    BY DEF IInv
  <1> QED
    BY <1>1, InitInv, StepInv, PTL DEF Spec
=============================================================================

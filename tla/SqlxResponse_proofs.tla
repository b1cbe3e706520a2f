------------------------ MODULE SqlxResponse_proofs -------------------------
(***************************************************************************)
(* Safety of SqlxResponse for every set of services, workers, requests,    *)
(* sessions and shards, and the proof that it implements SqlxMailbox.      *)
(***************************************************************************)
EXTENDS SqlxResponse, TLAPS

Ready(r) == slot[r].active /\ slot[r].value = r

\* Where the two kinds of processes can stand, and when they hold an Arc.
ProcInv ==
    /\ \A w \in Workers : pc[w] \in {"idle", "publish", "publishing", "notify"}
    /\ \A o \in Owners : pc[o] \notin {"publish", "publishing", "notify"}
    /\ \A p \in Procs : ref[p] = NoReq <=> pc[p] \in {"idle", "notify", "count"}

\* Who holds a lock stands inside its critical section.
LockInv ==
    /\ \A r \in Requests, p \in Procs : slotLock[r] = p =>
          pc[p] \in {"publishing", "taking", "dropping", "counting"} /\ ref[p] = r
    /\ \A s \in Shards, p \in Procs : shardLock[s] = p =>
          \/ pc[p] \in {"drop", "dropping"} /\ s = Shard(ref[p])
          \/ pc[p] \in {"count", "counting"}

\* What a slot holds at each stage of its lease's life.
SlotInv ==
    \A r \in Requests :
        /\ slot[r].value \in {NoReq, r} /\ got[r] \in {NoReq, r}
        /\ ~slot[r].active => slot[r].value = NoReq
        /\ slot[r].active => got[r] = NoReq /\ lease[r] \in {"held", "dropping"}
        /\ lease[r] = "free" => /\ got[r] = NoReq /\ due[r] = 0
                                /\ \A w \in Workers : job[w] # r
        /\ lease[r] = "dropped" => ~slot[r].active

\* Taking and dropping belong to the service whose lease it is.
DropInv ==
    /\ \A o \in Owners : pc[o] \in {"take", "taking", "drop", "dropping"} =>
          OwnerOf[ref[o]] = o
    /\ \A o \in Owners : pc[o] \in {"drop", "dropping"} =>
          lease[ref[o]] = "dropping"

\* While an answer is due or under way, nobody else holds a lease of its key,
\* so a worker that finds a slot has found the one of its own request.
AnswerInv ==
    /\ \A q, r \in Requests : Key(q) = Key(r) /\ q # r /\ lease[q] = "held" =>
          due[r] = 0 /\ \A w \in Workers : job[w] # r
    /\ \A w \in Workers :
          /\ job[w] = NoReq <=> pc[w] = "idle"
          /\ pc[w] \in {"publish", "publishing"} => ref[w] = job[w]

\* A service that takes, and a worker about to notify.
TakesSlot(o, r) == pc[o] \in {"take", "taking"} /\ ref[o] = r
Notifies(w, r) == pc[w] = "notify" /\ job[w] = r

\* A held slot is announced once: by a worker about to notify, a message in
\* the inbox or a service that takes; and then the slot is ready.
NoticeOf(r) ==
    /\ (\E o \in Owners : TakesSlot(o, r)) =>
          /\ lease[r] = "held" /\ Ready(r)
          /\ Key(r) \notin inbox /\ \A w \in Workers : ~Notifies(w, r)
    /\ lease[r] = "held" /\ Key(r) \in inbox =>
          Ready(r) /\ \A w \in Workers : ~Notifies(w, r)
    /\ \A w \in Workers : lease[r] = "held" /\ Notifies(w, r) => Ready(r)
    /\ \A v, w \in Workers :
          lease[r] = "held" /\ Notifies(v, r) /\ Notifies(w, r) => v = w

NoticeInv == \A r \in Requests : NoticeOf(r)

IInv == /\ TypeOK /\ ProcInv /\ LockInv /\ SlotInv /\ EntriesMatchLeases
        /\ DropInv /\ AnswerInv /\ NoticeInv
----------------------------------------------------------------------------
\* The steps of every kind of process.
LEMMA Actions ==
    ASSUME [Next]_vars
    PROVE  \/ \E o \in Owners, r \in Requests :
                 \/ Register(o, r)
                 \/ RegisterRefused(o, r)
                 \/ DropEntry(o, r)
                 \/ CountLock(o, r)
           \/ \E o \in Owners, k \in Keys :
                 \/ TakeFind(o, k)
           \/ \E o \in Owners, s \in Shards :
                 \/ CountShard(o, s)
           \/ \E o \in Owners :
                 \/ TakeLock(o)
                 \/ TakeValue(o)
                 \/ DropLock(o)
                 \/ DropValue(o)
                 \/ CountSlot(o)
                 \/ CountDone(o)
           \/ \E w \in Workers, r \in Requests :
                 \/ PublishFind(w, r)
           \/ \E w \in Workers :
                 \/ PublishLock(w)
                 \/ PublishStore(w)
                 \/ Notify(w)
           \/ UNCHANGED vars
BY DEF Next, OwnerStep, WorkerStep

\* A request's key is a key, and its shard a shard.
LEMMA KeyType ==
    ASSUME NEW r \in Requests
    PROVE  Key(r) \in Keys /\ Shard(r) \in Shards /\ OwnerOf[r] \in Owners
BY ResponseAssumption DEF Key, Shard, Keys

\* find() only leads to the slot of a lease that is held under the key.
LEMMA Found ==
    ASSUME IInv, NEW k \in Keys, Find(k) # NoReq
    PROVE  /\ Find(k) \in Requests /\ Find(k) = entry[k]
           /\ lease[Find(k)] = "held" /\ Key(Find(k)) = k
BY DEF IInv, TypeOK, EntriesMatchLeases, Find

\* Owners and workers are different processes.
LEMMA Kinds ==
    /\ \A o \in Owners : o \in Procs /\ o \notin Workers
    /\ \A w \in Workers : w \in Procs /\ w \notin Owners
    /\ Nobody \notin Procs /\ NoReq \notin Requests
BY ResponseAssumption DEF Procs

----------------------------------------------------------------------------
\* What the steps with a lookup do, once IInv is known of the state.
PublishFound(w, r) ==
    /\ pc[w] = "idle" /\ due[r] # 0
    /\ due' \in [Requests -> 0..MaxAnswers]
    /\ \A q \in Requests \ {r} : due'[q] = due[q]
    /\ UNCHANGED <<entry, lease, slot, shardLock, slotLock, inbox, toCount,
                   visits, got>>
    /\ \/ UNCHANGED <<pc, ref, job>>
       \/ /\ lease[r] = "held"
          /\ ref' = [ref EXCEPT ![w] = r] /\ job' = [job EXCEPT ![w] = r]
          /\ pc' = [pc EXCEPT ![w] = "publish"]

TakeFound(o, k) ==
    /\ pc[o] = "idle" /\ k \in inbox /\ k[1] = o /\ inbox' = inbox \ {k}
    /\ UNCHANGED <<entry, lease, slot, shardLock, slotLock, job, due, toCount,
                   visits, got>>
    /\ \/ UNCHANGED <<pc, ref>>
       \/ \E r \in Requests :
             /\ lease[r] = "held" /\ Key(r) = k
             /\ ref' = [ref EXCEPT ![o] = r]
             /\ pc' = [pc EXCEPT ![o] = "take"]

PublishStored(w) ==
    \E r \in Requests :
        /\ job[w] = r /\ ref[w] = r /\ pc[w] = "publishing"
        /\ ref' = [ref EXCEPT ![w] = NoReq]
        /\ slotLock' = [slotLock EXCEPT ![r] = Nobody]
        /\ UNCHANGED <<entry, lease, shardLock, due, inbox, toCount, visits, got>>
        /\ \/ /\ slot[r].active /\ slot[r].value = NoReq
              /\ slot' = [slot EXCEPT ![r] = [active |-> TRUE, value |-> r]]
              /\ pc' = [pc EXCEPT ![w] = "notify"] /\ job' = job
           \/ /\ slot' = slot
              /\ pc' = [pc EXCEPT ![w] = "idle"]
              /\ job' = [job EXCEPT ![w] = NoReq]

\* publish(), first half: a worker that finds a slot has found the one of its
\* own request.
LEMMA PublishFinds ==
    ASSUME IInv, NEW w \in Workers, NEW r \in Requests, PublishFind(w, r)
    PROVE  PublishFound(w, r)
<1>1. /\ pc[w] = "idle" /\ due[r] # 0
      /\ due' \in [Requests -> 0..MaxAnswers]
      /\ \A q \in Requests \ {r} : due'[q] = due[q]
      /\ UNCHANGED <<entry, lease, slot, shardLock, slotLock, inbox, toCount,
                     visits, got>>
  BY ResponseAssumption DEF PublishFind, IInv, TypeOK, locks
<1>2. CASE Find(Key(r)) = NoReq
  BY <1>1, <1>2 DEF PublishFind, PublishFound
<1>3. CASE Find(Key(r)) # NoReq
  <2> DEFINE q == Find(Key(r))
  <2>1. q \in Requests /\ lease[q] = "held" /\ Key(q) = Key(r)
    BY <1>3, KeyType, Found
  <2>2. q = r
    BY <1>1, <2>1 DEF IInv, AnswerInv
  <2>3. UNCHANGED <<pc, ref, job>> \/ q # NoReq
    BY <1>3
  <2>4. /\ ref' = [ref EXCEPT ![w] = q] /\ job' = [job EXCEPT ![w] = r]
        /\ pc' = [pc EXCEPT ![w] = "publish"]
    BY <1>3 DEF PublishFind, Upgrade, Goto
  <2> HIDE DEF q
  <2> QED  BY <1>1, <2>1, <2>2, <2>4 DEF PublishFound
<1> QED  BY <1>2, <1>3

\* decode(): what a message finds is the slot of a lease held under its key.
LEMMA TakeFinds ==
    ASSUME IInv, NEW o \in Owners, NEW k \in Keys, TakeFind(o, k)
    PROVE  TakeFound(o, k)
<1>1. CASE Find(k) = NoReq
  BY <1>1 DEF TakeFind, TakeFound, locks
<1>2. CASE Find(k) # NoReq
  <2> DEFINE q == Find(k)
  <2>1. q \in Requests /\ lease[q] = "held" /\ Key(q) = k
    BY <1>2, Found
  <2>2. ref' = [ref EXCEPT ![o] = q] /\ pc' = [pc EXCEPT ![o] = "take"]
    BY <1>2 DEF TakeFind, Upgrade, Goto
  <2> HIDE DEF q
  <2> QED  BY <2>1, <2>2 DEF TakeFind, TakeFound, locks
<1> QED  BY <1>1, <1>2

\* Storing a value leaves the other field of a slot alone.
LEMMA Filled ==
    ASSUME NEW V, NEW s \in [active : BOOLEAN, value : V], NEW x
    PROVE  [s EXCEPT !.value = x] = [active |-> s.active, value |-> x]
<1>1. PICK a, v : s = [active |-> a, value |-> v]
  OBVIOUS
<1> QED  BY <1>1

\* publish(), second half: an accepted value is the answer to the request the
\* slot belongs to.
LEMMA PublishStores ==
    ASSUME IInv, NEW w \in Workers, PublishStore(w)
    PROVE  PublishStored(w)
<1> DEFINE r == job[w]
<1>1. pc[w] = "publishing" /\ r \in Requests /\ ref[w] = r
  BY DEF PublishStore, IInv, AnswerInv, TypeOK
<1>2. /\ ref' = [ref EXCEPT ![w] = NoReq]
      /\ slotLock' = [slotLock EXCEPT ![r] = Nobody]
      /\ UNCHANGED <<entry, lease, shardLock, due, inbox, toCount, visits, got>>
  BY <1>1 DEF PublishStore, Upgrade
<1>3. CASE Accepts(r)
  <2>1. slot[r].active /\ slot[r].value = NoReq
    BY <1>3 DEF Accepts
  <2>2. slot' = [slot EXCEPT ![r].value = r]
    BY <1>1, <1>3 DEF PublishStore
  <2>3. slot[r] \in [active : BOOLEAN, value : Requests \cup {NoReq}]
    BY <1>1 DEF IInv, TypeOK
  <2>4. slot[r].active = TRUE
    BY <2>1, <2>3
  <2>5. [slot[r] EXCEPT !.value = r] = [active |-> TRUE, value |-> r]
    BY <2>3, <2>4, Filled
  <2>6. slot' = [slot EXCEPT ![r] = [active |-> TRUE, value |-> r]]
    BY <2>2, <2>5
  <2>7. AfterPublish(Accepts(r)) = "notify"
    BY <1>3 DEF AfterPublish
  <2>8. pc' = [pc EXCEPT ![w] = "notify"] /\ job' = job
    BY <1>1, <2>7 DEF PublishStore, Goto, IInv, TypeOK
  <2> HIDE DEF r
  <2> QED  BY <1>1, <1>2, <2>1, <2>6, <2>8 DEF PublishStored, r
<1>4. CASE ~Accepts(r)
  <2>1. AfterPublish(Accepts(r)) = "idle"
    BY <1>4 DEF AfterPublish
  <2>2. /\ slot' = slot /\ pc' = [pc EXCEPT ![w] = "idle"]
        /\ job' = [job EXCEPT ![w] = NoReq]
    BY <1>1, <1>4, <2>1 DEF PublishStore, Goto
  <2> QED  BY <1>1, <1>2, <2>2 DEF PublishStored
<1> QED  BY <1>3, <1>4

----------------------------------------------------------------------------
\* Every variable keeps its type.
LEMMA TypeStep ==
    ASSUME IInv, [Next]_vars
    PROVE  TypeOK'
<1>1. ASSUME NEW o \in Owners, NEW r \in Requests, Register(o, r)
      PROVE  TypeOK'
  BY <1>1, KeyType DEF Register, IInv, TypeOK, PCs, Procs, Keys, locks
<1>2. ASSUME NEW o \in Owners, NEW r \in Requests, DropEntry(o, r)
      PROVE  TypeOK'
  BY <1>2, KeyType
     DEF DropEntry, Upgrade, Goto, IInv, TypeOK, PCs, Procs, Keys,
         locks
<1>3. ASSUME NEW o \in Owners, NEW k \in Keys, TakeFind(o, k)
      PROVE  TypeOK'
  <2>1. TakeFound(o, k)
    BY <1>3, TakeFinds
  <2>2. ref' \in [Procs -> Requests \cup {NoReq}] /\ pc' \in [Procs -> PCs]
    BY <2>1 DEF TakeFound, IInv, TypeOK, PCs
  <2>3. inbox' \subseteq Keys
    BY <2>1 DEF TakeFound, IInv, TypeOK
  <2> QED
    BY <2>1, <2>2, <2>3 DEF TakeFound, IInv, TypeOK, locks
<1>4. ASSUME NEW o \in Owners, NEW s \in Shards, CountShard(o, s)
      PROVE  TypeOK'
  <2>1. {r \in Requests : Shard(r) = s /\ Find(Key(r)) = r} \in SUBSET Requests
    OBVIOUS
  <2>2. toCount' \in [Owners -> SUBSET Requests]
    BY <1>4, <2>1 DEF CountShard, IInv, TypeOK
  <2>3. visits' \in 0..MaxVisits
    BY <1>4, ResponseAssumption DEF CountShard, IInv, TypeOK
  <2>4. shardLock' \in [Shards -> Procs \cup {Nobody}] /\ pc' \in [Procs -> PCs]
    BY <1>4 DEF CountShard, Goto, IInv, TypeOK, PCs, Procs
  <2> QED
    BY <1>4, <2>2, <2>3, <2>4 DEF CountShard, IInv, TypeOK
<1>5. ASSUME NEW o \in Owners, TakeLock(o)
      PROVE  TypeOK'
  BY <1>5, KeyType DEF TakeLock, Goto, IInv, TypeOK, PCs, Procs, Keys, locks
<1>6. ASSUME NEW o \in Owners, TakeValue(o)
      PROVE  TypeOK'
  BY <1>6, KeyType
     DEF TakeValue, Goto, Upgrade, Emptied, IInv, TypeOK, PCs, Procs,
         Keys, locks
<1>7. ASSUME NEW o \in Owners, DropLock(o)
      PROVE  TypeOK'
  BY <1>7, KeyType DEF DropLock, Goto, IInv, TypeOK, PCs, Procs, Keys, locks
<1>8. ASSUME NEW o \in Owners, DropValue(o)
      PROVE  TypeOK'
  BY <1>8, KeyType
     DEF DropValue, Goto, Upgrade, Discarded, IInv, TypeOK, PCs, Procs,
         Keys, locks
<1>9. ASSUME NEW o \in Owners, CountSlot(o)
      PROVE  TypeOK'
  BY <1>9, KeyType
     DEF CountSlot, Goto, Upgrade, IInv, TypeOK, PCs, Procs, Keys,
         locks
<1>10. ASSUME NEW o \in Owners, CountDone(o)
      PROVE  TypeOK'
  BY <1>10, KeyType DEF CountDone, Goto, IInv, TypeOK, PCs, Procs, Keys, locks
<1>11. ASSUME NEW o \in Owners, NEW r \in Requests, CountLock(o, r)
      PROVE  TypeOK'
  BY <1>11, KeyType
     DEF CountLock, Goto, Upgrade, IInv, TypeOK, PCs, Procs, Keys,
         locks
<1>12. ASSUME NEW w \in Workers, NEW r \in Requests, PublishFind(w, r)
      PROVE  TypeOK'
  <2>1. PublishFound(w, r)
    BY <1>12, PublishFinds
  <2>2. /\ pc' \in [Procs -> PCs] /\ ref' \in [Procs -> Requests \cup {NoReq}]
        /\ job' \in [Workers -> Requests \cup {NoReq}]
    <3>1. CASE UNCHANGED <<pc, ref, job>>
      BY <3>1 DEF IInv, TypeOK
    <3>2. CASE ref' = [ref EXCEPT ![w] = r] /\ job' = [job EXCEPT ![w] = r]
               /\ pc' = [pc EXCEPT ![w] = "publish"]
      BY <3>2 DEF IInv, TypeOK, PCs, Procs
    <3> QED  BY <2>1, <3>1, <3>2 DEF PublishFound
  <2>3. due' \in [Requests -> 0..MaxAnswers]
    BY <2>1 DEF PublishFound
  <2>4. UNCHANGED <<entry, lease, slot, shardLock, slotLock, inbox, toCount,
                    visits, got>>
    BY <2>1 DEF PublishFound
  <2> QED
    BY <2>2, <2>3, <2>4 DEF IInv, TypeOK
<1>13. ASSUME NEW w \in Workers, PublishLock(w)
      PROVE  TypeOK'
  BY <1>13, KeyType DEF PublishLock, Goto, IInv, TypeOK, PCs, Procs, Keys, locks
<1>14. ASSUME NEW w \in Workers, PublishStore(w)
      PROVE  TypeOK'
  <2>1. PICK r \in Requests : PublishStored(w)!(r)
    BY <1>14, PublishStores DEF PublishStored
  <2>2. /\ ref' \in [Procs -> Requests \cup {NoReq}]
        /\ slotLock' \in [Requests -> Procs \cup {Nobody}]
    BY <2>1 DEF IInv, TypeOK, Procs
  <2>3. slot' \in [Requests -> [active : BOOLEAN, value : Requests \cup {NoReq}]]
    <3>1. CASE slot' = slot
      BY <3>1 DEF IInv, TypeOK
    <3>2. CASE slot' = [slot EXCEPT ![r] = [active |-> TRUE, value |-> r]]
      <4>1. [active |-> TRUE, value |-> r]
               \in [active : BOOLEAN, value : Requests \cup {NoReq}]
        OBVIOUS
      <4> QED  BY <3>2, <4>1 DEF IInv, TypeOK
    <3> QED  BY <2>1, <3>1, <3>2
  <2>4. pc' \in [Procs -> PCs] /\ job' \in [Workers -> Requests \cup {NoReq}]
    BY <2>1 DEF IInv, TypeOK, Procs, PCs
  <2> QED
    BY <2>1, <2>2, <2>3, <2>4 DEF IInv, TypeOK
<1>15. ASSUME NEW w \in Workers, Notify(w)
      PROVE  TypeOK'
  <2>1. job[w] \in Requests
    BY <1>15 DEF Notify, IInv, TypeOK, AnswerInv
  <2> QED
    BY <1>15, <2>1, KeyType
       DEF Notify, Goto, IInv, TypeOK, PCs, Procs, locks
<1>16. ASSUME UNCHANGED <<entry, lease, slot, shardLock, slotLock, pc, ref, job,
                           due, inbox, toCount, visits, got>>
      PROVE  TypeOK'
  BY <1>16, KeyType DEF IInv, TypeOK, PCs, Procs, Keys, locks
<1> QED
  BY <1>1, <1>2, <1>3, <1>4, <1>5, <1>6, <1>7, <1>8, <1>9, <1>10, <1>11,
     <1>12, <1>13, <1>14, <1>15, <1>16, Actions
     DEF RegisterRefused, locks, vars

\* Processes stand where their kind can stand.
LEMMA ProcStep ==
    ASSUME IInv, [Next]_vars
    PROVE  ProcInv'
<1>1. ASSUME NEW o \in Owners, NEW r \in Requests, DropEntry(o, r)
      PROVE  ProcInv'
  BY <1>1, ResponseAssumption
     DEF DropEntry, Upgrade, Goto, IInv, TypeOK, ProcInv, Procs
<1>2. ASSUME NEW o \in Owners, NEW k \in Keys, TakeFind(o, k)
      PROVE  ProcInv'
  <2>1. TakeFound(o, k)
    BY <1>2, TakeFinds
  <2> QED
    BY <2>1, ResponseAssumption DEF TakeFound, IInv, TypeOK, ProcInv, Procs
<1>3. ASSUME NEW o \in Owners, NEW s \in Shards, CountShard(o, s)
      PROVE  ProcInv'
  BY <1>3, ResponseAssumption DEF CountShard, Goto, IInv, TypeOK, ProcInv, Procs
<1>4. ASSUME NEW o \in Owners, TakeLock(o)
      PROVE  ProcInv'
  BY <1>4, ResponseAssumption DEF TakeLock, Goto, IInv, TypeOK, ProcInv, Procs
<1>5. ASSUME NEW o \in Owners, TakeValue(o)
      PROVE  ProcInv'
  BY <1>5, ResponseAssumption
     DEF TakeValue, Goto, Upgrade, Emptied, IInv, TypeOK, ProcInv,
         Procs
<1>6. ASSUME NEW o \in Owners, DropLock(o)
      PROVE  ProcInv'
  BY <1>6, ResponseAssumption DEF DropLock, Goto, IInv, TypeOK, ProcInv, Procs
<1>7. ASSUME NEW o \in Owners, DropValue(o)
      PROVE  ProcInv'
  BY <1>7, ResponseAssumption
     DEF DropValue, Goto, Upgrade, Discarded, IInv, TypeOK, ProcInv,
         Procs
<1>8. ASSUME NEW o \in Owners, CountSlot(o)
      PROVE  ProcInv'
  BY <1>8, ResponseAssumption
     DEF CountSlot, Goto, Upgrade, IInv, TypeOK, ProcInv, Procs
<1>9. ASSUME NEW o \in Owners, CountDone(o)
      PROVE  ProcInv'
  BY <1>9, ResponseAssumption DEF CountDone, Goto, IInv, TypeOK, ProcInv, Procs
<1>10. ASSUME NEW o \in Owners, NEW r \in Requests, CountLock(o, r)
      PROVE  ProcInv'
  BY <1>10, ResponseAssumption
     DEF CountLock, Goto, Upgrade, IInv, TypeOK, ProcInv, Procs
<1>11. ASSUME NEW w \in Workers, NEW r \in Requests, PublishFind(w, r)
      PROVE  ProcInv'
  <2>1. PublishFound(w, r)
    BY <1>11, PublishFinds
  <2> QED
    BY <2>1, ResponseAssumption DEF PublishFound, IInv, TypeOK, ProcInv, Procs
<1>12. ASSUME NEW w \in Workers, PublishLock(w)
      PROVE  ProcInv'
  BY <1>12, ResponseAssumption
     DEF PublishLock, Goto, IInv, TypeOK, ProcInv, Procs
<1>13. ASSUME NEW w \in Workers, PublishStore(w)
      PROVE  ProcInv'
  <2>1. PublishStored(w)
    BY <1>13, PublishStores
  <2> QED
    BY <2>1, ResponseAssumption DEF PublishStored, IInv, TypeOK, ProcInv, Procs
<1>14. ASSUME NEW w \in Workers, Notify(w)
      PROVE  ProcInv'
  BY <1>14, ResponseAssumption DEF Notify, Goto, IInv, TypeOK, ProcInv, Procs
<1>15. ASSUME UNCHANGED <<pc, ref>> PROVE ProcInv'
  BY <1>15, ResponseAssumption DEF IInv, TypeOK, ProcInv, Procs
<1> QED
  BY <1>1, <1>2, <1>3, <1>4, <1>5, <1>6, <1>7, <1>8, <1>9, <1>10, <1>11,
     <1>12, <1>13, <1>14, <1>15, Actions
     DEF Register, RegisterRefused, locks, vars

\* A lock is released before its critical section is left.
LEMMA LockStep ==
    ASSUME IInv, [Next]_vars
    PROVE  LockInv'
<1>1. ASSUME NEW o \in Owners, NEW r \in Requests, DropEntry(o, r)
      PROVE  LockInv'
  BY <1>1, ResponseAssumption
     DEF DropEntry, Upgrade, Goto, IInv, TypeOK, ProcInv, LockInv,
         Procs, locks
<1>2. ASSUME NEW o \in Owners, NEW k \in Keys, TakeFind(o, k)
      PROVE  LockInv'
  <2>1. TakeFound(o, k)
    BY <1>2, TakeFinds
  <2> QED
    BY <2>1, ResponseAssumption
       DEF TakeFound, IInv, TypeOK, ProcInv, LockInv, Procs, locks
<1>3. ASSUME NEW o \in Owners, NEW s \in Shards, CountShard(o, s)
      PROVE  LockInv'
  BY <1>3, ResponseAssumption
     DEF CountShard, Goto, IInv, TypeOK, ProcInv, LockInv, Procs, locks
<1>4. ASSUME NEW o \in Owners, TakeLock(o)
      PROVE  LockInv'
  BY <1>4, ResponseAssumption
     DEF TakeLock, Goto, IInv, TypeOK, ProcInv, LockInv, Procs, locks
<1>5. ASSUME NEW o \in Owners, TakeValue(o)
      PROVE  LockInv'
  BY <1>5, ResponseAssumption
     DEF TakeValue, Goto, Upgrade, Emptied, IInv, TypeOK, ProcInv,
         LockInv, Procs, locks
<1>6. ASSUME NEW o \in Owners, DropLock(o)
      PROVE  LockInv'
  BY <1>6, ResponseAssumption
     DEF DropLock, Goto, IInv, TypeOK, ProcInv, LockInv, Procs, locks
<1>7. ASSUME NEW o \in Owners, DropValue(o)
      PROVE  LockInv'
  BY <1>7, ResponseAssumption
     DEF DropValue, Goto, Upgrade, Discarded, IInv, TypeOK, ProcInv,
         LockInv, Procs, locks
<1>8. ASSUME NEW o \in Owners, CountSlot(o)
      PROVE  LockInv'
  BY <1>8, ResponseAssumption
     DEF CountSlot, Goto, Upgrade, IInv, TypeOK, ProcInv, LockInv,
         Procs, locks
<1>9. ASSUME NEW o \in Owners, CountDone(o)
      PROVE  LockInv'
  BY <1>9, ResponseAssumption
     DEF CountDone, Goto, IInv, TypeOK, ProcInv, LockInv, Procs, locks
<1>10. ASSUME NEW o \in Owners, NEW r \in Requests, CountLock(o, r)
      PROVE  LockInv'
  BY <1>10, ResponseAssumption
     DEF CountLock, Goto, Upgrade, IInv, TypeOK, ProcInv, LockInv,
         Procs, locks
<1>11. ASSUME NEW w \in Workers, NEW r \in Requests, PublishFind(w, r)
      PROVE  LockInv'
  <2>1. PublishFound(w, r)
    BY <1>11, PublishFinds
  <2>2. ASSUME NEW p \in Procs, p # w PROVE ref'[p] = ref[p] /\ pc'[p] = pc[p]
    BY <2>1, <2>2 DEF PublishFound, IInv, TypeOK
  <2>3. /\ \A q \in Requests : slotLock[q] # w
        /\ \A s \in Shards : shardLock[s] # w
    BY <2>1 DEF PublishFound, IInv, LockInv, Procs
  <2>4. UNCHANGED <<slotLock, shardLock>>
    BY <2>1 DEF PublishFound
  <2> QED
    BY <2>2, <2>3, <2>4 DEF IInv, LockInv, Shard, Key
<1>12. ASSUME NEW w \in Workers, PublishLock(w)
      PROVE  LockInv'
  BY <1>12, ResponseAssumption
     DEF PublishLock, Goto, IInv, TypeOK, ProcInv, LockInv, Procs,
         locks
<1>13. ASSUME NEW w \in Workers, PublishStore(w)
      PROVE  LockInv'
  <2>1. PublishStored(w)
    BY <1>13, PublishStores
  <2> QED
    BY <2>1, ResponseAssumption
       DEF PublishStored, IInv, TypeOK, ProcInv, LockInv, Procs, locks
<1>14. ASSUME NEW w \in Workers, Notify(w)
      PROVE  LockInv'
  BY <1>14, ResponseAssumption
     DEF Notify, Goto, IInv, TypeOK, ProcInv, LockInv, Procs, locks
<1>15. ASSUME UNCHANGED <<slotLock, shardLock, pc, ref>> PROVE LockInv'
  BY <1>15, ResponseAssumption DEF IInv, TypeOK, ProcInv, LockInv, Procs, locks
<1> QED
  BY <1>1, <1>2, <1>3, <1>4, <1>5, <1>6, <1>7, <1>8, <1>9, <1>10, <1>11,
     <1>12, <1>13, <1>14, <1>15, Actions
     DEF Register, RegisterRefused, locks, vars

\* A slot only ever holds the answer to its own request, and nothing once its
\* lease is dropped.
LEMMA SlotStep ==
    ASSUME IInv, [Next]_vars
    PROVE  SlotInv'
<1>1. ASSUME NEW o \in Owners, NEW r \in Requests, Register(o, r)
      PROVE  SlotInv'
  BY <1>1, ResponseAssumption
     DEF Register, IInv, TypeOK, SlotInv, ProcInv, DropInv, AnswerInv
<1>2. ASSUME NEW o \in Owners, NEW r \in Requests, DropEntry(o, r)
      PROVE  SlotInv'
  BY <1>2, ResponseAssumption
     DEF DropEntry, Upgrade, Goto, IInv, TypeOK, SlotInv, ProcInv,
         DropInv, AnswerInv
<1>3. ASSUME NEW o \in Owners, TakeValue(o)
      PROVE  SlotInv'
  BY <1>3, ResponseAssumption
     DEF TakeValue, Goto, Upgrade, Emptied, IInv, TypeOK, SlotInv,
         ProcInv, DropInv, AnswerInv
<1>4. ASSUME NEW o \in Owners, DropValue(o)
      PROVE  SlotInv'
  BY <1>4, ResponseAssumption
     DEF DropValue, Goto, Upgrade, Discarded, IInv, TypeOK, SlotInv,
         ProcInv, DropInv, AnswerInv
<1>5. ASSUME NEW w \in Workers, NEW r \in Requests, PublishFind(w, r)
      PROVE  SlotInv'
  <2>1. PublishFound(w, r)
    BY <1>5, PublishFinds
  <2> QED
    BY <2>1, ResponseAssumption
       DEF PublishFound, IInv, TypeOK, SlotInv, ProcInv, DropInv, AnswerInv
<1>6. ASSUME NEW w \in Workers, PublishStore(w)
      PROVE  SlotInv'
  <2>1. PublishStored(w)
    BY <1>6, PublishStores
  <2> QED
    BY <2>1, ResponseAssumption
       DEF PublishStored, IInv, TypeOK, SlotInv, ProcInv, DropInv, AnswerInv
<1>7. ASSUME NEW w \in Workers, Notify(w)
      PROVE  SlotInv'
  BY <1>7, ResponseAssumption
     DEF Notify, Goto, IInv, TypeOK, SlotInv, ProcInv, DropInv, AnswerInv
<1>8. ASSUME UNCHANGED <<slot, got, lease, due, job>> PROVE SlotInv'
  BY <1>8, ResponseAssumption
     DEF IInv, TypeOK, SlotInv, ProcInv, DropInv, AnswerInv
<1> QED
  BY <1>1, <1>2, <1>3, <1>4, <1>5, <1>6, <1>7, <1>8, Actions
     DEF RegisterRefused, TakeFind, CountShard, TakeLock, DropLock,
         CountSlot, CountDone, CountLock, PublishLock, locks, vars

\* A key is given to a lease only while no other is held under it.
LEMMA EntryStep ==
    ASSUME IInv, [Next]_vars
    PROVE  EntriesMatchLeases'
<1>1. ASSUME NEW o \in Owners, NEW r \in Requests, Register(o, r)
      PROVE  EntriesMatchLeases'
  <2>1. /\ entry[Key(r)] # NoReq => ~Alive(entry[Key(r)])
        /\ entry' = [entry EXCEPT ![Key(r)] = r]
        /\ lease' = [lease EXCEPT ![r] = "held"]
        /\ lease[r] = "free"
    BY <1>1 DEF Register, Find
  <2>2. entry[Key(r)] = NoReq
    BY <2>1, KeyType DEF Alive, IInv, EntriesMatchLeases
  <2>3. Key(r) \in Keys
    BY KeyType
  <2>4. ASSUME NEW k \in Keys, entry'[k] # NoReq
        PROVE  Key(entry'[k]) = k /\ lease'[entry'[k]] = "held"
    BY <2>1, <2>3, <2>4 DEF IInv, TypeOK, EntriesMatchLeases
  <2>5. ASSUME NEW q \in Requests, lease'[q] = "held"
        PROVE  entry'[Key(q)] = q
    <3>1. CASE q = r
      BY <2>1, <2>3, <3>1 DEF IInv, TypeOK
    <3>2. CASE q # r
      <4>1. entry[Key(q)] = q
        BY <2>1, <2>5, <3>2 DEF IInv, TypeOK, EntriesMatchLeases
      <4>2. Key(q) # Key(r) /\ Key(q) \in Keys
        BY <2>2, <4>1, KeyType, ResponseAssumption
      <4> QED  BY <2>1, <4>1, <4>2 DEF IInv, TypeOK
    <3> QED  BY <3>1, <3>2
  <2> QED
    BY <2>4, <2>5 DEF EntriesMatchLeases, Key
<1>2. ASSUME NEW o \in Owners, NEW r \in Requests, DropEntry(o, r)
      PROVE  EntriesMatchLeases'
  BY <1>2, ResponseAssumption, KeyType
     DEF DropEntry, Upgrade, Goto, IInv, TypeOK, EntriesMatchLeases
<1>3. ASSUME NEW o \in Owners, DropValue(o)
      PROVE  EntriesMatchLeases'
  <2>1. ref[o] \in Requests /\ lease[ref[o]] = "dropping"
    BY <1>3, ResponseAssumption
       DEF DropValue, IInv, TypeOK, ProcInv, DropInv, Procs
  <2>2. entry' = entry /\ lease' = [lease EXCEPT ![ref[o]] = "dropped"]
    BY <1>3 DEF DropValue
  <2>3. \A q \in Requests : lease'[q] = "held" <=> lease[q] = "held"
    BY <2>1, <2>2 DEF IInv, TypeOK
  <2>4. \A k \in Keys : entry[k] # NoReq => entry[k] \in Requests
    BY DEF IInv, TypeOK
  <2> QED
    BY <2>2, <2>3, <2>4 DEF IInv, EntriesMatchLeases, Key
<1>4. ASSUME UNCHANGED <<entry, lease>> PROVE EntriesMatchLeases'
  BY <1>4, ResponseAssumption, KeyType DEF IInv, TypeOK, EntriesMatchLeases
<1> QED
  BY <1>1, <1>2, <1>3, <1>4, Actions
     DEF RegisterRefused, TakeFind, CountShard, TakeLock, TakeValue,
         DropLock, CountSlot, CountDone, CountLock, PublishFind,
         PublishLock, PublishStore, Notify, locks, vars

\* Nobody else ends the life of a lease that is being dropped.
LEMMA DropStep ==
    ASSUME IInv, [Next]_vars
    PROVE  DropInv'
<1>1. ASSUME NEW o \in Owners, NEW r \in Requests, Register(o, r)
      PROVE  DropInv'
  BY <1>1, ResponseAssumption
     DEF Register, IInv, TypeOK, ProcInv, DropInv, Procs
<1>2. ASSUME NEW o \in Owners, NEW r \in Requests, DropEntry(o, r)
      PROVE  DropInv'
  BY <1>2, ResponseAssumption
     DEF DropEntry, Upgrade, Goto, IInv, TypeOK, ProcInv, DropInv,
         Procs
<1>3. ASSUME NEW o \in Owners, NEW k \in Keys, TakeFind(o, k)
      PROVE  DropInv'
  <2>1. TakeFound(o, k)
    BY <1>3, TakeFinds
  <2> QED
    BY <2>1, ResponseAssumption
       DEF TakeFound, Key, IInv, TypeOK, ProcInv, DropInv, Procs
<1>4. ASSUME NEW o \in Owners, NEW s \in Shards, CountShard(o, s)
      PROVE  DropInv'
  BY <1>4, ResponseAssumption
     DEF CountShard, Goto, IInv, TypeOK, ProcInv, DropInv, Procs
<1>5. ASSUME NEW o \in Owners, TakeLock(o)
      PROVE  DropInv'
  BY <1>5, ResponseAssumption
     DEF TakeLock, Goto, IInv, TypeOK, ProcInv, DropInv, Procs
<1>6. ASSUME NEW o \in Owners, TakeValue(o)
      PROVE  DropInv'
  BY <1>6, ResponseAssumption
     DEF TakeValue, Goto, Upgrade, Emptied, IInv, TypeOK, ProcInv,
         DropInv, Procs
<1>7. ASSUME NEW o \in Owners, DropLock(o)
      PROVE  DropInv'
  BY <1>7, ResponseAssumption
     DEF DropLock, Goto, IInv, TypeOK, ProcInv, DropInv, Procs
<1>8. ASSUME NEW o \in Owners, DropValue(o)
      PROVE  DropInv'
  BY <1>8, ResponseAssumption
     DEF DropValue, Goto, Upgrade, Discarded, IInv, TypeOK, ProcInv,
         DropInv, Procs
<1>9. ASSUME NEW o \in Owners, CountSlot(o)
      PROVE  DropInv'
  BY <1>9, ResponseAssumption
     DEF CountSlot, Goto, Upgrade, IInv, TypeOK, ProcInv, DropInv,
         Procs
<1>10. ASSUME NEW o \in Owners, CountDone(o)
      PROVE  DropInv'
  BY <1>10, ResponseAssumption
     DEF CountDone, Goto, IInv, TypeOK, ProcInv, DropInv, Procs
<1>11. ASSUME NEW o \in Owners, NEW r \in Requests, CountLock(o, r)
      PROVE  DropInv'
  BY <1>11, ResponseAssumption
     DEF CountLock, Goto, Upgrade, IInv, TypeOK, ProcInv, DropInv,
         Procs
<1>12. ASSUME NEW w \in Workers, NEW r \in Requests, PublishFind(w, r)
      PROVE  DropInv'
  <2>1. PublishFound(w, r)
    BY <1>12, PublishFinds
  <2> QED
    BY <2>1, ResponseAssumption
       DEF PublishFound, IInv, TypeOK, ProcInv, DropInv, Procs
<1>13. ASSUME NEW w \in Workers, PublishLock(w)
      PROVE  DropInv'
  BY <1>13, ResponseAssumption
     DEF PublishLock, Goto, IInv, TypeOK, ProcInv, DropInv, Procs
<1>14. ASSUME NEW w \in Workers, PublishStore(w)
      PROVE  DropInv'
  <2>1. PublishStored(w)
    BY <1>14, PublishStores
  <2> QED
    BY <2>1, ResponseAssumption
       DEF PublishStored, IInv, TypeOK, ProcInv, DropInv, Procs
<1>15. ASSUME NEW w \in Workers, Notify(w)
      PROVE  DropInv'
  BY <1>15, ResponseAssumption
     DEF Notify, Goto, IInv, TypeOK, ProcInv, DropInv, Procs
<1>16. ASSUME UNCHANGED <<pc, ref, lease>> PROVE DropInv'
  BY <1>16, ResponseAssumption DEF IInv, TypeOK, ProcInv, DropInv, Procs
<1> QED
  BY <1>1, <1>2, <1>3, <1>4, <1>5, <1>6, <1>7, <1>8, <1>9, <1>10, <1>11,
     <1>12, <1>13, <1>14, <1>15, <1>16, Actions
     DEF RegisterRefused, locks, vars

\* A session number is not given out while an answer for it is under way.
LEMMA AnswerStep ==
    ASSUME IInv, [Next]_vars
    PROVE  AnswerInv'
<1>1. ASSUME NEW o \in Owners, NEW r \in Requests, Register(o, r)
      PROVE  AnswerInv'
  <2>1. /\ entry[Key(r)] # NoReq => ~Alive(entry[Key(r)])
        /\ lease' = [lease EXCEPT ![r] = "held"]
        /\ lease[r] = "free" /\ FreshSession(r)
        /\ UNCHANGED <<pc, ref, job>>
    BY <1>1 DEF Register, Find
  <2>2. PICK n \in 0..MaxAnswers : due' = [due EXCEPT ![r] = n]
    BY <1>1 DEF Register
  <2>3. entry[Key(r)] = NoReq
    BY <2>1, KeyType DEF Alive, IInv, EntriesMatchLeases
  <2>4. \A q \in Requests : lease[q] = "held" => Key(q) # Key(r)
    BY <2>3, ResponseAssumption DEF IInv, EntriesMatchLeases
  <2>5. \A q \in Requests \ {r} : Key(q) = Key(r) =>
            due[q] = 0 /\ \A w \in Workers : job[w] # q
    BY <2>1 DEF FreshSession, SameSession, Key
  <2>6. ASSUME NEW p \in Requests, NEW q \in Requests,
               Key(p) = Key(q), p # q, lease'[p] = "held"
        PROVE  due'[q] = 0 /\ \A w \in Workers : job'[w] # q
    <3>1. CASE p = r
      BY <2>1, <2>2, <2>5, <2>6, <3>1 DEF IInv, TypeOK
    <3>2. CASE p # r
      <4>1. lease[p] = "held"
        BY <2>1, <2>6, <3>2 DEF IInv, TypeOK
      <4>2. q # r
        BY <2>4, <2>6, <4>1
      <4>3. due'[q] = due[q] /\ job' = job
        BY <2>1, <2>2, <4>2 DEF IInv, TypeOK
      <4> QED  BY <2>6, <4>1, <4>3 DEF IInv, AnswerInv
    <3> QED  BY <3>1, <3>2
  <2> QED
    BY <2>1, <2>6 DEF IInv, AnswerInv, Key
<1>2. ASSUME NEW o \in Owners, NEW r \in Requests, DropEntry(o, r)
      PROVE  AnswerInv'
  BY <1>2, ResponseAssumption
     DEF DropEntry, Upgrade, Goto, IInv, TypeOK, ProcInv, AnswerInv,
         Procs
<1>3. ASSUME NEW o \in Owners, NEW k \in Keys, TakeFind(o, k)
      PROVE  AnswerInv'
  <2>1. TakeFound(o, k)
    BY <1>3, TakeFinds
  <2> QED
    BY <2>1, ResponseAssumption
       DEF TakeFound, IInv, TypeOK, ProcInv, AnswerInv, Procs
<1>4. ASSUME NEW o \in Owners, NEW s \in Shards, CountShard(o, s)
      PROVE  AnswerInv'
  BY <1>4, ResponseAssumption
     DEF CountShard, Goto, IInv, TypeOK, ProcInv, AnswerInv, Procs
<1>5. ASSUME NEW o \in Owners, TakeLock(o)
      PROVE  AnswerInv'
  BY <1>5, ResponseAssumption
     DEF TakeLock, Goto, IInv, TypeOK, ProcInv, AnswerInv, Procs
<1>6. ASSUME NEW o \in Owners, TakeValue(o)
      PROVE  AnswerInv'
  BY <1>6, ResponseAssumption
     DEF TakeValue, Goto, Upgrade, Emptied, IInv, TypeOK, ProcInv,
         AnswerInv, Procs
<1>7. ASSUME NEW o \in Owners, DropLock(o)
      PROVE  AnswerInv'
  BY <1>7, ResponseAssumption
     DEF DropLock, Goto, IInv, TypeOK, ProcInv, AnswerInv, Procs
<1>8. ASSUME NEW o \in Owners, DropValue(o)
      PROVE  AnswerInv'
  BY <1>8, ResponseAssumption
     DEF DropValue, Goto, Upgrade, Discarded, IInv, TypeOK, ProcInv,
         AnswerInv, Procs
<1>9. ASSUME NEW o \in Owners, CountSlot(o)
      PROVE  AnswerInv'
  BY <1>9, ResponseAssumption
     DEF CountSlot, Goto, Upgrade, IInv, TypeOK, ProcInv, AnswerInv,
         Procs
<1>10. ASSUME NEW o \in Owners, CountDone(o)
      PROVE  AnswerInv'
  BY <1>10, ResponseAssumption
     DEF CountDone, Goto, IInv, TypeOK, ProcInv, AnswerInv, Procs
<1>11. ASSUME NEW o \in Owners, NEW r \in Requests, CountLock(o, r)
      PROVE  AnswerInv'
  BY <1>11, ResponseAssumption
     DEF CountLock, Goto, Upgrade, IInv, TypeOK, ProcInv, AnswerInv,
         Procs
<1>12. ASSUME NEW w \in Workers, NEW r \in Requests, PublishFind(w, r)
      PROVE  AnswerInv'
  <2>1. PublishFound(w, r)
    BY <1>12, PublishFinds
  <2> QED
    BY <2>1, ResponseAssumption
       DEF PublishFound, IInv, TypeOK, ProcInv, AnswerInv, Procs
<1>13. ASSUME NEW w \in Workers, PublishLock(w)
      PROVE  AnswerInv'
  BY <1>13, ResponseAssumption
     DEF PublishLock, Goto, IInv, TypeOK, ProcInv, AnswerInv, Procs
<1>14. ASSUME NEW w \in Workers, PublishStore(w)
      PROVE  AnswerInv'
  <2>1. PublishStored(w)
    BY <1>14, PublishStores
  <2> QED
    BY <2>1, ResponseAssumption
       DEF PublishStored, IInv, TypeOK, ProcInv, AnswerInv, Procs
<1>15. ASSUME NEW w \in Workers, Notify(w)
      PROVE  AnswerInv'
  BY <1>15, ResponseAssumption
     DEF Notify, Goto, IInv, TypeOK, ProcInv, AnswerInv, Procs
<1>16. ASSUME UNCHANGED <<lease, due, job, pc, ref>> PROVE AnswerInv'
  BY <1>16, ResponseAssumption DEF IInv, TypeOK, ProcInv, AnswerInv, Procs
<1> QED
  BY <1>1, <1>2, <1>3, <1>4, <1>5, <1>6, <1>7, <1>8, <1>9, <1>10, <1>11,
     <1>12, <1>13, <1>14, <1>15, <1>16, Actions
     DEF RegisterRefused, locks, vars

\* A step that leaves a request's slot alone and gives nobody more to do with
\* it leaves its announcement alone.
LEMMA NoticeKept ==
    ASSUME NEW q \in Requests, NoticeOf(q),
           lease'[q] = lease[q], slot'[q] = slot[q],
           Key(q) \in inbox' => Key(q) \in inbox,
           \A o \in Owners : pc'[o] \in {"take", "taking"} /\ ref'[o] = q =>
              TakesSlot(o, q),
           \A w \in Workers : pc'[w] = "notify" /\ job'[w] = q => Notifies(w, q)
    PROVE  NoticeOf(q)'
BY DEF NoticeOf, TakesSlot, Notifies, Ready, Key

\* An answer is announced once.
LEMMA NoticeStep ==
    ASSUME IInv, [Next]_vars
    PROVE  NoticeInv'
<1> SUFFICES ASSUME NEW q \in Requests PROVE NoticeOf(q)'
  BY DEF NoticeInv
<1>0. NoticeOf(q)
  BY DEF IInv, NoticeInv
<1>1. ASSUME NEW o \in Owners, NEW r \in Requests, Register(o, r)
      PROVE  NoticeOf(q)'
  <2>1. /\ lease[r] = "free" /\ FreshSession(r) /\ lease'[r] = "held"
        /\ slot'[r] = [active |-> TRUE, value |-> NoReq]
        /\ UNCHANGED <<pc, ref, job, inbox>>
    BY <1>1 DEF Register, IInv, TypeOK
  <2>2. CASE q = r
    <3>1. \A w \in Workers : job[w] # q
      BY <2>1, <2>2 DEF IInv, SlotInv
    <3>2. \A o2 \in Owners : ~(pc[o2] \in {"take", "taking"} /\ ref[o2] = q)
      BY <1>0, <2>1, <2>2 DEF NoticeOf, TakesSlot
    <3>3. Key(q) \notin inbox
      BY <2>1, <2>2 DEF FreshSession, Key
    <3> QED  BY <2>1, <3>1, <3>2, <3>3 DEF NoticeOf, TakesSlot, Notifies, Key
  <2>3. CASE q # r
    <3>1. lease'[q] = lease[q] /\ slot'[q] = slot[q]
      BY <1>1, <2>3 DEF Register, IInv, TypeOK
    <3> QED  BY <1>0, <2>1, <3>1, NoticeKept DEF TakesSlot, Notifies
  <2> QED  BY <2>2, <2>3
<1>2. ASSUME NEW o \in Owners, NEW r \in Requests, DropEntry(o, r)
      PROVE  NoticeOf(q)'
  <2>1. /\ pc[o] = "idle" /\ OwnerOf[r] = o
        /\ pc' = [pc EXCEPT ![o] = "drop"] /\ ref' = [ref EXCEPT ![o] = r]
        /\ lease' = [lease EXCEPT ![r] = "dropping"]
        /\ UNCHANGED <<slot, job, inbox>>
    BY <1>2 DEF DropEntry, Upgrade, Goto
  <2>2. ASSUME NEW o2 \in Owners, pc'[o2] \in {"take", "taking"}
        PROVE  o2 # o /\ pc[o2] = pc'[o2] /\ ref[o2] = ref'[o2]
    BY <2>1, <2>2, Kinds DEF IInv, TypeOK
  <2>3. \A w \in Workers : pc'[w] = pc[w]
    BY <2>1, Kinds DEF IInv, TypeOK
  <2>4. CASE q = r
    <3>1. lease'[q] # "held"
      BY <2>1, <2>4 DEF IInv, TypeOK
    <3>2. \A o2 \in Owners : pc'[o2] \in {"take", "taking"} => ref'[o2] # q
      BY <2>1, <2>2, <2>4 DEF IInv, DropInv
    <3> QED  BY <3>1, <3>2 DEF NoticeOf, TakesSlot
  <2>5. CASE q # r
    <3>1. lease'[q] = lease[q]
      BY <2>1, <2>5 DEF IInv, TypeOK
    <3> QED
      BY <1>0, <2>1, <2>2, <2>3, <3>1, NoticeKept DEF TakesSlot, Notifies
  <2> QED  BY <2>4, <2>5
<1>3. ASSUME NEW o \in Owners, NEW k \in Keys, TakeFind(o, k)
      PROVE  NoticeOf(q)'
  <2>1. TakeFound(o, k)
    BY <1>3, TakeFinds
  <2>2. UNCHANGED <<lease, slot, job>> /\ inbox' = inbox \ {k} /\ k \in inbox
    BY <2>1 DEF TakeFound
  <2>3. CASE UNCHANGED <<pc, ref>>
    BY <1>0, <2>2, <2>3, NoticeKept DEF TakesSlot, Notifies
  <2>4. ASSUME NEW r \in Requests, lease[r] = "held", Key(r) = k,
               ref' = [ref EXCEPT ![o] = r], pc' = [pc EXCEPT ![o] = "take"]
        PROVE  NoticeOf(q)'
    <3>1. \A w \in Workers : pc'[w] = pc[w]
      BY <2>4, Kinds DEF IInv, TypeOK
    <3>2. \A o2 \in Owners : o2 # o => pc'[o2] = pc[o2] /\ ref'[o2] = ref[o2]
      BY <2>4, Kinds DEF IInv, TypeOK
    <3>3. ref'[o] = r
      BY <2>4, Kinds DEF IInv, TypeOK
    <3>4. CASE q # r
      <4>1. \A o2 \in Owners : pc'[o2] \in {"take", "taking"} /\ ref'[o2] = q =>
                TakesSlot(o2, q)
        BY <3>2, <3>3, <3>4 DEF TakesSlot
      <4> QED  BY <1>0, <2>2, <3>1, <4>1, NoticeKept DEF Notifies
    <3>5. CASE q = r
      <4>1. Ready(q) /\ \A w \in Workers : ~Notifies(w, q)
        BY <1>0, <2>2, <2>4, <3>5 DEF NoticeOf
      <4>2. Key(q) \notin inbox'
        BY <2>2, <2>4, <3>5
      <4> QED
        BY <2>2, <2>4, <3>1, <3>5, <4>1, <4>2 DEF NoticeOf, Notifies, Ready, Key
    <3> QED  BY <3>4, <3>5
  <2> QED  BY <2>1, <2>3, <2>4 DEF TakeFound
<1>4. ASSUME NEW o \in Owners, NEW s \in Shards, CountShard(o, s)
      PROVE  NoticeOf(q)'
  <2>1. UNCHANGED <<lease, slot, inbox, job>>
    BY <1>4 DEF CountShard
  <2>2. /\ \A o2 \in Owners : pc'[o2] \in {"take", "taking"} =>
              pc[o2] \in {"take", "taking"} /\ ref'[o2] = ref[o2]
        /\ \A v \in Workers : pc'[v] = "notify" => pc[v] = "notify"
    BY <1>4, Kinds DEF CountShard, Goto, IInv, TypeOK
  <2> QED
    BY <1>0, <2>1, <2>2, NoticeKept DEF TakesSlot, Notifies
<1>5. ASSUME NEW o \in Owners, TakeLock(o)
      PROVE  NoticeOf(q)'
  <2>1. UNCHANGED <<lease, slot, inbox, job>>
    BY <1>5 DEF TakeLock
  <2>2. /\ \A o2 \in Owners : pc'[o2] \in {"take", "taking"} =>
              pc[o2] \in {"take", "taking"} /\ ref'[o2] = ref[o2]
        /\ \A v \in Workers : pc'[v] = "notify" => pc[v] = "notify"
    BY <1>5, Kinds DEF TakeLock, Goto, IInv, TypeOK
  <2> QED
    BY <1>0, <2>1, <2>2, NoticeKept DEF TakesSlot, Notifies
<1>6. ASSUME NEW o \in Owners, TakeValue(o)
      PROVE  NoticeOf(q)'
  <2> DEFINE r == ref[o]
  <2>1. /\ r \in Requests /\ OwnerOf[r] = o /\ TakesSlot(o, r)
        /\ pc' = [pc EXCEPT ![o] = "idle"] /\ ref' = [ref EXCEPT ![o] = NoReq]
        /\ slot' = [slot EXCEPT ![r] = Emptied(@)]
        /\ UNCHANGED <<lease, job, inbox>>
    BY <1>6, Kinds
       DEF TakeValue, Upgrade, Goto, TakesSlot, IInv, TypeOK, ProcInv, DropInv
  <2>2. ASSUME NEW o2 \in Owners, pc'[o2] \in {"take", "taking"}
        PROVE  o2 # o /\ pc[o2] = pc'[o2] /\ ref[o2] = ref'[o2]
    BY <2>1, <2>2, Kinds DEF IInv, TypeOK
  <2>3. \A w \in Workers : pc'[w] = pc[w]
    BY <2>1, Kinds DEF IInv, TypeOK
  <2>4. CASE q = r
    <3>1. Key(q) \notin inbox /\ \A w \in Workers : ~Notifies(w, q)
      BY <1>0, <2>1, <2>4 DEF NoticeOf
    <3>2. \A o2 \in Owners : pc'[o2] \in {"take", "taking"} => ref'[o2] # q
      BY <2>1, <2>2, <2>4 DEF IInv, DropInv
    <3> QED
      BY <2>1, <2>3, <3>1, <3>2 DEF NoticeOf, TakesSlot, Notifies, Key
  <2>5. CASE q # r
    <3>1. slot'[q] = slot[q]
      BY <2>1, <2>5 DEF IInv, TypeOK
    <3> QED
      BY <1>0, <2>1, <2>2, <2>3, <3>1, NoticeKept DEF TakesSlot, Notifies
  <2> QED  BY <2>4, <2>5
<1>7. ASSUME NEW o \in Owners, DropLock(o)
      PROVE  NoticeOf(q)'
  <2>1. UNCHANGED <<lease, slot, inbox, job>>
    BY <1>7 DEF DropLock
  <2>2. /\ \A o2 \in Owners : pc'[o2] \in {"take", "taking"} =>
              pc[o2] \in {"take", "taking"} /\ ref'[o2] = ref[o2]
        /\ \A v \in Workers : pc'[v] = "notify" => pc[v] = "notify"
    BY <1>7, Kinds DEF DropLock, Goto, IInv, TypeOK
  <2> QED
    BY <1>0, <2>1, <2>2, NoticeKept DEF TakesSlot, Notifies
<1>8. ASSUME NEW o \in Owners, DropValue(o)
      PROVE  NoticeOf(q)'
  <2> DEFINE r == ref[o]
  <2>1. /\ r \in Requests /\ lease[r] = "dropping"
        /\ pc' = [pc EXCEPT ![o] = "idle"] /\ ref' = [ref EXCEPT ![o] = NoReq]
        /\ lease' = [lease EXCEPT ![r] = "dropped"]
        /\ slot' = [slot EXCEPT ![r] = Discarded(@)]
        /\ UNCHANGED <<job, inbox>>
    BY <1>8, Kinds
       DEF DropValue, Upgrade, Goto, IInv, TypeOK, ProcInv, DropInv
  <2>2. ASSUME NEW o2 \in Owners, pc'[o2] \in {"take", "taking"}
        PROVE  pc[o2] = pc'[o2] /\ ref[o2] = ref'[o2]
    BY <2>1, <2>2, Kinds DEF IInv, TypeOK
  <2>3. \A w \in Workers : pc'[w] = pc[w]
    BY <2>1, Kinds DEF IInv, TypeOK
  <2>4. CASE q = r
    <3>1. lease'[q] # "held"
      BY <2>1, <2>4 DEF IInv, TypeOK
    <3>2. \A o2 \in Owners : ~TakesSlot(o2, q)
      BY <1>0, <2>1, <2>4 DEF NoticeOf
    <3> QED
      BY <2>2, <3>1, <3>2 DEF NoticeOf, TakesSlot
  <2>5. CASE q # r
    <3>1. slot'[q] = slot[q] /\ lease'[q] = lease[q]
      BY <2>1, <2>5 DEF IInv, TypeOK
    <3> QED
      BY <1>0, <2>1, <2>2, <2>3, <3>1, NoticeKept DEF TakesSlot, Notifies
  <2> QED  BY <2>4, <2>5
<1>9. ASSUME NEW o \in Owners, CountSlot(o)
      PROVE  NoticeOf(q)'
  <2>1. UNCHANGED <<lease, slot, inbox, job>>
    BY <1>9 DEF CountSlot
  <2>2. /\ \A o2 \in Owners : pc'[o2] \in {"take", "taking"} =>
              pc[o2] \in {"take", "taking"} /\ ref'[o2] = ref[o2]
        /\ \A v \in Workers : pc'[v] = "notify" => pc[v] = "notify"
    BY <1>9, Kinds DEF CountSlot, Upgrade, Goto, IInv, TypeOK
  <2> QED
    BY <1>0, <2>1, <2>2, NoticeKept DEF TakesSlot, Notifies
<1>10. ASSUME NEW o \in Owners, CountDone(o)
      PROVE  NoticeOf(q)'
  <2>1. UNCHANGED <<lease, slot, inbox, job>>
    BY <1>10 DEF CountDone
  <2>2. /\ \A o2 \in Owners : pc'[o2] \in {"take", "taking"} =>
              pc[o2] \in {"take", "taking"} /\ ref'[o2] = ref[o2]
        /\ \A v \in Workers : pc'[v] = "notify" => pc[v] = "notify"
    BY <1>10, Kinds DEF CountDone, Goto, IInv, TypeOK
  <2> QED
    BY <1>0, <2>1, <2>2, NoticeKept DEF TakesSlot, Notifies
<1>11. ASSUME NEW o \in Owners, NEW r \in Requests, CountLock(o, r)
      PROVE  NoticeOf(q)'
  <2>1. UNCHANGED <<lease, slot, inbox, job>>
    BY <1>11 DEF CountLock
  <2>2. /\ \A o2 \in Owners : pc'[o2] \in {"take", "taking"} =>
              pc[o2] \in {"take", "taking"} /\ ref'[o2] = ref[o2]
        /\ \A v \in Workers : pc'[v] = "notify" => pc[v] = "notify"
    BY <1>11, Kinds DEF CountLock, Upgrade, Goto, IInv, TypeOK
  <2> QED
    BY <1>0, <2>1, <2>2, NoticeKept DEF TakesSlot, Notifies
<1>12. ASSUME NEW w \in Workers, NEW r \in Requests, PublishFind(w, r)
      PROVE  NoticeOf(q)'
  <2>1. PublishFound(w, r)
    BY <1>12, PublishFinds
  <2>2. UNCHANGED <<lease, slot, inbox>>
    BY <2>1 DEF PublishFound
  <2>3. \A o \in Owners : pc'[o] = pc[o] /\ ref'[o] = ref[o]
    BY <2>1, Kinds DEF PublishFound, IInv, TypeOK
  <2>4. \A v \in Workers :
           pc'[v] = "notify" => pc[v] = "notify" /\ job'[v] = job[v]
    BY <2>1, Kinds DEF PublishFound, IInv, TypeOK
  <2> QED
    BY <1>0, <2>2, <2>3, <2>4, NoticeKept DEF TakesSlot, Notifies
<1>13. ASSUME NEW w \in Workers, PublishLock(w)
      PROVE  NoticeOf(q)'
  <2>1. UNCHANGED <<lease, slot, inbox, job>>
    BY <1>13 DEF PublishLock
  <2>2. /\ \A o2 \in Owners : pc'[o2] \in {"take", "taking"} =>
              pc[o2] \in {"take", "taking"} /\ ref'[o2] = ref[o2]
        /\ \A v \in Workers : pc'[v] = "notify" => pc[v] = "notify"
    BY <1>13, Kinds DEF PublishLock, Goto, IInv, TypeOK
  <2> QED
    BY <1>0, <2>1, <2>2, NoticeKept DEF TakesSlot, Notifies
<1>14. ASSUME NEW w \in Workers, PublishStore(w)
      PROVE  NoticeOf(q)'
  <2>1. PICK r \in Requests : PublishStored(w)!(r)
    BY <1>14, PublishStores DEF PublishStored
  <2>2. UNCHANGED <<lease, inbox>> /\ job[w] = r
    BY <2>1
  <2>3. \A o \in Owners : pc'[o] = pc[o] /\ ref'[o] = ref[o]
    BY <2>1, Kinds DEF IInv, TypeOK
  <2>4. \A v \in Workers \ {w} : pc'[v] = pc[v] /\ job'[v] = job[v]
    BY <2>1, Kinds DEF IInv, TypeOK
  <2>5. CASE slot' = slot /\ pc' = [pc EXCEPT ![w] = "idle"]
    <3>1. pc'[w] # "notify"
      BY <2>5, Kinds DEF IInv, TypeOK
    <3> QED
      BY <1>0, <2>2, <2>3, <2>4, <2>5, <3>1, NoticeKept DEF TakesSlot, Notifies
  <2>6. CASE /\ slot[r].active /\ slot[r].value = NoReq
             /\ slot' = [slot EXCEPT ![r] = [active |-> TRUE, value |-> r]]
             /\ pc' = [pc EXCEPT ![w] = "notify"] /\ job' = job
    <3>1. CASE q # r
      <4>1. slot'[q] = slot[q]
        BY <2>6, <3>1 DEF IInv, TypeOK
      <4>2. \A v \in Workers : pc'[v] = "notify" /\ job'[v] = q => Notifies(v, q)
        BY <2>2, <2>4, <2>6, <3>1 DEF Notifies
      <4> QED
        BY <1>0, <2>2, <2>3, <4>1, <4>2, NoticeKept DEF TakesSlot
    <3>2. CASE q = r
      <4>1. ~Ready(q)
        BY <2>6, <3>2, Kinds DEF Ready
      <4>2. Ready(q)'
        BY <2>6, <3>2 DEF Ready, IInv, TypeOK
      <4>3. \A o \in Owners : ~TakesSlot(o, q)
        BY <1>0, <4>1 DEF NoticeOf
      <4>4. lease[q] = "held" =>
               Key(q) \notin inbox /\ \A v \in Workers : ~Notifies(v, q)
        BY <1>0, <4>1 DEF NoticeOf
      <4>5. \A v \in Workers \ {w} : Notifies(v, q)' => Notifies(v, q)
        BY <2>4 DEF Notifies
      <4>6. \A o \in Owners : ~TakesSlot(o, q)'
        BY <2>3, <4>3 DEF TakesSlot
      <4> QED
        BY <2>2, <4>2, <4>4, <4>5, <4>6 DEF NoticeOf, Key
    <3> QED  BY <3>1, <3>2
  <2> QED  BY <2>1, <2>5, <2>6
<1>15. ASSUME NEW w \in Workers, Notify(w)
      PROVE  NoticeOf(q)'
  <2> DEFINE r == job[w]
  <2>1. /\ r \in Requests /\ Notifies(w, r)
        /\ inbox' = inbox \cup {Key(r)} /\ UNCHANGED <<lease, slot, ref>>
        /\ pc' = [pc EXCEPT ![w] = "idle"]
        /\ job' = [job EXCEPT ![w] = NoReq]
    BY <1>15 DEF Notify, Goto, Notifies, IInv, TypeOK, AnswerInv
  <2>2. \A o \in Owners : pc'[o] = pc[o] /\ ref'[o] = ref[o]
    BY <2>1, Kinds DEF IInv, TypeOK
  <2>3. /\ \A v \in Workers \ {w} : pc'[v] = pc[v] /\ job'[v] = job[v]
        /\ pc'[w] # "notify"
    BY <2>1, Kinds DEF IInv, TypeOK
  <2>4. \A v \in Workers : pc'[v] = "notify" => v # w /\ Notifies(v, job'[v])
    BY <2>3 DEF Notifies
  <2>5. CASE Key(q) # Key(r)
    <3>1. Key(q) \in inbox' => Key(q) \in inbox
      BY <2>1, <2>5
    <3> QED
      BY <1>0, <2>1, <2>2, <2>4, <3>1, NoticeKept DEF TakesSlot
  <2>6. CASE Key(q) = Key(r) /\ q # r
    <3>1. lease[q] # "held"
      BY <2>1, <2>6 DEF IInv, AnswerInv, Notifies
    <3>2. \A o \in Owners : ~TakesSlot(o, q)
      BY <1>0, <3>1 DEF NoticeOf
    <3> QED
      BY <2>1, <2>2, <3>1, <3>2 DEF NoticeOf, TakesSlot
  <2>7. CASE q = r
    <3>1. \A o \in Owners : ~TakesSlot(o, q)
      BY <1>0, <2>1, <2>7 DEF NoticeOf
    <3>2. lease[q] = "held" =>
             Ready(q) /\ \A v \in Workers : Notifies(v, q) => v = w
      BY <1>0, <2>1, <2>7 DEF NoticeOf
    <3>3. lease[q] = "held" => \A v \in Workers : ~Notifies(v, q)'
      BY <2>4, <3>2 DEF Notifies
    <3>4. \A o \in Owners : ~TakesSlot(o, q)'
      BY <2>2, <3>1 DEF TakesSlot
    <3> QED
      BY <2>1, <3>2, <3>3, <3>4 DEF NoticeOf, Ready
  <2> QED  BY <2>5, <2>6, <2>7
<1>16. ASSUME UNCHANGED <<lease, slot, pc, ref, job, inbox>> PROVE  NoticeOf(q)'
  BY <1>0, <1>16, NoticeKept DEF TakesSlot, Notifies
<1> QED
  BY <1>1, <1>2, <1>3, <1>4, <1>5, <1>6, <1>7, <1>8, <1>9, <1>10, <1>11,
     <1>12, <1>13, <1>14, <1>15, <1>16, Actions
     DEF RegisterRefused, locks, vars

----------------------------------------------------------------------------
\* Before the first registration nothing is held, due or under way.
LEMMA InitInv == Init => IInv
<1> SUFFICES ASSUME Init PROVE IInv
  OBVIOUS
<1>1. TypeOK
  BY ResponseAssumption DEF Init, TypeOK, PCs
<1>2. ProcInv /\ LockInv /\ DropInv
  BY ResponseAssumption DEF Init, ProcInv, LockInv, DropInv, Procs
<1>3. SlotInv /\ EntriesMatchLeases /\ AnswerInv
  BY ResponseAssumption, KeyType
     DEF Init, SlotInv, EntriesMatchLeases, AnswerInv, Procs
<1>4. NoticeInv
  BY ResponseAssumption
     DEF Init, NoticeInv, NoticeOf, TakesSlot, Notifies, Procs
<1> QED  BY <1>1, <1>2, <1>3, <1>4 DEF IInv

\* The conjuncts of the inductive invariant, together.
LEMMA StepInv == IInv /\ [Next]_vars => IInv'
BY TypeStep, ProcStep, LockStep, SlotStep, EntryStep, DropStep, AnswerStep,
   NoticeStep DEF IInv

\* The inductive invariant holds in every reachable state.
LEMMA Invariance == Spec => []IInv
BY InitInv, StepInv, PTL DEF Spec

\* Every variable of the registry keeps its type.
THEOREM TypeCorrect == Spec => []TypeOK
<1>1. IInv => TypeOK
  BY DEF IInv
<1> QED  BY <1>1, Invariance, PTL

\* A key leads to the slot of exactly the lease held under it, however drops,
\* registrations and repeated sessions interleave (register, Lease::drop).
THEOREM EntriesCorrect == Spec => []EntriesMatchLeases
<1>1. IInv => EntriesMatchLeases
  BY DEF IInv
<1> QED  BY <1>1, Invariance, PTL

\* No row buffer stays in a slot whose lease has been dropped, whatever publish
\* had found before the drop.
THEOREM NothingIsRetained == Spec => []NothingRetained
<1>1. IInv => NothingRetained
  BY DEF IInv, SlotInv, NothingRetained
<1> QED  BY <1>1, Invariance, PTL

\* take() never hands a waiter the answer to another request.
THEOREM AnswersAreOwn == Spec => []OwnAnswer
<1>1. IInv => OwnAnswer
  BY DEF IInv, SlotInv, OwnAnswer
<1> QED  BY <1>1, Invariance, PTL

\* A process that holds a slot's lock is in its critical section there, and
\* waits for no other lock.
LEMMA HoldersGoOn ==
    ASSUME IInv, NEW r \in Requests, ~Free(slotLock[r])
    PROVE  \E p \in Procs : pc[p] # "idle" /\ ~Blocked(p)
<1>1. slotLock[r] \in Procs
  BY DEF IInv, TypeOK, Free
<1>2. pc[slotLock[r]] \in {"publishing", "taking", "dropping", "counting"}
  BY <1>1 DEF IInv, LockInv
<1>3. pc[slotLock[r]] # "idle" /\ ~Blocked(slotLock[r])
  BY <1>2 DEF Blocked
<1> QED  BY <1>1, <1>3

\* The mutexes of the registry and of its slots admit no deadlock: whatever is
\* under way, one operation can go on (Lease::drop, counts, publish, take).
THEOREM LocksCannotDeadlock == Spec => []NoLockCycle
<1>1. IInv => NoLockCycle
  <2> SUFFICES ASSUME IInv PROVE NoLockCycle
    OBVIOUS
  <2>1. ASSUME NEW s \in Shards, ~Free(shardLock[s])
        PROVE  pc[shardLock[s]] # "idle"
    <3>1. shardLock[s] \in Procs
      BY <2>1 DEF IInv, TypeOK, Free
    <3> QED  BY <3>1 DEF IInv, LockInv
  <2>2. ASSUME NEW p \in Procs, pc[p] # "idle"
        PROVE  \E q \in Procs : pc[q] # "idle" /\ ~Blocked(q)
    <3>1. CASE ~Blocked(p)
      BY <2>2, <3>1
    <3>2. CASE pc[p] \in {"publish", "take", "drop"} /\ Blocked(p)
      <4>1. ref[p] \in Requests /\ ~Free(slotLock[ref[p]])
        BY <3>2 DEF Blocked, IInv, TypeOK, ProcInv
      <4> QED  BY <4>1, HoldersGoOn
    <3>3. CASE pc[p] = "count" /\ Blocked(p)
      <4>1. p \in Owners
        BY <3>3 DEF IInv, ProcInv, Procs
      <4>2. PICK r \in toCount[p] : ~Free(slotLock[r])
        BY <3>3 DEF Blocked
      <4>3. r \in Requests
        BY <4>1, <4>2 DEF IInv, TypeOK
      <4> QED  BY <4>2, <4>3, HoldersGoOn
    <3> QED  BY <3>1, <3>2, <3>3 DEF Blocked
  <2> QED  BY <2>1, <2>2 DEF NoLockCycle
<1> QED  BY <1>1, Invariance, PTL

\* Between two native calls a process holds no mutex and no strong Arc.
THEOREM IdleIsClean == Spec => []IdleHoldsNothing
<1>1. IInv => IdleHoldsNothing
  BY DEF IInv, ProcInv, LockInv, IdleHoldsNothing, HoldsNothing
<1> QED  BY <1>1, Invariance, PTL

----------------------------------------------------------------------------
\* A step that changes the mailbox of one request only.
LEMMA OneMoves ==
    ASSUME NEW c \in Requests, NEW from, NEW to,
           BoxOf(c) \in from, BoxOf(c)' = to,
           \A q \in Requests \ {c} : BoxOf(q)' = BoxOf(q)
    PROVE  Mailbox!Move(c, from, to)
BY DEF Mailbox!Move

\* A step that changes none.
LEMMA NoneMoves ==
    ASSUME \A q \in Requests : BoxOf(q)' = BoxOf(q)
    PROVE  UNCHANGED [r \in Requests |-> BoxOf(r)]
OBVIOUS

\* register() opens the mailbox of its request.
LEMMA RegisterOpens ==
    ASSUME IInv, NEW o \in Owners, NEW r \in Requests, Register(o, r)
    PROVE  Mailbox!Open(r)
<1>1. /\ lease[r] = "free" /\ lease' = [lease EXCEPT ![r] = "held"]
      /\ slot' = [slot EXCEPT ![r] = [active |-> TRUE, value |-> NoReq]]
      /\ got' = got
  BY DEF Register
<1>2. BoxOf(r) \in {"none"} /\ BoxOf(r)' = "waiting"
  BY <1>1 DEF BoxOf, IInv, TypeOK
<1>3. \A q \in Requests \ {r} : BoxOf(q)' = BoxOf(q)
  BY <1>1 DEF BoxOf, IInv, TypeOK
<1> QED  BY <1>2, <1>3, OneMoves DEF Mailbox!Open

\* publish() delivers at most once: a slot that does not accept is untouched.
LEMMA PublishDelivers ==
    ASSUME IInv, NEW w \in Workers, PublishStore(w)
    PROVE  \/ \E r \in Requests : Mailbox!Deliver(r)
           \/ UNCHANGED [r \in Requests |-> BoxOf(r)]
<1>1. PICK r \in Requests : PublishStored(w)!(r)
  BY PublishStores DEF PublishStored
<1>2. UNCHANGED <<lease, got>>
  BY <1>1
<1>3. CASE slot' = slot
  BY <1>2, <1>3, NoneMoves DEF BoxOf
<1>4. CASE /\ slot[r].active /\ slot[r].value = NoReq
           /\ slot' = [slot EXCEPT ![r] = [active |-> TRUE, value |-> r]]
  <2>1. BoxOf(r) \in {"waiting"} /\ BoxOf(r)' = "ready"
    BY <1>2, <1>4, Kinds DEF BoxOf, IInv, TypeOK, SlotInv
  <2>2. \A q \in Requests \ {r} : BoxOf(q)' = BoxOf(q)
    BY <1>2, <1>4 DEF BoxOf, IInv, TypeOK
  <2> QED  BY <2>1, <2>2, OneMoves DEF Mailbox!Deliver
<1> QED  BY <1>1, <1>3, <1>4

\* take() is only reached with a ready slot, and reads it once.
LEMMA TakeTakes ==
    ASSUME IInv, NEW o \in Owners, TakeValue(o)
    PROVE  \E r \in Requests : Mailbox!Take(r)
<1>1. PICK r \in Requests : r = ref[o] /\ TakesSlot(o, r)
  BY Kinds DEF TakeValue, TakesSlot, IInv, TypeOK, ProcInv
<1>2. lease[r] = "held" /\ slot[r].active /\ slot[r].value = r
  BY <1>1 DEF IInv, NoticeInv, NoticeOf, Ready
<1>3. /\ got' = [got EXCEPT ![r] = r] /\ lease' = lease
      /\ slot' = [slot EXCEPT ![r] = [active |-> FALSE, value |-> NoReq]]
  BY <1>1, <1>2 DEF TakeValue, Emptied, IInv, TypeOK
<1>4. BoxOf(r) \in {"ready"} /\ BoxOf(r)' = "taken"
  BY <1>2, <1>3, Kinds DEF BoxOf, IInv, TypeOK
<1>5. \A q \in Requests \ {r} : BoxOf(q)' = BoxOf(q)
  BY <1>3 DEF BoxOf, IInv, TypeOK
<1> QED  BY <1>4, <1>5, OneMoves DEF Mailbox!Take

\* Lease::drop abandons what was not taken and leaves what was alone.
LEMMA DropAbandons ==
    ASSUME IInv, NEW o \in Owners, DropValue(o)
    PROVE  \/ \E r \in Requests : Mailbox!Abandon(r)
           \/ UNCHANGED [r \in Requests |-> BoxOf(r)]
<1>1. PICK r \in Requests : r = ref[o] /\ lease[r] = "dropping"
  BY Kinds DEF DropValue, IInv, TypeOK, ProcInv, DropInv
<1>2. /\ got' = got /\ lease' = [lease EXCEPT ![r] = "dropped"]
      /\ slot' = [slot EXCEPT ![r] = [active |-> FALSE, value |-> NoReq]]
  BY <1>1 DEF DropValue, Discarded
<1>3. \A q \in Requests \ {r} : BoxOf(q)' = BoxOf(q)
  BY <1>2 DEF BoxOf, IInv, TypeOK
<1>4. CASE slot[r].active
  <2>1. got[r] = NoReq
    BY <1>4 DEF IInv, SlotInv
  <2>2. BoxOf(r) \in {"waiting", "ready"} /\ BoxOf(r)' = "abandoned"
    BY <1>1, <1>2, <1>4, <2>1 DEF BoxOf, IInv, TypeOK
  <2> QED  BY <1>3, <2>2, OneMoves DEF Mailbox!Abandon
<1>5. CASE ~slot[r].active
  <2>1. BoxOf(r)' = BoxOf(r)
    BY <1>1, <1>2, <1>5 DEF BoxOf, IInv, TypeOK
  <2> QED  BY <1>3, <2>1, NoneMoves
<1> QED  BY <1>4, <1>5

\* From here on an entry is gone, but what the slot stands for is the same.
LEMMA EntryDropStutters ==
    ASSUME IInv, NEW o \in Owners, NEW r \in Requests, DropEntry(o, r)
    PROVE  UNCHANGED [q \in Requests |-> BoxOf(q)]
<1>1. /\ lease[r] = "held" /\ lease' = [lease EXCEPT ![r] = "dropping"]
      /\ UNCHANGED <<slot, got>>
  BY DEF DropEntry
<1>2. \A q \in Requests : BoxOf(q)' = BoxOf(q)
  BY <1>1 DEF BoxOf, IInv, TypeOK
<1> QED  BY <1>2, NoneMoves

\* The registry implements SqlxMailbox: each registered reply is opened once,
\* filled at most once, read at most once, and abandoned only unread.
THEOREM MailboxCorrect == Spec => ImplementsMailbox
<1>1. Init => Mailbox!Init
  BY DEF Init, Mailbox!Init, BoxOf
<1>2. IInv /\ [Next]_vars => [Mailbox!Next]_([r \in Requests |-> BoxOf(r)])
  <2> SUFFICES ASSUME IInv, [Next]_vars,
                      ~(UNCHANGED [r \in Requests |-> BoxOf(r)])
               PROVE  Mailbox!Next
    OBVIOUS
  <2>1. ASSUME NEW o \in Owners, NEW r \in Requests, Register(o, r)
        PROVE  Mailbox!Next
    BY <2>1, RegisterOpens DEF Mailbox!Next
  <2>2. ASSUME NEW w \in Workers, PublishStore(w) PROVE Mailbox!Next
    BY <2>2, PublishDelivers DEF Mailbox!Next
  <2>3. ASSUME NEW o \in Owners, TakeValue(o) PROVE Mailbox!Next
    BY <2>3, TakeTakes DEF Mailbox!Next
  <2>4. ASSUME NEW o \in Owners, DropValue(o) PROVE Mailbox!Next
    BY <2>4, DropAbandons DEF Mailbox!Next
  <2>5. ASSUME NEW o \in Owners, NEW r \in Requests, DropEntry(o, r)
        PROVE  Mailbox!Next
    BY <2>5, EntryDropStutters
  <2>6. ~UNCHANGED <<lease, slot, got>>
    BY DEF BoxOf
  <2> QED
    BY <2>1, <2>2, <2>3, <2>4, <2>5, <2>6, Actions
       DEF RegisterRefused, TakeFind, TakeLock, DropLock, CountShard,
           CountLock, CountSlot, CountDone, PublishFind, PublishLock, Notify,
           vars
<1> QED
  BY <1>1, <1>2, Invariance, PTL DEF Spec, ImplementsMailbox, Mailbox!Spec
=============================================================================

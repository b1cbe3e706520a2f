---------------------------- MODULE SqlxResponse ---------------------------
(***************************************************************************)
(* The response registry of the SQLx module (sqlx_response.rs): a sharded  *)
(* map from (owner, session) to a weak pointer at the slot a lease owns.   *)
(* Lua services register, take, drop and count; tokio workers publish.     *)
(* Every lock acquisition is a step of its own where a second lock is      *)
(* taken while it is held; a critical section that takes no further lock   *)
(* is one step.                                                            *)
(*                                                                         *)
(* A request stands for one call of register and for the slot it creates,  *)
(* so a map entry (a Weak pointer) is the request whose slot it points at. *)
(* A published value is named by the request it answers.                   *)
(***************************************************************************)
EXTENDS Naturals, FiniteSets

CONSTANTS
    Owners,         \* Lua services: single threads, one native call at a time
    Workers,        \* tokio worker threads that run answering tasks
    Requests,       \* calls of register; each is made once
    Sessions,       \* session numbers handed out by the Moon host
    Shards,         \* the registry's mutex-protected maps
    OwnerOf,        \* the service that makes each request
    SessionOf,      \* the session the host gives it
    ShardOf,        \* the hash of a key to its shard
    NoReq, Nobody,
    MaxAnswers,     \* bound: answers published for one request
    MaxVisits       \* bound: shard visits made by counts()

Procs == Owners \cup Workers
Keys  == Owners \X Sessions

ASSUME ResponseAssumption ==
    /\ Owners \cap Workers = {}
    /\ OwnerOf   \in [Requests -> Owners]
    /\ SessionOf \in [Requests -> Sessions]
    /\ ShardOf   \in [Keys -> Shards]
    /\ NoReq \notin Requests
    /\ Nobody \notin Procs
    /\ MaxAnswers \in Nat
    /\ MaxVisits \in Nat

VARIABLES
    entry,      \* the maps: entry[k] is the slot key k points at, or NoReq
    lease,      \* the Lease userdata: "free", "held", "dropping", "dropped"
    slot,       \* the slots: is the call still active, and the stored value
    shardLock,  \* the process that holds each shard's mutex, or Nobody
    slotLock,   \* the process that holds each slot's mutex, or Nobody
    pc,         \* where each process stands
    ref,        \* the slot a process has upgraded its Weak pointer to
    job,        \* the request a worker is answering
    due,        \* answers still to be published for a request
    inbox,      \* keys of integer messages sent to a service, not yet decoded
    toCount,    \* slots a counting service has still to visit in its shard
    visits,     \* shard visits left to counts()
    got         \* history: the value take() returned for a request's slot

vars == <<entry, lease, slot, shardLock, slotLock, pc, ref, job, due, inbox,
          toCount, visits, got>>
locks == <<shardLock, slotLock>>

PCs == {"idle", "publish", "publishing", "notify", "take", "taking",
        "drop", "dropping", "count", "counting"}

TypeOK ==
    /\ entry \in [Keys -> Requests \cup {NoReq}]
    /\ lease \in [Requests -> {"free", "held", "dropping", "dropped"}]
    /\ slot  \in [Requests -> [active : BOOLEAN, value : Requests \cup {NoReq}]]
    /\ shardLock \in [Shards -> Procs \cup {Nobody}]
    /\ slotLock  \in [Requests -> Procs \cup {Nobody}]
    /\ pc  \in [Procs -> PCs]
    /\ ref \in [Procs -> Requests \cup {NoReq}]
    /\ job \in [Workers -> Requests \cup {NoReq}]
    /\ due \in [Requests -> 0..MaxAnswers]
    /\ inbox \subseteq Keys
    /\ toCount \in [Owners -> SUBSET Requests]
    /\ visits \in 0..MaxVisits
    /\ got \in [Requests -> Requests \cup {NoReq}]

Init ==
    /\ entry = [k \in Keys |-> NoReq]
    /\ lease = [r \in Requests |-> "free"]
    /\ slot  = [r \in Requests |-> [active |-> FALSE, value |-> NoReq]]
    /\ shardLock = [s \in Shards |-> Nobody]
    /\ slotLock  = [r \in Requests |-> Nobody]
    /\ pc  = [p \in Procs |-> "idle"]
    /\ ref = [p \in Procs |-> NoReq]
    /\ job = [w \in Workers |-> NoReq]
    /\ due = [r \in Requests |-> 0]
    /\ inbox = {}
    /\ toCount = [o \in Owners |-> {}]
    /\ visits = MaxVisits
    /\ got = [r \in Requests |-> NoReq]

----------------------------------------------------------------------------
\* The key of a request: owner and session together.
KeySessionOnly(r) == <<CHOOSE o \in Owners : TRUE, SessionOf[r]>>
Key(r) == <<OwnerOf[r], SessionOf[r]>>

Shard(r) == ShardOf[Key(r)]

\* Weak::upgrade succeeds while the lease or a process holds a strong Arc.
Alive(r) == lease[r] \in {"held", "dropping"} \/ \E p \in Procs : ref[p] = r

\* find(): the slot a key leads to, NoReq when there is none to upgrade.
Find(k) == IF entry[k] # NoReq /\ Alive(entry[k]) THEN entry[k] ELSE NoReq

Free(lock) == lock = Nobody

\* Moon's next_sequence (external): a service's session number comes back
\* only when nothing of its previous use is still under way.
SameSession(q, r) == OwnerOf[q] = OwnerOf[r] /\ SessionOf[q] = SessionOf[r]

FreshSession(r) ==
    /\ <<OwnerOf[r], SessionOf[r]>> \notin inbox
    /\ \A q \in Requests \ {r} : SameSession(q, r) =>
          due[q] = 0 /\ \A w \in Workers : job[w] # q

Goto(p, at) == pc' = [pc EXCEPT ![p] = at]
Upgrade(p, r) == ref' = [ref EXCEPT ![p] = r]

----------------------------------------------------------------------------
\* register(): under the shard lock, refuse a key whose slot is still alive.
RegisterBlind(o, r) ==
    /\ pc[o] = "idle" /\ OwnerOf[r] = o /\ lease[r] = "free"
    /\ FreshSession(r)
    /\ Free(shardLock[Shard(r)])
    /\ entry' = [entry EXCEPT ![Key(r)] = r]
    /\ lease' = [lease EXCEPT ![r] = "held"]
    /\ slot'  = [slot EXCEPT ![r] = [active |-> TRUE, value |-> NoReq]]
    /\ \E n \in 0..MaxAnswers : due' = [due EXCEPT ![r] = n]
    /\ UNCHANGED <<locks, pc, ref, job, inbox, toCount, visits, got>>

Register(o, r) ==
    /\ pc[o] = "idle" /\ OwnerOf[r] = o /\ lease[r] = "free"
    /\ FreshSession(r)
    /\ Free(shardLock[Shard(r)])
    /\ Find(Key(r)) = NoReq
    /\ entry' = [entry EXCEPT ![Key(r)] = r]
    /\ lease' = [lease EXCEPT ![r] = "held"]
    /\ slot'  = [slot EXCEPT ![r] = [active |-> TRUE, value |-> NoReq]]
    /\ \E n \in 0..MaxAnswers : due' = [due EXCEPT ![r] = n]
    /\ UNCHANGED <<locks, pc, ref, job, inbox, toCount, visits, got>>

\* The refused registration changes nothing: its caller gets a Lua error.
RegisterRefused(o, r) ==
    /\ pc[o] = "idle" /\ OwnerOf[r] = o /\ lease[r] = "free"
    /\ Free(shardLock[Shard(r)])
    /\ Find(Key(r)) # NoReq
    /\ UNCHANGED vars

----------------------------------------------------------------------------
\* publish(), first half: find the slot under the shard lock, then let go.
PublishFind(w, r) ==
    /\ pc[w] = "idle" /\ due[r] > 0
    /\ Free(shardLock[Shard(r)])
    /\ due' = [due EXCEPT ![r] = @ - 1]
    /\ IF Find(Key(r)) = NoReq
         THEN UNCHANGED <<pc, ref, job>>        \* the value is dropped
         ELSE /\ Upgrade(w, Find(Key(r)))
              /\ job' = [job EXCEPT ![w] = r]
              /\ Goto(w, "publish")
    /\ UNCHANGED <<entry, lease, slot, locks, inbox, toCount, visits, got>>

PublishLock(w) ==
    /\ pc[w] = "publish" /\ Free(slotLock[ref[w]])
    /\ slotLock' = [slotLock EXCEPT ![ref[w]] = w]
    /\ Goto(w, "publishing")
    /\ UNCHANGED <<entry, lease, slot, shardLock, ref, job, due, inbox,
                   toCount, visits, got>>

\* A slot that was abandoned, taken or already filled accepts no value.
AcceptsOnlyFull(r) == slot[r].active /\ slot[r].value # NoReq
AcceptsWhenEmpty(r) == slot[r].value = NoReq
Accepts(r) == slot[r].active /\ slot[r].value = NoReq

\* send_response: notify the waiter only when publish stored the value.
AfterPublish(stored) == IF stored THEN "notify" ELSE "idle"

\* publish(), second half, under the slot lock.
PublishStore(w) ==
    LET r == ref[w] IN
    /\ pc[w] = "publishing"
    /\ IF Accepts(r)
         THEN slot' = [slot EXCEPT ![r].value = job[w]]
         ELSE UNCHANGED slot
    /\ slotLock' = [slotLock EXCEPT ![r] = Nobody]
    /\ Goto(w, AfterPublish(Accepts(r)))
    /\ Upgrade(w, NoReq)
    /\ job' = [job EXCEPT ![w] = IF AfterPublish(Accepts(r)) = "notify"
                                   THEN @ ELSE NoReq]
    /\ UNCHANGED <<entry, lease, shardLock, due, inbox, toCount, visits, got>>

\* send_response: the integer message that wakes the waiting coroutine.
Notify(w) ==
    /\ pc[w] = "notify"
    /\ inbox' = inbox \cup {Key(job[w])}
    /\ job' = [job EXCEPT ![w] = NoReq]
    /\ Goto(w, "idle")
    /\ UNCHANGED <<entry, lease, slot, locks, ref, due, toCount, visits, got>>

----------------------------------------------------------------------------
\* decode(): a message makes its service take the value of that key.
TakeFind(o, k) ==
    /\ pc[o] = "idle" /\ k \in inbox /\ k[1] = o
    /\ Free(shardLock[ShardOf[k]])
    /\ inbox' = inbox \ {k}
    /\ IF Find(k) = NoReq
         THEN UNCHANGED <<pc, ref>>     \* "invalid, already consumed, or expired"
         ELSE Upgrade(o, Find(k)) /\ Goto(o, "take")
    /\ UNCHANGED <<entry, lease, slot, locks, job, due, toCount, visits, got>>

TakeLock(o) ==
    /\ pc[o] = "take" /\ Free(slotLock[ref[o]])
    /\ slotLock' = [slotLock EXCEPT ![ref[o]] = o]
    /\ Goto(o, "taking")
    /\ UNCHANGED <<entry, lease, slot, shardLock, ref, job, due, inbox,
                   toCount, visits, got>>

\* One-shot: the slot is deactivated and emptied in the same section.
EmptiedButActive(s) == [s EXCEPT !.value = NoReq]
Emptied(s) == [active |-> FALSE, value |-> NoReq]

TakeValue(o) ==
    LET r == ref[o] IN
    /\ pc[o] = "taking"
    /\ got'  = [got EXCEPT ![r] = slot[r].value]
    /\ slot' = [slot EXCEPT ![r] = Emptied(@)]
    /\ slotLock' = [slotLock EXCEPT ![r] = Nobody]
    /\ Upgrade(o, NoReq) /\ Goto(o, "idle")
    /\ UNCHANGED <<entry, lease, shardLock, job, due, inbox, toCount, visits>>

----------------------------------------------------------------------------
\* Lease::drop: __close or __gc at any moment the service is not in a call.
\* The entry goes only if it still points at this lease's own slot.
DropEntryKept(o, r) ==
    /\ pc[o] = "idle" /\ OwnerOf[r] = o /\ lease[r] = "held"
    /\ Free(shardLock[Shard(r)])
    /\ shardLock' = [shardLock EXCEPT ![Shard(r)] = o]
    /\ lease' = [lease EXCEPT ![r] = "dropping"]
    /\ Upgrade(o, r) /\ Goto(o, "drop")
    /\ UNCHANGED <<entry, slot, slotLock, job, due, inbox, toCount, visits, got>>

DropEntry(o, r) ==
    /\ pc[o] = "idle" /\ OwnerOf[r] = o /\ lease[r] = "held"
    /\ Free(shardLock[Shard(r)])
    /\ shardLock' = [shardLock EXCEPT ![Shard(r)] = o]
    /\ entry' = IF entry[Key(r)] = r THEN [entry EXCEPT ![Key(r)] = NoReq] ELSE entry
    /\ lease' = [lease EXCEPT ![r] = "dropping"]
    /\ Upgrade(o, r) /\ Goto(o, "drop")
    /\ UNCHANGED <<slot, slotLock, job, due, inbox, toCount, visits, got>>

\* The slot lock is taken inside the shard lock.
DropLock(o) ==
    /\ pc[o] = "drop" /\ Free(slotLock[ref[o]])
    /\ slotLock' = [slotLock EXCEPT ![ref[o]] = o]
    /\ Goto(o, "dropping")
    /\ UNCHANGED <<entry, lease, slot, shardLock, ref, job, due, inbox,
                   toCount, visits, got>>

\* Deactivate, take the value out, release both locks, drop the value.
Discarded(s) == [active |-> FALSE, value |-> NoReq]

DropValue(o) ==
    LET r == ref[o] IN
    /\ pc[o] = "dropping"
    /\ slot' = [slot EXCEPT ![r] = Discarded(@)]
    /\ lease' = [lease EXCEPT ![r] = "dropped"]
    /\ slotLock'  = [slotLock EXCEPT ![r] = Nobody]
    /\ shardLock' = [shardLock EXCEPT ![Shard(r)] = Nobody]
    /\ Upgrade(o, NoReq) /\ Goto(o, "idle")
    /\ UNCHANGED <<entry, job, due, inbox, toCount, visits, got>>

----------------------------------------------------------------------------
\* counts(): hold one shard's lock and lock each of its live slots in turn.
\* The two tallies it returns are left out; they change no state.
CountShard(o, s) ==
    /\ pc[o] = "idle" /\ visits > 0
    /\ Free(shardLock[s])
    /\ visits' = visits - 1
    /\ shardLock' = [shardLock EXCEPT ![s] = o]
    /\ toCount' = [toCount EXCEPT ![o] =
                     {r \in Requests : Shard(r) = s /\ Find(Key(r)) = r}]
    /\ Goto(o, "count")
    /\ UNCHANGED <<entry, lease, slot, slotLock, ref, job, due, inbox, got>>

CountLock(o, r) ==
    /\ pc[o] = "count" /\ r \in toCount[o]
    /\ Free(slotLock[r])
    /\ slotLock' = [slotLock EXCEPT ![r] = o]
    /\ toCount' = [toCount EXCEPT ![o] = @ \ {r}]
    /\ Upgrade(o, r) /\ Goto(o, "counting")
    /\ UNCHANGED <<entry, lease, slot, shardLock, job, due, inbox, visits, got>>

CountSlotHolding(o) ==
    /\ pc[o] = "counting"
    /\ Upgrade(o, NoReq) /\ Goto(o, "count")
    /\ UNCHANGED <<entry, lease, slot, locks, job, due, inbox, toCount,
                   visits, got>>

CountSlot(o) ==
    /\ pc[o] = "counting"
    /\ slotLock' = [slotLock EXCEPT ![ref[o]] = Nobody]
    /\ Upgrade(o, NoReq) /\ Goto(o, "count")
    /\ UNCHANGED <<entry, lease, slot, shardLock, job, due, inbox, toCount,
                   visits, got>>

CountDone(o) ==
    /\ pc[o] = "count" /\ toCount[o] = {}
    /\ shardLock' = [s \in Shards |-> IF shardLock[s] = o THEN Nobody
                                                          ELSE shardLock[s]]
    /\ Goto(o, "idle")
    /\ UNCHANGED <<entry, lease, slot, slotLock, ref, job, due, inbox, toCount,
                   visits, got>>

----------------------------------------------------------------------------
\* The steps that finish an operation already begun.
WorkerStep(w) == PublishLock(w) \/ PublishStore(w) \/ Notify(w)

OwnerStep(o) ==
    \/ TakeLock(o) \/ TakeValue(o)
    \/ DropLock(o) \/ DropValue(o)
    \/ CountSlot(o) \/ CountDone(o)
    \/ \E r \in Requests : CountLock(o, r)

Next ==
    \/ \E o \in Owners, r \in Requests :
          Register(o, r) \/ RegisterRefused(o, r) \/ DropEntry(o, r)
    \/ \E o \in Owners, k \in Keys : TakeFind(o, k)
    \/ \E o \in Owners, s \in Shards : CountShard(o, s)
    \/ \E o \in Owners : OwnerStep(o)
    \/ \E w \in Workers, r \in Requests : PublishFind(w, r)
    \/ \E w \in Workers : WorkerStep(w)

\* Native calls run to their end and tokio polls a ready task; nothing is
\* assumed about when a service starts a call or closes a lease.
Fairness ==
    /\ \A o \in Owners : WF_vars(OwnerStep(o))
    /\ \A w \in Workers : /\ WF_vars(WorkerStep(w))
                          /\ WF_vars(\E r \in Requests : PublishFind(w, r))

Spec == Init /\ [][Next]_vars
FairSpec == Spec /\ Fairness

----------------------------------------------------------------------------
\* A key leads exactly to the slot of the lease that is held under it: no
\* entry outlives its lease and no live lease loses its entry (register's
\* in-use test and the ptr_eq guard in Lease::drop).
EntriesMatchLeases ==
    /\ \A k \in Keys : entry[k] # NoReq =>
          Key(entry[k]) = k /\ lease[entry[k]] = "held"
    /\ \A r \in Requests : lease[r] = "held" => entry[Key(r)] = r

\* A process between two native calls holds no lock and no strong Arc, which
\* would keep the slot of a dropped lease alive and its key in use.
HoldsNothing(p) ==
    /\ ref[p] = NoReq
    /\ \A s \in Shards : shardLock[s] # p
    /\ \A r \in Requests : slotLock[r] # p

IdleHoldsNothing == \A p \in Procs : pc[p] = "idle" => HoldsNothing(p)

\* Once a lease is dropped no row buffer stays in its slot, however the drop
\* raced with a publish that had already found the slot.
NothingRetained ==
    \A r \in Requests : lease[r] = "dropped" => slot[r].value = NoReq

\* A waiter is only ever handed the answer to its own request, although
\* sessions repeat and different services use the same session numbers.
OwnAnswer == \A r \in Requests : got[r] \in {NoReq, r}

\* The slot lock a process takes next is held by another; all other steps of
\* an operation that has begun wait for nothing.
Blocked(p) ==
    \/ pc[p] \in {"publish", "take", "drop"} /\ ~Free(slotLock[ref[p]])
    \/ /\ pc[p] = "count" /\ toCount[p] # {}
       /\ \A r \in toCount[p] : ~Free(slotLock[r])

\* The lock order registry -> slot (Lease::drop and counts) admits no
\* deadlock: whenever an operation is under way, or a shard's lock keeps one
\* from beginning, some operation under way can go on.
NoLockCycle ==
    /\ \A s \in Shards : ~Free(shardLock[s]) => pc[shardLock[s]] # "idle"
    /\ (\E p \in Procs : pc[p] # "idle") =>
          \E p \in Procs : pc[p] # "idle" /\ ~Blocked(p)

\* An answer that is due reaches a waiter that stays: every held, empty slot
\* with an answer outstanding is filled, unless its lease is dropped.
DueAnswerArrives ==
    \A r \in Requests :
        (lease[r] = "held" /\ due[r] > 0)
            ~> (slot[r].value = r \/ got[r] = r \/ lease[r] # "held")

\* The registry implements the one-shot mailbox of SqlxMailbox.
BoxOf(r) ==
    IF lease[r] = "free" THEN "none"
    ELSE IF slot[r].active
      THEN IF slot[r].value = NoReq THEN "waiting" ELSE "ready"
      ELSE IF got[r] # NoReq THEN "taken" ELSE "abandoned"

Mailbox == INSTANCE SqlxMailbox
             WITH Calls <- Requests, box <- [r \in Requests |-> BoxOf(r)]

ImplementsMailbox == Mailbox!Spec
============================================================================

# A verification development for lrust

lrust is a set of Rust extensions for the Moon actor framework: Lua services
(threads that run one native call at a time) call native modules, the modules
hand the work to a shared tokio runtime, and tasks of that runtime answer by
sending a message back to the service. This directory holds TLA+ models of that
machinery, TLC configurations that check them on small instances, and proofs
that TLAPS checks for every instance.

All paths below are relative to the repository; `lua_sqlx.rs`,
`sqlx_response.rs` etc. are in `crates/libs/lib-lualib/src/`.

## 1. The system

| component | code | state it keeps | how others reach it |
|---|---|---|---|
| response registry | `sqlx_response.rs`; `send_response`, `response_guard`, `decode` in `lua_sqlx.rs` | 32 mutex-protected maps (owner, session) -> Weak slot; one mutex per slot; the lease userdata | services register, take, drop and count; worker threads publish |
| connection actor | `lua_sqlx.rs`: `connect`, `enqueue_query`, `batch`, `transaction`, `close`, `find_connection`, `database_handler` | bounded mpsc queue, request counter, closing flag, closed watch, `DATABASE_CONNECTIONS`, the Lua handles | native calls of several services; close tasks; the handler task |
| request execution | `lua_sqlx.rs`: `DatabaseBackend`, `classify_execution`, `finish_request` | the open connection or none, the per-request phase flags | driven by the handler, one request at a time |
| reconnect policy | `sqlx_retry.rs` | delay, retry instant, log gate | called by the handler |
| connection names | `lua_sqlx.rs`: `connect`, `find_connection`, the end of `database_handler`, `stats` | `DATABASE_CONNECTIONS`: one entry per name, each with its identity | connect tasks, handlers, services |
| transaction builder | `lua_sqlx.rs`: `make_transaction`, `push_transaction_query`, `transaction` | the statement list in a userdata | native calls |
| safe Lua boundary | `sqlx_lua.rs`; `run_entry` in `lua_sqlx.rs` | the metatables in the Lua registry | every native call; finalizers |
| Lua wrapper | `lualib/sqlx.lua` | none across calls: options, leases, `try_connect` | services |
| value conversion, calendar | `lua_sqlx.rs`, `sqlx_pg_datetime.rs` | none | native calls |
| MongoDB actor | `lua_mongodb.rs`, `lualib/mongodb.lua` | unbounded queue, counter, `DATABASE_CONNECTIONSS` | as SQLx, without leases |
| SQL Server actor | `lua_tiberius.rs`, `lualib/sqlserver.lua` | bounded queue, counter, statement list | as SQLx, without leases |
| WebSocket client | `lua_websocket.rs` | `NET` map, a reader and a writer task per socket | services |
| HTTP client | `lua_http.rs`, `lib-core/src/context.rs` | client cache; one task per request | services |
| buffer, JSON, Excel, crypto, OpenDAL, Lua bindings | `buffer.rs`, `lua_json.rs`, `lua_excel.rs`, `lua_crypto.rs`, `opendal.lua`, `lib-lua-sys` | cursors of a buffer; otherwise none | native calls |

What is hard about it, and therefore what the models are about:

* **Threads share state without a common lock.** A native call reads the
  closing flag, bumps the counter and sends in separate steps; the handler, the
  close tasks and other services run in between.
* **Ownership decides life time.** A reply belongs to a lease that Lua may
  close or collect at any moment; an actor lives as long as somebody holds a
  sender; the registry only holds weak references.
* **Cancellation.** The request deadline drops the running operation at
  whatever await it stands, in the handshake, inside a transaction, in COMMIT.
* **Uncertainty.** After a lost answer nobody knows what the database did, and
  the caller must be told so: `not_executed` is a promise.

The properties that make each part correct, component by component:

* registry: one live slot per key, the answer goes to the request that asked,
  at most once, nothing is retained after the lease is gone, no deadlock;
* actor: the counter is the number of unfinished requests, Close is sent once,
  Closed means drained, accepted requests are carried out in order and finish,
  every close call is answered, an unreachable actor ends;
* execution: `not_executed` is never wrong, no connection is reused with
  something left on it, answers agree with the database, every request ends;
* policy: no attempt before the retry instant, cooldown only after failed
  attempts, no log line lost;
* MongoDB, SQL Server: the counter is off by no more than the calls under way,
  requests are carried out in order, what is lost was sent behind a Close, a
  fire-and-forget request to SQL Server is retried until it succeeds;
* WebSocket: frames delivered once and in order, reads answered once and in
  order, nothing sent after a closing frame, a timed read always answered;
* names: the latest generation of a name is found, only one takes requests, one
  that is no longer found ends;
* builder and boundary: no statement lost or doubled, a call sends its request
  and leaves a lease, or leaves nothing; every lease can be reclaimed;
* buffer: cursors within the allocation, a tape of bytes to its user;
* calendar, JSON: results equal to a reference definition.

## 2. Modules

| module | models | role |
|---|---|---|
| `SqlxMailbox` | a reply as its caller sees it: none, waiting, ready, taken, abandoned | abstract specification |
| `SqlxResponse` | the registry, lock by lock | implements `SqlxMailbox` |
| `SqlxFifo` | what a connection promises about order and closing | abstract specification |
| `SqlxActor` | one named connection and everything that reaches it; its replies are mailboxes of `SqlxMailbox` | implements `SqlxFifo` |
| `SqlxRetry` | backoff and log gate as operators | used by `SqlxExec` |
| `SqlxExec` | one request at a time through `database_handler` | |
| `SqlxResponse_proofs` | invariant and theorems of `SqlxResponse`, its refinement of `SqlxMailbox` | proofs |
| `SqlxActor_proofs` | invariant and theorems of `SqlxActor`, its refinement of `SqlxFifo` | proofs |
| `SqlxExec_proofs` | invariant and theorems of `SqlxExec`; the calendar of `Calendar` | proofs |
| `SqlxNames` | the generations of one connection name | |
| `SqlxNames_proofs` | invariant and theorems of `SqlxNames` | proofs |
| `SqlxNative` | the calls on a transaction builder, with Lua's finalizers and failing allocations | |
| `MongoActor` | one named MongoDB connection | |
| `LuaBindings_proofs` | invariants and theorems of `SqlxNative` and `MongoActor` | proofs |
| `TiberiusActor` | one named SQL Server connection | implements `SqlxFifo` |
| `TiberiusActor_proofs` | invariant and theorems of `TiberiusActor`, its refinement of `SqlxFifo` | proofs |
| `WebSocket` | one socket: reader, writer and the calls on it | its reads implement `SqlxFifo` |
| `WebSocket_proofs` | invariant and theorems of `WebSocket`, the refinement of `SqlxFifo` | proofs |
| `ByteTape` | what a buffer promises: a tape of bytes cut at the read position | abstract specification |
| `Buffer` | the byte buffer and its memory | implements `ByteTape` |
| `Buffer_proofs` | invariant of `Buffer`, its refinement of `ByteTape` | proofs |
| `PgDatetime`, `JsonCodec` | calendar and JSON as operators | |
| `Calendar` | the operators of `PgDatetime` against the Gregorian calendar | |
| `Codecs` | those, and JSON against what it is read back to | |
| `MCSqlxResponse`, `MCSqlxActor`, `MCSqlxExec`, `MCSqlxNames`, `MCSqlxNative`, `MCMongoActor`, `MCTiberiusActor`, `MCWebSocket`, `MCBuffer`, `MCCodecs` | instances for TLC | |

`SqlxFifo` was written for SQLx and serves three components: whatever a queue
and its single consumer do besides, requests are taken and finished in one
order, each once. Only SQLx promises something about closing, so the others
map `shut` to FALSE.

Three modules look at the SQLx connection from different distances. `SqlxActor`
follows one connection step by step and takes its entry under the name as a
flag; `SqlxNames` follows the entry through several connections and takes the
queue of each as a number and a Close; `SqlxNative` follows one service's stack
of native calls and takes the channel as something that accepts or refuses.
`SqlxExec` is what `SqlxActor` calls `Execute`.

### SqlxResponse

A request stands for one call of `register` and for the slot that call creates,
so a `Weak` pointer is simply the request whose slot it points at; it upgrades
while the lease or a process holds a strong `Arc` (`Alive`). An operation that
takes two locks is split at each of them (`DropEntry`, `DropLock`, `DropValue`;
`CountShard`, `CountLock`, `CountSlot`, `CountDone`), so is one that releases
the shard lock before it takes the slot lock (`PublishFind`, `PublishLock`,
`PublishStore`; `TakeFind`, `TakeLock`, `TakeValue`); a critical section without
a further lock is one action. `Notify` is the integer message of
`send_response`, `inbox` the messages not yet decoded. Session numbers come from
the host (`moon.next_sequence`, not in the repository): `FreshSession` assumes
that one is given out again only when no answer and no message of its previous
use is under way. The model lets an answering task answer up to `MaxAnswers`
times, since publish guards against duplicates.

### SqlxActor

The steps of a native call that touch shared state are separate actions:
`Check` (closing flag), `Count` (lease and `fetch_add`), `TrySend` or
`TrySendFails`, `Uncount`. `InCall` keeps a service from doing anything else in
between: it is one thread. The queue is tokio's bounded channel (external):
`InUse` counts queued messages and the permit already granted to a parked
sender, and a permit freed by `recv` goes to the parked sender first
(`HandOver`). `Strong` is the set of strong senders: handles, tasks about to
send Close, the connect task before it enters the handler, and the handle that
travels inside an undelivered answer. The handler's loop is `Recv`, `Execute`,
`Settle` (the decrement), `Respond`, and `RecvClose`, `LoopEnds`, `Retire`,
`Signal` on the way out; `Panic` drops the receiver with its queue. How a
request is carried out is one step here and a module of its own below.
`registered` is the entry this connection has under its name; the generations
of a name are the subject of `SqlxNames`.

### SqlxExec and SqlxRetry

`pc` stands at the awaits of `database_handler` and of the operation it calls;
the local steps between two awaits are separate actions where a guard or an
error path lies between them. The database is external: at each await it may
answer, fail, lose the link or stay silent. `wire` says what of an unfinished
exchange the connection holds - an open transaction, an exchange in flight, a
dead peer - and only commands that complete remove it. `started` is
`execution_started`, `before` whether `classify_execution` turned the answer
into its `...BeforeExecution` form. History variables record what was handed to
the database (`sent`), whether it keeps it (`durable`), what each caller was told
(`answer`) and the connect failures the log has to account for. Instants count
ticks finer than a millisecond (`TicksPerMs`), so that the rounding of
`retry_after_ms` is modelled; an `Option` that is `None` is the instant 0.

### SqlxNames

A generation is the `connect()` call that made it, so that `entry = g` is
`ptr_eq` on the identity. `insert` and the `swap` of the previous generation's
flag are two steps (`Insert`, `Swap`), with `prev` in between: two connect tasks
may be there at once, and handlers may retire. `find_connection` is `Look` (the
clone of the entry), `Upgrade` (flag and weak sender) and `RemoveStale`, which
compares identities as `Retire` does. A weak sender can be upgraded while
somebody holds a strong one (`Reachable`); a flag set between its two tests is
the same to the service as one set after both. `handles` includes the handle in
an answer that is not decoded yet. Where `closing` is set twice, by `close()` and
a takeover, only the first sends (`Send`). `stats()` reads the counters of the
entries; what a reader can conclude from it is `UnfoundEnds`: a generation that
it no longer shows serves its requests and ends. That includes that the advice
to wait until the counter of a name is 0 sees the latest generation only.

### SqlxNative

The model of what can happen at a Lua allocation: it fails, the Rust frames are
unwound and drop what they own (`Throw`), or it runs a finalizer, which is Lua
code and may make any native call. `frames` is that stack. A call stands still
where it allocates (`Allocating`) and nowhere else: the code keeps Lua out
between the creation of the lease userdata and the end of `try_send`, and the
model says so by giving "looking" and "guarded" no interruption. Lua runs no
finalizer inside a finalizer, so `MaxDepth` is 2 in the instance. The lease's
metatable is looked up (`Look`), built, which allocates, and stored (`Publish`);
`guard` is the metatable each lease got, and `Finalized` compares it with the
stored one, as `test_userdata` does. `StatementsKept` compares what was sent and
what the builder holds with what was pushed, cut where one request ends and the
next begins. `transaction()` is modelled with a session;
without one there is no lease, and nothing to interrupt.

### Buffer and ByteTape

The buffer's memory is a function from positions to bytes or `Junk`; `Grow` and
`Init` leave the capacity to `Vec`, which promises a least one only. `prepare` is
two choices, `Compact` and `Grow`, as in the code; the caller fills the slice it
got in the same step, and `lent` remembers how much of it is still outside the
length. `ByteTape` has no positions: what was consumed, what can be read, what is
filled in but not committed. A write may forget what was consumed. A commit of
more than was filled in exposes what the memory holds, as long as the capacity
allows it; the abstract specification says so. `unsafe_write`, `revert` and
`read_*` have obligations, stated as guards.

### PgDatetime, Calendar, JsonCodec and Codecs

The operators are translated line by line. A date or time is a record of its
fields. JSON text is a sequence of tokens: a string value is escaped by the code
and is one token, a key is not escaped, so `"quote"` stands for a key that breaks
the text. A table carries its entries in the order of `lua_next` and the border
that `rawlen` finds, which `lua_array_size` both uses and questions; the instance
has every border of every table. `Calendar` compares the dates with a calendar
that goes from day to day by the lengths of months (`NextDay`, `DayBefore`), and
times with the number of microseconds they stand for. The day that a timestamp's
date stands for is counted from January (`DayNumber`: whole years, their leap
days, the months before), where the code counts from March in eras of 400 years.
`Codecs` compares decoded text with the table it was made from, entry by entry.
`Restores`, its reference, looks at keys and values only: it uses neither
`ArrayShape`, the translation of `lua_array_size`, nor the text. Whether a table
is a list (`IsList`) is said from its set of keys: it is marked `__array`, or
unmarked with positive integers as its only keys, the largest of which Lua finds
as the length. One clause depends on the order of `lua_next`, as the code does:
a visit that starts at 1 must end at the largest key; otherwise a sequence such
as `{10, [3] = 30, [2] = 20}` is written as an object, or refused if integer keys
are not enabled. A list with a hole is an object too unless `enable_sparse_array`
is set. What does not come back has a name each:

* lost: an entry whose key is neither string nor integer (`Unnamed`), the entry
  with the empty key (`EmptyNamed`), whatever a table marked `__array` holds
  beside its places (`BesideList`), a foreign pointer that is the only element
  of a list (`LonePointer`), and the marks themselves;
* changed: an integral float (an integer), a float that is no i64 (0), a key that
  is the notation of an integer when number keys are enabled, a hole (`json.null`);
* refused: functions, too deep nesting, integer keys of an object without
  `enable_number_key` (`Encodable`, exactly);
* no JSON at all (`Legible`): NaN, a foreign pointer anywhere else, a key that
  needs an escape, and an object where an entry without a name left its comma
  (`StrayComma`, lua_json.rs:211). The last is a defect of the code that nothing
  in the repository speaks of; the property claims nothing of such text, so it
  does not depend on the comma being there.

### MongoActor and TiberiusActor

Both are the SQLx connection with less care, and are modelled with the same
variables so that the difference can be read off. The counter is incremented
after the send (`Send`, then `Count`), so the handler may be first and the count
negative. The connection task keeps a sender of its own, so `recv` never
reports an end: the handler stops only at a Close (`RecvClose`), drops the
receiver (`DropReceiver`) and with it what is still queued. Registry entries are
never removed; `Replace` is the takeover of the name. MongoDB's channel is
unbounded and its operations differ only in the driver call, so they are one
action, `Recv`, followed by `SendResult`. SQL Server's channel is bounded, its
`handle_result` retries a request without a session after a second for as long
as it fails (`Fails`, `Wake`), and close() needs room in the channel
(`CloseSent`, `CloseRefused`). `told` is what `M:close()` returns to Lua.

### WebSocket

`Read` and `Write` are the native calls, each one `try_send`; close() is a write
in `Closing`, and so is a ping, since the code sets `close` for it. The reader's
task takes one read at a time (`RecvRead`) and ends it by `Deliver`,
`ReadTimesOut` or `ReadFails`; after a failure it answers without looking at the
stream (`RecvClosed`). A timer only wins while no frame is there: `timeout`
polls the stream first. The writer's task ends with a closing frame or a failure
and drops what is queued. Neither task ends the other, as `try_join!` sees only
a task that panicked, and `NET` keeps both channels alive. A frame of the peer,
and the end of its stream (`Arrive`, `Hangup`), come at any time. A frame is
never one of the failures a read may end in (`WebSocketAssumption`): a reply is
a message with data or an error.

## 3. Runs

| run | what it shows | instance |
|---|---|---|
| `response` | entries match leases, nothing retained, own answer, no lock cycle, refinement of the mailbox; a due answer reaches a waiter that stays | 2 services, 2 workers, 3 requests on one session number and one shard, up to 2 answers each, one visit of `counts()` |
| `actor` | counter, single Close, Closed means drained, replies follow the requests, refinement of the FIFO; accepted requests finish, unreachable connections end, close calls are answered | 2 services, 2 requests (one without a session), 2 close calls and a replacement, queue of 2, a driver that may panic |
| `exec` | `not_executed`, clean reuse, honest answers, cooldown, log gate; every request ends | a query, a batch, a transaction of two statements, an empty one; one of them waited for, the others fire-and-forget; clock of 6 ticks, 2 per millisecond, delays 2 and 3 |
| `names` | the latest generation is found, one generation takes requests, one that is not found ends | 2 connect() calls of 2 services, one accepted request |
| `native` | statements kept, a call does everything or nothing | 3 transaction() and 2 push() calls on one builder, finalizers that call |
| `native_leases` | violation: a lease that nothing can reclaim | as above |
| `mongo` | the counter's lag, loss only behind a Close | 2 services, 3 operations (one waited for), a close |
| `tiberius` | the counter's lag, fire-and-forget requests succeed or are lost untried, refinement of the FIFO | 2 services, 3 requests (one waited for), a close, channel of 2, 2 failures of a request |
| `tiberius_close` | violation: a refused close() is not reported | channel of 1 |
| `websocket` | frames and reads in order, failures final, nothing sent after a closing frame and no write lost but behind one, a timed read is answered | 2 frames, 3 reads (one without timeout), 3 writes (one closing), channels of 1 and 2 |
| `buffer` | positions within the allocation, refinement of the tape | 2 bytes, slices of up to 2, capacity up to 4 |
| `codecs` | dates are Gregorian, instants are read back (both proved for all), JSON gives back every entry but for the named losses | 3000 days either way from 5 dates; 22 instants, each also as an offset; 118,000 pairs of a value and options: two and three entries in every order, with every border, and three levels of nesting, one more than `MaxDepth` |

`TypeOK` of each module is not among the runs' properties, since it shows
nothing about the code; it is proved where section 4 proves anything.

Two runs show that the code does not do what it says.

* `native_leases`: the metatable of the leases is built when the first lease is
  made (`sqlx_lua.rs:186-207`), and stored without looking whether one has been
  stored meanwhile. Its allocations may run a finalizer, and if that makes a
  native call with a session, the finalizer's lease gets a metatable of its own,
  which the outer call then replaces. From then on `test_userdata` does not
  recognise that lease: neither `__close` nor `__gc` nor the end of the Lua state
  drops it, and its session and answer stay in the registry. The test
  `sqlx_native_cases.rs:153` says that closing a state must reclaim unread
  responses. It takes a finalizer that queries, in the first query of a service.
* `tiberius_close`: `sqlserver.lua:107` documents "success boolean or error table"
  for `M:close()`, which returns nothing (`sqlserver.lua:109`). With a full channel
  the native call refuses, the connection stays open, and nobody is told.

Bounds. One session number used by two services and reused by one of them is
the smallest instance in which keys collide and repeat; one shard makes every
pair of locks meet. A queue of two behind two requests and a Close is full,
parks the close task, drains, and has requests on both sides of the Close. Two close calls and a replacement make every order of `swap`. The
clock lets one failure lead to a second with a doubled, capped delay, and a
muted log line be reported by the next one that passes. Two failures of a
SQL Server request are a first attempt and a retry that both fail; a Close with
requests of the other service on both sides of it shows what is lost and what is
not. Two generations of a name are the one that takes it and the one that had
it, in any overlap of their lives; a third would meet either in one of these
roles. Three transactions are one interrupted by another and a third that finds
what they left. A capacity of four with slices of two has compaction and growth
with bytes in front, behind, or both. The walks of the calendar cross a leap day
at the end of a 400-year era, the turn of the years -1, 0 and 1970, and the end
of the range; TLC counts with 32 bits, so a second has 4 microseconds there.
Tables of up to two entries, one of which may be a table, have every kind of
key, hole and border. Three reads are one being carried out, one queued and one refused, and an
untimed one among them blocks the others. `CHECK_DEADLOCK FALSE`
everywhere: each request is made once, so a finished system stops.

Fairness. `SqlxResponse`: a native call under way and an answering task
continue; nothing is assumed about when a service starts a call or drops a
lease. `SqlxActor`: tokio polls ready tasks, a native call runs to its end, and
every await of the handler is bounded by a deadline (`request_timeout`,
`connect_timeout`, one second for `close`); services need never do anything.
`SqlxExec`: the handler's own steps and the timers, never the database.
`SqlxNames`: the connect tasks, the handlers, the close tasks and native calls
under way. `WebSocket`: the reader's task, which tokio polls and
whose timer fires; not the writer, whose send has no deadline, and not the peer.
After a panic nothing finishes what was queued, and the code does not say it
should: `AcceptedFinish` and `UnreachableRetires` end in "lost" and "panicked"
then, and only then, while `ClosersAnswered` makes no exception.

## 4. Proofs

Every theorem is of the form `Spec => ...` (`MongoSpec` and `Tested` for the second
specifications of their modules) and holds for every value of the
constants that the module's named assumptions allow; these say that the
sets of the instance are sets of the right things (services and workers differ,
capacities are positive, sets that are counted are finite) and nothing about
their size. Each `*_proofs` module states one inductive invariant, `IInv`, as a
conjunction of named parts (`MongoInv` and `CaseInv` where a module holds a second
one), shows that every step keeps it, part by part or
action by action, and derives the properties from it. `IInv` was checked by TLC
on the instance of the component's run before it was proved, except for
`Buffer`, whose `IInv` is about every possible memory.

### SqlxResponse

`SqlxResponse_proofs` proves the invariants of `response`, and that the registry
implements `SqlxMailbox`. What makes the proof more than a
lock discipline is that a process goes on with what it found before it locked:

* `ProcInv`, `LockInv`: where each kind of process can stand, and that whoever
  holds a mutex is inside the critical section of that very slot or shard;
* `SlotInv`: what a slot holds at each stage of its lease's life; `active` is
  cleared before the lease is gone, and never set again;
* `EntriesMatchLeases` itself, `DropInv` (a service takes and drops only its
  own) and `AnswerInv`: while an answer of a session's previous use is due or in
  a worker's hands, nobody holds another lease of that key. This is where the
  host's promise about session numbers (`FreshSession`) is needed;
* `NoticeInv`: a filled slot is announced once, by a worker about to notify, by a
  message, or by the service that takes. Without it a second reader could not be
  excluded, and `MailboxCorrect` would not follow.

`NoLockCycle` speaks of the guards of the steps, since `ENABLED` is out of the
prover's reach: a process in an operation is `Blocked` when the slot lock it is
about to take is held. TLC was used to check, in every state of the instance,
that this is the same as none of its steps being enabled. It follows from
`LockInv`: whoever holds a slot's lock is in a critical section that takes no
other (`HoldersGoOn`), and whoever holds a shard's lock is in an operation, so
that an operation that is kept out waits for one that is not.

For `MailboxCorrect`, `RegisterOpens`, `PublishDelivers`, `TakeTakes` and
`DropAbandons` show the four visible steps. Dropping is visible when the slot is
cleared, not when the entry is removed (`EntryDropStutters`), which is why a
publish that overtakes it is still harmless.

### SqlxExec

`SqlxExec_proofs` proves the invariants and the action property of
`exec`, `TypeOK`, and that an open connection has no cooldown, for every set of requests, every statement list, every delay and
clock resolution allowed by `RetryAssumption` and `ExecAssumption`. None of them
is inductive alone. The inductive invariant `IInv` adds, phase by phase, what
the wire holds (`WireInv`: an honest "nothing left" needs to know that a
transaction is open from BEGIN to COMMIT), which request is under way and that
it is unanswered (`PhaseInv`), how much of it has been submitted (`SentInv`:
`started` is true as soon as `sent` is positive, which is what makes
`not_executed` a proof), what the answer under construction already claims
(`AnswerInv`), and that the backoff is only set without a connection
(`BackoffInv`). There is one lemma per action; `CooldownIsKept` additionally
needs that rounding up never reports 0 too early (`RoundedUp`). TLC was used to
check `IInv` on the instance of `exec` before it was proved.

### SqlxActor

`SqlxActor_proofs` proves the invariants of `actor` and `TypeOK` for any number of
services, requests, closers, any capacity and with or without panics, and
`FifoCorrect`, the refinement of `SqlxFifo`. The properties cannot be proved one
by one: that the counter is right needs to know which request the handler holds,
that Closed means drained needs to know that Close was sent once and that the
receiver refuses everything after it, and the order needs both. `IInv` says, part
by part:

* `HandlerInv`, `QueueInv`: which request the handler holds in which state, and
  that every queued request is in the queue once and in phase "queued";
* `CloseInv`, `LeavingInv`: whoever sets the closing flag first is the only one to
  send Close, and a handler out of its loop has met it or lost all senders;
* `HoldInv`, `ClosedInv`: a service in a call holds its handle, so the channel
  stays open; the watch channel says how the handler ended;
* `RepliesInv`: the mailbox of a request follows its phase;
* `OrderInv`, `ServedInv`, `AcceptedInv`: the accepted requests are those served,
  then the one in hand, then the queue without its Close, wherever that stands.

Each part has its own lemma over the actions that can disturb it
(`HandlerStep` to `TypeStep`), from facts about sequences stated once (`Pushes`,
`Pops`, `QueueElements`). For the refinement, `SendIsAccept`, `ExecuteIsServe` and
`SignalIsShut` show the three steps that are visible in `SqlxFifo`; all others are
stutters. TLC checked `IInv` on the instance of `actor` first.

### SqlxNames

`SqlxNames_proofs` proves `LatestIsFound` and `OneGeneration` for any number of
connect() calls and services. Neither is inductive: that the entry of a living
connection is not removed needs to know what a service and a handler have seen
before they remove it (`Stale`, `Leaving`), and that this is still true when they
do. The key lemma is `OverForGood`: once a connection is closing, or nobody holds
a sender of it, it stays so, which has one case per action since a sender is
only ever cloned from another or upgraded while there is one. `OneGeneration`
then follows from `LatestIsFound`: what an insert finds under the name is the
only other connection that can still take requests.

### SqlxNative

`LuaBindings_proofs` proves `StatementsKept` and `AllOrNothing` for any number of
calls and any depth of nesting. The parts of `IInv` speak about the whole stack:
`StackInv` says where each frame stands and who owns its lease there (Rust before
the userdata is made, the userdata after, nobody once the call reports), and that
no call is on the stack twice; `CallInv` says the same of calls that are not on
it; `SentInv` that a session and a sent request go together; `MetaInv` that the
metatable under the registry key has its `__gc`. Since only the innermost frame
moves, every action is one of three things a stack can do (`Entered`, `Moved`,
`Left`), and `StackMoved`, `StackEntered`, `StackLeft` carry the rest of it over.
For `StatementsKept` (`KeptStep`) the cut of the next state is given explicitly: a
successful `Submit` ends the last part where the builder's list ended, a failed
one leaves all cuts alone because the list is put back.

### TiberiusActor

`TiberiusActor_proofs` proves the counter, the fate of requests without a session
and the refinement of `SqlxFifo` for any number of calls, failures and any
capacity. `CounterLagsByCalls` counts two sets, so each step is the loss or gain
of one element (`OneMore`, `OneLess`) and needs to know that the element was, or
was not, in the set: `StageInv` ties a message's place behind the channel to its
call in front of it, `QueueInv` says that the channel holds exactly the queued
messages. `AnswerInv` says that a request without a session has no answer before
it has succeeded. `OrderInv`, `ServedInv`, `AcceptedInv` are those of `SqlxActor`,
as far as the receiver lives.

### MongoActor

`LuaBindings_proofs` proves both invariants of `mongo` for any number of services,
operations and closes; the module also holds the proofs of `SqlxNative`, with
which `MongoActor` shares nothing. `CounterLagsByCalls` is inductive with
`StageInv` and `QueueInv`, as in `TiberiusActor`, but over a handler without
retries, whose receiver is dropped with all that is still queued (`DropReceiver`).
`LostOnlyBehindClose` speaks of the order in which operations were accepted, and
of a Close that has left no trace when the loss happens. So `OrderInv` says that
the channel is the end of the accepted operations, `BegunInv` that everything
before the one the handler met last has been finished, and that this one is the
Close if the handler is leaving, and `GoneInv`, which takes over once the receiver
is dropped, that such a Close stands between what was finished and what was lost.
TLC checked `MongoInv` first.

### WebSocket

`WebSocket_proofs` proves all safety properties of `websocket` and the refinement
of `SqlxFifo`. `StreamInv` and `AnswerInv` relate the stream to the answers: as
long as the reader is open, as many reads are answered as frames have left the
stream, and the i-th has the i-th frame; once it is closed the next one has the
failure and all others are refused. `ReadInv` and `OnceInv` place the channel
behind the answered reads. On the other side `SentInv` and `WriterInv` do the same
for writes, with no closing frame sent while the writer is up. `WritesCorrect`
needs besides that what is sent, on its way and queued is all that was taken
(`Joined`).

### Buffer

`Buffer_proofs` proves `InBounds` for every capacity and slice length, and that
the buffer implements `ByteTape`. For `InBounds`, a lemma per operator that makes
room (`Grows`, `Reserves`, `Compacts`, `Prepares`) says that it keeps the
positions in order and that the room is there afterwards; the steps follow from
these, group by group (`AppendingStep`, `FrontStep`, `MovingStep`,
`PreparingStep`).

`BufferIsTape` is about contents. What the tape shows are three neighbouring
spans of memory: consumed, readable, staged. Lemmas on spans say when two of them
show the same (`SameSpan`), that neighbours join (`Meet`), and that a part of one
is one (`SpanOfSpan`). From these follows what each operator leaves to be seen:
growing keeps every span (`GrownShows`), compaction moves the readable one to the
front and forgets the consumed one (`CompactShows`), a store changes the span it
writes and none apart from it (`StoredSpans`), a seek moves the boundary between
two spans (`ForwardShows`, `BackShows`), and so does a commit, beyond the staged
span as well (`ExtendShows`). Each call is then a step of the tape (`TapeWrites`
to `TapePeeks`).

### Calendar

The last part of `SqlxExec_proofs` proves `CalendarIsGregorian` and
`InstantsReadBack` for all cases of `Codecs` that are dates or instants (`Tested`:
its initial states and its steps, in any other state being neither), for any
known dates, walks of any length, and seconds of any length; TLC can only try
walks of a few thousand days, and seconds of 4 microseconds. That the
specification of `Codecs` implies `Tested`, and `CaseInv`, was checked by TLC;
`Codecs` itself has recursive operators. `CaseInv` says that
the date under test is a date, that its number is `DayNumber` of it, and that the
walk stays clear of the two numbers that stand for infinity. The rest is about
operators:

* `DateRead`: for every date, `CivilDate` of its number is that date. A date is
  first counted from March (`DayFromMarch`), where only the last month of a year
  varies; then `YearOfEra` shows that the code's division finds the year of an era
  on each of its days, `MonthOfDay` that its division by 153 finds the month.
* `EveryDay`: for every number, `CivilDate` is a date, and has that number. For
  this the number is taken apart into eras, centuries, four-year runs and years
  (`Century`, `FourYears`, `YearOfFour`), which makes it a day of a date as above.
* `TomorrowCounts`: the next day has the next number, across the ends of months
  and years. With the two steps of the walk this keeps `CaseInv`.
* `TimeRead`, `TimestampRead`, `OffsetRead`: hours, minutes, seconds and the
  fraction add up to what they were made from, also for a divisor of which only
  the sign is known, and before the epoch as after it. `WithinSixteenHours` says
  which offsets are refused, `TimeWritten` that nothing else is.

### Only model-checked

* Every liveness property (`DueAnswerArrives`, `TimedReadIsAnswered`,
  `AcceptedFinish` and the others): fairness is beyond the prover.
* `JsonReadsBack`: the operators of `JsonCodec` and the reference they are compared
  with are recursive, and what they compute is an induction over values.

## 5. Plan

Every safety property of the runs but `JsonReadsBack` is proved. What could be
added is breadth: the takeover of a name in `TiberiusActor` and its transaction
list, the Lua wrapper `sqlx.lua` (`try_connect`, `wait`), and the conversion of
parameters and rows.

## 6. Not modelled

Value conversion, formatting and most of the Lua C API bindings are data plumbing
without interleavings; Excel, crypto and OpenDAL are thin wrappers of libraries.
The HTTP client makes one task and one answer per request and shares nothing but
a cache of clients. Of the JSON module, pretty printing, `concat`, `concat_resp`
and `hash` are left out: they write into a buffer and keep no state. The Lua
wrapper `sqlx.lua` and the wrappers of the other modules pass calls on; what they
rely on is modelled below them.
Memory ordering is taken as sequential consistency: the code uses
acquire/release read-modify-write operations on the counter and the flag. The
database, the Moon host and tokio are external and modelled from how the code
uses them.

# A TLA+ verification of nestjs-messenger

nestjs-messenger brings the model of Symfony Messenger to NestJS: a bus runs
each message through a pipeline of middlewares; the pipeline either handles it
or sends it to transports; worker processes pull messages from a transport,
run them through the same pipeline and settle them; failures are retried and
finally moved to a failure transport that an operator inspects.

This directory holds specifications of that behaviour translated from the
code, TLC instances that check them, and TLAPS proofs. All paths below are
relative to the repository; `core` stands for `packages/messenger/src`.

## 1. Inventory

| Component | State | Operations | What makes it correct |
|---|---|---|---|
| Transport contract (`core/transport/transport.interface.ts`, ADR-007) | none | send, get, ack, reject, close | a message is in one place; settled at most once per delivery; close waits for in-flight settlements |
| In-memory transport (`core/transport/in-memory.ts`) | queue, in-flight registry, drain waiters, closing flag | send, get, ack, reject, close, list, find | the contract, exactly; close() resolves |
| Pipeline (`core/middleware`, `core/bus`, `core/nestjs/pipeline.factory.ts`) | per dispatch: cursor, envelope, stamps | dispatch | a received message is never sent again by routing; handled means all handlers succeeded |
| Retry policy (`core/retry`) | none (the count travels in the envelope) | decide, resend, dead-letter, drop | the budget is kept exactly; dead letters can be brought back |
| Worker (`core/cli/worker.ts`) | processed count, abort signal | run, handleOne | every pulled message is settled once; a failed ack is never turned into a reject |
| Failed-message operations (`core/transport/failed-message-manager.ts`, `core/cli/failed-*.ts`) | none | retry, retryAll, remove, list, show | the message is on its origin before it leaves the failure transport |
| Handler discovery and registry (`core/handler`) | handlers per message class | register, getHandlers | every registered handler is invoked |
| SQL transport (`packages/transport-sql`) | table; per process: in-flight registry, pool, LISTEN client, waiters | the contract, list, find, setup | claims are exclusive until the redeliver timeout; no lost wake-up; close() drains |
| Redis transport (`packages/transport-redis`) | stream, pending list, delayed set; in-flight registry | the contract, list, find | no message lost between delayed set and stream; stalled entries reclaimed |
| Kafka transport (`packages/transport-kafka`) | log, committed offset; buffer, wakers, in-flight map | the contract | nothing un-acked below the committed offset |
| Pub/Sub transport (`packages/transport-google-pubsub`) | leases; buffer, wakers, in-flight map, queued acknowledgements | the contract | nothing lost; no lost wake-up; close() flushes |
| Shutdown (`core/cli/consume.command.ts`, `core/nestjs/messenger-transports.lifecycle.ts`) | abort controller, signal listeners | signal, limits, close of all transports | terminates; loses nothing; takes no message beyond the limit |
| Serializer, envelope, error mapping, DSN parsing, NestJS wiring, show command | none | pure functions, start-up | not concurrent; see section 7 |

How they interact: the pipeline calls `send` of transports (routing, retry,
dead-lettering); the worker calls `get`, `dispatch`, then `ack` or `reject`;
the operator's commands call `list`/`find`, `send` on the origin and `ack` on
the failure transport. The envelope is the only thing all of them share: retry
count, delay, failure mark and handled marks are stamps that cross the wire.

What is hard: a delivery settled twice or late; close() racing settlement; a process
that dies, or an answer that gets lost, between the send of a copy and the
settlement of the original; the redeliver timeout firing under a slow worker;
operator and workers on the same message; two mechanisms (retry and reject) sharing
one counter; a wake-up that arrives between two awaits; a rebalance or an expired
lease under a loop that still has the message. `PROJECT.json` lists each hazard at
its line with the properties that cover it.

## 2. Modules

| Module | What it is |
|---|---|
| `Delivery` | the abstract contract of a transport |
| `InMemoryTransport` | the reference transport, implements `Delivery` |
| `Messenger` | pipeline, retry, workers, operator, on SQL queues |
| `SqlTransport` | the SQL transport: the loops and drivers of several processes, one step per statement or reply |
| `RedisStreams` | the Redis transport: several processes, one step per Redis command |
| `KafkaTransport` | the Kafka transport: group members, buffers, committed offsets |
| `PubSubTransport` | the Pub/Sub transport: streaming pull, leases, queued acknowledgements |
| `Shutdown` | the worker's limits, signals, hooks, and the closing of all transports |
| `..._proofs` | the theorems about each of the specifications (section 5) |
| `MessengerBudget_proofs` | those about `Messenger` without faults, on top of `Messenger_proofs` |
| `MC...` | the instances TLC runs, one module per specification |

`Messenger` and `SqlTransport` look at the same SQL table from two sides. In
`Messenger` every call of the driver is one atomic step and what matters is
what the pipeline does between them; in `SqlTransport` what is done with a
message is "ack or reject", and what matters is the time between a statement
and its reply, in which close(), aborts, notifications and other loops run.
`Shutdown` abstracts transports once more: they store, refuse to send once closed, and
may or may not deliver a message whose claim was pending when close() was called.

All specifications but the in-memory one choose a deployment in their initial state
and keep it: the variable `setup` is a record from the constant `Setups` (which loop
runs where, which messages there are, what they carry) that also holds the bounds of
the instance. One TLC run so covers several deployments, and a theorem about the
module is about every deployment that satisfies the assumptions.

### Delivery

Per message one `status` (unsent, waiting, delivered, gone) and a count of
redeliveries; for the transport a `phase`. A reject is the same message with
one redelivery more. `close()` resolves ("closed") in the very step that
leaves nothing delivered.

### InMemoryTransport

One action per piece of code between two awaits, which JavaScript runs without
interruption. `queue`, `inFlight`, `nextId`, `closing` are the fields of the class.
The array is modelled as a set: entries are only appended, with growing ids, or
filtered out, so array order is id order. An entry that was never rejected has the
id of its message (`root`), a rejected one a later id; `InOrder` rests on that: what
is queued goes behind everything that waits, and cannot overtake. `closer` stands
for the promise each caller of close() holds (the `drainWaiters`), `gen` for the
state of each `get()` generator, `known` for the envelopes callers have in hand: any
of them may be acked or rejected at any time, again, and by anybody. Time is what
remains of each entry's `availableAt`. The history fields `root`, `sent` and `gone`
identify a message across its redelivered copies.

### Messenger

`pc` says where each actor is in the pipeline that `assembleMiddlewarePipeline`
puts together. An actor is a worker process or the caller that dispatches a
message. `env` is the envelope it dispatches, `ran` the handled stamps
added so far. `rows` is the SQL table: `held` is "delivered_at is set and the
redeliver timeout has not passed", `due` is "available_at has passed". A `wire`
record is what survives serialization: message, retry count, whether there is
a delay, handled stamps, and the failure mark. Each driver call is one step, as it
is one statement or one transaction on the server; claims take the oldest row
(delayed ones in any order relative to the others).

Faults are steps of their own kind, each bounded:

* `middleware`: an infrastructure error before any handler runs;
* `send`, `settle`: the call rejects, with or without its effect (a reply lost
  after the commit);
* `crash`: a worker process dies anywhere and is restarted;
* `slow`: the redeliver timeout passes while the worker is still at it.

Handlers fail or succeed freely. The operator runs `failed:retry` and
`failed:remove` on one id or on the whole failure transport; the commands work
on a snapshot, one message at a time, while the workers go on.

The bounds `maxFaults`, `maxFailures`, `maxCommands` of a deployment exist only to
make the state space finite; the ids need no bound of their own, each new row
is paid for by one of them.

The operator's view is that of `find(id)` on a table shared by all queues, so
`StartCommand` takes any row for a single id. Every worker is taken to have a
serializer that decodes every message; rows that cannot be decoded are in
`SqlTransport`. Handler names are constants; `AllHandlersRan` holds
for distinct names only, because a handler is identified by the name of its
class (`discovery.ts:52`): of two classes with one name the second finds its
name among the handled stamps and is skipped.

### RedisStreams

Worker processes share a stream, its consumer group and the sorted set of
delayed messages (`stream`, `lastRead`, `pending`, `delayed`). An entry id is its
place in the stream; `idle` holds the pending ids whose idle time has reached
`claimIdleMs`. `pc` is where a process is in `get()` ("loop" and the command it
awaits) or in the settlement of the entry it yielded ("handle", "xack", "xdel"):
a worker settles one envelope before it asks for the next, so the two never
overlap. `due` is what the Lua script returned and is not appended yet, `batch`
what `pull()` returned and is not yielded yet; both are lost with the process,
the first for good (`stranded`), the second until another process reclaims it.
Operators run no loop; they ack what `list()` or `find()` showed them.

`close()` sets `closing`, waits for the delivery in flight ("draining"), then
for the commands pending at that moment ("flushing"), then quits. The loop may
be in the middle of `pull()` then. `Accepted` says which of its commands still
reach Redis: the one `close()` found pending, and the XADD that follows a Lua script
or another XADD, which is issued two microtasks after the answer and so before
the QUIT; the continuation after `pull()`'s own awaits comes later and is refused
(`Refused`: `get()` throws). `GoIdle` is the passage of time for one pending entry;
under a process that still holds the entry it is a fault with a bound.

`ensureGroup()` is taken to have succeeded, and Redis keeps its data.

### SqlTransport

A process has one transport instance: the memo of CREATE TABLE (`schema`), the
driver's LISTEN connection (`listener`), its remembered notification
(`notified`) and the state of close(): "draining" waits for the in-flight
registry, "flushing" for the promises that were pending when it was empty
(`awaited`), "listener" and "pool" are the two halves of the driver's close().
The registry has no variable of its own: it is the set of loops at "handle".
`pc` places each `get()` loop and the worker that settles what it yields;
"claim", "delete", "redeliver", "discard" and "peek" are statements given to the
pool and not executed yet, "claimed", "sawSome" and "sawNone" replies that have not been
acted on. `Claim` and `Yield`, `Peek` and `Register` are therefore two steps each, and
anything may happen between them. `Wait` is the head of `waitForMessage()`,
`Register` its end; `Timer` is any of the timers that end a wait.

`notify` is the difference between the drivers: with it idle loops wait for a
NOTIFY as on PostgreSQL, without it they sleep and poll as on MySQL. The
retries of a transient error (`transient-retry.ts`) are not told apart from the
statement: `SettlementFails` is the failure that remains, with or without its
effect. A worker whose settlement or poll failed may be started again on the
same instance (`Rerun`), which is why the schema memo must have been cleared.

### KafkaTransport

`log`, `committed`, `owner` and `position` are what the broker knows: the records
of a partition, the offset of the group, the member a partition is assigned
to, and how far that member was pushed. Per process there are the state of
the consumer (`member`: connecting, subscribing, joined, left), the `buffer`
that `eachMessage` fills, and close(). A record is in hand from `Take` to the end
of `Commit`. Partition and offset of the record in hand, and nothing else,
decide what is committed, so a later commit covers an earlier record and an
earlier one takes the offset back.

`inFlight` is the registry of an instance, a map by partition and offset. After a
rebalance two loops that share the instance may have one record: the first
settlement releases it (`Release`), and that of the other finds nothing to settle
and does nothing, whether it is an ack or a reject (`Settleable`, `SettleAgain`).
close() goes on when the map is empty, even if a loop still handles such a record.

A rebalance leaves the buffer and the records in hand where they are, as the
code does; the broker may then accept or refuse the old member's commit. A
consumer that is still connecting when close() comes is not known to the
instance and joins afterwards (`Lingers`). A call that fails ends the worker
and with it the process.

### PubSubTransport

`backlog` is what the service has not seen acknowledged; each entry has the
number of its deliveries and the process that leases it. Per process: the
memoized stream, the `buffer`, the `inFlight` map, which is keyed by message id, and
`acking`, the acknowledgements the client library has queued. `Deliver` is a
message event, which buffers and wakes one loop; `Expire` ends a lease, of a
process that still has the message only within a bound; `SendAck` may come too
late to count. close() goes from "draining" (registry and rejections) to
"flushing" (queued acknowledgements) to "closed".

### Shutdown

`worker` is the loop of `Worker.run`, in "get" and "claim" what `get()` does for it,
and in "dispatch" to "failed" what the retry middleware does with a failed handler;
`command` is `messenger:consume` up to its `finally`, `app` the application's
`onApplicationShutdown`. Both close the same transport, and the second call returns
at once. The closing flag is looked at when a send starts, so a retry or a dead
letter that was begun may be stored after close() was called, and one that comes
later is refused and turned into a reject. A message is claimed (`Claim`) and
yielded (`Yield`) in two steps, and close() may be called between them. The SQL
transport then delivers the row all the same; the Redis transport looks at the flag
again and leaves the entry to others (`GetReturns`, from "claim"); in the in-memory
transport nothing comes between. `late` marks a delivery that was registered after
close() was called: close() may have found the registry empty before and does not
wait for it (`Drained`), and its settlement may meet an ended connection
(`LateRefused`). `listening` is what `process.once` has left: a further signal of a
kind that was received, or any signal in the `finally`, kills the process.

Definitions marked "Mutant of ..." are faulty variants of a definition that
follows. They are used by no specification: they document, for each property, a
bug in the code that would break it.

## 3. Properties and runs

| Run (`.cfg`) | Checks | Shows |
|---|---|---|
| MCInMemoryTransport | TypeOK, OneCopy, ClosedIsDrained, InOrder, KeepsDeliveryContract, CloseResolves | settlements in any order and number, two close() calls: nothing lost, duplicated, or left in flight; a message that is due is passed only by those queued before it, rejected ones that come back included; implements `Delivery`; close() resolves |
| MCMessenger | TypeOK, NoLoss, DeadLettersReplayable, NotDuplicated, RetryBudget, AllHandlersRan, Settles | six deployments: two workers on a queue with any two faults; the failure transport consumed, and operated at the same time; no failure transport; no retry policy; two routes and two handlers without faults. Nothing is lost, dead letters can be brought back, everything is handled or dead-lettered in the end; without faults there is one copy and an exact budget |
| MCSql | TypeOK, NoLoss, NotClaimedTwice, ClosedIsDrainedButLate, CloseResolves, Settles | loops of one and of two processes, with NOTIFY and with polling, failing statements, a dying listener, crashes, slow consumers, poison rows, close() and abort at any point: no row is lost or with two consumers before its timeout; close() always resolves, and all that escapes it are claims that were under way |
| MCRedis | TypeOK, NoLoss, ExclusiveWhilePrompt, ClosedHoldsNothing, Settles | a crash at any command, a rejection, a slow entry, an operator, abort and close() at any point: lost only in the promotion gap, shared only after idling, nothing in a closed process, settled in the end |
| MCKafka | TypeOK, NoLoss, NotHandledTwice, Settles | rebalances that leave buffers behind, commits out of order, refused and lost commits and publishes, crashes, close() while connecting: with a loop per process nothing unacknowledged is behind the committed offset; a member that closes leaves nothing half-settled to the next one; every message is acknowledged in the end |
| MCPubSub | TypeOK, NoLoss, NobodySleepsOnWork, ClosedIsFlushed, CloseResolves, Settles | two loops on one stream, two processes, expired leases, broken streams, lost acknowledgements, crashes: nothing is lost, no wake-up is lost, close() leaves no acknowledgement behind and always resolves |
| MCShutdown | TypeOK, NoLoss, StopIsExact, LimitKept, ShutdownIsQuiet, Stops | limits, signals, a throwing onError hook, failing calls, the application closing all transports under the worker: nothing is lost, a clean stop leaves exactly one copy of what was not handled, the limit is kept, a resolved shutdown is quiet but for one late delivery, the command does not end before its transport is closed unless the application closed that first, and the stop comes about |

`NoLoss` and `Settles` are what the library promises (at least once), stated for
each transport in terms of where the transport keeps a message. They hold
because every deletion comes after the insertion of a newer copy of the same
message, or after its handling was complete.

* In `RedisStreams` the argument has one hole, the gap between the Lua script
  and the XADD, and `NoLoss` says that there is no other.
* In `KafkaTransport` it holds for one loop per process, which is what
  `messenger:consume` runs and what the transport's README (line 67) asks for. Where
  loops share an instance, a commit of the faster one covers the record of the
  slower one; `NoLoss` then only says that, while nothing fails, the message
  is still in a loop's hands.
* In `PubSubTransport` it includes acknowledgements of the wrong delivery: the
  map is keyed by message id, so the settlement of a loop whose lease expired may settle
  the newer delivery of the same message.

Exclusiveness is a matter of time-outs everywhere. `NotClaimedTwice`,
`ExclusiveWhilePrompt` and `NotHandledTwice` draw the line: two consumers have a
message only after the redeliver timeout, the idle time or a rebalance hit one
that was still at it. XAUTOCLAIM goes by idle time alone, so an entry that a live
worker has in its batch behind a slow one may be handled after it was
acked. `NotHandledTwice` has two halves. That no two loops have a record at once
needs only that nobody lost a partition but by close(). That an acknowledged
record is not handled again also needs one loop for each instance, or that no
member left: loops that share an instance may commit out of order, which takes
the committed offset back, and whoever gets the partition next starts there.

`NotDuplicated` and `RetryBudget` are stated for behaviours without faults:
duplicates after a crash are by design. They also leave out the two ways to
get a second copy without one: consuming the failure transport while an operator
retries from it, and naming one transport twice in the routes of a message,
which `routing-senders-locator.ts` does not filter (`OperatorAlone`,
`RoutesApart`).

close() is stated as what is left when it has resolved. For SQL this is weaker than
the contract says (`ClosedIsDrainedButLate`, see below); for Kafka what matters is
what the next owner of the partition gets (`NotHandledTwice`); for Pub/Sub a handler
may be left running only for a message that was delivered twice. `ShutdownIsQuiet`
draws the consequence for a process: what escapes is one delivery, only where the
application closes under a running worker, never after a limit or a signal; and
though two call close() and the second call returns at once, the command ends before
its transport is closed only if the application closed it first and is at it still
or has failed. The other half is that it resolves at all (`CloseResolves`, `Stops`).
The only state in which it does not is that of a delivery in flight that nobody
settles: an `onError` hook that throws skips `reject()` (`worker.ts:86`).

### Where the code and its documentation disagree

Each of these runs checks one sentence of the documentation, and TLC finds a
behaviour of the code that contradicts it.

| Run | Property | What happens |
|---|---|---|
| MCHandlersRerun | HandlersNotRerun | the retry resends the envelope as received, without the handled stamps of this pass: handlers that succeeded run again (`retry.middleware.ts:68` against `handle-message.middleware.ts:11`) |
| MCRedisPromotion | PromotedAtomically | the Lua script pops all due members, each is appended by a command of its own; a graceful close() in between loses the second (`redis-streams.transport.ts:242` against the transport's README, line 79) |
| MCSqlClose | ClosedIsDrained | a claim that is pending when close() finds the registry empty delivers its row afterwards; the pool is ended under its handler, whose ack is refused (`sql.transport.ts:148` against `transport.interface.ts:43`) |
| MCSqlNotification | NotificationNotLost | a notification that arrives while the loop awaits the LISTEN connection or the next due row is remembered and not looked at again: the loop sleeps for up to `getNotifyTimeoutMs` beside a claimable row (`postgres.driver.ts:195` against its comment at line 283) |
| MCSqlWait | NoWaitAfterClose | a loop whose claim comes back empty during close() starts its wait after the waiters were woken (`postgres.driver.ts:188` against `driver.ts:59`) |

The last two only delay: `Settles` and `CloseResolves` hold all the same, since
every wait has a timer. Some more disagreements are visible in the specifications
and have no run of their own. An infrastructure reject and a retry share one
counter, so a first failure of a handler may see a count of 1 and be dead-lettered
without a retry (`sql.transport.ts:264` against `retry-strategy.interface.ts:7-11`).
A Kafka instance closed while its consumer is connecting finds nothing to
disconnect; the consumer joins the group afterwards and keeps partitions that nobody
reads (`kafka.transport.ts:209`; `Lingers`, an exception of `Settles`). A retry copy
that is stored although its send() fails is followed by a reject, two copies
(ADR-004, lines 69 and 105). `messenger:failed:remove` finds its message by id in
the whole table, whatever the queue (`postgres.driver.ts:154`).

### Bounds

* In-memory: two consumers, two callers of close(), four ids (a message is sent,
  rejected twice, and meets its copy or another message), delays of at most one
  tick. A further id only adds more of the same, since entries interact through
  order and emptiness only. Sends and rejects together are bounded by the ids, so
  that rejected messages cannot come back without end here: that they cannot keep a
  due message waiting is stated of each single step (`InOrder`), and proved for any
  number.
* Messenger: one message where faults are concerned (messages interact only in
  the queue order; what interferes is several deliveries of the same message),
  two workers, two faults (enough for a duplicate whose deliveries then fail
  independently), one failed handler more than the retries, one command. The
  deployment without faults has two messages and two routes.
* SQL: one loop with a delayed message, a rejection, two troubles and an expiry
  (a listener dies or a claim is lost, and then a settlement fails); two loops
  of one process and of two, with one trouble or none, which is where
  notifications, claims and close() interleave most; a row that cannot be
  decoded where two loops poll.
* Redis: two processes (one to lose an entry, one to reclaim it), batches of
  two (so that close() can fall between two entries of a batch), one crash, one
  rejection, one slow entry: together they give a message up to three entries.
* Kafka: one partition, since partitions share nothing but the buffer. Two members
  with two messages and a trouble (a rebalance, a crash, a failed or lost call), so
  that a commit may cover a message that is still unacknowledged; with one message,
  a rejection and a trouble, where the copy is the second record; and with one
  message and two troubles (a rebalance, then a crash or a lost commit of the old
  owner). Two loops of one member with two messages and a foreign one, which is
  where commits come out of order, and with a trouble, which lets them have the same
  record.
* Pub/Sub: two loops and two messages in one batch; slow handlers; one loop with
  one lease at a time and a foreign message; two processes; one trouble in
  the last two.
* Shutdown: three messages, no limit or a limit of two, three failing handlers,
  two signals, one failing call, with and without every other way to stop; any
  claim may be late.

No symmetry is used, because liveness is checked in all of the passing runs.

### Deadlock

Runs set `CHECK_DEADLOCK FALSE` because the modelled system really comes to rest:
all messages dealt with and the bounds used up, or the transport closed and its
consumers gone, or the process stopped.

## 4. Fairness

* In-memory: a worker settles each envelope it was given, because `handleOne`
  ends in ack or reject. Nothing else is assumed: not that a generator is ever
  asked again, nor that the clock moves.
* Messenger: a process runs on, and is restarted when it stopped (the README of
  the repository relies on a supervisor); available_at and the redeliver
  timeout are reached. Nothing is assumed of the operator, and no handler is
  assumed to succeed: failures are merely finite in number, and the budget of a
  message is smaller than their bound, so dead-lettering is reached too.
* Redis: a process runs its loop, settles what it holds, quits, and is restarted
  after a crash; due times and idle times are reached. Nothing obliges a
  process to be restarted after a shutdown: `Settles` excuses the case where
  all of them have stopped, here and in the next three.
* SQL: statements and connections that do not fail are answered, timers fire,
  due times and redeliver timeouts come, workers settle what they hold.
  Notifications are not assumed to arrive: `Settles` rests on the timers alone.
* Kafka: the group assigns partitions and pushes records, workers settle, a
  process whose loops have returned closes (the `finally` of the consume command) and a
  dead one is restarted. `Settles` also excuses a closed instance that joined the
  group after its close() and keeps a partition.
* Pub/Sub: as Kafka; the service delivers, leases expire, queued
  acknowledgements are sent.
* Shutdown: handlers and calls to the transports return and a time limit fires.
  No signal is assumed; `Stops` only speaks of a stop that was asked for.

Every action under fairness is one that the code's own event loop, a timer, a
reply or the supervisor takes. Close() is fair only where loops have ended and
the consume command calls it; that a delivery is settled is fair, not how; aborts,
crashes, rebalances and failures never are.

## 5. Proofs

Every invariant that a passing run checks is also a theorem of its specification,
`Spec => []Inv`, and so are the action property `InOrder` and the refinement of
`Delivery`, for all values of the constants: any number of processes, loops,
partitions, transports, messages and handlers, and any bounds on faults. What
the runs of section 3 show on deployments of two or three of each, the theorems
show on all of them.

| Module | Theorems |
|---|---|
| `InMemoryTransport_proofs` | `TypeCorrect`, `NeitherLostNorDuplicated` (OneCopy), `NotOvertaken` (InOrder), `CloseDrains` (ClosedIsDrained), `ImplementsDelivery` (KeepsDeliveryContract) |
| `Messenger_proofs` | `TypeCorrect`, `NothingLost` (NoLoss), `DeadLettersAreReplayable` (DeadLettersReplayable), `HandledMeansAllRan` (AllHandlersRan) |
| `MessengerBudget_proofs` | `Undivided` (NotDuplicated), `BudgetIsKept` (RetryBudget) |
| `SqlTransport_proofs` | `TypeCorrect`, `NothingLost` (NoLoss), `ClaimedOnce` (NotClaimedTwice), `DrainedButLate` (ClosedIsDrainedButLate) |
| `RedisStreams_proofs` | `TypeCorrect`, `NothingLost` (NoLoss), `OneWorkerAtATime` (ExclusiveWhilePrompt), `ClosedIsEmpty` (ClosedHoldsNothing) |
| `KafkaTransport_proofs` | `TypeCorrect`, `NothingLost` (NoLoss), `NotHandledAgain` (NotHandledTwice) |
| `PubSubTransport_proofs` | `TypeCorrect`, `NothingLost` (NoLoss), `WakeUpsSuffice` (NobodySleepsOnWork), `ClosedMeansFlushed` (ClosedIsFlushed) |
| `Shutdown_proofs` | `TypeCorrect`, `NothingLost` (NoLoss), `StopsExactly` (StopIsExact), `LimitIsKept` (LimitKept), `ShutdownDrains` (ShutdownIsQuiet) |

### Assumptions

All are about constants, and TLC evaluates them on every run.

* `BoundsAssumption`, `SetupsAssumption`: bounds are natural numbers, and the parts of
  a deployment are what their names say (the loops are consumers, the routes of a
  message are transports, ...). Beyond that: a batch of the Redis transport and the
  leases of a Pub/Sub process are at least one; there are finitely many Pub/Sub loops
  (the wake-ups are counted against them); no message is routed to the
  failure transport; a message has at least one handler.
* `NamesAssumption`, `ProcessAssumption`, `NoEntryAssumption`,
  `NoRecordAssumption`: the value for "nothing" is none of the things it stands
  in for, and actors of different kinds are different.

`HandledMeansAllRan` has one hypothesis more, `DistinctNames`: no two handlers of a
message have the same name. The code does not enforce that (section 2), and the
property is false without it.

### The arguments

Each module defines an inductive invariant `IInv`. Apart from `TypeOK` and, where
useful, the properties themselves, it consists of what follows; there is one
lemma per action, which says that the action keeps `IInv`.

**InMemoryTransport.** `Bookkeeping` (ids and roots in use are below `nextId`, what
is gone was sent), without which a new id could collide; `IdsUnique`; and
`ClosingHasCaller`, which fixes the abstract phase when the last delivery is
settled. `NotOvertaken` needs of it only that ids in use are below `nextId`: what a
step queues comes after everything queued. The refinement of `Delivery` has one
lemma per action as well.

**Shutdown.** What the worker has depends on where it is. `HandIsStored` and
`AckedIsSafe`: the message it is busy with is stored, and when it is about to be acked
it is done or has another copy. `CopiesExact` counts the copies while nothing
has failed, `RegistryFacts` says when close() can see the delivery, `LimitFacts`
compares what was taken with the limit, and `CloseFacts` follows the command and
the application through their calls of close(): which of them called first (`appCloses`)
decides whether the command's own close() means anything, and a closed transport has
an idle worker or a late delivery.

**SqlTransport.** What a loop has in hand was read earlier: the row may have expired,
been claimed by another loop and be gone. `RowFacts` says what is true of
it nevertheless, since ids are never used twice: a row with this id is the same
message. `DeletedIsDone` makes the DELETE of an ack safe; `Exclusive` follows a
claim from the statement to the settlement; `CloseFacts` follows close(), and
names what may still be on its way after each phase.

**PubSubTransport.** `IdFacts` is the same remark for message ids. Acknowledgements
are queued and sent in any order, some too late, some of another delivery of the
message: that is safe because whatever is queued is done or has a copy with a
later id (`AckedIsSafe`), so the latest copy of an unfinished message is never
among them. `ReadyForAll`
counts: as long as loops wait, those awake are at least as many as the
messages in the buffer. `OnceEach` (while no lease expires early nobody has a
message twice) and `CloseFacts` give `ClosedIsFlushed`.

**RedisStreams.** Several processes may have one entry in hand, and each may
acknowledge it, or append a copy and then acknowledge it. Again the copy has a
later id (`AckedIsSafe`), so that no two processes can each rely on the entry that
the other is about to delete. `SentIsSafe` is `NoLoss` in those terms, `HeldFacts`
ties a held entry to the pending list, `FlushingIsIdle` says that close() stops
waiting for deliveries only when there are none.

**KafkaTransport.** One offset per partition stands for all records before it. The
invariant goes back from it: every record before the committed offset is settled
(`CommittedIsSettled`), every record before one in hand is settled or in another
hand of the same instance (`HandsFollow`), every record before a buffered one also
may be earlier in that buffer (`BuffersFollow`), and likewise for the position of
the owner (`PositionsFollow`). With one loop to an instance nothing but the record
itself is then left to settle when it is committed. `Registry` says that such a
record is in the map while it is handled, so that its settlement is never the one
that does nothing. Nothing is said there of the order of buffers, which rebalances
disturb. `Traced` finds a record for every message; `Calm` and `SettledIsBehind`
say, while no member lost a partition but by close(), that what is held or buffered
is the owner's, once and in order, and that what was settled lies behind.

**Messenger.** A worker's envelope, and an operator's snapshot, was read from a row
that may be gone or claimed again. `SameMessage` relates it to whatever row has that
id (`RowFacts`, `EnvelopeFacts`, `SnapshotFacts`). `DeletedIsSafe`: a row about
to be deleted is done or has a later row of the same duty. `AcceptedIsSafe` is
`NoLoss` in those terms. `StampsAreTrue`: a handled stamp names a handler that
succeeded. `AttemptsCounted`: without faults, the count that an envelope carries is
covered by attempts of its duty, so that a dead letter has used up its retries.

**MessengerBudget.** `NotDuplicated` and `RetryBudget` are proved together: an attempt
raises the count of the duty and that of the one envelope that is being worked
on, and another row of the duty would be left with a count that is too low; and
what has too low a count would be retried too often. `Registered` ties each
envelope at work to its claimed row, `Single` says that a duty has one row besides
those that are being left (`Leaving`: the copy is stored, the DELETE is to come),
and one worker; `Routed` keeps what a caller has stored apart from what it has
yet to store; `StillFailed` says that what the
operator is about to retry is still in the failure transport; `Budget` relates
attempts, count and commands.

### Only model-checked

* Liveness: `CloseResolves`, `Settles`, `Stops`. They rest on fairness,
  which the prover does not handle.
* The five runs that contradict a sentence of the documentation: a
  counterexample is its own proof.

`AllHandlersRan` is neither proved nor checked for handlers that share a name; no
run has such a deployment.

## 6. Plan

All components of section 1 that keep state are modelled, and all invariants
of the runs are proved. What remains worth proving:

1. More action properties beside `InOrder`: what a single step may never do (a
   DELETE that hits a row another loop has claimed, a commit that takes an offset
   back), where the invariants already give the argument.
2. The refinement of `Delivery` by `SqlTransport` for a process that meets no
   fault; the late claims of `ClosedIsDrainedButLate` are where it must give way.
3. `NoLoss` of the transports as one abstract specification, of which each
   transport is shown to be an implementation.

No recursive operator is used in any module, so that all of them are open to proof.

## 7. Not modelled

* Encoding of message bodies, error classes, DSN and option validation, the
  presenter, the show and setup commands and the NestJS wiring are pure or run
  once at start-up: unit tests reach them.
* The delays computed by the retry strategies, and clock time in general: that a
  delay ends is modelled, how long it is not.
* Brokers and client libraries are modelled from how the transports use them, and
  only as far: no broker loses data, and a reply is lost only where a fault says so.
* The transport conformance suite is a test harness; `Delivery` states what it
  tests.

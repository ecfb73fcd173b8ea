# Shared bikes: TLA+ verification

This directory holds TLA+ specifications of the shared-bike server, its client
and the program they replace, the TLC
configurations that check them on small instances, and TLAPS proofs of what
matters most. All paths below are relative to the repository root.

## 1. The system

| Part | Code | State | Operations |
|---|---|---|---|
| Gateway engine | `server/src/gateway/uring_engine.cpp`, `server/include/server/gateway/*.hpp` | connections with their receive buffer, send queue and operations in flight; outbox with eventfd; flags of the shutdown | one handler per kind of completion, dispatch of outbox items, idle sweep, drain, reap; `worker_batch` in the worker threads |
| SPSC ring | `server/include/bike/ipc/spsc_ring.hpp` | shared `head` and `tail`, slots, a cursor on each side | `begin_write`, `fill`, `publish`, `pop_batch`, `release`, attach |
| Request and reply path | `server/src/ipc/ring_sink.cpp`, `ring_source.cpp`, `reply_queue.hpp`, `server/src/dispatch/dispatch_main.cpp` | request rings, response ring, two notification FIFOs, business queue, reply queue, `inflight_replies` | `RingSink::handle`, `wait_pop`, business task, `flush_replies`, `drain_response_ring` |
| Ride and account handlers | `server/src/handlers/{scan_unlock,end_ride,report_damage,recharge}.cpp`, `server/src/db/*_repo.cpp` | tables bike, account, account_record, ride; `RideSessionStore` | the four handlers, statement by statement |
| MySQL pool | `server/src/db/mysql_pool.cpp` | free connections, leases, waiting threads | `acquire`, `~Lease`/`return_`, nested `acquire` |
| Peer supervision | `gateway_main.cpp`, `dispatch_main.cpp`, `ring_source.cpp` | heartbeats and pids in the ring headers | write, check, exit |
| Shared memory life cycle | `server/src/ipc/shm_region.cpp` | ring files, lock files | create, recover, open, attach |
| Login and sessions | `login.cpp`, `mobile_code.cpp`, `redis_session_store.cpp`, `mysql_user_repo.cpp` | codes, tokens, users | request a code, log in, look up |
| Read-only handlers | `account_balance.cpp`, `list_records.cpp`, `list_rides.cpp`, `get_ride_detail.cpp` | none of their own | authenticate, read, answer |
| Trajectory | `client/src/trajectory_*.cpp`, `client/RidePane.qml`, `position_report.cpp`, `ride_session_store.hpp` | the client's counter, points of an active ride | tick, report, filter by sequence number, store at the end |
| Nearby bikes | `list_nearby_bikes.cpp` | table bike | query, spawn |
| Frame protocol | `common/src/protocol.cpp`, `frame_cut.cpp`, `consume_frames` in `tcp_worker.cpp` | receive buffers | encode, stamp, decode, cut |
| Pricing, geometry | `common/src/*.cpp` | none | pure functions |
| Qt client | `client/src/net/*.cpp` | socket, reconnect timer, pending reports, requests in flight, remembered ride | connect, reconnect, send, answer, fail, shut down |
| First server | `legacy/*.cpp` | generated messages, thread pool, sessions, response queue, table userinfo | callbacks of the event loop, pool threads, two handlers |

A client talks TCP to the gateway. The gateway's main thread owns every
connection and hands received bytes to a worker thread. In `inprocess` mode the
worker calls the handlers itself and puts the reply in the outbox. In `ring`
mode it writes the request to its request ring; the reader thread of the
dispatch process pops it and posts it to the business pool, whose threads run
the handlers over MySQL and Redis; replies go through the reply queue and the
response ring back to the gateway's main thread.

What makes it hard: samples taken before an action and used after it; two
processes that restart independently; notifications that are only hints;
handlers whose statements interleave without a transaction around them; and a
connection that is shared between the kernel, the main thread and the workers.
`PROJECT.json` lists these hazards with the line where each bites.

## 2. Modules

| Module | Models | Checked by |
|---|---|---|
| `BoundedFifo` | what a ring promises (abstract specification) | `primitives`, proof |
| `SpscRing` | one ring; refines `BoundedFifo` | `primitives`, proof |
| `MysqlPool` | the pool and its callers | `primitives`, proof |
| `IpcPath` | request and reply path; its rings are queues, as `SpscRing` justifies | `ipc_path`, `ipc_live`, proof |
| `Gateway` | engine, workers, outbox, shutdown; both modes | `gateway`, `gateway_faults`, `gateway_accept`, proof |
| `Pricing` | `compute_fee` | through `RideService` |
| `RideService` | the four handlers that change bikes, balances and rides | `ride_service`, `ride_double_charge`, proof |
| `Supervision` | shared memory life cycle, heartbeats, verdicts, relaunches | `supervision`, proof |
| `Client` | `ApiBridge` and `TcpWorker` with a connection and a server | `client` |
| `Sessions` | codes, tokens, users, Redis connections, the read-only handlers | `handlers` |
| `Trajectory` | the path of a ride from the client's tick to the table | `handlers` |
| `Spawn` | `list_nearby_bikes` in one area | `handlers` |
| `Frames` | encoding and both cutting loops | `handlers` |
| `LegacyMessages` | the generated code of the first server's messages | `legacy` |
| `LegacyPool` | its thread pool | `legacy`, proof |
| `LegacyServer` | its event loop, dispatch service and handlers; extends `LegacyPool` | `legacy` |
| `SpscRingProofs`, `MysqlPoolProofs`, `RideServiceProofs`, `IpcPathProofs`, `GatewayProofs`, `GatewayDeliveryProofs`, `SupervisionProofs`, `LegacyPoolProofs` | theorems | |
| `MCPrimitives`, `MCHandlers`, `MCLegacy` | several parts in one run: a variable `part`, chosen initially, says which one moves | |
| `MCIpcPath`, `MCGateway`, `MCRideService` | values of constants, symmetries, scenarios | |

**SpscRing.** A step is one access to a shared atomic; `fill` takes two steps,
header and payload. The counters wrap at `CounterMod` (2^32 in the code). Both
processes may die between any two steps and attach again. Memory order: the
release store of `publish` and the acquire load of `pop_batch` make a
sequentially consistent model adequate for the data they guard.

**IpcPath.** A worker's `handle` is three steps (sample, write, notify), the
reader's loop is split wherever another thread can intervene, a business task
into run, push and decrement. A FIFO is reduced to "readable". `fate` records
what became of a request: refused (ring full), failed (callback error), silent
(one-way or exception), dropped, closed (connection gone) or delivered.

**Gateway.** A step is the handling of one completion, one outbox item or one
response slot. An operation's result is chosen when it is handled. A byte stream
is counted in half frames, so a batch can end inside a frame. `get_sqe(ok)`
models a submission queue that may be exhausted at any call, the cancels that
follow a refused one included. The overflow check
of `complete_recv` is left out: half a frame and one buffer cannot exceed it.
The reap closes up to 64 connections per turn; the model has fewer.

**RideService.** A step is one call of a repository or of the session store,
each atomic by itself. The clock is reduced to the second that `ride_no` depends
on; a ride's duration is any member of `Durations`. `Fault` is a statement that
MySQL refuses, `Crash` a restart of the dispatch process. `paid` and `late` in a
request's record are history variables. A `SELECT ... FOR UPDATE` outside a
transaction is a plain read, because the pool's connections autocommit.
A request whose user could not be looked up runs as user 0; it is one of `User`
like any other.

**MysqlPool.** A step is one critical section of the mutex, or the `notify_one`
after it. A call may be nested (`add_balance` calling `get_balance`,
`find_or_create` after a refused INSERT). Wakeups may be spurious.

**Supervision.** Time goes in heartbeat periods; a heartbeat is its age. Two
dispatch processes may start at once, and each takes the file locks, judges what
it finds (`create_or_recover`), resets or recovers, registers and runs. A new file
has no length until `ftruncate`, and one without a length cannot be mapped. The
gateway waits for valid files, attaches and runs. Either may crash between two
steps and is relaunched; a pid may be reused; a reader that finds the response
ring full sends no heartbeat until its deadline (`Spin`). Contents of the rings
are left out: `dcur` and `gcur` say whether a process still sees the files as it
found them.

**Client.** A slot of Qt runs to completion, so it is one action; the two
threads exchange queued signals. The server end of the connection answers in any
order, breaks it off, sends malformed frames and drops answers; a request with
free text may be too long for `encode`; the application may be restarted
(`MaxIncidents` in all). Request numbers wrap at `SeqRange` (2^32 in the code) and
skip 0. Back-off times are left out: an armed timer fires at
some later moment. A request is its kind and its number, as `in_flight_` keeps
it, and an identity the properties use.

**Sessions.** A Redis call takes two steps, the lease and the command; an SQL
statement takes one. Outages break every open connection. Overlapping draws of
the shared generator may give one token twice, which is what the data race
allows. **Trajectory** numbers positions over the whole ride, so that the order
of travel can be compared with `seq` and `elapsed`; the server's clock, from which
the end of the ride has its `elapsed`, may have been set back by up to `MaxBack`.
**Spawn** counts bikes by
status, with rentals, returns and damage reports beside the queries. **Frames**
works on bytes, with four values of a byte, a magic of one byte and integers of
two; lengths are signed as in the code.

**LegacyMessages.** `bike.pb.cpp` repeats the same functions for 14 messages;
each message is its list of fields and one operator per generated function takes
the list; the lines mapped to a list are those functions of its message, from
`Clear` to `IsInitialized`. Sizes are counted in bytes as the library counts them
(tags, varints of scaled width, sign extension of `int32`, length prefixes) and
compared with the bytes written. A wire is a sequence of items; varint wider than a field, unknown
fields, wrong wire types, end-group tags and truncation are items of their own.
**LegacyPool.** A step is one hold of the mutex; that `pthread_cond_signal` or
`pthread_mutex_lock` fails on an initialised object is left out. **LegacyServer.** The main
thread alternates between callbacks and answers; a request arrives in pieces.
An answer to a freed session is undefined behaviour, and the model stops there.

An operator directly before a definition `X` whose name begins with that of `X`
(`X_Something`, `XSomething`, and `lock_file_shared` before
`lock_file_exclusive`) is `X` with a plausible mistake. No specification
uses it; each shows that a property notices the mistake when `X` is replaced by
it.

## 3. Runs

Passing runs:

| Run | Configuration | Question | States |
|---|---|---|---|
| `primitives` | ring: 4 slots, counters mod 16, batches of 2; pool: 3 threads, 4 or 2 connections, 2 calls each, fairness | the ring's invariant (`RingInv`: packets whole, batches contiguous), never overwritten, a FIFO; leases exclusive, no lost wakeup, not everybody waits in a pool of more connections than threads; every call returns unless the pool is wedged, which such a pool never is (`EveryCallReturns`) | 440 thousand |
| `ipc_path` | 3 requests, ring of 2, response ring of 1, 2 business threads | one place per request, exact quota, long poll only when idle | 2.0 million |
| `ipc_live` | 2 requests, 2 rings, fairness | every request is settled though notifications are lost | 644 thousand |
| `ride_service` | 4 requests, 2 bikes; 2 users without faults, or one user with one refused statement and one restart | rides paid, bikes owned, settled rides free, records explain the balance | 1.7 million |
| `gateway` | ring mode, 2 connections, 2 workers | a connection is with the kernel or with one worker | 1.9 million |
| `gateway_faults` | in-process mode, 1 connection, 4 half frames, 2 refused submissions, fairness | operations accounted, stream conserved, replies in order; Parsing and Closing end (`TransientEnds`), a stop ends the engine | 333 thousand |
| `supervision` | 2 dispatch processes, timeout 3, lock limit 2, 1 crash or stall, fairness | no ring reset under a process that serves; a wrong verdict needs a stall; the pair recovers if given the chance | 737 thousand |
| `client` | 3 kinds of request, 2 requests, 3 reports, 2 pending, 2 incidents, numbers wrap at 5, fairness | answers reach their requests but in one window, one way to reconnect (`ReconnectsOnce`), reports in order, link state and remembered ride (`BridgeAgrees`); a request ends unless it could not be encoded or its answer was dropped, and any request once the connection is gone (`NoStuckRequest`) | 714 thousand |
| `handlers` | sessions: 2 threads, 2 mobiles, 5 calls, 1 fault; trajectory: 7 ticks, 3 in flight, clock back by up to 2; spawn: 2 handlers, 3 requests; frames: 2 frames, 1 damaged byte | own data only, spent codes refused; the path keeps its order (`PathKept`); bikes spawned where needed and once (`SpawnsAsNeeded`); both ends cut the stream right (`FramesCutRight`) | 2.5 million |
| `legacy` | messages: 2 items beyond a complete message, bytes of 1 bit, integers of 2 and 4 bits; pool: 2 threads, queue of 1; server: 2 sessions, 3 requests, 1 incident, fairness | reading, merging, writing and sizing agree (`ReadsRight`, `WritesRight`); queue counted, bounded, no task forgotten (`QueueAccounted`), freed unused; reads and answers in step (`SessionInStep`), requests answered | 851 thousand |

Several properties are conjunctions of parts that are stated one by one above
them in the module. The type invariants (`TypeOK` and its like) document the
state; those of `SpscRing`, `MysqlPool` and `LegacyPool` are parts of the proved
invariants.

Bounds. The ring wraps its counters four times round its slots, so every
alignment of head, tail and array end occurs. Three threads and four connections
are the tight case of `NotEverybodyWaits`; with two connections the pool does wedge,
and the calls outside the wedge still return. Three requests and a response ring of
one slot make the full-ring and drop paths happen with replies on both sides.
Four ride requests are an unlock, two ends of that ride and one request of
somebody else, which every ride property needs at most. Four half frames are two
frames, in pieces of up to three halves. `Backlog` 1 and 2 make the overflow
reachable. One fault and one restart cover each single interruption of a handler.
A timeout of three periods is the least with room for a missed heartbeat above
the lock limit. Two incidents are a break of the connection and another
before the first is over. Three reports, two of which can wait, make the oldest
give way and two be flushed before a third; five numbers wrap within the requests
and reports of a run. The values 1, 2 and 5 of
a message field need varints (or, as lengths of a `string`, length prefixes) of
one, two and three bytes, and 2 is a negative `int32`. Seven ticks fill the three
points of a session, restart the count and pass the old one. Five calls are two codes, two log-ins and a read.
Two sessions and three requests let one session send its second request
while the other's is being handled by the second thread.

Deadlock checking is off where behaviours really end: all requests answered or
calls made (`RideService`, `Client`, `Handlers`, `Legacy`), engine exited
(`Gateway`), or, in `Supervision`, nothing left to happen but what the bounds
forbid. `IpcPath` and `MCPrimitives` check it; there the only stutter allowed is
that of a pool whose calls are all made.

### Disagreements between the code and its documentation

Two have a run that exhibits the counterexample; `PROJECT.json` quotes the
lines on both sides.

| Run | Claim | What the code does |
|---|---|---|
| `ride_double_charge` (`RideChargedOnce`) | a second END_RIDE does not charge | it does while the first is between its debit and the removal of the session |
| `gateway_accept` (`AcceptComesBack`) | accept is armed again at the next tick | never |

The other claims are stated at the end of the modules, outside the runs. TLC
refutes each one on the instance given within seconds. "Run's" is the
configuration of the run that checks the module.

| Definition | Claim | What the code does | Instance |
|---|---|---|---|
| `IpcPath!NoLostNotification` | a byte waits in the FIFO for every request (`docs/superpowers/specs/2026-08-08-ipc-mmap-ring-design.md:431`) | `was_empty` is sampled before `publish`, so a byte may never be written; the poll slice finds the request | 2 requests, 1 ring |
| `IpcPath!NoReplyDropped` | a full response ring costs no reply (same document, line 907) | replies are dropped after a deadline or on stop | 2 requests, 1 response slot |
| `RideService!OneSessionPerBike` | a row lock serialises concurrent scans (`2026-07-19-shared-bike-expansion-design.md:559`) | the lock ends with the statement | 2 requests, 2 users, 1 bike |
| `RideService!BalanceNeverNegative` | a debit has `balance >= ?` (line 560) | it has no condition; the overdraft is committed and then reported as a refusal | 2 requests, balance 100, fare 150 |
| `RideService!DamageIsKept` | a reported bike answers 409 (line 693) | an unlock or end in progress overwrites the report | 3 requests, 1 bike |
| `RideService!RecordedRidesPaid` with `MaxFaults = 1` | the ride is recorded only when the debit succeeded (lines 369-370) | a debit that was rolled back is taken for success | 2 requests |
| `Gateway!FreedAfterOps` | a Connection is freed after the ring is torn down (`uring_engine.cpp:62`) | `conns_.clear()` comes first when the reap limit passes | 1 connection |
| `MysqlPool!NeverWedged` | the pool has 8 connections, "as many as asio threads" (`2026-07-19-shared-bike-expansion-design.md:557`; the shipped `server.toml` has 8 and 16 threads) | `add_balance` takes a second lease with one in hand; every lease may be with a thread that waits for another | run's, 2 connections |
| `Client!AnswersOwnRequest` | a request in flight on the old connection cannot be answered any more (`client/src/net/api_bridge.cpp:270`) | it can when it was written on the new one before `onWorkerConnected` ran; its number is then given out again | run's |
| `Client!EveryRequestEnds` | the views' pending flags are reset and no button is stuck for ever (`client/src/net/api_bridge.cpp:278-279`) | a request that `encode` refuses (`tcp_worker.cpp:88`), or whose answer is dropped, keeps its slot while the connection lasts | run's, `FairSpec` |
| `Supervision!EmptyFileHeals` | the next start cleans what was left behind (`server/src/ipc/shm_region.cpp:384`) | a file without a length, left by a crash between `shm_open` and `ftruncate`, fails every later start | run's, `FairSpec` |
| `Supervision!GatewayViewCurrent` | a dispatch process refuses to reset rings a live gateway maps (`server/src/ipc/shm_region.cpp:198-200`) | between attaching and its first heartbeat the gateway does not look alive | run's |
| `Supervision!OneGatewayEach` | a restart of one side makes the other exit (`docs/ops.md:64`) | a gateway that is back before the timeout goes unnoticed | run's |
| `Supervision!UnregisteredHeals` | heartbeats and relaunches heal the pair (`README.md:13`) | a gateway that finds neither pid nor heartbeat never judges | run's, `FairSpec` |
| `Sessions!LeasesWork` | a leased connection works (`acquire`/`release`, `server/src/cache/redis_session_store.cpp:16-36`) | one broken by an outage is lent and put back for ever | run's |
| `Sessions!TokenIsOnes` | a token is one user's (`redis_session_store.cpp:103`) | the generator is used outside the mutex; overlapping draws may coincide | run's |
| `Sessions!DeletesOwnCode` | a log-in deletes the code it used (`server/src/handlers/login.cpp:26`) | it deletes whatever code the number has by then | run's |
| `Trajectory!ResumedRideTracked` | after a refused end the ride has been resumed (`client/RidePane.qml:129`) | the client counts from zero again; its reports are ignored until the count passes `last_seq` | run's |
| `Trajectory!StoredInTimeOrder` | the sort keeps storage and replay in time order (`server/src/handlers/end_ride.cpp:72`) | after the clock was set back the end has less `elapsed` than points before it, and `list_points` reads by `seq` | run's |
| `Spawn!ReportedReplaced` | bikes reported are replaced (`list_nearby_bikes.cpp:21-22`) | `list_in_bounds` counts damaged bikes | run's |
| `Spawn!OneWaveEver` | at most one wave per area (`list_nearby_bikes.cpp:21`) | queries that overlap both spawn | run's |
| `LegacyServer!NoLateAnswer` | an answer finds its session | `handle_error` frees it while its event is with a pool thread (`legacy/NetworkInterface.cpp:268`) | run's |
| `Gateway!DrainAnswersFirst` | a drain lets requests in flight finish (`docs/architecture.md:87`) | in ring mode `RearmRecv` closes the connection before the reply | 1 connection, `RingMode` |

Ride numbers are unique only while no two unlocks fall in the same second, a
limitation `docs/architecture.md` states. `RentedBikeHasSession`
and `SettledRideIsFree` are therefore stated for behaviours in
which the numbers given out are distinct (`NumbersUnique`); the runs contain
both kinds. Active rides live in memory (`docs/architecture.md:201`), so
`RentedBikeHasSession` also excludes restarts and refused statements, and
`RecordedRidesPaid` excludes refused statements, for the reason in the table.

### Fairness

* `IpcPath`: threads that can run do run and handlers return. `poll` and the
  gateway's wait have timeouts, so their return needs no notification. Nothing
  is assumed of clients, of errors or of the stop signal.
* `Gateway`: the main thread handles what the kernel has completed, a cancelled
  operation completes, workers run, deadlines pass. A cancel whose submission
  was refused is not assumed to complete: `ClosingEnds` then holds through the
  drain that such a failure starts. Nothing is assumed of clients, of new
  connections or of the dispatch process. Liveness is checked in in-process mode;
  in ring mode the steps of closing and stopping are the same.
* `MysqlPool`: statements return and the mutex is granted. A sleeping thread is
  woken by `notify_one` only; spurious wakeups are possible and not relied on.
* `Client`: queued signals are delivered, timers fire, a connection attempt
  ends and does not fail for ever (strong fairness of `onConnected`), bytes arrive, the
  server answers what it took or drops the answer. The client has no timeout of
  its own, so a dropped answer is noticed only when the connection is gone, and
  nothing is assumed to end it, the gateway's idle sweep included.
* `Supervision`: processes run, are relaunched by compose, and time passes.
  `RecoversGivenChance` has two hypotheses in its statement: relaunch and
  start-up take less than a heartbeat period, and dispatch processes keep finding
  the response file free. Without them two processes may chase each other, or fail
  for ever on a file without a length. That the lock limit is below the timeout
  (`InUse` < `PeerTimeout`) is assumed: the limit is a constant of
  `shm_region.cpp`, the timeout a setting whose lower bound `config.cpp` does not
  check against it.
* `LegacyServer`: the main loop and the pool's threads run. Nothing is assumed
  of clients or of the database.

## 4. Proofs

`SpscRingProofs` proves, for every slot count, every modulus that is a proper
multiple of it, every batch size and every set of packets:

* `RingCorrect`: `Spec => []RingInv`, the inductive invariant;
* `PublishedAlwaysWhole`: a consumer sees only whole packets;
* `BatchAlwaysContiguous`: a batch lies inside the array and is published;
* `UnreadSafe`: no step overwrites a published slot that was not released;
* `RingImplementsFifo`: the ring refines `BoundedFifo`.

The assumptions are the three `ASSUME`s of `SpscRing`. In the code the modulus
is 2^32 and the slot count 2^9 or 2^8.

`PublishedWhole` is not inductive: `publish` needs to know that the reserved
slots are filled (`StagedFilled`), filling needs to know that the reserved slot
is not a published one, and that follows from the counters (`CountersAgree`: in
flight = published + reserved, at most the slot count). `BatchContiguous` needs
the agreement of `tail_local` with `tail`. `RingInv` is the conjunction. The
arithmetic is in lemmas: the distance of two wrapped counters grows and shrinks
with them (`DistanceAdvance`, `DistanceCatchUp`), masking commutes with
wrapping because the modulus is a multiple of the slot count (`SlotAfterPlus`),
and two positions less than a slot count apart are different slots
(`SlotInjective`). The refinement maps the reserved slots to `staged` (counting
a slot as its packet from `begin_write` on, although it is filled later) and the
published ones to `q`.

`MysqlPoolProofs` proves, for every finite set of threads and connections and
any number of calls:

* `LeasesAlwaysExclusive`: no connection is in two leases, or in one and in the
  pool;
* `WakeupsNeverLost`: while a connection is free, no thread sleeps without a
  notification on its way;
* `LargePoolNeverWedged`: with more connections than threads there is never a lease
  to wait for that only waiting threads could give back, the size from which the
  deadlock of the table above is gone (the safety half of `EveryCallReturns`);
* `EnoughConnections`: in such a pool the threads never all wait.

The invariant `MysqlPoolInv` adds to the types that every connection is in the
pool or in a lease (`Conserved`), how many leases a thread holds at each step
(`Shape`), and, for the wakeups, that while somebody sleeps there are no more
free connections than threads that were woken or are about to notify
(`WakeupsSuffice`). `NoLostWakeup` alone is not inductive: a newcomer that takes
the connection a sleeper was woken for uses up one of each. `EnoughConnections`
maps each connection to the thread that holds it; when all threads sleep that
map is an injection, so there are at most as many connections as threads.

`RideServiceProofs` proves `LedgerExplained` (`Spec => []RecordsExplainBalance`)
for any set of requests, users, bikes, amounts and balances and any number of
refused statements and restarts: each account record holds the balance after it,
the records of a user chain up and end at the balance. The invariant adds that
the tables are functions on the users. The proof is by action; only
`add_balance` touches the two tables, and it changes both or none.

It also proves `SettledAlwaysFree` (`Spec => []SettledRideIsFree`): while
ride numbers are unique, an `end_ride` that arrives after its ride was settled takes
no money. `RideInv` follows the number: a ride that is ended was begun by some
`scan_unlock` (`Begun`), so a new session cannot come under a settled number without
two rides having it, no settled ride has a session (`Gone`), and a late `end_ride`
therefore never gets past `find` and `history` (`LateUnpaid`). That numbers once
unique in a state were unique before is what lets the condition stand outside.

`IpcPathProofs` proves, for any number of rings, slots, batches, threads and
requests, a finite number or not:

* `InflightAlwaysExact`: `inflight_replies` counts the tasks that have not returned
  their quota (`InflightExact`);
* `LongPollAlwaysIdle`: the reader polls for the long slice only when no task runs
  and no reply waits (`LongPollOnlyWhenIdle`).

A counter is exact only if no task is among the others twice, so `PathInv` follows a
request from worker to ring to task and says that it is in one of them at a time and
once there (`HeldOnce`, `RingedOnce`, `TaskedOnce`, `Apart`); what a batch's callbacks
have taken of a ring no longer counts (`Taken`), which needs the bounds of the batch
(`PopShape`). `IdleInv` says what the reader's samples are worth: a counter read as
zero leaves no task that could push a reply, so the size read after it stays true
until a callback.

`GatewayProofs` and `GatewayDeliveryProofs`, which rests on it, prove, for any number
of connections, workers and refused submissions, any receive buffer and any backlog:

* `OpsAlwaysAccounted`: `pending_ops`, `recv_op` and `send_op` describe what the
  kernel has in flight, and no Connection is erased before its operations are over,
  until the engine exits (`OpsAccounted`);
* `BatchAlwaysOwnsConn`: a connection is with the kernel or with one batch
  (`BatchOwnsConn`);
* `StreamAlwaysConserved`: no part of a client's stream is lost or handled twice
  (`StreamConserved`);
* `RepliesAlwaysInOrder`: in in-process mode the replies of a connection keep the
  order of its requests (`RepliesInOrder`).

The first two are inductive only together: that `recv` is armed once needs that a
batch on its way back belongs to a Parsing connection, and that such a connection has
no `recv` in flight needs the account. `BatchInv` names the four places of a batch
(posted, with a worker, in the outbox, taken from it) and says that a connection has
at most one in all of them. `StreamInv` says where the rest of the stream is in each
of these places; `OrderInv` that each stage of a reply's way is in order and before
the next, and numbered no higher than the frames handled, which is what makes the
next reply the last of all.

`SupervisionProofs` proves, for any number of dispatch processes that start, crash
and are relaunched in any order, and any timeouts with 1 < `InUse` < `PeerTimeout`:

* `RingsKeptUnderDispatch`: nobody resets the rings under a dispatch process that
  serves them (`DispatchViewCurrent`);
* `VerdictsRight`: the gateway takes no dispatch process for dead that lives, unless
  one has stalled on a full response ring (`WrongVerdictNeedsStall`).

For the first, `LockInv` says which file locks a process holds at each step: a reset
is made under a lock that a serving process would hold. For the second, `BeatInv`
says that until somebody stalls the heartbeat of a running process is at most one
period old, that it has none before its first period, and that a live pid in a
header is that of a process that is assembling or running. The two properties say
nothing of the steps before, so neither is inductive alone. That the pair recovers
is liveness and stays with TLC.

`LegacyPoolProofs` proves `QueueAlwaysAccounted`, for every finite set of threads
and every `max_queue`: `waiting` is the queue's length less the waiting threads,
the queue holds at most `max_queue` tasks and one for each of them, and while a
thread sleeps there are at least as many woken threads as tasks. The bound on the
counter is what makes the bound on the queue inductive. It also proves
`FreedAlwaysUnused`: `thread_pool_destroy` frees the pool only when every thread has
left and the queue is empty. `ExitInv` says what the spin variable tells it: every
turn of the loop but the one it spins for has ended a thread, at most one exit task
is about, and that one is the last of the queue.

Assumed of the constants: for the ring as above; that threads and connections
are finite sets; that amounts and balances are integers and the clock has a second;
that there is a ring and a batch size and `NoRequest` is no request; that `NoBatch`
is no batch; the order of the timeouts
above and that `Nobody` is no dispatch process; that the legacy pool has a thread
and its exit task is none of the others. Everything else is model-checked only. Liveness is out of the
prover's reach.

## 5. Not modelled

* The oversized-reply branch of `flush_replies`: `encode` refuses a frame that
  would not fit a response slot.
* The arming of the response FIFO's read in the gateway. The main loop drains
  the response ring every second whatever happens to it.
* Geometry (`common/src/geo.cpp`), validation of input and ride number formats:
  pure functions over floating point and text. Positions are left out of
  `RideService` and `Spawn`, and are numbers in `Trajectory`.
* Formatting of times. `list_rides`, `get_ride_detail` and `scan_unlock` copy the
  static buffer of `std::gmtime`, which business threads share: a data race on
  the text of a time, outside every model here.
* Configuration, the router and the start-up wiring, which have no state that
  changes; wrong sizes other than zero and other mapping errors of
  `shm_region.cpp`, which end the process.
* The client's views, map and location provider.
* Of `legacy/`: the accessors of the generated messages, logger, ini reader and
  a timer nothing starts. The branch that answers with an `ExitRspEv` cannot be
  reached, since `parseEvent` builds only events that have a handler.
* Logging, metrics, deployment and benchmark scripts, and the vendored TOML
  parser (17 thousand lines of the repository).

## 6. Plan

1. Proofs: `ExactlyOnePlace` of `IpcPath`, of which `Apart` is a part.
2. Composition of `Client` with `Gateway`.
3. `Pricing` against a reference fare.

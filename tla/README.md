# TLA+ verification of apex_pipeline

apex_pipeline is a C++23 server framework (`src/apex_core`), adapters to Redis,
PostgreSQL and Kafka (`src/apex_shared`), three services built on it
(`src/apex_services`: gateway, auth, chat), and a Go daemon, `apex-agent`, that
serialises builds and merges of several working copies (`src/apex_tools`).

This directory holds TLA+ models of these parts, the TLC configurations that check
them on small instances, and proofs that TLAPS checks for every instance.
`PROJECT.json` lists components, runs, the source lines behind every definition,
the hazards the work is aimed at, findings and theorems.

    tlc -workers 2 -config SpscQueue.cfg SpscQueue      # any run of the table below
    tlapm SpscQueueProofs.tla                           # any module *Proofs

## 1. The system

| Part | State | Operations | Talks to |
|---|---|---|---|
| SPSC queue (`spsc_queue.hpp`) | ring of slots, `published_`, `consumed_`, one stored handler | `try_enqueue`, awaitable `enqueue`, `drain`, notify | core engine |
| MPSC queue (`mpsc_queue.hpp`) | ring of slots with a ready flag, `head_`, `tail_` | `enqueue` by CAS, `dequeue` | any threads |
| Core engine, SPSC mesh (`core_engine.cpp`, `spsc_mesh.cpp`) | a queue per ordered pair of cores, `drain_pending_`, rotation index | `post_to`, `co_post_to`, `schedule_drain`, `drain_all_for`, stop, start | everything that crosses cores |
| Cross-core call (`cross_core_call.hpp`) | status word, result, timer, heap task | call, settle by CAS, timeout, abort | core engine |
| Listener, acceptor, connection limiter | per-IP counts on the IP's owner core, active read loops | accept, check (local or by cross-core call), compensate, start and end read loop | cross-core call, server |
| Read path (`ring_buffer.cpp`, `frame_codec.cpp`, `wire_header.cpp`, WebSocket protocol, `connection_handler.hpp`) | ring with a linearisation buffer, the loop's position | read, decode, dispatch, consume, shrink, close | dispatcher |
| Session (`session.cpp`) | write queue, `pump_running_` | `async_send`, `enqueue_write`, `write_pump`, `close` | socket |
| Timing wheel, session manager | slots, entries, free ids; sessions with a heartbeat timer each | schedule, cancel, reschedule, tick; create, remove, touch, expire | connection handler |
| Allocators (slab, arena, bump) | free list, chunks, counters; blocks and offset | allocate, deallocate, grow, reset | sessions, commands |
| Dispatcher, service base, blocking executor | handler tables, phases, counts of coroutines | register, start, dispatch, spawn, offload, stop | server |
| Server (`server.cpp`), periodic tasks, HTTP server | `stopping_`, control io_context, listeners; timers; tracked sessions | run, stop, shutdown poll, finalise | all |
| Adapter base, cancellation tokens | state, per-core slots of coroutines | spawn, drain, cancel, close | server |
| Circuit breaker | state and counters | `call`, reset | adapters |
| Redis multiplexer | `pending_` FIFO, slab of commands, connection | command, reply, timeout, AUTH, reconnect, close | hiredis |
| PostgreSQL pool, connection, transaction guard | idle list, counters, poisoned and in-transaction flags | acquire, retry, release, discard, shrink, query, commit, rollback | libpq |
| Kafka adapter | consumer queue, pipe, offsets, dead letters, producer queue, payload pool | wake, poll, commit, dead-letter, flush, close | librdkafka |
| Rate limiters | window per address with an LRU vector; three keys in Redis | allow, evict, expire, reconfigure; the Lua script | gateway |
| Gateway: requests | `auth_states_`, pending map per core, correlation counter | pipeline, forward, response, sweep, session removal | Kafka, Redis |
| Gateway: broadcasts | channel map per core, listener thread, Redis subscriber | subscribe, unsubscribe, read, reconnect, fan out | Redis |
| Gateway: configuration | watcher, route table and limits per core | poll the file, reload, post to cores | core engine |
| Message formats | envelope, frames | build and parse | all services |
| Auth service | `refresh_tokens` table, sessions and mappings in Redis | login, logout, refresh with rotation | PostgreSQL, Redis |
| Chat service | rooms and messages in PostgreSQL, members in Redis | create, join, leave, list, send, history, whisper, broadcast | PostgreSQL, Redis, Kafka |
| apex-agent lock queue (`modules/queue`) | SQLite table of waiting and active rows | acquire, try-acquire, update-pid, release, cleanup-stale | build CLI, merge pipeline |

Every core runs one `io_context` on one thread: handlers and coroutines of a core
interleave only at suspension points, and cores interleave at every access to
shared memory. What makes this hard:

* two threads meet in lock-free memory (both queues, drain flag, status word), with
  loads that may be stale and stores that may be late;
* a coroutine checks something, awaits, and goes on with what it saw (listener,
  write pump, breaker, adapter spawn, gateway pipeline, chat join, token rotation);
* timeouts race with late answers (cross-core call, Redis commands, owner checks,
  pending requests);
* callbacks call back into the structure that is calling them (timing wheel,
  periodic tasks);
* several stores change together though no transaction spans them (PostgreSQL and
  Redis; Redis and a gateway's memory), and each statement may fail, or succeed with
  its answer lost;
* shutdown runs against everything else, with deadlines of its own;
* processes die between two steps (gateway, Kafka consumer, apex-agent) and find
  what their former life left behind.

## 2. Modules

| Module | Models | Proofs |
|---|---|---|
| `BoundedFifo` | what a cross-core queue promises: items are delivered once, in order, at most `Capacity` outstanding | |
| `SpscQueue` | one queue, producer coroutines and the consumer, one step per access to shared memory; implements `BoundedFifo` | `SpscQueueProofs` |
| `MpscQueue` | any number of producers and one consumer, one step per load, store and CAS; implements `BoundedFifo` | `MpscQueueProofs` |
| `CoreEngine` | all sources and one destination core: posting, the coalesced drain, backpressure, restart | `CoreEngineProofs` |
| `CrossCoreCall` | several calls from one core to another through one bounded queue | `CrossCoreCallProofs` |
| `Listener` | admission of connections, both acceptor layouts | |
| `FrameStream` | the bytes a peer sends, cut by reads of any size, through the ring and both decoders to the handler | |
| `Session` | the write side of one session | |
| `TimingWheel` | one wheel and its callbacks | |
| `SessionManager` | sessions and heartbeats; EXTENDS `TimingWheel` and drives it | |
| `Slab`, `Arena` | the allocators: slots with their markers, counters and growth; offsets, alignment, blocks and reset | |
| `Server` | run, stop and shutdown with connections coming and going | |
| `ServiceHost` | the services of one core from configuration to stop, dispatch, spawned and offloaded coroutines | |
| `PeriodicTasks` | the scheduler of a core against `stop_all` from the control thread | |
| `HttpServer` | accept loop, tracked sessions and `stop` | |
| `Adapter` | adapter coroutines against drain and close | |
| `CircuitBreaker` | interleaved calls through one breaker | |
| `RedisMultiplexer` | commands, replies, timeouts and the AUTH/reconnect loop on one connection | |
| `PgPool` | one core's connections and four programs that use them, with every statement failing in every way | |
| `Kafka` | one partition and the process that consumes it, over restarts; INSTANCEs `PayloadPool` | |
| `PayloadPool` | the buffers that carry payloads to coroutines | at the end of `AuthServiceProofs` |
| `IpLimiter`, `RedisLimiter` | the per-address limiter with its table and LRU vector; the Lua script of the Redis limiter | |
| `Gateway` | requests from the default handler to the answer, over removals of sessions and restarts | `GatewayProofs` |
| `PubSub` | subscriptions, the listener thread, fan-out to every core | |
| `ConfigReload` | watcher, reload, validation and lookup of routes, posts to the cores | |
| `Envelope` | every builder and parser of the messages between gateway, services and client, byte by byte | |
| `AuthService` | login, logout and token rotation as interleaving handlers over PostgreSQL and Redis | `AuthServiceProofs` |
| `ChatRooms`, `ChatPaging` | rooms, members and messages under failures; the two paged listings | |
| `Whisper` | a whisper across auth, chat and gateway by the mapping in Redis | |
| `AgentQueue` | the agent's lock, its users and their deaths | `AgentQueueProofs`, `AgentBuildProofs` |
| `MCServer`, `MCServices`, `MCProgress` | instances for TLC | |

**Correspondence.** A module's variables carry the names of the fields they stand
for (without the trailing underscore). `pc` variables (or `at`, `phase`, `lifecycle`)
say where a thread or coroutine is between two suspension points or two shared
accesses. An action is what runs without interruption: from one shared access to the
next in `SpscQueue`, `MpscQueue`, `CoreEngine` and `CrossCoreCall`; a whole handler up
to its next `co_await` in the others, every state change it makes included; a SQLite
transaction in `AgentQueue`; a command or statement of Redis or PostgreSQL where a
service awaits one, with its outcomes (done, failed without effect, done with the answer lost). The map in
`PROJECT.json` gives the lines of each. Variables marked *history* in the modules
record what happened and decide nothing.

**Components that meet.** `CrossCoreCall` contains the queue as a bounded sequence,
which `SpscQueue => BoundedFifo` justifies. `CoreEngine` counts the messages of each
queue and keeps the backpressure protocol. `Listener` contains the cross-core
call it makes, with the same status word. `SessionManager` runs on the real
`TimingWheel`; `FrameStream` contains the manager's tick that shrinks its buffer.
`Server` counts read loops as `Listener` does, leaves the adapters to `Adapter` and the
services to `ServiceHost`, whose control threads perform the same steps of
`finalize_shutdown`. `Kafka` runs on the real `PayloadPool`. `Gateway`, `AuthService` and
`ChatRooms` see PostgreSQL, Redis and Kafka as the adapters present them: an await
that returns a result or an error. `Whisper` composes the login of auth, the lookup of
chat and the push of the gateway; `Envelope` the builders of one side with the
parsers of the other.

**MC modules.** Each of the three checks several components that share no state in
one run. The variable `subject`, chosen in `Init` and never changed, says which
component a behaviour is about; the variables of the others hold the constant
`"unused"`. The reachable states are the disjoint union of those of the instances,
so a property `subject = "x" => X!P` says of each instance exactly what `P` says,
and weak fairness of `subject = "x" /\ X!A` is weak fairness of `A` in the
behaviours of `x` and vacuous in the others. `MCServer` has the parts of the server,
`MCServices` the adapters and services, `MCProgress` smaller instances of those with
something that must eventually happen. A property such as `RedisSound` is the
conjunction of what the component's module states; each conjunct is defined and
explained there. `MCProgress` merges the leads-to properties of a group into one
(`ServerOwes(n) ~> ServerPays(n)`), which is the same as all of them because a
behaviour has one subject. The top-level `Next` of such a module has one disjunct per
instance, which hides the component's actions from TLC's action summary; TLC's
expression coverage (`-coverage`) shows every action and disjunct of every component
taken in at least one instance (those for timeouts, cancellation and exceptions only
in the instances that enable them).

### Choices that need a word

* *Stale loads* (`SpscQueue`): an acquire load returns any of the last `MaxLag + 1`
  values of the counter, never one older than the thread has seen. The proofs
  hold for any `MaxLag`.
* *Store buffer* (`CoreEngine`): with `StoreBuffer`, the release store that clears
  `drain_pending_` becomes visible to others some time later (`FlushBuffer`), as x86
  and the C++ memory model allow. An exchange flushes the buffer. `SyncNext` is the
  next-state relation of a machine without it.
* *Undefined behaviour*: a use of a destroyed block of `RedisMultiplexer` is recorded in
  `misused` and the model goes on with the fields the block had; the instance with
  timeouts is therefore used only for properties of `pending_` and of returning.
  `PeriodicTasks` stops after a race has destroyed the running task (`corrupt`). A read
  through `Gateway`'s dangling reference yields any user.
* *Bytes*: in `FrameStream` a byte names its frame and position, so that a decoder that
  slips by one reads no header. `Envelope` computes with digits in base 8, and keeps
  the field widths and offsets of the code.
* *Time*: a timer that may fire is an action that is enabled; deadlines of the
  timing wheel are counted in ticks, windows of the rate limiters in units of which
  a window has 3 or 4.
* *External code* (librdkafka, hiredis, libpq, PostgreSQL, Redis, the file system) does what
  `src/` relies on and no more: `Kafka` loses commits, `PubSub` loses connections with
  what they carried, `AuthService` locks the rows an UPDATE touched until the
  transaction ends.
* *Process ids* (`AgentQueue`) are not reused. `try-acquire` is reachable only by the
  daemon's IPC interface; a client that uses it is assumed to go on like the CLI.

## 3. Runs

Times are for two workers. Every run that checks liveness states its fairness. The type
invariants of the modules with proofs of them are proved, and left out of their runs.

| Run | Shows | States |
|---|---|---|
| `spsc` | The queue implements `BoundedFifo`; slots and the stored handler are never touched by both threads; a suspended `enqueue` is always reachable for a wake-up and returns while the consumer drains or the mesh shuts down. | 141 k, 14 s |
| `engine` | No message without a drain on its way, drains coalesced, no source starved; with a restart of the engine and awaiting posters. | 462 k, 25 s |
| `call` | Caller and target agree on the outcome; the result is not read while it may be written; tasks are freed once; a settled call stays settled; completion wakes the caller. | 399 k, 50 s |
| `server` | Safety of the server's parts. *Admission*: per-IP limit without timeouts, no leaked slot with them. *Wheel and sessions*: tables agree, ids not shared, no missed deadline, one notification per session, expiry on time. *Limiters*: table, vector and capacity agree; at most two windows' limits in any window. *Memory*: slab counters and markers agree through growth and double frees; live allocations of an arena do not overlap. *Frames*: the handlers see every frame once, whole and in order. *Writes*: one pump, no stranded frame, wire order, honest results. *MPSC*: exclusive slots, order of reservations. *Shutdown*: once however many `stop()`, services stopped after the old sessions. *Host*: handlers belong to started services, a drain leaves no coroutine, HTTP sessions tracked exactly, a cancelled task is never run. | 1.2 M, 80 s |
| `services` | Safety of adapters and services. *Breaker*: probes throttled. *Redis*: FIFO matching; no use after free and no leaked block without timeouts. *Adapter*: at most one coroutine per core that its cancellation misses. *Pool*: counters agree with owners, idle connections are clean and ordered. *Kafka*: committed offsets are of handed-out messages, buffers return. *Gateway*: each request answered at most once, by its own response. *Routes and bytes*: an id goes to the one range that contains it, what is parsed is what was put in. *Broadcasts*: both sides of the map agree, each message at most once and in order. *Tokens*: rotation atomic, dead families stay dead. *Chat*: joins respect the maximum, pages neither skip nor repeat, whispers reach their target. | 0.8 M, 76 s |
| `progress` | Frames handled, items taken, senders answered, an early `stop()` honoured, services stopped, HTTP sessions ended, tasks repeated; the breaker recovers, commands return, a drain ends, messages are offered, requests answered if only by the timeout, channels subscribed, auth requests ended; a changed configuration reaches every core. | 116 k, 75 s |
| `agent_queue` | Merges are exclusive; builds are unless a release strays or an unrecorded build is orphaned; first come, first served; every waiter is served. | 513 k, 105 s |
| `spsc_overwrite` | *Violation*: two coroutines of one core awaiting one queue share one handler slot; the first is destroyed. | |
| `engine_tso` | *Violation*: with a store buffer a message can be left in its queue until somebody posts again. | |
| `redis_late_reply` | *Violation*: a reply between the timeout handler and the resumed coroutine frees the block the coroutine reads. | |
| `agent_stray` | *Violation*: a late release frees the next build's lock; two builds run. | |
| `agent_shared` | *Violation*: two merge requests of one branch wait on one row; one waits for ever. | |

`PROJECT.json` quotes, for each violation, the comment or document it contradicts.

### Bounds

| Where | Constants | Why they are enough |
|---|---|---|
| `spsc` | an awaiting coroutine `a` and one that only tries, `Capacity` 2, `MaxItems` 3 each, `BatchLimit` 3, `MaxLag` 2 | the ring wraps, is full and empty in turn, and a drain meets its limit; a load can be a whole revolution old |
| `engine` | 3 cores, `Capacity` 2, `BatchLimit` 2, `MaxRestarts` 1 | two sources fill more than a batch, so the rotation decides who is served; one restart meets every step of the drain |
| `call` | 3 calls, queue of 1 | one call runs on the target, one is queued, one waits for room or is aborted |
| `server`: listener | 3 connections, 2 cores, 1 per IP, with and without timeouts | local and remote checks with a third connection of the IP |
| wheel, manager | 4 slots, 3 ids, 8 or 9 ticks, 3 sessions | more than two revolutions with recycled ids |
| reader | four streams of up to 4 frames, ring of 16, header of 2, bodies up to 20 | frames that wrap, that fill the ring, that are larger than it, and larger than allowed, cut by reads of every size |
| writer | 2 senders, queue of 2, 6 frames | a full queue behind a write in flight |
| MPSC | 2 producers, `Capacity` 2, 4 items | both reserve, the second publishes first; the ring wraps twice |
| slab, arena | 2 slots growing by 3 up to 4 allowed in total; blocks of 4, 11 bytes, alignments beyond malloc's | growth that overshoots, a double free at every point; a block left part-filled, an allocation of a whole block |
| limiters | 3 addresses, room for 2, limits 4 and 1 over 2 cores, window 3, time to 7; script: limits 1 and 4, window 4, time to 16, commands delayed by 1 | eviction and expiry of every element of the vector; a limit the division would make 0; several windows passed at once, times out of order |
| server, host, HTTP, tasks | 2 stoppers, 2 connections, 2 cores (1 for early stops); 2 services that register one id both, 2 listeners, 3 spawns; 2 connections; 2 tasks | both stops race, an old session and a newcomer; a coroutine queued, running and on the pool; a task cancelled by another |
| `services`: breaker, Redis | 3 or 4 calls, threshold and probes 2; 2 or 3 commands, 2 AUTHs, slab of 2 or 3 | a stale call beside all probes; a command behind a timed-out one, a full slab, a reconnect |
| adapter, pool | 2 cores, 2 spawns; 4 programs for 2 connections of 3, one retry, idle age to 2 | a spawn before and one after the cancellation; waits for a connection while others fail, discard and shrink |
| Kafka | 2 messages, 1 restart, 1 retry of the dead letter, pool and queue of 1 | a failed message before a good one, the process replaced between them, a full producer queue and an exhausted pool |
| gateway | 1 session, 2 requests, pending map of 1, 1 restart | a full map, a response of the former life under a reused id |
| reload, envelope | 4 route lists (out of order, touching, empty range), 3 edits; requests with empty, short, longest and too long topics and with numbers that fill a byte or the field | an edit during the reload; every offset and length that depends on the topic |
| broadcasts | 1 session, 2 channels, 2 messages, 1 lost connection, 1 refusal | a message in the place of an acknowledgement, a channel asked for while reconnecting |
| auth, chat | 2 handlers, 3 tokens, 4 requests; 2 handlers, 3 users, 1 room of 1 or 2; 6 rows, limits 1, 2 and above the page; 2 users, 2 cores, 1 restart | two refreshes of one token, a reuse during a rotation; two joins for one place; rows added between pages; one session id on both cores |
| `progress` | the same or smaller, without restarts of gateway and consumer | liveness is of one life of a process |
| `agent_queue` | 3 clients, 3 branches, 1 crash | a holder, the first in line and one behind, with a death at any point |

Deadlock is checked for `engine`. The other systems do stop: items, frames, calls or
requests run out, and servers, adapters and connections end.

### Fairness

Weak fairness of what a thread does on its own: an `io_context` runs what is ready,
a posted handler is run, a timer that is due fires (the gateway's expiry and sweep, the
watcher's interval, a task's interval, the consumer's poll, the deadline of a shutdown,
the wait for a command's reply), a transaction that can commit is retried by the polling loop. Not assumed:
that a read loop, an adapter's or service's coroutine, a Redis reply, a service's response or a
call's function ever ends or comes, that a cross-core call's timer expires
(`CompletionWakesCaller` does not need it), or that anybody posts again. Assumed of the
environment and said in the modules: a write completes or fails (`Session`), the
peer's bytes arrive and a message handler returns (`FrameStream`), a request or its five second timeout ends an
HTTP read (`HttpServer`), a periodic task returns (`PeriodicTasks`; several tasks of one core would need strong
fairness of the one that waits for the core, so `progress` has one), librdkafka fetches what was
written (`Kafka`), Redis answers or the connection drops and a dropped connection is
opened again (`PubSub`), PostgreSQL and Redis answer or fail (`AuthService`), a build or
merge ends (`AgentQueue`; the watchdog kills a silent build), a call through the
breaker ends and is followed by further calls (`CircuitBreaker`).

## 4. What is proved

All theorems are about `Spec` and use no fairness; they hold for every value of the constants
that satisfies the named assumption of the module (`SpscAssumption` and so on:
capacities and limits are naturals, positive where the code needs it, sets are arbitrary).

**SPSC queue** (`SpscQueueProofs`). `QueueInv` says who may run (`OneRunner`), how the
four cursors and the two threads' last loads are ordered (`Cursors`: `tail <= seenPublished
<= published`, `head <= seenConsumed + Capacity`, `seenConsumed <= consumed`), that the
slots between `tail` and `head` hold the accepted items not yet received
(`Contents`), and what a drain in progress has read (`Batch`). The loads must be in
the invariant, since an action goes on with what it loaded earlier. From it follow
`TypeCorrect`, `SlotsNotShared` (two numbers less than `Capacity` apart have
different slots: `SlotsDiffer`) and `ImplementsFifo`, the refinement of `BoundedFifo`.
`HandlerInv` adds where the handler of a suspended coroutine is and gives
`WaitersReachable`. `HandlerNotShared` needs `LoneAwaiter` (one awaiting coroutine);
without it the run `spsc_overwrite` shows the failure.

**MPSC queue** (`MpscQueueProofs`). `RingInv` (`RingInvariant`): the cursors are at most a capacity
apart and the log of reservations is as long as `head` (`Window`); a producer between its CAS and its
publication is inside the window, its slot not ready and its index reserved in its
name (`Fills`), so no other producer has it; a slot is ready only inside the window and
then holds the item reserved for it (`ReadySlots`); the consumer's slot is nobody's
(`Reading`). A producer's old load of `tail` errs on the safe side, which is all the
invariant says of it. `SlotsExclusive` and the refinement `MpscImplementsFifo` follow.

**Core engine** (`CoreEngineProofs`). `DrainsCoalesce` rests on `FlagInv`: a drain that is
posted, running or about to be posted goes with a set flag, in memory or still in the
buffer; it holds with a store buffer too. `NothingStranded` assumes `~StoreBuffer`
and rests on `StrandInv`, which says for each source that has messages which drain or
poster will reach it, the position of the re-check loop included.

**Cross-core call** (`CrossCoreCallProofs`). `CallInv` relates the status word to where
caller and target are: the target writes the result only while the status is 0
and publishes it by the same CAS that closes the caller's timeout path. It gives
`OutcomesAgree`, `ResultsNotShared` and `SettledForGood`.

**Gateway requests** (`GatewayProofs`). `EachAnsweredOnce`: `AnsweredOnce` needs to know that what is in a
pending map is unanswered and of this life of the gateway (`PendingUnanswered`), that
ids not given out yet are unanswered (`FutureUnanswered`), and that an id is in the map
once; then an answer, which removes the entry, is the only one. `PendingBounded` carries
the bound of the map. An answer from a former life is the case the theorem excludes,
and observation `RightAnswer` below shows why.

**Refresh tokens** (`AuthServiceProofs`). `RotationIsAtomic` rests on `Holding`: what a handler has in hand at each
step of login and rotation is stored, or in nobody else's hands and not stored; so
COMMIT, which alone writes revocation and successor, writes both on a token the table
has and under a key it has not. It holds whatever statements fail and however handlers interleave.
`FamiliesStayDead` is the action property `DeadStaysDead` from the same invariant.

**Payload pool** (`PayloadsBounded` in `AuthServiceProofs`, whose requests the pool carries).
`PayloadBounded` is inductive as it stands.

**Agent lock** (`AgentQueueProofs`; builds and their order in `AgentBuildProofs`, which extends it). Inductive invariants on top of the types:
`TableInv` (ids below `next_id`, unique, one active row), `DaemonInv` and `MergeInv` (a
running pipeline owns an active row whose pid is the living daemon's, so no cleanup
can take it; the cleanup at the start of the polling loop is what makes this true after a restart)
for `OneMergeAtATime`; `OwnerInv`, `ChildInv` and `HoldInv` (whoever builds has
an active row with a living pid) for `OneBuildAtATime`; `OrderInv` (a waiting row's
id is its client's arrival, and a live client in line has one) for `InOrderOfArrival`, which assumes
`~Shared`.

The theorems about `MpscQueue`, `Gateway`, `AuthService` and `PayloadPool` state for all constants
what the composite runs `server` and `services` check of their instances.

**Only model-checked.** Liveness (the prover has neither fairness nor `ENABLED`), the
modules without a proof module, and `TaskOwnedOnce`. What `Envelope`, `FrameStream` and
the limiters compute is checked over bounded inputs: for all inputs it would need
induction over data, which the installed provers cannot do.

## 5. Observations beside the findings

TLC also refutes the following statements of comments and documents. Their
definitions are kept in the modules; no run of the table repeats them.

| Statement | Where | Refuted with | What happens |
|---|---|---|---|
| `SpscQueue!ResumedEnqueueSucceeds`: "enqueue must succeed now" | `spsc_queue.hpp:180` | one awaiter that also tries, `Capacity` 1, `MaxLag` 0 | another coroutine of the core takes the freed slot first; a release build drops the item |
| `CoreEngine!SuspendedIsResumed`: "resumes when space available" | `core_engine.hpp:133` | 2 cores, `Capacity` 1, `FairSpec` | drained and notified between re-check and flag; nobody posts again |
| `CrossCoreCall!ExpiredCallReturns`: "Returns CrossCoreTimeout if timeout expires before completion" | `cross_core_call.hpp:27` | 2 calls, `Capacity` 1, `TimedSpec` | the wait for room in the queue is outside the timeout |
| `Listener!PerIpLimit` with timeouts: the compensation is "safe" | `listener.hpp:325` | 2 connections, limit 1, `MaxTimeouts` 1 | the decrement takes the slot of a live connection |
| `Listener!OvershootBounded`: at most num_cores - 1 over | `docs/apex_common/review/20260323_021327_auto-review.md:43` | 3 connections, `MaxConnections` 1 | connections are counted when their read loop starts |
| `Session!EverySendAnswered`: the pump "will cancel() it after processing" | `session.cpp:200` | 2 senders, `FairSpec` | a closed session's pump leaves queued senders unanswered |
| `Session!ZeroIsUnlimited`: "(0 = unlimited)" | `session.hpp:57` | `MaxQueueDepth` 0 | every frame is refused |
| `TimingWheel!ExpiresWithinRevolution`: "after a full wheel revolution" | `timing_wheel.hpp:43` | `ZeroInCallback` TRUE | an entry scheduled with 0 from a callback never expires |
| `Server!ShutdownOnce` with early stops: `stopping_` prevents re-entry | `server.hpp:272` | `EarlyStop` TRUE, 2 stoppers | `run()` resets `stopping_` after the first `stop()` |
| `Server!AllReadLoopsExit`: polls "until all read_loops exit" | `server.cpp:540` | 1 connection, 2 cores | a connection still queued on its core is not counted |
| `Adapter!NoCorosAtClose`: outstanding coroutines are 0 | `server.cpp:650` | 1 core, 1 spawn | a spawn that passed the check is posted behind the cancellation |
| `CircuitBreaker!ReopenedByProbe`: "(probe failed)" | `circuit_breaker.cpp:102` | 3 calls | a call from before the opening fails while HALF_OPEN |
| `RedisMultiplexer!BlocksReturned` with timeouts | `redis_multiplexer.cpp:129` | `Timeouts` TRUE | reply first, queued timeout second: nobody frees the block |
| `RedisMultiplexer!NoUseAfterFree` with cancelled AUTHs | `redis_multiplexer.cpp:110` | `Cancels` TRUE | the block is freed while it is in `pending_` |
| `RedisMultiplexer!ReconnectsAfterLoss`: "reconnect loop starts" | `redis_multiplexer.hpp:43` | `FairSpec` | no disconnect callback is registered |
| `FrameStream!FramesIntact` when TCP handlers use the payload after an await | `gateway_service.cpp:505-557` | `ReadsLate` `{"tcp"}` | the payload is a view of the ring, which the session manager's tick may shrink while the handler is suspended |
| `IpLimiter!OldestFirst`: "front = oldest, back = newest" | `per_ip_rate_limiter.hpp:118` | 4 addresses, `max_entries` 3 | eviction and use swap elements of the vector, which leaves an old one behind a newer |
| `PeriodicTasks!NotDestroyedWhileRunning`: only to be used from the thread of its io_context | `periodic_task_scheduler.hpp:48` | instance of `server` | `finalize_shutdown` calls `stop_all` on the control thread (`server.cpp:606`) |
| `HttpServer!NothingBeginsAfterStop`: "Stop accepting new connections and cancel in-flight sessions" | `http_server_base.hpp:76` | instance of `server` | a session spawned and not yet started registers after `stop` |
| `ServiceHost!StoppedNotCalled`: a handler is called only on a started service | `service_base.hpp:152-160` (stop unregisters its handlers) | instance of `server` | the default handler, and the copies in other listeners' dispatchers, survive the stop |
| `PgPool!GuardOutlived`: the guard poisons its connection | `pg_transaction.hpp:29` | instance of `services` | after a failed COMMIT the rotation discards the connection, then the guard's destructor uses it (`auth_service.cpp:498-504`) |
| `Kafka!FailedIsRedelivered`: "offset is NOT committed - message will be redelivered" | `kafka_consumer.cpp:242` | instance of `services` | the commit of a later message covers the failed one |
| `Gateway!RightAnswer`: "Unique correlation ID" | `message_router.hpp:35` | 1 restart | ids start at 0 again after a restart; a late response of the former life answers the new request |
| `Gateway!ForwardedAsOwner`: user_id is the one extracted from the JWT | `kafka_envelope.hpp:108` | instance of `services` | a reference into `auth_states_` is kept across the pipeline's awaits, while the map may change |
| `Envelope!ShortIsSystemBroadcast`: "If message is shorter than 4 bytes, treat as system broadcast" | `broadcast_fanout.cpp:92` | instance of `services` | messages of one to three bytes are dropped |
| `AuthService!ReuseRevokesFamily`: "Revoke ALL tokens in the same family" | `auth_service.cpp:386` | 2 handlers | a rotation that commits after the revocation adds a live token |
| `ChatRooms!RoomNeverOverfull`: the script removes the race "that could exceed max_members" | `chat_service.cpp:314` | instance of `services` | the owner's SADD at creation is unconditional and may come after the room is full |
| `Whisper!WhisperPrivate`: a unicast to the target's session | `chat_service.cpp:650` | 1 restart | the mapping in Redis outlives the gateway, whose session ids start again |

From reading, without a model of its own:

* apex-agent: a merge retried after a restart of the daemon finds the dead
  daemon's waiting row, inserts none of its own, and the first cleanup removes that
  row; `queue acquire` on the command line registers its own pid and exits, so its
  lock is stale at once.
* The reply topic of an envelope is written and never read (`chat_service.cpp:178`,
  `auth_service.cpp:583`).
* A dead letter counts as produced once it is in the local queue; the callback the
  server wires commits before the message is processed (`kafka_consumer.cpp:73-74`).
* When exactly one window has passed the Redis script uses the count stored for the
  window before (`redis_rate_limiter.hpp:106-111`), which the bound of
  `ScriptBurstBounded` allows for.
* `migrations/003` has no `token_family`, which `auth_service.cpp:351` selects. After
  the COMMIT of a rotation a failing e-mail query answers INTERNAL_ERROR though the
  old token is revoked.
* A push whose core is not known goes to all cores, which
  `docs/apex_common/plans/20260326_221838_whisper_core_routing.md:16` set out to end.
* The pub/sub listener may read a message in the place of a SUBSCRIBE's
  acknowledgement, and keeps a refused channel in `active_subs`.

## 6. Mutants

Beside an operator whose correctness carries a property stands a variant of it with
a plausible bug, marked *Mutant of*. Replacing the operator by its mutant makes TLC
find the property violated, for every property of every passing run
(`PROJECT.json`, `mutants`): the properties depend on what the code does.

## 7. What is left out of the modelled parts

* `CoreEngine`: posts from threads that are no core (they go through `asio::post`),
  broadcast, tick timers, affinity. One destination is modelled; destinations share
  nothing but the posting coroutines.
* `Listener`: TLS handshakes. The frames of the read loop are `FrameStream`'s.
* `Server`: the phases of `run()` before the engine starts are one step (nothing
  else runs yet); signals and the routes of the metrics endpoint. The services are
  `ServiceHost`'s.
* `HttpServer`: what a request is answered.
* `RedisMultiplexer`: `pipeline` (a loop of the modelled command), the destructor, the
  hiredis event adapter. A lost connection follows hiredis: every pending callback is
  called with an error and the context is gone.
* `PgPool`, `Kafka`: parsing of results and configuration; counters, statistics, the log sink.
* `Gateway`: signatures of tokens and the formats of system messages; the three rate
  limiters it asks are awaits that let a request pass or not.
* `AuthService`: hashing, signing, the key format of the blacklist. `ConfigReload`: TOML.
* `AgentQueue`: the history table, status queries, log and watchdog files.

## 8. Not modelled

* **Handoff, backlog and workflow of apex-agent**: development tooling apart from the
  server; tables of statuses edited by single transactions, git commands and
  imports of markdown. What makes it concurrent, the lock, is `AgentQueue`.
* **Chat database consumer**: its `on_message` is a placeholder that logs.
* **Shared payload, legacy cross-core dispatcher**: a reference count without a protocol
  around it, and a table of handlers; tasks of `CoreEngine` that the model does not
  tell apart.
* **Configuration, logging, metrics, CPU topology, crash handler**: input and output
  without concurrency of their own.
* **Daemon, IPC, hooks, dashboards, benchmark tools**: process plumbing and reports.

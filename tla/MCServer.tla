------------------------------ MODULE MCServer ------------------------------
(***************************************************************************)
(* Model checking of the server: admission and rate limits (Listener,      *)
(* IpLimiter, RedisLimiter), the timing wheel and the sessions it expires  *)
(* (SessionManager), the reading and writing ends of a session             *)
(* (FrameStream, Session), queue and allocators (MpscQueue, Slab, Arena),  *)
(* shutdown (Server), service lifecycle and dispatch (ServiceHost), the    *)
(* HTTP endpoint and periodic tasks.  Modelled apart, they share no state, *)
(* so a behaviour is one of a single part, as `subject' says; the          *)
(* variables of the others are unused.                                     *)
(***************************************************************************)
EXTENDS Naturals, Sequences, FiniteSets, TLC

CONSTANTS NoIp, None

VARIABLES
  subject,
  \* Listener
  running, next_core, pc, ip, acc, tgt, queued, ran, status, busy, counts, decs, active, timeouts,
  \* TimingWheel
  current_tick, deadline, slots, free_ids, next_id, expired, calling,
  \* SessionManager
  heartbeat, sessions, timer_to_session, timer_entry_id, open, reading, notified, touched,
  \* FrameDecoder, RingBuffer and read_loop
  stream, protocol, buffer, read_pos, write_pos, linear, received, decoded, loop, reads_late,
  closer, got,
  \* Session
  state, write_queue, pump_running, spawned, writing, wire, accepted, sender, result, frame,
  \* MpscQueue
  head, tail, ready, data, producer, consumer, reserved, taken,
  \* Slab
  free_list, magic, total_count, free_count, grow_count, peak_allocated, double_free_count, held,
  \* Arena
  kind, blocks, total_allocated, live,
  \* IpLimiter
  now, config, entries, lru_order, grants,
  \* RedisLimiter
  redis_now, cur, prev, meta, limit, redis_grants,
  \* Server
  pcR, pcS, stopping, control, timer, late, idx, total, accepting, serving, queue, conn, core,
  closed, services, finalized, forced, old,
  \* ServiceHost
  lifecycle, service, handlers, default, registered, started, host_reading, calls, host_queued,
  coros, pool, outstanding, spawns, counted, host_late, host_forced,
  \* HttpServerBase
  acceptor, accept, http_accepted, sess, op, tracker,
  \* PeriodicTaskScheduler
  next_handle, tasks, task_timer, executing, erased, stopped, corrupt

listenerVars == <<running, next_core, pc, ip, acc, tgt, queued, ran, status, busy, counts, decs,
    active, timeouts>>
wheelVars == <<current_tick, deadline, slots, free_ids, next_id, expired, calling>>
managerVars == <<heartbeat, sessions, timer_to_session, timer_entry_id, open, reading, notified,
    touched>>
readerVars == <<stream, protocol, buffer, read_pos, write_pos, linear, received, decoded, loop,
    reads_late, closer, got>>
writerVars == <<state, write_queue, pump_running, spawned, writing, wire, accepted, sender,
    result, frame>>
mpscVars == <<head, tail, ready, data, producer, consumer, reserved, taken>>
slabVars == <<free_list, magic, total_count, free_count, grow_count, peak_allocated,
    double_free_count, held>>
arenaVars == <<kind, blocks, total_allocated, live>>
perIpVars == <<now, config, entries, lru_order, grants>>
scriptVars == <<redis_now, cur, prev, meta, limit, redis_grants>>
serverVars == <<pcR, pcS, stopping, control, timer, late, idx, total, accepting, serving, queue,
    conn, core, closed, services, finalized, forced, old>>
hostVars == <<lifecycle, service, handlers, default, registered, started, host_reading, calls,
    host_queued, coros, pool, outstanding, spawns, counted, host_late, host_forced>>
httpVars == <<acceptor, accept, http_accepted, sess, op, tracker>>
tasksVars == <<next_handle, tasks, task_timer, executing, erased, stopped, corrupt>>
vars == <<subject, listenerVars, wheelVars, managerVars, readerVars, writerVars, mpscVars,
  slabVars, arenaVars, perIpVars, scriptVars, serverVars, hostVars, httpVars, tasksVars>>

-----------------------------------------------------------------------------
(* The instances. *)



\* One acceptor, two addresses, no call to the owner core times out.
Capped == INSTANCE Listener WITH
  Ips <- {0, 1}, Conns <- {"a", "b", "c"}, NumCores <- 2, MaxPerIp <- 1, MaxConnections <- 0,
  Reuseport <- FALSE, MaxTimeouts <- 0

\* An acceptor on each core, and timeouts.
Timed == INSTANCE Listener WITH
  Ips <- {1}, Conns <- {"a", "b", "c"}, NumCores <- 2, MaxPerIp <- 1, MaxConnections <- 2,
  Reuseport <- TRUE, MaxTimeouts <- 2

Wheel == INSTANCE TimingWheel WITH
  NumSlots <- 4, MaxIds <- 3, MaxTick <- 9, ZeroInCallback <- FALSE

Manager == INSTANCE SessionManager WITH
  NumSlots <- 4, MaxIds <- 3, MaxTick <- 8, ZeroInCallback <- FALSE, Heartbeats <- {0, 2},
  MaxSessions <- 3

\* Frames that wrap, that fill the buffer, that are larger than it, and larger than allowed.
Reader == INSTANCE FrameStream WITH
  Streams <- {<<1, 0, 2>>, <<6, 10, 8, 1>>, <<0, 15, 2>>, <<3, 5, 40, 1>>}, Capacity <- 16,
  HeaderSize <- 2, MaxBodySize <- 20, MsgIdSize <- 1, Protocols <- {"tcp", "websocket"},
  ReadsLate <- {"websocket"}, frame <- decoded, late <- reads_late

Writer == INSTANCE Session WITH
  Senders <- 1..2, NoOne <- 0, MaxQueueDepth <- 2, MaxFrames <- 6, pc <- sender

Mpsc == INSTANCE MpscQueue WITH
  Producers <- 1..2, Capacity <- 2, MaxItems <- 4

Pool == INSTANCE Slab WITH
  InitialCount <- 2, AutoGrow <- TRUE, GrowChunk <- 3, MaxTotal <- 4, Slots <- 1..5,
  MaxDoubleFrees <- 2

Arenas == INSTANCE Arena WITH
  BlockSize <- 4, MaxBytes <- 11, Sizes <- {1, 3, 4}, Aligns <- {1, 4}, MallocAlign <- 2,
  Kinds <- {"arena", "bump"}

\* Room for two of three addresses; a limit divided among the cores, and one that the division would make 0.
PerIp == INSTANCE IpLimiter WITH
  Ips <- {"i1", "i2", "i3"},
  Configs <- {[total |-> 4, cores |-> 2, max_entries |-> 2], [total |-> 1, cores |-> 2, max_entries |-> 2]},
  WindowSize <- 3, TtlMultiplier <- 2, MaxTime <- 7

Script == INSTANCE RedisLimiter WITH
  Limits <- {1, 4}, WindowMs <- 4, MaxTime <- 16, Delay <- 1, now <- redis_now,
  grants <- redis_grants

\* Two cores, stop() called after run() ...
Stopped == INSTANCE Server WITH
  NumCores <- 2, Conns <- {"c1", "c2"}, Stoppers <- 1..2, EarlyStop <- FALSE, running <- serving

\* ... and one core, stop() called whenever.
Early == INSTANCE Server WITH
  NumCores <- 1, Conns <- {"c1", "c2"}, Stoppers <- 1..2, EarlyStop <- TRUE, running <- serving

\* Both services register message 2; nobody registers message 3.
Host == INSTANCE ServiceHost WITH
  Services <- <<"a", "b">>, Routes <- "a" :> {1, 2} @@ "b" :> {2}, Defaults <- {"a"},
  MsgIds <- 1..3, Nobody <- "nobody", NumListeners <- 2, MaxSpawns <- 3, Forced <- TRUE,
  pc <- lifecycle, queued <- host_queued, reading <- host_reading, late <- host_late,
  live <- coros, idx <- service, total <- counted, forced <- host_forced

Http == INSTANCE HttpServer WITH
  Conns <- 1..2, accepted <- http_accepted

Tasks == INSTANCE PeriodicTasks WITH
  MaxTasks <- 2, NoTask <- 0, timer <- task_timer

ASSUME MCAssumption ==
  /\ Capped!ListenerAssumption /\ Timed!ListenerAssumption
  /\ Wheel!WheelAssumption /\ Manager!WheelAssumption /\ Manager!ManagerAssumption
  /\ Reader!FrameAssumption /\ Writer!SessionAssumption /\ Mpsc!MpscAssumption
  /\ Pool!SlabAssumption /\ Arenas!ArenaAssumption
  /\ PerIp!LimiterAssumption /\ Script!RedisLimiterAssumption
  /\ Stopped!ServerAssumption /\ Early!ServerAssumption /\ Host!HostAssumption
  /\ Http!HttpAssumption /\ Tasks!PeriodicAssumption

-----------------------------------------------------------------------------
Unused == "unused"

NoListener ==
  /\ running = Unused /\ next_core = Unused /\ pc = Unused /\ ip = Unused /\ acc = Unused
  /\ tgt = Unused /\ queued = Unused /\ ran = Unused /\ status = Unused /\ busy = Unused
  /\ counts = Unused /\ decs = Unused /\ active = Unused /\ timeouts = Unused

NoWheel ==
  /\ current_tick = Unused /\ deadline = Unused /\ slots = Unused /\ free_ids = Unused
  /\ next_id = Unused /\ expired = Unused /\ calling = Unused

NoManager ==
  /\ heartbeat = Unused /\ sessions = Unused /\ timer_to_session = Unused
  /\ timer_entry_id = Unused /\ open = Unused /\ reading = Unused /\ notified = Unused
  /\ touched = Unused

NoReader ==
  /\ stream = Unused /\ protocol = Unused /\ buffer = Unused /\ read_pos = Unused
  /\ write_pos = Unused /\ linear = Unused /\ received = Unused /\ decoded = Unused
  /\ loop = Unused /\ reads_late = Unused /\ closer = Unused /\ got = Unused

NoWriter ==
  /\ state = Unused /\ write_queue = Unused /\ pump_running = Unused /\ spawned = Unused
  /\ writing = Unused /\ wire = Unused /\ accepted = Unused /\ sender = Unused
  /\ result = Unused /\ frame = Unused

NoMpsc ==
  /\ head = Unused /\ tail = Unused /\ ready = Unused /\ data = Unused /\ producer = Unused
  /\ consumer = Unused /\ reserved = Unused /\ taken = Unused

NoSlab ==
  /\ free_list = Unused /\ magic = Unused /\ total_count = Unused /\ free_count = Unused
  /\ grow_count = Unused /\ peak_allocated = Unused /\ double_free_count = Unused
  /\ held = Unused

NoArena ==
  /\ kind = Unused /\ blocks = Unused /\ total_allocated = Unused /\ live = Unused

NoPerIp ==
  /\ now = Unused /\ config = Unused /\ entries = Unused /\ lru_order = Unused /\ grants = Unused

NoScript ==
  /\ redis_now = Unused /\ cur = Unused /\ prev = Unused /\ meta = Unused /\ limit = Unused
  /\ redis_grants = Unused

NoServer ==
  /\ pcR = Unused /\ pcS = Unused /\ stopping = Unused /\ control = Unused /\ timer = Unused
  /\ late = Unused /\ idx = Unused /\ total = Unused /\ accepting = Unused /\ serving = Unused
  /\ queue = Unused /\ conn = Unused /\ core = Unused /\ closed = Unused /\ services = Unused
  /\ finalized = Unused /\ forced = Unused /\ old = Unused

NoHost ==
  /\ lifecycle = Unused /\ service = Unused /\ handlers = Unused /\ default = Unused
  /\ registered = Unused /\ started = Unused /\ host_reading = Unused /\ calls = Unused
  /\ host_queued = Unused /\ coros = Unused /\ pool = Unused /\ outstanding = Unused
  /\ spawns = Unused /\ counted = Unused /\ host_late = Unused /\ host_forced = Unused

NoHttp ==
  /\ acceptor = Unused /\ accept = Unused /\ http_accepted = Unused /\ sess = Unused
  /\ op = Unused /\ tracker = Unused

NoTasks ==
  /\ next_handle = Unused /\ tasks = Unused /\ task_timer = Unused /\ executing = Unused
  /\ erased = Unused /\ stopped = Unused /\ corrupt = Unused

Init ==
  \/ /\ subject = "limits" /\ Capped!Init
     /\ NoWheel /\ NoManager /\ NoReader /\ NoWriter /\ NoMpsc /\ NoSlab /\ NoArena /\ NoPerIp
     /\ NoScript /\ NoServer /\ NoHost /\ NoHttp /\ NoTasks
  \/ /\ subject = "slots" /\ Timed!Init
     /\ NoWheel /\ NoManager /\ NoReader /\ NoWriter /\ NoMpsc /\ NoSlab /\ NoArena /\ NoPerIp
     /\ NoScript /\ NoServer /\ NoHost /\ NoHttp /\ NoTasks
  \/ /\ subject = "wheel" /\ Wheel!WheelInit
     /\ NoListener /\ NoManager /\ NoReader /\ NoWriter /\ NoMpsc /\ NoSlab /\ NoArena
     /\ NoPerIp /\ NoScript /\ NoServer /\ NoHost /\ NoHttp /\ NoTasks
  \/ /\ subject = "manager" /\ Manager!Init
     /\ NoListener /\ NoReader /\ NoWriter /\ NoMpsc /\ NoSlab /\ NoArena /\ NoPerIp
     /\ NoScript /\ NoServer /\ NoHost /\ NoHttp /\ NoTasks
  \/ /\ subject = "reader" /\ Reader!Init
     /\ NoListener /\ NoWheel /\ NoManager /\ NoWriter /\ NoMpsc /\ NoSlab /\ NoArena
     /\ NoPerIp /\ NoScript /\ NoServer /\ NoHost /\ NoHttp /\ NoTasks
  \/ /\ subject = "writer" /\ Writer!Init
     /\ NoListener /\ NoWheel /\ NoManager /\ NoReader /\ NoMpsc /\ NoSlab /\ NoArena
     /\ NoPerIp /\ NoScript /\ NoServer /\ NoHost /\ NoHttp /\ NoTasks
  \/ /\ subject = "mpsc" /\ Mpsc!Init
     /\ NoListener /\ NoWheel /\ NoManager /\ NoReader /\ NoWriter /\ NoSlab /\ NoArena
     /\ NoPerIp /\ NoScript /\ NoServer /\ NoHost /\ NoHttp /\ NoTasks
  \/ /\ subject = "slab" /\ Pool!Init
     /\ NoListener /\ NoWheel /\ NoManager /\ NoReader /\ NoWriter /\ NoMpsc /\ NoArena
     /\ NoPerIp /\ NoScript /\ NoServer /\ NoHost /\ NoHttp /\ NoTasks
  \/ /\ subject = "arena" /\ Arenas!Init
     /\ NoListener /\ NoWheel /\ NoManager /\ NoReader /\ NoWriter /\ NoMpsc /\ NoSlab
     /\ NoPerIp /\ NoScript /\ NoServer /\ NoHost /\ NoHttp /\ NoTasks
  \/ /\ subject = "per_ip" /\ PerIp!Init
     /\ NoListener /\ NoWheel /\ NoManager /\ NoReader /\ NoWriter /\ NoMpsc /\ NoSlab
     /\ NoArena /\ NoScript /\ NoServer /\ NoHost /\ NoHttp /\ NoTasks
  \/ /\ subject = "script" /\ Script!Init
     /\ NoListener /\ NoWheel /\ NoManager /\ NoReader /\ NoWriter /\ NoMpsc /\ NoSlab
     /\ NoArena /\ NoPerIp /\ NoServer /\ NoHost /\ NoHttp /\ NoTasks
  \/ /\ subject = "stopped" /\ Stopped!Init
     /\ NoListener /\ NoWheel /\ NoManager /\ NoReader /\ NoWriter /\ NoMpsc /\ NoSlab
     /\ NoArena /\ NoPerIp /\ NoScript /\ NoHost /\ NoHttp /\ NoTasks
  \/ /\ subject = "early" /\ Early!Init
     /\ NoListener /\ NoWheel /\ NoManager /\ NoReader /\ NoWriter /\ NoMpsc /\ NoSlab
     /\ NoArena /\ NoPerIp /\ NoScript /\ NoHost /\ NoHttp /\ NoTasks
  \/ /\ subject = "host" /\ Host!Init
     /\ NoListener /\ NoWheel /\ NoManager /\ NoReader /\ NoWriter /\ NoMpsc /\ NoSlab
     /\ NoArena /\ NoPerIp /\ NoScript /\ NoServer /\ NoHttp /\ NoTasks
  \/ /\ subject = "http" /\ Http!Init
     /\ NoListener /\ NoWheel /\ NoManager /\ NoReader /\ NoWriter /\ NoMpsc /\ NoSlab
     /\ NoArena /\ NoPerIp /\ NoScript /\ NoServer /\ NoHost /\ NoTasks
  \/ /\ subject = "tasks" /\ Tasks!Init
     /\ NoListener /\ NoWheel /\ NoManager /\ NoReader /\ NoWriter /\ NoMpsc /\ NoSlab
     /\ NoArena /\ NoPerIp /\ NoScript /\ NoServer /\ NoHost /\ NoHttp

notListener == <<subject, wheelVars, managerVars, readerVars, writerVars, mpscVars, slabVars,
    arenaVars, perIpVars, scriptVars, serverVars, hostVars, httpVars, tasksVars>>
notWheel == <<subject, listenerVars, managerVars, readerVars, writerVars, mpscVars, slabVars,
    arenaVars, perIpVars, scriptVars, serverVars, hostVars, httpVars, tasksVars>>
notManager == <<subject, listenerVars, readerVars, writerVars, mpscVars, slabVars, arenaVars,
    perIpVars, scriptVars, serverVars, hostVars, httpVars, tasksVars>>
notReader == <<subject, listenerVars, wheelVars, managerVars, writerVars, mpscVars, slabVars,
    arenaVars, perIpVars, scriptVars, serverVars, hostVars, httpVars, tasksVars>>
notWriter == <<subject, listenerVars, wheelVars, managerVars, readerVars, mpscVars, slabVars,
    arenaVars, perIpVars, scriptVars, serverVars, hostVars, httpVars, tasksVars>>
notMpsc == <<subject, listenerVars, wheelVars, managerVars, readerVars, writerVars, slabVars,
    arenaVars, perIpVars, scriptVars, serverVars, hostVars, httpVars, tasksVars>>
notSlab == <<subject, listenerVars, wheelVars, managerVars, readerVars, writerVars, mpscVars,
    arenaVars, perIpVars, scriptVars, serverVars, hostVars, httpVars, tasksVars>>
notArena == <<subject, listenerVars, wheelVars, managerVars, readerVars, writerVars, mpscVars,
    slabVars, perIpVars, scriptVars, serverVars, hostVars, httpVars, tasksVars>>
notPerIp == <<subject, listenerVars, wheelVars, managerVars, readerVars, writerVars, mpscVars,
    slabVars, arenaVars, scriptVars, serverVars, hostVars, httpVars, tasksVars>>
notScript == <<subject, listenerVars, wheelVars, managerVars, readerVars, writerVars, mpscVars,
    slabVars, arenaVars, perIpVars, serverVars, hostVars, httpVars, tasksVars>>
notServer == <<subject, listenerVars, wheelVars, managerVars, readerVars, writerVars, mpscVars,
    slabVars, arenaVars, perIpVars, scriptVars, hostVars, httpVars, tasksVars>>
notHost == <<subject, listenerVars, wheelVars, managerVars, readerVars, writerVars, mpscVars,
    slabVars, arenaVars, perIpVars, scriptVars, serverVars, httpVars, tasksVars>>
notHttp == <<subject, listenerVars, wheelVars, managerVars, readerVars, writerVars, mpscVars,
    slabVars, arenaVars, perIpVars, scriptVars, serverVars, hostVars, tasksVars>>
notTasks == <<subject, listenerVars, wheelVars, managerVars, readerVars, writerVars, mpscVars,
    slabVars, arenaVars, perIpVars, scriptVars, serverVars, hostVars, httpVars>>

Next ==
  \/ subject = "limits" /\ Capped!Next /\ UNCHANGED notListener
  \/ subject = "slots" /\ Timed!Next /\ UNCHANGED notListener
  \/ subject = "wheel" /\ Wheel!WheelNext /\ UNCHANGED notWheel
  \/ subject = "manager" /\ Manager!Next /\ UNCHANGED notManager
  \/ subject = "reader" /\ Reader!Next /\ UNCHANGED notReader
  \/ subject = "writer" /\ Writer!Next /\ UNCHANGED notWriter
  \/ subject = "mpsc" /\ Mpsc!Next /\ UNCHANGED notMpsc
  \/ subject = "slab" /\ Pool!Next /\ UNCHANGED notSlab
  \/ subject = "arena" /\ Arenas!Next /\ UNCHANGED notArena
  \/ subject = "per_ip" /\ PerIp!Next /\ UNCHANGED notPerIp
  \/ subject = "script" /\ Script!Next /\ UNCHANGED notScript
  \/ subject = "stopped" /\ Stopped!Next /\ UNCHANGED notServer
  \/ subject = "early" /\ Early!Next /\ UNCHANGED notServer
  \/ subject = "host" /\ Host!Next /\ UNCHANGED notHost
  \/ subject = "http" /\ Http!Next /\ UNCHANGED notHttp
  \/ subject = "tasks" /\ Tasks!Next /\ UNCHANGED notTasks

Spec == Init /\ [][Next]_vars

-----------------------------------------------------------------------------
(* Properties, each stated in the module of the part it is about. *)

\* While no call to the owner core times out, no address has more connections than
\* max_connections_per_ip, on whatever cores they were accepted and run; and no slot of an
\* address leaks, timeouts or not (checked_accept's compensating decrement).
AdmissionSound ==
  /\ subject = "limits" => Capped!TypeOK /\ Capped!PerIpLimit /\ Capped!NoLeakedSlot
  /\ subject = "slots" => Timed!TypeOK /\ Timed!NoLeakedSlot

\* Whatever callbacks do, slots and entry table of the timing wheel agree, a timer id has
\* one use at a time, not reused before its callback has returned, and no deadline passes
\* unseen.
WheelSound ==
  /\ subject = "wheel" =>
       Wheel!WheelTypeOK /\ Wheel!SlotsMatchEntries /\ Wheel!IdsNotShared /\ Wheel!NoMissedDeadline
  /\ subject = "manager" =>
       Manager!SlotsMatchEntries /\ Manager!IdsNotShared /\ Manager!NoMissedDeadline

\* A session is managed, with exactly one timer that leads back to it, or it is gone:
\* closed, and reported to the services exactly once, however it ended.  It times out
\* heartbeat_timeout_ticks after its last touch, not before or after.
SessionsAccounted ==
  subject = "manager" =>
    /\ Manager!TypeOK /\ Manager!TimersMatchSessions /\ Manager!NotifiedOnce
    /\ Manager!RemovedIsClosed /\ Manager!ExpiresOnTime

\* The per-address limiter's table, LRU list and capacity agree, and what it estimates is
\* what it decides by; neither it nor the Redis script lets more through than two windows'
\* limits in any window.
LimiterSound ==
  /\ subject = "per_ip" =>
       PerIp!TypeOK /\ PerIp!TableConsistent /\ PerIp!BurstBounded /\ PerIp!EstimateAgrees
  /\ subject = "script" => Script!ScriptBurstBounded

\* The slab's counters, free list and magic numbers agree through growth and double frees,
\* and no two live allocations of an arena overlap or exceed it.
MemorySound ==
  /\ subject = "slab" => Pool!SlabSound
  /\ subject = "arena" => Arenas!ArenaSound

\* No two producers fill one slot of the multi-producer queue, none fills a slot that is
\* being read, and items leave in the order of their reservations.
MpscInOrder ==
  /\ [](subject = "mpsc" => Mpsc!MpscSlotExclusive)
  /\ [][subject = "mpsc" => Mpsc!Fifo!Next]_<<reserved, taken>>

\* The handlers see the frames the peer sent, in order, each once and each byte of it,
\* however the reads cut the stream and wherever the frames wrap in the ring.
FramesIntact == subject = "reader" => Reader!TypeOK /\ Reader!FramesIntact

\* A session has one write_pump at a time, sends frames in the order they were accepted,
\* strands none while it is open, and tells a sender ok only if its frame was written.
WritesFaithful ==
  subject = "writer" =>
    /\ Writer!TypeOK /\ Writer!OnePump /\ Writer!NoStrandedFrame
    /\ Writer!WireInOrder /\ Writer!ResultHonest

\* However many threads call stop() on a running server, it is shut down once.  Without the
\* deadline, services are stopped only after every read_loop that was running when the
\* shutdown began has ended.
ShutdownSound ==
  /\ subject = "stopped" => Stopped!TypeOK /\ Stopped!ShutdownOnce /\ Stopped!OldSessionsDrained
  /\ subject = "early" => Early!TypeOK

\* A message id is dispatched to the service that holds it, by every listener while the
\* server runs, and the dispatcher the services register with has none of a stopped service;
\* a drain not cut short leaves no service coroutine;
\* the HTTP server tracks exactly the sessions that run; a cancelled task never runs again.
HostSound ==
  /\ subject = "host" => Host!TypeOK /\ Host!HandlersOwned /\ Host!DrainedIsQuiet
  /\ subject = "http" => Http!TypeOK /\ Http!TrackerExact
  /\ subject = "tasks" => Tasks!TypeOK /\ Tasks!CancelIsFinal
=============================================================================

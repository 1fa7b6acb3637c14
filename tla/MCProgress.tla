----------------------------- MODULE MCProgress -----------------------------
(***************************************************************************)
(* Model checking of what must happen eventually: the parts of MCServer    *)
(* and MCServices that owe somebody an end, on smaller instances, with the *)
(* fairness that threads, event loops and timers give them.  Modelled      *)
(* apart, they share no state, so a behaviour is one of a single part, as  *)
(* `subject' says; the variables of the others are unused.                 *)
(***************************************************************************)
EXTENDS Naturals, Sequences, FiniteSets, TLC

CONSTANTS None

VARIABLES
  subject,
  \* FrameDecoder, RingBuffer and read_loop
  stream, protocol, buffer, read_pos, write_pos, linear, received, decoded, read_loop,
  reads_late, closer, got,
  \* Session
  session_state, write_queue, pump_running, spawned, writing, session_wire, accepted, sender,
  send_result, frame,
  \* MpscQueue
  head, tail, slot_ready, data, producer, consumer, reserved, taken,
  \* Server
  pcR, pcS, stopping, control, poll_timer, late, idx, total, accepting, serving, core_queue,
  server_conn, core, closed, services, finalized, forced, old,
  \* ServiceHost
  lifecycle, service, handlers, default, registered, started, host_reading, calls, queued, live,
  pool, outstanding, host_spawns, counted, host_late, host_forced,
  \* HttpServerBase
  acceptor, accept, http_accepted, sess, op, tracker,
  \* PeriodicTaskScheduler
  next_handle, tasks, task_timer, executing, erased, stopped, corrupt,
  \* CircuitBreaker
  state, failure_count, half_open_calls, half_open_successes, elapsed, inflight, probes, healthy,
  last,
  \* RedisMultiplexer
  conn, pending, wire, pc, block, timed_out, result, timer, loop, reconnect_active, misused,
  \* AdapterBase
  adapter_state, drain_posts, fresh_coros, signalled, posting, spawns, cancelled, cleaned, drain,
  drain_idx, drain_total, gaveUp,
  \* KafkaConsumer and KafkaProducer
  setup, written, restarts, committed, commits, phase, position, queue, byte, consuming, poller,
  polled, outq, handling, free_list, in_use, total_created, offered, handled,
  \* GatewayService
  client, reading, auth, capacity, handler, corr_counter, pending_requests, epoch, sent,
  misattributed, posted, answers,
  \* ConfigReloader and RouteTable
  file, torn, mtime, exists, last_write_time, watching, wait, ready, starts, watcher, parsed,
  posts, table, limits,
  \* PubSubListener
  subscriber, channel_to_sessions, session_to_channels, running, subscribed_channels,
  has_pending_subs, at, active_subs, todo, reader, up, server, published_wire, refused, drops,
  published, inbox, broadcasts,
  \* AuthService
  request, token, fresh, db, locked, given, known, session, mapping, blacklisted, requests

readerVars == <<stream, protocol, buffer, read_pos, write_pos, linear, received, decoded,
    read_loop, reads_late, closer, got>>
writerVars == <<session_state, write_queue, pump_running, spawned, writing, session_wire,
    accepted, sender, send_result, frame>>
mpscVars == <<head, tail, slot_ready, data, producer, consumer, reserved, taken>>
serverVars == <<pcR, pcS, stopping, control, poll_timer, late, idx, total, accepting, serving,
    core_queue, server_conn, core, closed, services, finalized, forced, old>>
hostVars == <<lifecycle, service, handlers, default, registered, started, host_reading, calls,
    queued, live, pool, outstanding, host_spawns, counted, host_late, host_forced>>
httpVars == <<acceptor, accept, http_accepted, sess, op, tracker>>
tasksVars == <<next_handle, tasks, task_timer, executing, erased, stopped, corrupt>>
breakerVars == <<state, failure_count, half_open_calls, half_open_successes, elapsed, inflight,
    probes, healthy, last>>
redisVars == <<conn, pending, wire, pc, block, timed_out, result, timer, loop, reconnect_active,
    misused>>
adapterVars == <<adapter_state, drain_posts, fresh_coros, signalled, posting, spawns, cancelled,
    cleaned, drain, drain_idx, drain_total, gaveUp>>
kafkaVars == <<setup, written, restarts, committed, commits, phase, position, queue, byte,
    consuming, poller, polled, outq, handling, free_list, in_use, total_created, offered, handled>>
gatewayVars == <<client, reading, auth, capacity, handler, corr_counter, pending_requests, epoch,
    sent, misattributed, posted, answers>>
reloadVars == <<file, torn, mtime, exists, last_write_time, watching, wait, ready, starts,
    watcher, parsed, posts, table, limits>>
pubSubVars == <<subscriber, channel_to_sessions, session_to_channels, running,
    subscribed_channels, has_pending_subs, at, active_subs, todo, reader, up, server,
    published_wire, refused, drops, published, inbox, broadcasts>>
authVars == <<request, token, fresh, db, locked, given, known, session, mapping, blacklisted,
    requests>>
vars == <<subject, readerVars, writerVars, mpscVars, serverVars, hostVars, httpVars, tasksVars,
  breakerVars, redisVars, adapterVars, kafkaVars, gatewayVars, reloadVars, pubSubVars, authVars>>

-----------------------------------------------------------------------------
(* The instances. *)

\* Two lists of routes that can be loaded, and one that cannot.
RouteLists ==
  {<<[begin |-> 1, end |-> 2, topic |-> "a"]>>, <<[begin |-> 2, end |-> 3, topic |-> "b"]>>,
   <<[begin |-> 2, end |-> 1, topic |-> "c"]>>}

Reader == INSTANCE FrameStream WITH
  Streams <- {<<1, 0, 2>>, <<6, 10, 8, 1>>, <<0, 15, 2>>, <<3, 5, 40, 1>>}, Capacity <- 16,
  HeaderSize <- 2, MaxBodySize <- 20, MsgIdSize <- 1, Protocols <- {"tcp", "websocket"},
  ReadsLate <- {"websocket"}, loop <- read_loop, late <- reads_late, frame <- decoded

Writer == INSTANCE Session WITH
  Senders <- 1..2, NoOne <- 0, MaxQueueDepth <- 2, MaxFrames <- 4, pc <- sender,
  state <- session_state, wire <- session_wire, result <- send_result

Mpsc == INSTANCE MpscQueue WITH
  Producers <- 1..2, Capacity <- 2, MaxItems <- 3, ready <- slot_ready

Early == INSTANCE Server WITH
  NumCores <- 1, Conns <- {"c1"}, Stoppers <- 1..2, EarlyStop <- TRUE, running <- serving,
  conn <- server_conn, timer <- poll_timer, queue <- core_queue

Host == INSTANCE ServiceHost WITH
  Services <- <<"a", "b">>, Routes <- "a" :> {1} @@ "b" :> {1}, Defaults <- {"a"},
  MsgIds <- 1..2, Nobody <- "nobody", NumListeners <- 1, MaxSpawns <- 2, Forced <- TRUE,
  pc <- lifecycle, idx <- service, late <- host_late, forced <- host_forced, total <- counted,
  spawns <- host_spawns, reading <- host_reading

Http == INSTANCE HttpServer WITH
  Conns <- 1..2, accepted <- http_accepted

Tasks == INSTANCE PeriodicTasks WITH
  MaxTasks <- 1, NoTask <- 0, timer <- task_timer

Breaker == INSTANCE CircuitBreaker WITH
  FailureThreshold <- 2, HalfOpenMaxCalls <- 2, Calls <- 1..3, Throwing <- FALSE

TimedRedis == INSTANCE RedisMultiplexer WITH
  Commands <- 1..2, Auths <- {11}, MaxPending <- 3, Timeouts <- TRUE, Cancels <- TRUE

Drained == INSTANCE Adapter WITH
  NumCores <- 2, MaxSpawns <- 1, Timeouts <- TRUE, state <- adapter_state, pc <- drain,
  queue <- drain_posts, fresh <- fresh_coros, idx <- drain_idx, total <- drain_total

Broker == INSTANCE Kafka WITH
  Setups <- {[pipe |-> TRUE, batch |-> 8], [pipe |-> FALSE, batch |-> 1]}, MaxMessages <- 2,
  MaxRestarts <- 0, DlqRetries <- 1, MaxOutq <- 1, InitialCount <- 1, MaxCount <- 2,
  running <- handling, accepted <- handled

Routed == INSTANCE Gateway WITH
  Sessions <- {<<0, 1>>}, Users <- {"u1"}, Nobody <- "nobody", Blacklist <- TRUE,
  InitialCapacity <- 1, MaxPending <- 1, MaxRequests <- 2, MaxRestarts <- 0, conn <- client,
  pending <- pending_requests

Reload == INSTANCE ConfigReload WITH
  Cores <- {0}, Configs <- RouteLists, MsgIds <- 0..3, MaxEdits <- 2, MaxStarts <- 2,
  at <- watcher

Listening == INSTANCE PubSub WITH
  Sessions <- {<<0, 1>>}, Channels <- {1, 2}, Globals <- {1}, InitialChannels <- {1},
  MaxSubscriptions <- 1, MaxPublished <- 1, MaxDrops <- 1, MaxRefusals <- 1, conn <- subscriber,
  wire <- published_wire, received <- broadcasts

Auth == INSTANCE AuthService WITH
  Handlers <- 1..2, Tokens <- {"t1", "t2"}, NoToken <- "none", MaxRequests <- 3, pc <- request

ASSUME MCAssumption ==
  /\ Reader!FrameAssumption /\ Writer!SessionAssumption /\ Mpsc!MpscAssumption
  /\ Early!ServerAssumption /\ Host!HostAssumption /\ Http!HttpAssumption
  /\ Tasks!PeriodicAssumption /\ Breaker!BreakerAssumption /\ TimedRedis!MultiplexerAssumption
  /\ Drained!AdapterAssumption /\ Broker!KafkaAssumption /\ Routed!GatewayAssumption
  /\ Reload!ReloadAssumption /\ Listening!PubSubAssumption /\ Auth!AuthAssumption

-----------------------------------------------------------------------------
Unused == "unused"

NoReader ==
  /\ stream = Unused /\ protocol = Unused /\ buffer = Unused /\ read_pos = Unused
  /\ write_pos = Unused /\ linear = Unused /\ received = Unused /\ decoded = Unused
  /\ read_loop = Unused /\ reads_late = Unused /\ closer = Unused /\ got = Unused

NoWriter ==
  /\ session_state = Unused /\ write_queue = Unused /\ pump_running = Unused
  /\ spawned = Unused /\ writing = Unused /\ session_wire = Unused /\ accepted = Unused
  /\ sender = Unused /\ send_result = Unused /\ frame = Unused

NoMpsc ==
  /\ head = Unused /\ tail = Unused /\ slot_ready = Unused /\ data = Unused
  /\ producer = Unused /\ consumer = Unused /\ reserved = Unused /\ taken = Unused

NoServer ==
  /\ pcR = Unused /\ pcS = Unused /\ stopping = Unused /\ control = Unused
  /\ poll_timer = Unused /\ late = Unused /\ idx = Unused /\ total = Unused
  /\ accepting = Unused /\ serving = Unused /\ core_queue = Unused /\ server_conn = Unused
  /\ core = Unused /\ closed = Unused /\ services = Unused /\ finalized = Unused
  /\ forced = Unused /\ old = Unused

NoHost ==
  /\ lifecycle = Unused /\ service = Unused /\ handlers = Unused /\ default = Unused
  /\ registered = Unused /\ started = Unused /\ host_reading = Unused /\ calls = Unused
  /\ queued = Unused /\ live = Unused /\ pool = Unused /\ outstanding = Unused
  /\ host_spawns = Unused /\ counted = Unused /\ host_late = Unused /\ host_forced = Unused

NoHttp ==
  /\ acceptor = Unused /\ accept = Unused /\ http_accepted = Unused /\ sess = Unused
  /\ op = Unused /\ tracker = Unused

NoTasks ==
  /\ next_handle = Unused /\ tasks = Unused /\ task_timer = Unused /\ executing = Unused
  /\ erased = Unused /\ stopped = Unused /\ corrupt = Unused

NoBreaker ==
  /\ state = Unused /\ failure_count = Unused /\ half_open_calls = Unused
  /\ half_open_successes = Unused /\ elapsed = Unused /\ inflight = Unused /\ probes = Unused
  /\ healthy = Unused /\ last = Unused

NoRedis ==
  /\ conn = Unused /\ pending = Unused /\ wire = Unused /\ pc = Unused /\ block = Unused
  /\ timed_out = Unused /\ result = Unused /\ timer = Unused /\ loop = Unused
  /\ reconnect_active = Unused /\ misused = Unused

NoAdapter ==
  /\ adapter_state = Unused /\ drain_posts = Unused /\ fresh_coros = Unused
  /\ signalled = Unused /\ posting = Unused /\ spawns = Unused /\ cancelled = Unused
  /\ cleaned = Unused /\ drain = Unused /\ drain_idx = Unused /\ drain_total = Unused
  /\ gaveUp = Unused

NoKafka ==
  /\ setup = Unused /\ written = Unused /\ restarts = Unused /\ committed = Unused
  /\ commits = Unused /\ phase = Unused /\ position = Unused /\ queue = Unused
  /\ byte = Unused /\ consuming = Unused /\ poller = Unused /\ polled = Unused
  /\ outq = Unused /\ handling = Unused /\ free_list = Unused /\ in_use = Unused
  /\ total_created = Unused /\ offered = Unused /\ handled = Unused

NoGateway ==
  /\ client = Unused /\ reading = Unused /\ auth = Unused /\ capacity = Unused
  /\ handler = Unused /\ corr_counter = Unused /\ pending_requests = Unused /\ epoch = Unused
  /\ sent = Unused /\ misattributed = Unused /\ posted = Unused /\ answers = Unused

NoReload ==
  /\ file = Unused /\ torn = Unused /\ mtime = Unused /\ exists = Unused
  /\ last_write_time = Unused /\ watching = Unused /\ wait = Unused /\ ready = Unused
  /\ starts = Unused /\ watcher = Unused /\ parsed = Unused /\ posts = Unused
  /\ table = Unused /\ limits = Unused

NoPubSub ==
  /\ subscriber = Unused /\ channel_to_sessions = Unused /\ session_to_channels = Unused
  /\ running = Unused /\ subscribed_channels = Unused /\ has_pending_subs = Unused
  /\ at = Unused /\ active_subs = Unused /\ todo = Unused /\ reader = Unused /\ up = Unused
  /\ server = Unused /\ published_wire = Unused /\ refused = Unused /\ drops = Unused
  /\ published = Unused /\ inbox = Unused /\ broadcasts = Unused

NoAuth ==
  /\ request = Unused /\ token = Unused /\ fresh = Unused /\ db = Unused /\ locked = Unused
  /\ given = Unused /\ known = Unused /\ session = Unused /\ mapping = Unused
  /\ blacklisted = Unused /\ requests = Unused

Init ==
  \/ /\ subject = "reader" /\ Reader!Init
     /\ NoWriter /\ NoMpsc /\ NoServer /\ NoHost /\ NoHttp /\ NoTasks /\ NoBreaker /\ NoRedis
     /\ NoAdapter /\ NoKafka /\ NoGateway /\ NoReload /\ NoPubSub /\ NoAuth
  \/ /\ subject = "writer" /\ Writer!Init
     /\ NoReader /\ NoMpsc /\ NoServer /\ NoHost /\ NoHttp /\ NoTasks /\ NoBreaker /\ NoRedis
     /\ NoAdapter /\ NoKafka /\ NoGateway /\ NoReload /\ NoPubSub /\ NoAuth
  \/ /\ subject = "mpsc" /\ Mpsc!Init
     /\ NoReader /\ NoWriter /\ NoServer /\ NoHost /\ NoHttp /\ NoTasks /\ NoBreaker
     /\ NoRedis /\ NoAdapter /\ NoKafka /\ NoGateway /\ NoReload /\ NoPubSub /\ NoAuth
  \/ /\ subject = "early" /\ Early!Init
     /\ NoReader /\ NoWriter /\ NoMpsc /\ NoHost /\ NoHttp /\ NoTasks /\ NoBreaker /\ NoRedis
     /\ NoAdapter /\ NoKafka /\ NoGateway /\ NoReload /\ NoPubSub /\ NoAuth
  \/ /\ subject = "host" /\ Host!Init
     /\ NoReader /\ NoWriter /\ NoMpsc /\ NoServer /\ NoHttp /\ NoTasks /\ NoBreaker
     /\ NoRedis /\ NoAdapter /\ NoKafka /\ NoGateway /\ NoReload /\ NoPubSub /\ NoAuth
  \/ /\ subject = "http" /\ Http!Init
     /\ NoReader /\ NoWriter /\ NoMpsc /\ NoServer /\ NoHost /\ NoTasks /\ NoBreaker
     /\ NoRedis /\ NoAdapter /\ NoKafka /\ NoGateway /\ NoReload /\ NoPubSub /\ NoAuth
  \/ /\ subject = "tasks" /\ Tasks!Init
     /\ NoReader /\ NoWriter /\ NoMpsc /\ NoServer /\ NoHost /\ NoHttp /\ NoBreaker /\ NoRedis
     /\ NoAdapter /\ NoKafka /\ NoGateway /\ NoReload /\ NoPubSub /\ NoAuth
  \/ /\ subject = "breaker" /\ Breaker!Init
     /\ NoReader /\ NoWriter /\ NoMpsc /\ NoServer /\ NoHost /\ NoHttp /\ NoTasks /\ NoRedis
     /\ NoAdapter /\ NoKafka /\ NoGateway /\ NoReload /\ NoPubSub /\ NoAuth
  \/ /\ subject = "timed_redis" /\ TimedRedis!Init
     /\ NoReader /\ NoWriter /\ NoMpsc /\ NoServer /\ NoHost /\ NoHttp /\ NoTasks /\ NoBreaker
     /\ NoAdapter /\ NoKafka /\ NoGateway /\ NoReload /\ NoPubSub /\ NoAuth
  \/ /\ subject = "adapter" /\ Drained!Init
     /\ NoReader /\ NoWriter /\ NoMpsc /\ NoServer /\ NoHost /\ NoHttp /\ NoTasks /\ NoBreaker
     /\ NoRedis /\ NoKafka /\ NoGateway /\ NoReload /\ NoPubSub /\ NoAuth
  \/ /\ subject = "kafka" /\ Broker!Init
     /\ NoReader /\ NoWriter /\ NoMpsc /\ NoServer /\ NoHost /\ NoHttp /\ NoTasks /\ NoBreaker
     /\ NoRedis /\ NoAdapter /\ NoGateway /\ NoReload /\ NoPubSub /\ NoAuth
  \/ /\ subject = "gateway" /\ Routed!Init
     /\ NoReader /\ NoWriter /\ NoMpsc /\ NoServer /\ NoHost /\ NoHttp /\ NoTasks /\ NoBreaker
     /\ NoRedis /\ NoAdapter /\ NoKafka /\ NoReload /\ NoPubSub /\ NoAuth
  \/ /\ subject = "reload" /\ Reload!Init
     /\ NoReader /\ NoWriter /\ NoMpsc /\ NoServer /\ NoHost /\ NoHttp /\ NoTasks /\ NoBreaker
     /\ NoRedis /\ NoAdapter /\ NoKafka /\ NoGateway /\ NoPubSub /\ NoAuth
  \/ /\ subject = "pubsub" /\ Listening!Init
     /\ NoReader /\ NoWriter /\ NoMpsc /\ NoServer /\ NoHost /\ NoHttp /\ NoTasks /\ NoBreaker
     /\ NoRedis /\ NoAdapter /\ NoKafka /\ NoGateway /\ NoReload /\ NoAuth
  \/ /\ subject = "auth" /\ Auth!Init
     /\ NoReader /\ NoWriter /\ NoMpsc /\ NoServer /\ NoHost /\ NoHttp /\ NoTasks /\ NoBreaker
     /\ NoRedis /\ NoAdapter /\ NoKafka /\ NoGateway /\ NoReload /\ NoPubSub

notReader == <<subject, writerVars, mpscVars, serverVars, hostVars, httpVars, tasksVars,
    breakerVars, redisVars, adapterVars, kafkaVars, gatewayVars, reloadVars, pubSubVars, authVars>>
notWriter == <<subject, readerVars, mpscVars, serverVars, hostVars, httpVars, tasksVars,
    breakerVars, redisVars, adapterVars, kafkaVars, gatewayVars, reloadVars, pubSubVars, authVars>>
notMpsc == <<subject, readerVars, writerVars, serverVars, hostVars, httpVars, tasksVars,
    breakerVars, redisVars, adapterVars, kafkaVars, gatewayVars, reloadVars, pubSubVars, authVars>>
notServer == <<subject, readerVars, writerVars, mpscVars, hostVars, httpVars, tasksVars,
    breakerVars, redisVars, adapterVars, kafkaVars, gatewayVars, reloadVars, pubSubVars, authVars>>
notHost == <<subject, readerVars, writerVars, mpscVars, serverVars, httpVars, tasksVars,
    breakerVars, redisVars, adapterVars, kafkaVars, gatewayVars, reloadVars, pubSubVars, authVars>>
notHttp == <<subject, readerVars, writerVars, mpscVars, serverVars, hostVars, tasksVars,
    breakerVars, redisVars, adapterVars, kafkaVars, gatewayVars, reloadVars, pubSubVars, authVars>>
notTasks == <<subject, readerVars, writerVars, mpscVars, serverVars, hostVars, httpVars,
    breakerVars, redisVars, adapterVars, kafkaVars, gatewayVars, reloadVars, pubSubVars, authVars>>
notBreaker == <<subject, readerVars, writerVars, mpscVars, serverVars, hostVars, httpVars,
    tasksVars, redisVars, adapterVars, kafkaVars, gatewayVars, reloadVars, pubSubVars, authVars>>
notRedis == <<subject, readerVars, writerVars, mpscVars, serverVars, hostVars, httpVars,
    tasksVars, breakerVars, adapterVars, kafkaVars, gatewayVars, reloadVars, pubSubVars, authVars>>
notAdapter == <<subject, readerVars, writerVars, mpscVars, serverVars, hostVars, httpVars,
    tasksVars, breakerVars, redisVars, kafkaVars, gatewayVars, reloadVars, pubSubVars, authVars>>
notKafka == <<subject, readerVars, writerVars, mpscVars, serverVars, hostVars, httpVars,
    tasksVars, breakerVars, redisVars, adapterVars, gatewayVars, reloadVars, pubSubVars, authVars>>
notGateway == <<subject, readerVars, writerVars, mpscVars, serverVars, hostVars, httpVars,
    tasksVars, breakerVars, redisVars, adapterVars, kafkaVars, reloadVars, pubSubVars, authVars>>
notReload == <<subject, readerVars, writerVars, mpscVars, serverVars, hostVars, httpVars,
    tasksVars, breakerVars, redisVars, adapterVars, kafkaVars, gatewayVars, pubSubVars, authVars>>
notPubSub == <<subject, readerVars, writerVars, mpscVars, serverVars, hostVars, httpVars,
    tasksVars, breakerVars, redisVars, adapterVars, kafkaVars, gatewayVars, reloadVars, authVars>>
notAuth == <<subject, readerVars, writerVars, mpscVars, serverVars, hostVars, httpVars,
    tasksVars, breakerVars, redisVars, adapterVars, kafkaVars, gatewayVars, reloadVars,
    pubSubVars>>

Next ==
  \/ subject = "reader" /\ Reader!Next /\ UNCHANGED notReader
  \/ subject = "writer" /\ Writer!Next /\ UNCHANGED notWriter
  \/ subject = "mpsc" /\ Mpsc!Next /\ UNCHANGED notMpsc
  \/ subject = "early" /\ Early!Next /\ UNCHANGED notServer
  \/ subject = "host" /\ Host!Next /\ UNCHANGED notHost
  \/ subject = "http" /\ Http!Next /\ UNCHANGED notHttp
  \/ subject = "tasks" /\ Tasks!Next /\ UNCHANGED notTasks
  \/ subject = "breaker" /\ Breaker!Next /\ UNCHANGED notBreaker
  \/ subject = "timed_redis" /\ TimedRedis!Next /\ UNCHANGED notRedis
  \/ subject = "adapter" /\ Drained!Next /\ UNCHANGED notAdapter
  \/ subject = "kafka" /\ Broker!Next /\ UNCHANGED notKafka
  \/ subject = "gateway" /\ Routed!Next /\ UNCHANGED notGateway
  \/ subject = "reload" /\ Reload!Next /\ UNCHANGED notReload
  \/ subject = "pubsub" /\ Listening!Next /\ UNCHANGED notPubSub
  \/ subject = "auth" /\ Auth!Next /\ UNCHANGED notAuth

\* The fairness of the parts' own specifications: threads and coroutines go on, handlers
\* that were posted run, timers expire.  No peer, no service and no read_loop has to act.
Fairness ==
  /\ WF_readerVars(subject = "reader" /\ Reader!Loop)
  /\ WF_writerVars(subject = "writer" /\ Writer!PumpStep)
  /\ WF_mpscVars(subject = "mpsc" /\ Mpsc!Dequeue)
  /\ WF_serverVars(subject = "early" /\ Early!ControlStep)
  /\ WF_serverVars(subject = "early" /\ Early!StopStep)
  /\ WF_serverVars(subject = "early" /\ Early!TimerFires)
  /\ WF_serverVars(subject = "early" /\ Early!DeadlinePasses)
  /\ WF_hostVars(subject = "host" /\ Host!ControlStep)
  /\ WF_hostVars(subject = "host" /\ Host!DrainTimeout)
  /\ WF_httpVars(subject = "http" /\ acceptor = "open" /\ Http!OnAccept)
  /\ WF_tasksVars(subject = "tasks" /\ Tasks!TaskEnds)
  /\ WF_tasksVars(subject = "tasks" /\ Tasks!Expire(1))
  /\ WF_tasksVars(subject = "tasks" /\ Tasks!Ignore(1))
  /\ WF_tasksVars(subject = "tasks" /\ Tasks!Execute(1))
  /\ WF_breakerVars(subject = "breaker" /\ Breaker!OpenDurationPasses)
  /\ WF_adapterVars(subject = "adapter" /\ Drained!ControlStep)
  /\ WF_adapterVars(subject = "adapter" /\ Drained!TimeoutExpires)
  /\ WF_kafkaVars(subject = "kafka" /\ Broker!Wake)
  /\ WF_kafkaVars(subject = "kafka" /\ Broker!PollMessage)
  /\ WF_kafkaVars(subject = "kafka" /\ Broker!PollEnds)
  /\ WF_kafkaVars(subject = "kafka" /\ Broker!FetchMessage)
  /\ WF_gatewayVars(subject = "gateway" /\ Routed!Expire(0))
  /\ WF_gatewayVars(subject = "gateway" /\ Routed!Sweep(0))
  /\ WF_reloadVars(subject = "reload" /\ Reload!TimerExpires)
  /\ WF_reloadVars(subject = "reload" /\ Reload!WatcherStep)
  /\ WF_reloadVars(subject = "reload" /\ Reload!RunUpdate(0))
  /\ WF_pubSubVars(subject = "pubsub" /\ Listening!ListenerStep)
  /\ \A n \in 1..2 :
       /\ WF_writerVars(subject = "writer" /\ Writer!Return(n))
       /\ WF_mpscVars(subject = "mpsc" /\ Mpsc!WriteData(n))
       /\ WF_mpscVars(subject = "mpsc" /\ Mpsc!Publish(n))
       /\ WF_httpVars(subject = "http" /\ acceptor = "open" /\ (Http!SessionStep(n) \/ Http!Completes(n)))
       /\ WF_redisVars(subject = "timed_redis" /\ TimedRedis!Queued(n))
       /\ WF_gatewayVars(subject = "gateway" /\ Routed!DeliverResponse(<<0, 0, n>>))
       /\ WF_authVars(subject = "auth" /\ Auth!Step(n))
  /\ \A c \in 1..3 :
       /\ WF_breakerVars(subject = "breaker" /\ Breaker!Allow(c))
       /\ WF_breakerVars(subject = "breaker" /\ Breaker!Finish(c))

Spec == Init /\ [][Next]_vars /\ Fairness

-----------------------------------------------------------------------------
(* Properties, each stated in the module of the part it is about. *)

\* What the n-th thread, sender, connection or task of the server is owed ...
ServerOwes(n) ==
  \/ subject \in {"reader", "mpsc"}
  \/ subject = "writer" /\ sender[n] = "waiting"
  \/ subject = "early" /\ pcS[n] = "returned" /\ pcR # "new"
  \/ subject = "host" /\ lifecycle = "stop"
  \/ subject = "http" /\ n \in http_accepted
  \/ subject = "tasks" /\ n \in tasks

\* ... and what it gets.
ServerPays(n) ==
  \/ subject = "reader" /\ (Reader!AllHandled \/ closer = "other")
  \/ subject = "mpsc" /\ Len(taken) = Len(reserved)
  \/ subject = "writer" /\ (sender[n] # "waiting" \/ session_state = "Closed")
  \/ subject = "early" /\ pcR \in {"returned", "destroying", "destroyed"}
  \/ subject = "host" /\ lifecycle = "stopped"
  \/ subject = "http" /\ (sess[n] = "done" \/ acceptor = "closed")
  \/ subject = "tasks" /\ (executing = n \/ n \notin tasks \/ corrupt)

\* Every frame that can be received is handled, unless somebody else closes the session;
\* every item of the queue is taken; a sender is answered while the session is open; a call
\* of stop(), even one before run(), makes run() return, whatever the sessions do; stopping
\* the services ends; an HTTP session ends while the server runs; a task that is not
\* cancelled runs again and again.
ServerProgress == \A n \in 1..2 : ServerOwes(n) ~> ServerPays(n)

\* What the n-th command, message, channel or request is owed, or the one breaker or drain ...
ServicesOwe(n) ==
  \/ subject = "breaker" /\ healthy
  \/ subject = "timed_redis" /\ pc[n] = "waiting"
  \/ subject = "adapter" /\ drain = "cancel"
  \/ subject = "kafka" /\ n <= written /\ phase = "ready" /\ n > position
  \/ subject = "gateway" /\ Routed!Waiting(<<0, 0, n>>, <<0, 1>>)
  \/ subject = "pubsub" /\ (n \in subscribed_channels \/ ~running)
  \/ subject = "auth" /\ request[n] # "idle"

\* ... and what it gets.
ServicesPay(n) ==
  \/ subject = "breaker" /\ state = "CLOSED"
  \/ subject = "timed_redis" /\ pc[n] = "done"
  \/ subject = "adapter" /\ drain = "stopped"
  \/ subject = "kafka" /\ (n - 1 \in offered \/ phase # "ready")
  \/ subject = "gateway" /\ (Len(answers[<<0, 0, n>>]) = 1 \/ client[<<0, 1>>] # "open")
  \/ subject = "pubsub" /\ ((running /\ n \in server \cup refused) \/ at = "ended")
  \/ subject = "auth" /\ request[n] = "idle"

\* The breaker closes once operations succeed; a command returns, reply or not; a drain ends
\* with the engine stopped, whatever the adapter's coroutines do; a message reaches the
\* callback while the consumer runs; a request of a client that stays connected is answered,
\* if only by the timeout; a channel is subscribed at Redis unless Redis refuses it or stop()
\* is called, after which the listener thread ends; a request to the auth service ends.
ServicesProgress == \A n \in 1..2 : ServicesOwe(n) ~> ServicesPay(n)

\* Once the file stays as it is, and can be loaded, every core ends up with its routes and
\* its limits.
Converges ==
  <>[](subject = "reload" /\ Reload!Settled) => <>[](subject = "reload" /\ Reload!UpToDate)
=============================================================================

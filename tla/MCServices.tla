----------------------------- MODULE MCServices -----------------------------
(***************************************************************************)
(* Model checking of the services and of what stands between them and the  *)
(* outside: the adapters' drain, the circuit breaker, the Redis            *)
(* multiplexer, the PostgreSQL pool, Kafka consumer and producer, the      *)
(* gateway's request path, its routes, the bytes it sends and its Pub/Sub  *)
(* listener, the auth and the chat service.  Modelled apart, they share no *)
(* state, so a behaviour is one of a single part, as `subject' says; the   *)
(* variables of the others are unused.                                     *)
(***************************************************************************)
EXTENDS Naturals, Sequences, FiniteSets

VARIABLES
  subject,
  \* CircuitBreaker
  state, failure_count, half_open_calls, half_open_successes, elapsed, inflight, probes, healthy,
  last,
  \* RedisMultiplexer
  conn, pending, wire, pc, block, timed_out, result, timer, loop, reconnect_active, misused,
  \* AdapterBase
  adapter_state, drain_posts, fresh_coros, signalled, posting, spawns, cancelled, cleaned, drain,
  idx, total, gaveUp,
  \* PgPool
  obj, idle, total_count, active_count, worker, borrowed, guard, attempt,
  \* KafkaConsumer and KafkaProducer
  setup, written, restarts, committed, commits, phase, position, queue, byte, consuming, poller,
  polled, outq, handling, free_list, in_use, total_created, offered, accepted,
  \* GatewayService
  client, reading, auth, capacity, handler, corr_counter, pending_requests, epoch, sent,
  misattributed, posted, answers,
  \* ConfigReloader and RouteTable
  file, torn, mtime, exists, last_write_time, watching, wait, ready, starts, watcher, parsed,
  posts, table, limits,
  \* KafkaEnvelope
  stage, req, bytes, seen, answer, response,
  \* PubSubListener
  subscriber, channel_to_sessions, session_to_channels, running, subscribed_channels,
  has_pending_subs, at, active_subs, todo, reader, up, server, published_wire, refused, drops,
  published, inbox, received,
  \* AuthService
  request, token, fresh, db, locked, given, known, session, mapping, blacklisted, requests,
  \* ChatService, rooms
  rooms, members, messages, chat, user, room,
  \* ChatService, lists
  rows, what, limit, cursor, got, base, done,
  \* ChatService, whispers
  user_mapping, whisper_conn, users_of, pushes, misdelivered, whisper_restarts

breakerVars == <<state, failure_count, half_open_calls, half_open_successes, elapsed, inflight,
    probes, healthy, last>>
redisVars == <<conn, pending, wire, pc, block, timed_out, result, timer, loop, reconnect_active,
    misused>>
adapterVars == <<adapter_state, drain_posts, fresh_coros, signalled, posting, spawns, cancelled,
    cleaned, drain, idx, total, gaveUp>>
poolVars == <<obj, idle, total_count, active_count, worker, borrowed, guard, attempt>>
kafkaVars == <<setup, written, restarts, committed, commits, phase, position, queue, byte,
    consuming, poller, polled, outq, handling, free_list, in_use, total_created, offered,
    accepted>>
gatewayVars == <<client, reading, auth, capacity, handler, corr_counter, pending_requests, epoch,
    sent, misattributed, posted, answers>>
reloadVars == <<file, torn, mtime, exists, last_write_time, watching, wait, ready, starts,
    watcher, parsed, posts, table, limits>>
envelopeVars == <<stage, req, bytes, seen, answer, response>>
pubSubVars == <<subscriber, channel_to_sessions, session_to_channels, running,
    subscribed_channels, has_pending_subs, at, active_subs, todo, reader, up, server,
    published_wire, refused, drops, published, inbox, received>>
authVars == <<request, token, fresh, db, locked, given, known, session, mapping, blacklisted,
    requests>>
roomsVars == <<rooms, members, messages, chat, user, room>>
pagingVars == <<rows, what, limit, cursor, got, base, done>>
whisperVars == <<user_mapping, whisper_conn, users_of, pushes, misdelivered, whisper_restarts>>
vars == <<subject, breakerVars, redisVars, adapterVars, poolVars, kafkaVars, gatewayVars,
  reloadVars, envelopeVars, pubSubVars, authVars, roomsVars, pagingVars, whisperVars>>

-----------------------------------------------------------------------------
(* The instances. *)

\* Two lists of ranges out of order and in order, one that overlaps, one with an empty range.
Route(b, e, t) == [begin |-> b, end |-> e, topic |-> t]
RouteLists ==
  {<<Route(4, 6, "b"), Route(1, 2, "a")>>, <<Route(1, 3, "a"), Route(3, 5, "b")>>,
   <<Route(2, 2, "c"), Route(6, 3, "d")>>, <<Route(2, 5, "c")>>}

\* Requests whose numbers fill one byte or all of their field, in base 8, and whose topic
\* is absent, short, of the longest allowed length and longer.
Text(n) == [i \in 1..n |-> i % 8]
Requests8 ==
  {[msg_id |-> m, core_id |-> c, corr_id |-> k, session_id |-> 8 * k + 5, user_id |-> 513,
    timestamp |-> 70000, topic |-> t, payload |-> p] :
     m \in {0, 9, 4095}, c \in {0, 9}, k \in {1, 16777215 \div 8 - 1},
     t \in {<<>>, Text(3), Text(63), Text(64)}, p \in {<<>>, <<0, 5, 1>>}}

Breaker == INSTANCE CircuitBreaker WITH
  FailureThreshold <- 2, HalfOpenMaxCalls <- 2, Calls <- {"a", "b", "c"}, Throwing <- FALSE

\* Operations that throw, which the breaker does not count.
Thrown == INSTANCE CircuitBreaker WITH
  FailureThreshold <- 2, HalfOpenMaxCalls <- 2, Calls <- {"a", "b", "c", "d"}, Throwing <- TRUE

\* Undisturbed; TimedRedis is the multiplexer with timeouts and cancellation.
Redis == INSTANCE RedisMultiplexer WITH
  Commands <- 1..3, Auths <- {11, 12}, MaxPending <- 2, Timeouts <- FALSE, Cancels <- FALSE

TimedRedis == INSTANCE RedisMultiplexer WITH
  Commands <- 1..2, Auths <- {11, 12}, MaxPending <- 3, Timeouts <- TRUE, Cancels <- TRUE

Drained == INSTANCE Adapter WITH
  NumCores <- 2, MaxSpawns <- 2, Timeouts <- TRUE, state <- adapter_state, pc <- drain,
  queue <- drain_posts, fresh <- fresh_coros

\* One coroutine of each program, more than there are connections.
Pg == INSTANCE PgPool WITH
  Queries <- {"query"}, Rotations <- {"rotation"}, Scoped <- {"scoped"}, Retries <- {"retry"},
  Conns <- {"p", "q", "r"}, NoConn <- "null", MaxSize <- 2, MaxIdleTime <- 2, MaxRetries <- 1,
  pc <- worker, conn <- borrowed

\* Woken by the pipe with room for all messages in a batch, or polling by timer, one each time.
Broker == INSTANCE Kafka WITH
  Setups <- {[pipe |-> TRUE, batch |-> 8], [pipe |-> FALSE, batch |-> 1]}, MaxMessages <- 2,
  MaxRestarts <- 1, DlqRetries <- 1, MaxOutq <- 1, InitialCount <- 0, MaxCount <- 1,
  running <- handling

Routed == INSTANCE Gateway WITH
  Sessions <- {<<0, 1>>}, Users <- {"u1"}, Nobody <- "nobody", Blacklist <- TRUE,
  InitialCapacity <- 1, MaxPending <- 1, MaxRequests <- 2, MaxRestarts <- 1, conn <- client,
  pending <- pending_requests

Reload == INSTANCE ConfigReload WITH
  Cores <- {0}, Configs <- RouteLists, MsgIds <- 0..7, MaxEdits <- 3, MaxStarts <- 3,
  at <- watcher

Bytes == INSTANCE Envelope WITH
  Base <- 8, Requests <- Requests8,
  Answers <- {[msg_id |-> 10, flags |-> f, payload |-> p] : f \in {1, 3}, p \in {<<>>, <<7, 0>>}},
  Strays <- {<<>>, <<1, 2>>, Text(47), Text(60), <<0, 1>> \o Text(50)}, Handlers <- {9, 4095},
  ErrorCodes <- {3}, wire <- bytes, frame <- response

\* Channel 1 is global, 2 is not.
Listening == INSTANCE PubSub WITH
  Sessions <- {<<0, 1>>}, Channels <- {1, 2}, Globals <- {1}, InitialChannels <- {1},
  MaxSubscriptions <- 1, MaxPublished <- 2, MaxDrops <- 1, MaxRefusals <- 1, conn <- subscriber,
  wire <- published_wire

Auth == INSTANCE AuthService WITH
  Handlers <- 1..2, Tokens <- {"t1", "t2", "t3"}, NoToken <- "none", MaxRequests <- 4,
  pc <- request

Rooms == INSTANCE ChatRooms WITH
  Handlers <- 1..2, Users <- {"u1", "u2", "u3"}, Nobody <- "nobody", Capacities <- {1, 2},
  MaxRooms <- 1, MaxMessages <- 1, pc <- chat

Lists == INSTANCE ChatPaging WITH
  Limits <- {1, 2, 9}, PageSize <- 3, MaxRows <- 6

Whispers == INSTANCE Whisper WITH
  Users <- {"u1", "u2"}, Cores <- {0, 1}, Sids <- {1}, Nowhere <- <<>>, MaxRestarts <- 1,
  conn <- whisper_conn, restarts <- whisper_restarts, mapping <- user_mapping

ASSUME MCAssumption ==
  /\ Breaker!BreakerAssumption /\ Thrown!BreakerAssumption
  /\ Redis!MultiplexerAssumption /\ TimedRedis!MultiplexerAssumption
  /\ Drained!AdapterAssumption /\ Pg!PoolAssumption
  /\ Broker!KafkaAssumption /\ Broker!Pool!PayloadAssumption
  /\ Routed!GatewayAssumption /\ Reload!ReloadAssumption /\ Bytes!EnvelopeAssumption
  /\ Listening!PubSubAssumption /\ Auth!AuthAssumption
  /\ Rooms!ChatAssumption /\ Lists!PagingAssumption /\ Whispers!WhisperAssumption

-----------------------------------------------------------------------------
Unused == "unused"

NoBreaker ==
  /\ state = Unused /\ failure_count = Unused /\ half_open_calls = Unused
  /\ half_open_successes = Unused /\ elapsed = Unused /\ inflight = Unused /\ probes = Unused
  /\ healthy = Unused /\ last = Unused

NoRedis ==
  /\ conn = Unused /\ pending = Unused /\ wire = Unused /\ pc = Unused /\ block = Unused
  /\ timed_out = Unused /\ result = Unused /\ timer = Unused /\ loop = Unused
  /\ reconnect_active = Unused /\ misused = Unused

NoAdapter ==
  /\ adapter_state = Unused /\ drain_posts = Unused /\ fresh_coros = Unused
  /\ signalled = Unused /\ posting = Unused /\ spawns = Unused /\ cancelled = Unused
  /\ cleaned = Unused /\ drain = Unused /\ idx = Unused /\ total = Unused /\ gaveUp = Unused

NoPool ==
  /\ obj = Unused /\ idle = Unused /\ total_count = Unused /\ active_count = Unused
  /\ worker = Unused /\ borrowed = Unused /\ guard = Unused /\ attempt = Unused

NoKafka ==
  /\ setup = Unused /\ written = Unused /\ restarts = Unused /\ committed = Unused
  /\ commits = Unused /\ phase = Unused /\ position = Unused /\ queue = Unused
  /\ byte = Unused /\ consuming = Unused /\ poller = Unused /\ polled = Unused
  /\ outq = Unused /\ handling = Unused /\ free_list = Unused /\ in_use = Unused
  /\ total_created = Unused /\ offered = Unused /\ accepted = Unused

NoGateway ==
  /\ client = Unused /\ reading = Unused /\ auth = Unused /\ capacity = Unused
  /\ handler = Unused /\ corr_counter = Unused /\ pending_requests = Unused /\ epoch = Unused
  /\ sent = Unused /\ misattributed = Unused /\ posted = Unused /\ answers = Unused

NoReload ==
  /\ file = Unused /\ torn = Unused /\ mtime = Unused /\ exists = Unused
  /\ last_write_time = Unused /\ watching = Unused /\ wait = Unused /\ ready = Unused
  /\ starts = Unused /\ watcher = Unused /\ parsed = Unused /\ posts = Unused
  /\ table = Unused /\ limits = Unused

NoEnvelope ==
  /\ stage = Unused /\ req = Unused /\ bytes = Unused /\ seen = Unused /\ answer = Unused
  /\ response = Unused

NoPubSub ==
  /\ subscriber = Unused /\ channel_to_sessions = Unused /\ session_to_channels = Unused
  /\ running = Unused /\ subscribed_channels = Unused /\ has_pending_subs = Unused
  /\ at = Unused /\ active_subs = Unused /\ todo = Unused /\ reader = Unused /\ up = Unused
  /\ server = Unused /\ published_wire = Unused /\ refused = Unused /\ drops = Unused
  /\ published = Unused /\ inbox = Unused /\ received = Unused

NoAuth ==
  /\ request = Unused /\ token = Unused /\ fresh = Unused /\ db = Unused /\ locked = Unused
  /\ given = Unused /\ known = Unused /\ session = Unused /\ mapping = Unused
  /\ blacklisted = Unused /\ requests = Unused

NoRooms ==
  /\ rooms = Unused /\ members = Unused /\ messages = Unused /\ chat = Unused /\ user = Unused
  /\ room = Unused

NoPaging ==
  /\ rows = Unused /\ what = Unused /\ limit = Unused /\ cursor = Unused /\ got = Unused
  /\ base = Unused /\ done = Unused

NoWhisper ==
  /\ user_mapping = Unused /\ whisper_conn = Unused /\ users_of = Unused /\ pushes = Unused
  /\ misdelivered = Unused /\ whisper_restarts = Unused

Init ==
  \/ /\ subject = "breaker" /\ Breaker!Init
     /\ NoRedis /\ NoAdapter /\ NoPool /\ NoKafka /\ NoGateway /\ NoReload /\ NoEnvelope
     /\ NoPubSub /\ NoAuth /\ NoRooms /\ NoPaging /\ NoWhisper
  \/ /\ subject = "throwing" /\ Thrown!Init
     /\ NoRedis /\ NoAdapter /\ NoPool /\ NoKafka /\ NoGateway /\ NoReload /\ NoEnvelope
     /\ NoPubSub /\ NoAuth /\ NoRooms /\ NoPaging /\ NoWhisper
  \/ /\ subject = "redis" /\ Redis!Init
     /\ NoBreaker /\ NoAdapter /\ NoPool /\ NoKafka /\ NoGateway /\ NoReload /\ NoEnvelope
     /\ NoPubSub /\ NoAuth /\ NoRooms /\ NoPaging /\ NoWhisper
  \/ /\ subject = "timed_redis" /\ TimedRedis!Init
     /\ NoBreaker /\ NoAdapter /\ NoPool /\ NoKafka /\ NoGateway /\ NoReload /\ NoEnvelope
     /\ NoPubSub /\ NoAuth /\ NoRooms /\ NoPaging /\ NoWhisper
  \/ /\ subject = "adapter" /\ Drained!Init
     /\ NoBreaker /\ NoRedis /\ NoPool /\ NoKafka /\ NoGateway /\ NoReload /\ NoEnvelope
     /\ NoPubSub /\ NoAuth /\ NoRooms /\ NoPaging /\ NoWhisper
  \/ /\ subject = "pg" /\ Pg!Init
     /\ NoBreaker /\ NoRedis /\ NoAdapter /\ NoKafka /\ NoGateway /\ NoReload /\ NoEnvelope
     /\ NoPubSub /\ NoAuth /\ NoRooms /\ NoPaging /\ NoWhisper
  \/ /\ subject = "kafka" /\ Broker!Init
     /\ NoBreaker /\ NoRedis /\ NoAdapter /\ NoPool /\ NoGateway /\ NoReload /\ NoEnvelope
     /\ NoPubSub /\ NoAuth /\ NoRooms /\ NoPaging /\ NoWhisper
  \/ /\ subject = "gateway" /\ Routed!Init
     /\ NoBreaker /\ NoRedis /\ NoAdapter /\ NoPool /\ NoKafka /\ NoReload /\ NoEnvelope
     /\ NoPubSub /\ NoAuth /\ NoRooms /\ NoPaging /\ NoWhisper
  \/ /\ subject = "reload" /\ Reload!Init
     /\ NoBreaker /\ NoRedis /\ NoAdapter /\ NoPool /\ NoKafka /\ NoGateway /\ NoEnvelope
     /\ NoPubSub /\ NoAuth /\ NoRooms /\ NoPaging /\ NoWhisper
  \/ /\ subject = "envelope" /\ Bytes!Init
     /\ NoBreaker /\ NoRedis /\ NoAdapter /\ NoPool /\ NoKafka /\ NoGateway /\ NoReload
     /\ NoPubSub /\ NoAuth /\ NoRooms /\ NoPaging /\ NoWhisper
  \/ /\ subject = "pubsub" /\ Listening!Init
     /\ NoBreaker /\ NoRedis /\ NoAdapter /\ NoPool /\ NoKafka /\ NoGateway /\ NoReload
     /\ NoEnvelope /\ NoAuth /\ NoRooms /\ NoPaging /\ NoWhisper
  \/ /\ subject = "auth" /\ Auth!Init
     /\ NoBreaker /\ NoRedis /\ NoAdapter /\ NoPool /\ NoKafka /\ NoGateway /\ NoReload
     /\ NoEnvelope /\ NoPubSub /\ NoRooms /\ NoPaging /\ NoWhisper
  \/ /\ subject = "rooms" /\ Rooms!Init
     /\ NoBreaker /\ NoRedis /\ NoAdapter /\ NoPool /\ NoKafka /\ NoGateway /\ NoReload
     /\ NoEnvelope /\ NoPubSub /\ NoAuth /\ NoPaging /\ NoWhisper
  \/ /\ subject = "lists" /\ Lists!Init
     /\ NoBreaker /\ NoRedis /\ NoAdapter /\ NoPool /\ NoKafka /\ NoGateway /\ NoReload
     /\ NoEnvelope /\ NoPubSub /\ NoAuth /\ NoRooms /\ NoWhisper
  \/ /\ subject = "whispers" /\ Whispers!Init
     /\ NoBreaker /\ NoRedis /\ NoAdapter /\ NoPool /\ NoKafka /\ NoGateway /\ NoReload
     /\ NoEnvelope /\ NoPubSub /\ NoAuth /\ NoRooms /\ NoPaging

notBreaker == <<subject, redisVars, adapterVars, poolVars, kafkaVars, gatewayVars, reloadVars,
    envelopeVars, pubSubVars, authVars, roomsVars, pagingVars, whisperVars>>
notRedis == <<subject, breakerVars, adapterVars, poolVars, kafkaVars, gatewayVars, reloadVars,
    envelopeVars, pubSubVars, authVars, roomsVars, pagingVars, whisperVars>>
notAdapter == <<subject, breakerVars, redisVars, poolVars, kafkaVars, gatewayVars, reloadVars,
    envelopeVars, pubSubVars, authVars, roomsVars, pagingVars, whisperVars>>
notPool == <<subject, breakerVars, redisVars, adapterVars, kafkaVars, gatewayVars, reloadVars,
    envelopeVars, pubSubVars, authVars, roomsVars, pagingVars, whisperVars>>
notKafka == <<subject, breakerVars, redisVars, adapterVars, poolVars, gatewayVars, reloadVars,
    envelopeVars, pubSubVars, authVars, roomsVars, pagingVars, whisperVars>>
notGateway == <<subject, breakerVars, redisVars, adapterVars, poolVars, kafkaVars, reloadVars,
    envelopeVars, pubSubVars, authVars, roomsVars, pagingVars, whisperVars>>
notReload == <<subject, breakerVars, redisVars, adapterVars, poolVars, kafkaVars, gatewayVars,
    envelopeVars, pubSubVars, authVars, roomsVars, pagingVars, whisperVars>>
notEnvelope == <<subject, breakerVars, redisVars, adapterVars, poolVars, kafkaVars, gatewayVars,
    reloadVars, pubSubVars, authVars, roomsVars, pagingVars, whisperVars>>
notPubSub == <<subject, breakerVars, redisVars, adapterVars, poolVars, kafkaVars, gatewayVars,
    reloadVars, envelopeVars, authVars, roomsVars, pagingVars, whisperVars>>
notAuth == <<subject, breakerVars, redisVars, adapterVars, poolVars, kafkaVars, gatewayVars,
    reloadVars, envelopeVars, pubSubVars, roomsVars, pagingVars, whisperVars>>
notRooms == <<subject, breakerVars, redisVars, adapterVars, poolVars, kafkaVars, gatewayVars,
    reloadVars, envelopeVars, pubSubVars, authVars, pagingVars, whisperVars>>
notPaging == <<subject, breakerVars, redisVars, adapterVars, poolVars, kafkaVars, gatewayVars,
    reloadVars, envelopeVars, pubSubVars, authVars, roomsVars, whisperVars>>
notWhisper == <<subject, breakerVars, redisVars, adapterVars, poolVars, kafkaVars, gatewayVars,
    reloadVars, envelopeVars, pubSubVars, authVars, roomsVars, pagingVars>>

Next ==
  \/ subject = "breaker" /\ Breaker!Next /\ UNCHANGED notBreaker
  \/ subject = "throwing" /\ Thrown!Next /\ UNCHANGED notBreaker
  \/ subject = "redis" /\ Redis!Next /\ UNCHANGED notRedis
  \/ subject = "timed_redis" /\ TimedRedis!Next /\ UNCHANGED notRedis
  \/ subject = "adapter" /\ Drained!Next /\ UNCHANGED notAdapter
  \/ subject = "pg" /\ Pg!Next /\ UNCHANGED notPool
  \/ subject = "kafka" /\ Broker!Next /\ UNCHANGED notKafka
  \/ subject = "gateway" /\ Routed!Next /\ UNCHANGED notGateway
  \/ subject = "reload" /\ Reload!Next /\ UNCHANGED notReload
  \/ subject = "envelope" /\ Bytes!Next /\ UNCHANGED notEnvelope
  \/ subject = "pubsub" /\ Listening!Next /\ UNCHANGED notPubSub
  \/ subject = "auth" /\ Auth!Next /\ UNCHANGED notAuth
  \/ subject = "rooms" /\ Rooms!Next /\ UNCHANGED notRooms
  \/ subject = "lists" /\ Lists!Next /\ UNCHANGED notPaging
  \/ subject = "whispers" /\ Whispers!Next /\ UNCHANGED notWhisper

Spec == Init /\ [][Next]_vars

-----------------------------------------------------------------------------
(* Properties, each stated in the module of the part it is about. *)

\* While the breaker is HALF_OPEN at most half_open_max_calls probes run, each of them
\* counted, whatever calls from before complete meanwhile.
ProbesThrottled ==
  /\ subject = "breaker" => Breaker!TypeOK /\ Breaker!ProbesThrottled
  /\ subject = "throwing" => Thrown!TypeOK /\ Thrown!ProbesThrottled

\* Replies are matched to commands in the order of sending, through timeouts, refused
\* commands, failed AUTHs and reconnects.  Without timeouts and cancellation no handler of
\* the multiplexer touches a slab block that has been destroyed, and every command that has
\* returned has given its block back.
RedisSound ==
  /\ subject = "redis" =>
       Redis!TypeOK /\ Redis!FifoMatch /\ Redis!NoUseAfterFree /\ Redis!BlocksReturned
  /\ subject = "timed_redis" => TimedRedis!TypeOK /\ TimedRedis!FifoMatch

\* A core that has run cancel_all has at most one coroutine that the cancellation missed.
AtMostOneMissed == subject = "adapter" => Drained!TypeOK /\ Drained!AtMostOneMissed

\* The pool's counters agree with who owns what, through every way a connection is taken,
\* returned, dropped or destroyed; an idle connection is as good as new, and the idle ones
\* lie in the order shrink_idle relies on.
PoolSound ==
  subject = "pg" =>
    Pg!TypeOK /\ Pg!PoolAccounting /\ Pg!IdleIsClean /\ Pg!IdleInReturnOrder

\* The offset the group resumes from is that of a message handled or dead-lettered, all
\* before it were handed out, and every coroutine's payload buffer returns to the pool.
OffsetsSound == subject = "kafka" => Broker!TypeOK /\ Broker!CommitsSound /\ Broker!BuffersReturned

\* However responses, copies of them, timeouts and removals race, a request is answered at
\* most once, by the response to it unless that comes from before a restart.
AnsweredOnce == subject = "gateway" => Routed!TypeOK /\ Routed!AnsweredOnce

\* A message id goes to the topic of the one range that contains it, also while a reload
\* runs, and what a service parses from the bytes, and the gateway from the answer, are the
\* fields that were put in.
RequestsRouted ==
  /\ subject = "reload" => Reload!TypeOK /\ Reload!RoutesExact
  /\ subject = "envelope" => Bytes!EnvelopeFaithful /\ Bytes!SameLayout

\* The two sides of the subscription map agree, no removed session is left in it, and a
\* session gets broadcasts in the order of their publication, each at most once.
SubscriptionsSound ==
  subject = "pubsub" => Listening!TypeOK /\ Listening!MapsAgree /\ Listening!BroadcastInOrder

\* A rotated refresh token has its successor in the table, and a successor's predecessor is
\* revoked, whatever statement of the rotation fails; a family of tokens once dead stays so.
TokensSound ==
  /\ [](subject = "auth" => Auth!TypeOK /\ Auth!RotationAtomic)
  /\ [][subject = "auth" => Auth!NoRevival]_authVars

\* No room takes a member beyond its maximum by a join, pages of a listing neither skip nor
\* repeat rows, and a whisper goes to a session its target had.
ChatSound ==
  /\ subject = "rooms" => Rooms!TypeOK /\ Rooms!MembersBounded
  /\ subject = "lists" => Lists!PagesComplete
  /\ subject = "whispers" => Whispers!WhisperToTarget
=============================================================================
